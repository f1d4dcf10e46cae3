----------------------- MODULE RouteForwardingProofs -----------------------
(***************************************************************************)
(* Proofs about RouteForwarding, for any number of tasks, providers and    *)
(* keys and any circuit policy.                                            *)
(***************************************************************************)
EXTENDS RouteForwarding, TLAPS

\* The stages in which a request occupies a provider of the queue.
Occupying == {"selecting", "waiting", "refused", "body"}

\* Only a request that occupies a provider holds a permit, and the provider is
\* one of the queue.
Placed ==
    \A r \in Requests :
        /\ req[r].stage \in Occupying => req[r].at \in Queue
        /\ req[r].permit # "none" => req[r].stage \in Occupying

\* A probe is held only at a circuit that is half-open and knows of it.
ProbesKnown ==
    \A r \in Requests :
        req[r].permit = "probe" => /\ circuit[req[r].at].status = "halfOpen"
                                   /\ circuit[req[r].at].probing

\* A closed circuit has no more consecutive failures than have been recorded.
BlameCovers ==
    \A p \in Queue : circuit[p].status = "closed" => circuit[p].consecutive <= blame[p]

\* SingleProbe strengthened: it needs to know that no circuit changes its state
\* under a running probe.
ProbeInv ==
    /\ TypeOK
    /\ Placed
    /\ resets = 0 => ProbesKnown
    /\ SingleProbe

\* OpenEarned strengthened: a closed circuit's count must be covered before it
\* trips, and a probe must not reopen a circuit that was not half-open.
EarnedInv == ProbeInv /\ (resets = 0 => BlameCovers) /\ OpenEarned

-----------------------------------------------------------------------------
(* Type correctness *)

\* Every call of the registry makes a circuit entry of a circuit entry.
LEMMA EntryTypes ==
    ASSUME NEW e \in CircuitEntry, NEW permit \in Permits, NEW threshold \in Nat
    PROVE  /\ Closed \in CircuitEntry
           /\ Acquired(e) \in CircuitEntry
           /\ Succeeded(e, permit) \in CircuitEntry
           /\ Failed(e, permit, threshold) \in CircuitEntry
           /\ Released(e, permit) \in CircuitEntry
           /\ PermitOf(e) \in Permits
<1>1. Closed \in CircuitEntry
  BY DEF Closed, CircuitEntry
<1>2. Acquired(e) \in CircuitEntry
  BY DEF Acquired, CircuitEntry
<1>3. Succeeded(e, permit) \in CircuitEntry
  <2>1. \/ Succeeded(e, permit) = Closed
        \/ Succeeded(e, permit) = [e EXCEPT !.probing = FALSE, !.successes = @ + 1]
        \/ Succeeded(e, permit) = [e EXCEPT !.consecutive = 0, !.requests = @ + 1]
        \/ Succeeded(e, permit) = e
    BY CircuitPolicy DEF Succeeded, CircuitEntry
  <2>2. [e EXCEPT !.probing = FALSE, !.successes = @ + 1] \in CircuitEntry
    <3> DEFINE n == e.successes + 1
    <3>1. n \in Nat
      BY DEF CircuitEntry
    <3> HIDE DEF n
    <3>2. [e EXCEPT !.probing = FALSE, !.successes = n] \in CircuitEntry
      BY <3>1, Zenon DEF CircuitEntry
    <3> QED
      BY <3>2 DEF n
  <2>3. [e EXCEPT !.consecutive = 0, !.requests = @ + 1] \in CircuitEntry
    <3> DEFINE n == e.requests + 1
    <3>1. n \in Nat /\ 0 \in Nat
      BY DEF CircuitEntry
    <3> HIDE DEF n
    <3>2. [e EXCEPT !.consecutive = 0, !.requests = n] \in CircuitEntry
      BY <3>1, Zenon DEF CircuitEntry
    <3> QED
      BY <3>2 DEF n
  <2> QED
    BY <1>1, <2>1, <2>2, <2>3
<1>4. Failed(e, permit, threshold) \in CircuitEntry
  <2> DEFINE reopened == [e EXCEPT !.probing = FALSE, !.status = "open", !.cooled = FALSE,
                                   !.successes = 0, !.consecutive = threshold]
             counted == [e EXCEPT !.requests = @ + 1, !.failures = @ + 1,
                                  !.consecutive = @ + 1]
             tripped == [counted EXCEPT !.status = "open", !.cooled = FALSE]
  <2>1. Failed(e, permit, threshold) \in {reopened, counted, tripped, e}
    BY DEF Failed
  <2>2. reopened \in CircuitEntry
    <3>1. 0 \in Nat
      OBVIOUS
    <3> QED
      BY <3>1, Zenon DEF CircuitEntry
  <2>3. counted \in CircuitEntry
    <3> DEFINE k == e.requests + 1
               m == e.failures + 1
               n == e.consecutive + 1
    <3>1. k \in Nat /\ m \in Nat /\ n \in Nat
      BY DEF CircuitEntry
    <3> HIDE DEF k, m, n
    <3>2. [e EXCEPT !.requests = k, !.failures = m, !.consecutive = n] \in CircuitEntry
      BY <3>1, Zenon DEF CircuitEntry
    <3> QED
      BY <3>2 DEF k, m, n
  <2>4. tripped \in CircuitEntry
    BY <2>3 DEF CircuitEntry
  <2> HIDE DEF reopened, counted, tripped
  <2> QED
    BY <2>1, <2>2, <2>3, <2>4
<1>5. Released(e, permit) \in CircuitEntry
  BY DEF Released, CircuitEntry
<1>6. PermitOf(e) \in Permits
  BY DEF PermitOf, Permits
<1> QED
  BY <1>1, <1>2, <1>3, <1>4, <1>5, <1>6

\* Settling a permit keeps the circuits and the history well typed.
LEMMA SettledTypes ==
    ASSUME TypeOK, NEW r \in Requests,
           \/ RecordSuccess(r) \/ Release(r)
           \/ RecordFailure(r, FailureThreshold) \/ RecordFailure(r, 1)
    PROVE  circuit' \in [Queue -> CircuitEntry] /\ blame' \in [Queue -> Nat]
<1> DEFINE p == req[r].at
           permit == req[r].permit
<1>1. /\ circuit \in [Queue -> CircuitEntry] /\ blame \in [Queue -> Nat]
      /\ permit \in Permits /\ FailureThreshold \in Nat /\ FailureThreshold >= 1
  BY CircuitPolicy DEF TypeOK, Task
<1>2. CASE RecordSuccess(r)
  <2>1. circuit' = [circuit EXCEPT ![p] = Succeeded(@, permit)]
    BY <1>2 DEF RecordSuccess
  <2>2. blame' = [blame EXCEPT ![p] = 0] \/ blame' = blame
    BY <1>2 DEF RecordSuccess
  <2>3. circuit' \in [Queue -> CircuitEntry]
    BY <1>1, <2>1, EntryTypes
  <2> QED
    BY <1>1, <2>2, <2>3
<1>3. CASE Release(r)
  <2>1. circuit' = [circuit EXCEPT ![p] = Released(@, permit)] /\ blame' = blame
    BY <1>3 DEF Release
  <2> QED
    BY <1>1, <2>1, EntryTypes
<1>4. ASSUME NEW threshold \in {1, FailureThreshold}, RecordFailure(r, threshold)
      PROVE  circuit' \in [Queue -> CircuitEntry] /\ blame' \in [Queue -> Nat]
  <2>1. circuit' = [circuit EXCEPT ![p] = Failed(@, permit, threshold)]
    BY <1>4 DEF RecordFailure
  <2>2. \/ blame' = [blame EXCEPT ![p] = @ + 1 + FailureThreshold - threshold]
        \/ blame' = blame
    BY <1>4 DEF RecordFailure
  <2>3. circuit' \in [Queue -> CircuitEntry]
    BY <1>1, <2>1, EntryTypes
  <2> QED
    BY <1>1, <2>2, <2>3
<1> QED
  BY <1>2, <1>3, <1>4

\* Walking the queue keeps the tasks well typed.
LEMMA MovedTypes ==
    ASSUME TypeOK, NEW r \in Requests
    PROVE  /\ End(r) => req' \in [Requests -> Task]
           /\ NextCandidate(r) => req' \in [Requests -> Task]
           /\ \A key \in Keys : Sending(r, key) => req' \in [Requests -> Task]
<1>1. req \in [Requests -> Task]
  BY DEF TypeOK
<1>2. Idle \in Task
  BY DEF Idle, Task, Permits
<1>3. End(r) => req' \in [Requests -> Task]
  BY <1>1, <1>2 DEF End
<1>4. NextCandidate(r) => req' \in [Requests -> Task]
  BY <1>1 DEF NextCandidate, Task, Permits
<1>5. ASSUME NEW key \in Keys, Sending(r, key)
      PROVE  req' \in [Requests -> Task]
  BY <1>1, <1>5 DEF Sending, Task, Permits
<1> QED
  BY <1>3, <1>4, <1>5

LEMMA TypeInit == Init => TypeOK
<1> SUFFICES ASSUME Init PROVE TypeOK
  OBVIOUS
<1>1. Closed \in CircuitEntry
  BY DEF Closed, CircuitEntry
<1>2. Idle \in Task
  BY DEF Idle, Task, Permits
<1> QED
  BY <1>1, <1>2 DEF Init, TypeOK

\* A refusal chooses a key of the pool, if a send is left; it chooses none only if every
\* key was used or is cooling down, or no send is left.
LEMMA RefusedChooses ==
    ASSUME NEW r \in Requests, KeyRefused(r)
    PROVE  \E next \in SUBSET Keys :
              /\ Refused(r, next)
              /\ IF next = {}
                 THEN \/ ~(req[r].sends < MaxAttempts)
                      \/ Eligible(req[r].at, req[r].used \cup req[r].key) = {}
                 ELSE req[r].sends < MaxAttempts
<1> DEFINE all == Eligible(req[r].at, req[r].used \cup req[r].key)
           left == IF req[r].sends < MaxAttempts THEN all ELSE {}
<1>1. /\ all \subseteq Keys
      /\ \/ left = {} /\ Refused(r, {})
         \/ \E key \in left : Refused(r, {key})
  BY DEF KeyRefused, Eligible
<1> HIDE DEF all
<1>2. CASE left = {} /\ Refused(r, {})
  BY <1>2 DEF all
<1>3. ASSUME NEW key \in left, Refused(r, {key})
      PROVE  /\ {key} \in SUBSET Keys /\ {key} # {} /\ req[r].sends < MaxAttempts
  BY <1>1, <1>3
<1> QED
  BY <1>1, <1>2, <1>3

LEMMA TypeStep == TypeOK /\ [Next]_vars => TypeOK'
<1> SUFFICES ASSUME TypeOK, [Next]_vars PROVE TypeOK'
  OBVIOUS
<1>0. /\ circuit \in [Queue -> CircuitEntry] /\ blame \in [Queue -> Nat]
      /\ req \in [Requests -> Task] /\ cooling \in [Queue -> SUBSET Keys]
      /\ begun \in Nat /\ cancels \in Nat /\ resets \in Nat
  BY DEF TypeOK
<1>1. ASSUME NEW r \in Requests, Begin(r) PROVE TypeOK'
  BY <1>0, <1>1 DEF Begin, TypeOK, Task
<1>2. ASSUME NEW r \in Requests, Acquire(r) PROVE TypeOK'
  <2>1. CASE NextCandidate(r) /\ UNCHANGED circuit
    BY <1>0, <1>2, <2>1, MovedTypes DEF Acquire, TypeOK
  <2>2. CASE /\ req[r].at \in Queue
             /\ req' = [req EXCEPT ![r].stage = "selecting",
                                   ![r].permit = PermitOf(circuit[req[r].at])]
             /\ circuit' = [circuit EXCEPT ![req[r].at] = Acquired(@)]
    <3>1. PermitOf(circuit[req[r].at]) \in Permits
      BY <1>0, <2>2 DEF PermitOf, Permits
    <3>2. [req[r] EXCEPT !.stage = "selecting",
                         !.permit = PermitOf(circuit[req[r].at])] \in Task
      BY <1>0, <3>1 DEF Task
    <3>4. req' \in [Requests -> Task]
      BY <1>0, <2>2, <3>2
    <3>3. circuit' \in [Queue -> CircuitEntry]
      BY <1>0, <2>2, EntryTypes DEF Permits
    <3> QED
      BY <1>0, <1>2, <3>3, <3>4 DEF Acquire, TypeOK
  <2>3. req[r].at \in Queue
    <3>1. req[r].at \in Nat \ {0} /\ ~(req[r].at > Providers) /\ Providers \in Nat
      BY <1>0, <1>2, ForwardingConstants DEF Acquire, Exhausted, Task
    <3> QED
      BY <3>1 DEF Queue
  <2> QED
    BY <1>2, <2>1, <2>2, <2>3 DEF Acquire
<1>3. ASSUME NEW r \in Requests, GiveUp(r) PROVE TypeOK'
  BY <1>0, <1>3, MovedTypes DEF GiveUp, TypeOK
<1>4. ASSUME NEW r \in Requests, SelectKey(r) PROVE TypeOK'
  BY <1>0, <1>4, MovedTypes DEF SelectKey, Eligible, TypeOK
<1>5. ASSUME NEW r \in Requests, SkipUnsent(r) PROVE TypeOK'
  BY <1>0, <1>5, MovedTypes, SettledTypes DEF SkipUnsent, TypeOK
<1>6. ASSUME NEW r \in Requests, ProviderFails(r) PROVE TypeOK'
  BY <1>0, <1>6, MovedTypes, SettledTypes DEF ProviderFails, TypeOK
<1>7. ASSUME NEW r \in Requests, Rectify(r) PROVE TypeOK'
  BY <1>0, <1>7 DEF Rectify, TypeOK, Task
<1>8. ASSUME NEW r \in Requests, KeyRefused(r) \/ KeyAgain(r) \/ KeyExhausted(r) PROVE TypeOK'
  <2>1. CASE KeyRefused(r)
    <3>1. cooling' \in [Queue -> SUBSET Keys]
      BY <1>0, <2>1 DEF KeyRefused, Task
    <3>2. PICK next \in SUBSET Keys : Refused(r, next)
      BY <2>1, RefusedChooses
    <3>3. [req[r] EXCEPT !.stage = "refused", !.key = next] \in Task
      BY <1>0 DEF Task
    <3>4. req' \in [Requests -> Task]
      BY <1>0, <3>2, <3>3 DEF Refused
    <3> QED
      BY <1>0, <2>1, <3>1, <3>4 DEF KeyRefused, TypeOK
  <2>2. CASE KeyAgain(r)
    <3>1. req[r].key \subseteq Keys
      BY <1>0 DEF Task
    <3> QED
      BY <1>0, <2>2, <3>1, MovedTypes DEF KeyAgain, TypeOK
  <2>3. CASE KeyExhausted(r)
    BY <1>0, <2>3, MovedTypes, SettledTypes DEF KeyExhausted, TypeOK
  <2> QED
    BY <1>8, <2>1, <2>2, <2>3
<1>9. ASSUME NEW r \in Requests, Accepted(r) PROVE TypeOK'
  <2>1. PICK success \in BOOLEAN :
           req' = [req EXCEPT ![r].stage = "body", ![r].success = success]
    BY <1>9 DEF Accepted
  <2>2. [req[r] EXCEPT !.stage = "body", !.success = success] \in Task
    BY <1>0, Zenon DEF Task
  <2>3. req' \in [Requests -> Task]
    BY <1>0, <2>1, <2>2
  <2> QED
    BY <1>0, <1>9, <2>3 DEF Accepted, TypeOK
<1>10. ASSUME NEW r \in Requests, ReadBody(r) PROVE TypeOK'
  BY <1>0, <1>10, MovedTypes, SettledTypes DEF ReadBody, TypeOK
<1>11. ASSUME NEW r \in Requests, StreamSettles(r) PROVE TypeOK'
  <2>1. req' = [req EXCEPT ![r].stage = "relaying", ![r].permit = "none"]
    BY <1>11 DEF StreamSettles
  <2>2. [req[r] EXCEPT !.stage = "relaying", !.permit = "none"] \in Task
    BY <1>0 DEF Task, Permits
  <2>3. req' \in [Requests -> Task]
    BY <1>0, <2>1, <2>2
  <2> QED
    BY <1>0, <1>11, <2>3, SettledTypes DEF StreamSettles, TypeOK
<1>12. ASSUME NEW r \in Requests, StreamBreaksOff(r) PROVE TypeOK'
  BY <1>0, <1>12, MovedTypes, SettledTypes DEF StreamBreaksOff, TypeOK
<1>13. ASSUME NEW r \in Requests, StreamEnds(r) PROVE TypeOK'
  BY <1>0, <1>13, MovedTypes DEF StreamEnds, TypeOK
<1>14. ASSUME NEW r \in Requests, StreamDropped(r) PROVE TypeOK'
  BY <1>0, <1>14, MovedTypes, SettledTypes DEF StreamDropped, TypeOK
<1>15. ASSUME NEW r \in Requests, Cancel(r) PROVE TypeOK'
  BY <1>0, <1>15, MovedTypes DEF Cancel, TypeOK
<1>16. ASSUME NEW p \in Queue, CoolDown(p) PROVE TypeOK'
  BY <1>0, <1>16 DEF CoolDown, TypeOK, CircuitEntry
<1>17. ASSUME NEW p \in Queue, KeyCools(p) PROVE TypeOK'
  BY <1>0, <1>17 DEF KeyCools, TypeOK
<1>18. CASE Reset
  <2>1. PICK S \in SUBSET Queue :
           /\ circuit' = [p \in Queue |-> IF p \in S THEN Closed ELSE circuit[p]]
           /\ blame' = [p \in Queue |-> IF p \in S THEN 0 ELSE blame[p]]
    BY <1>18 DEF Reset
  <2>2. Closed \in CircuitEntry
    BY DEF Closed, CircuitEntry
  <2>3. circuit' \in [Queue -> CircuitEntry] /\ blame' \in [Queue -> Nat]
    BY <1>0, <2>1, <2>2
  <2> QED
    BY <1>0, <1>18, <2>3 DEF Reset, TypeOK
<1>19. CASE UNCHANGED vars
  BY <1>0, <1>19 DEF vars, TypeOK
<1> QED
  BY <1>1, <1>2, <1>3, <1>4, <1>5, <1>6, <1>7, <1>8, <1>9, <1>10, <1>11, <1>12, <1>13,
     <1>14, <1>15, <1>16, <1>17, <1>18, <1>19 DEF Next, Step, Walk

\* The circuits, the tasks and the key pools keep their types, whatever the
\* requests, the users and the clock do.
THEOREM TypeCorrect == Spec => []TypeOK
<1> QED
  BY TypeInit, TypeStep, PTL DEF Spec

-----------------------------------------------------------------------------
(* What settling a permit does to the fields of a circuit *)

\* A success closes the circuit or leaves its state and its rate alone.
LEMMA SucceededFields ==
    ASSUME NEW e \in CircuitEntry, NEW permit \in Permits
    PROVE  LET f == Succeeded(e, permit)
           IN  /\ permit # "probe" /\ e.status # "closed" => f = e
               /\ \/ f = Closed
                  \/ /\ f.status = e.status
                     /\ e.status = "closed" => f.consecutive \in {0, e.consecutive}
                     /\ e.status # "closed" => /\ f.requests = e.requests
                                               /\ f.failures = e.failures
<1>1. CASE permit = "probe"
  <2>1. \/ Succeeded(e, permit) = Closed
        \/ Succeeded(e, permit) = [e EXCEPT !.probing = FALSE, !.successes = @ + 1]
    BY <1>1, CircuitPolicy DEF Succeeded, CircuitEntry
  <2> QED
    BY <1>1, <2>1 DEF CircuitEntry
<1>2. CASE permit # "probe" /\ permit = "plain" /\ e.status = "closed"
  <2>1. Succeeded(e, permit) = [e EXCEPT !.consecutive = 0, !.requests = @ + 1]
    BY <1>2 DEF Succeeded
  <2> QED
    BY <1>2, <2>1 DEF CircuitEntry
<1>3. CASE permit # "probe" /\ ~(permit = "plain" /\ e.status = "closed")
  <2>1. Succeeded(e, permit) = e
    BY <1>3 DEF Succeeded
  <2> QED
    BY <2>1
<1> QED
  BY <1>1, <1>2, <1>3

\* A failure opens the circuit of a probe, and a closed one that trips.
LEMMA FailedFields ==
    ASSUME NEW e \in CircuitEntry, NEW permit \in Permits, NEW threshold \in Nat
    PROVE  LET f == Failed(e, permit, threshold)
           IN  /\ permit # "probe" /\ e.status # "closed" => f = e
               /\ permit = "probe" => /\ f.status = "open"
                                      /\ f.requests = e.requests /\ f.failures = e.failures
               /\ permit # "probe" /\ e.status = "closed" =>
                     /\ f.consecutive <= e.consecutive + 1
                     /\ f.status = "closed" \/ (f.status = "open" /\ Trips(f, threshold))
<1>1. CASE permit = "probe"
  <2>1. Failed(e, permit, threshold) =
           [e EXCEPT !.probing = FALSE, !.status = "open", !.cooled = FALSE,
                     !.successes = 0, !.consecutive = threshold]
    BY <1>1 DEF Failed
  <2> QED
    BY <1>1, <2>1 DEF CircuitEntry
<1>2. CASE permit # "probe" /\ permit = "plain" /\ e.status = "closed"
  <2> DEFINE counted == [e EXCEPT !.requests = @ + 1, !.failures = @ + 1,
                                  !.consecutive = @ + 1]
             tripped == [counted EXCEPT !.status = "open", !.cooled = FALSE]
  <2>1. Failed(e, permit, threshold) =
           IF Trips(counted, threshold) THEN tripped ELSE counted
    BY <1>2 DEF Failed
  <2>2. counted.status = "closed" /\ counted.consecutive = e.consecutive + 1
    BY <1>2 DEF CircuitEntry
  <2>3. /\ tripped.status = "open" /\ tripped.consecutive = counted.consecutive
        /\ tripped.requests = counted.requests /\ tripped.failures = counted.failures
    BY DEF CircuitEntry
  <2>4. e.consecutive + 1 \in Nat
    BY DEF CircuitEntry
  <2>5. Trips(counted, threshold) => Trips(tripped, threshold)
    BY <2>3 DEF Trips
  <2> HIDE DEF counted, tripped
  <2>6. Failed(e, permit, threshold).consecutive = e.consecutive + 1
    BY <2>1, <2>2, <2>3
  <2>7. \/ Failed(e, permit, threshold).status = "closed"
        \/ /\ Failed(e, permit, threshold).status = "open"
           /\ Trips(Failed(e, permit, threshold), threshold)
    BY <2>1, <2>2, <2>3, <2>5
  <2> QED
    BY <1>2, <2>4, <2>6, <2>7
<1>3. CASE permit # "probe" /\ ~(permit = "plain" /\ e.status = "closed")
  <2>1. Failed(e, permit, threshold) = e
    BY <1>3 DEF Failed
  <2> QED
    BY <1>3, <2>1 DEF CircuitEntry
<1> QED
  BY <1>1, <1>2, <1>3

\* A neutral end touches nothing but the mark of a probe.
LEMMA ReleasedFields ==
    ASSUME NEW e \in CircuitEntry, NEW permit \in Permits
    PROVE  LET f == Released(e, permit)
           IN  /\ permit # "probe" => f = e
               /\ f.status = e.status /\ f.consecutive = e.consecutive
               /\ f.requests = e.requests /\ f.failures = e.failures
  BY DEF Released, CircuitEntry

-----------------------------------------------------------------------------
(* The three shapes of a step: a permit is settled, a task walks on without   *)
(* touching a circuit, a circuit admits a request                             *)

OthersStay(r) == \A s \in Requests \ {r} : req'[s] = req[s]

\* The request gives its permit back and leaves the provider.
Settles(r) ==
    /\ \/ RecordSuccess(r) \/ Release(r)
       \/ RecordFailure(r, FailureThreshold) \/ RecordFailure(r, 1)
    /\ req[r].stage \in Occupying
    /\ req'[r].permit = "none" /\ req'[r].stage \notin Occupying
    /\ OthersStay(r)
    /\ resets' = resets

\* The request keeps its permit at its provider, or drops it and leaves.
WalksOn(r) ==
    /\ UNCHANGED <<circuit, blame, resets>>
    /\ \/ req'[r].permit = "none" /\ req'[r].stage \notin Occupying
       \/ /\ req'[r].permit = req[r].permit /\ req'[r].at = req[r].at
          /\ req[r].stage \in Occupying /\ req'[r].stage \in Occupying
    /\ OthersStay(r)

\* The request gets a permit of the provider it has come to.
Admitted(r) ==
    /\ Admits(circuit[req[r].at])
    /\ req[r].at \in Queue
    /\ req'[r].at = req[r].at /\ req'[r].stage = "selecting"
    /\ req'[r].permit = PermitOf(circuit[req[r].at])
    /\ circuit' = [circuit EXCEPT ![req[r].at] = Acquired(@)]
    /\ OthersStay(r)
    /\ UNCHANGED <<blame, resets>>

\* Without a probe permit a request cannot change a half-open circuit.
LEMMA SettleSpares ==
    ASSUME TypeOK, NEW r \in Requests, Settles(r), NEW p \in Queue,
           p # req[r].at \/ (req[r].permit # "probe" /\ circuit[p].status # "closed")
    PROVE  circuit'[p] = circuit[p]
<1> DEFINE q == req[r].at
           permit == req[r].permit
<1>1. /\ circuit \in [Queue -> CircuitEntry] /\ permit \in Permits
      /\ FailureThreshold \in Nat /\ 1 \in Nat
  BY CircuitPolicy DEF TypeOK, Task
<1>2. \/ circuit' = [circuit EXCEPT ![q] = Succeeded(@, permit)]
      \/ circuit' = [circuit EXCEPT ![q] = Released(@, permit)]
      \/ \E threshold \in Nat : circuit' = [circuit EXCEPT ![q] = Failed(@, permit, threshold)]
  BY <1>1 DEF Settles, RecordSuccess, RecordFailure, Release
<1>3. CASE p # q
  BY <1>1, <1>2, <1>3
<1>4. CASE p = q
  <2>1. permit # "probe" /\ circuit[p].status # "closed" /\ circuit[p] \in CircuitEntry
    BY <1>1, <1>4
  <2> QED
    BY <1>1, <1>2, <1>4, <2>1, SucceededFields, FailedFields, ReleasedFields
<1> QED
  BY <1>3, <1>4

LEMMA ProbeSettles ==
    ASSUME ProbeInv, TypeOK', NEW r \in Requests, Settles(r)
    PROVE  ProbeInv'
<1>0. TypeOK /\ resets' = resets /\ OthersStay(r)
  BY DEF ProbeInv, Settles
<1>1. Placed'
  BY DEF ProbeInv, Placed, Settles, OthersStay
<1>2. \A s \in Requests : req'[s].permit = "probe" => s # r /\ req'[s] = req[s]
  BY DEF Settles, OthersStay
<1>3. SingleProbe'
  BY <1>0, <1>2 DEF ProbeInv, SingleProbe, Probing
<1>4. resets' = 0 => ProbesKnown'
  <2> SUFFICES ASSUME resets' = 0, NEW s \in Requests, req'[s].permit = "probe"
               PROVE  /\ circuit'[req'[s].at].status = "halfOpen"
                      /\ circuit'[req'[s].at].probing
    BY DEF ProbesKnown
  <2>1. resets = 0 /\ s # r /\ req'[s] = req[s] /\ req[s].permit = "probe"
    BY <1>0, <1>2
  <2>2. /\ circuit[req[s].at].status = "halfOpen" /\ circuit[req[s].at].probing
        /\ req[s].at \in Queue
    BY <2>1 DEF ProbeInv, ProbesKnown, Placed
  <2>3. req[s].at # req[r].at \/ req[r].permit # "probe"
    BY <2>1, <2>2 DEF ProbeInv, SingleProbe, Probing
  <2>4. circuit'[req[s].at] = circuit[req[s].at]
    BY <1>0, <2>2, <2>3, SettleSpares
  <2> QED
    BY <2>1, <2>2, <2>4
<1> QED
  BY <1>1, <1>3, <1>4 DEF ProbeInv

LEMMA ProbeWalks ==
    ASSUME ProbeInv, TypeOK', NEW r \in Requests, WalksOn(r)
    PROVE  ProbeInv'
<1>1. Placed'
  BY DEF ProbeInv, Placed, WalksOn, OthersStay
<1>2. \A s \in Requests : req'[s].permit = "probe" =>
         req[s].permit = "probe" /\ req'[s].at = req[s].at
  BY DEF WalksOn, OthersStay
<1>3. SingleProbe'
  BY <1>2 DEF ProbeInv, SingleProbe, Probing, WalksOn
<1>4. resets' = 0 => ProbesKnown'
  BY <1>2 DEF ProbeInv, ProbesKnown, WalksOn
<1> QED
  BY <1>1, <1>3, <1>4 DEF ProbeInv

\* A circuit gives a probe only when it knows of none.
LEMMA ProbeAdmits ==
    ASSUME ProbeInv, TypeOK', NEW r \in Requests, Admitted(r)
    PROVE  ProbeInv'
<1> DEFINE p == req[r].at
<1>0. /\ p \in Queue /\ circuit \in [Queue -> CircuitEntry] /\ circuit[p] \in CircuitEntry
      /\ resets' = resets
  BY DEF ProbeInv, TypeOK, Admitted
<1>1. Placed'
  BY DEF ProbeInv, Placed, Admitted, OthersStay, Occupying
<1>2. ASSUME resets = 0, NEW s \in Requests, Probing(s, p)
      PROVE  circuit[p].status = "halfOpen" /\ circuit[p].probing
  BY <1>2 DEF Probing, ProbeInv, ProbesKnown
<1>3. ~(circuit[p].status = "halfOpen" /\ circuit[p].probing)
  BY DEF Admitted, Admits, HalfOpens
<1>4. circuit[p].status # "closed" =>
         Acquired(circuit[p]).status = "halfOpen" /\ Acquired(circuit[p]).probing
  BY <1>0, <1>3 DEF Admitted, Admits, HalfOpens, Acquired, CircuitEntry
<1>5. SingleProbe'
  <2> SUFFICES ASSUME resets' = 0, NEW q \in Queue, NEW s \in Requests, NEW t \in Requests,
                      Probing(s, q)', Probing(t, q)'
               PROVE  s = t
    BY DEF SingleProbe
  <2>1. CASE q = p
    <3>1. \A u \in Requests : u # r => ~(req'[u].at = q /\ req'[u].permit = "probe")
      BY <1>0, <1>2, <1>3, <2>1 DEF Probing, Admitted, OthersStay
    <3> QED
      BY <3>1 DEF Probing
  <2>2. CASE q # p
    <3>1. s # r /\ t # r
      BY <2>2 DEF Probing, Admitted
    <3> QED
      BY <1>0, <3>1 DEF Probing, Admitted, OthersStay, ProbeInv, SingleProbe
  <2> QED
    BY <2>1, <2>2
<1>6. resets' = 0 => ProbesKnown'
  <2> SUFFICES ASSUME resets' = 0, NEW s \in Requests, req'[s].permit = "probe"
               PROVE  /\ circuit'[req'[s].at].status = "halfOpen"
                      /\ circuit'[req'[s].at].probing
    BY DEF ProbesKnown
  <2>1. CASE s = r
    <3>1. circuit[p].status # "closed" /\ req'[s].at = p
      BY <2>1 DEF Admitted, PermitOf
    <3>2. circuit'[p] = Acquired(circuit[p])
      BY <1>0 DEF Admitted
    <3> QED
      BY <1>4, <3>1, <3>2
  <2>2. CASE s # r
    <3>1. req'[s] = req[s] /\ req[s].permit = "probe" /\ resets = 0
      BY <1>0, <2>2 DEF Admitted, OthersStay
    <3>2. circuit[req[s].at].status = "halfOpen" /\ circuit[req[s].at].probing
      BY <3>1 DEF ProbeInv, ProbesKnown
    <3>3. req[s].at # p /\ req[s].at \in Queue
      BY <1>3, <3>1, <3>2 DEF ProbeInv, Placed
    <3>4. circuit'[req[s].at] = circuit[req[s].at]
      BY <1>0, <3>3 DEF Admitted
    <3> QED
      BY <3>1, <3>2, <3>4
  <2> QED
    BY <2>1, <2>2
<1> QED
  BY <1>1, <1>5, <1>6 DEF ProbeInv

\* Every step has one of the shapes, or belongs to the clock or the user.
LEMMA Shapes ==
    ASSUME TypeOK, Placed, [Next]_vars
    PROVE  \/ \E r \in Requests : Settles(r) \/ WalksOn(r) \/ Admitted(r)
           \/ \E p \in Queue : CoolDown(p)
           \/ Reset
           \/ UNCHANGED <<circuit, req, blame, resets>>
<1> DEFINE Shaped == \E r \in Requests : Settles(r) \/ WalksOn(r) \/ Admitted(r)
<1>0. req \in [Requests -> Task]
  BY DEF TypeOK
<1>1. ASSUME NEW r \in Requests, NextCandidate(r) \/ End(r)
      PROVE  OthersStay(r) /\ req'[r].permit = "none" /\ req'[r].stage \notin Occupying
  BY <1>0, <1>1 DEF NextCandidate, End, Idle, Task, OthersStay, Occupying
<1>2. ASSUME NEW r \in Requests, NEW key \in Keys, Sending(r, key),
             req[r].stage \in {"selecting", "refused"}, UNCHANGED <<circuit, blame, resets>>
      PROVE  WalksOn(r)
  BY <1>0, <1>2 DEF Sending, Task, OthersStay, Occupying, WalksOn
<1>3. ASSUME NEW r \in Requests, Begin(r) PROVE Shaped
  <2>1. req[r].permit = "none"
    BY <1>3 DEF Begin, Placed, Occupying
  <2>2. req'[r].permit = "none" /\ req'[r].stage = "candidate" /\ OthersStay(r)
    BY <1>0, <1>3, <2>1 DEF Begin, OthersStay, Task
  <2>3. WalksOn(r)
    BY <1>3, <2>2 DEF Begin, WalksOn, Occupying
  <2> QED
    BY <2>3
<1>4. ASSUME NEW r \in Requests, Acquire(r) PROVE Shaped
  <2>1. CASE NextCandidate(r) /\ UNCHANGED circuit
    <3>1. WalksOn(r)
      BY <1>1, <1>4, <2>1 DEF Acquire, WalksOn
    <3> QED
      BY <3>1
  <2>2. CASE /\ Admits(circuit[req[r].at])
             /\ req' = [req EXCEPT ![r].stage = "selecting",
                                   ![r].permit = PermitOf(circuit[req[r].at])]
             /\ circuit' = [circuit EXCEPT ![req[r].at] = Acquired(@)]
    <3>1. req[r].at \in Nat \ {0} /\ ~(req[r].at > Providers) /\ Providers \in Nat
      BY <1>0, <1>4, ForwardingConstants DEF Acquire, Exhausted, Task
    <3>2. req[r].at \in Queue
      BY <3>1 DEF Queue
    <3>3. /\ req'[r].at = req[r].at /\ req'[r].stage = "selecting"
          /\ req'[r].permit = PermitOf(circuit[req[r].at])
          /\ OthersStay(r)
      BY <1>0, <2>2 DEF Task, OthersStay
    <3>4. Admitted(r)
      BY <1>4, <2>2, <3>2, <3>3 DEF Acquire, Admitted
    <3> QED
      BY <3>4
  <2> QED
    BY <1>4, <2>1, <2>2 DEF Acquire
<1>5. ASSUME NEW r \in Requests, GiveUp(r) \/ StreamEnds(r) \/ Cancel(r) PROVE Shaped
  <2>1. WalksOn(r)
    BY <1>1, <1>5 DEF GiveUp, StreamEnds, Cancel, WalksOn
  <2> QED
    BY <2>1
<1>6. ASSUME NEW r \in Requests, SelectKey(r) PROVE Shaped
  BY <1>2, <1>6 DEF SelectKey, Eligible
<1>7. ASSUME NEW r \in Requests, SkipUnsent(r) \/ ProviderFails(r) PROVE Shaped
  <2>1. Settles(r)
    BY <1>1, <1>7 DEF SkipUnsent, ProviderFails, Settles, Occupying
  <2> QED
    BY <2>1
<1>8. ASSUME NEW r \in Requests, Rectify(r) PROVE Shaped
  <2>1. /\ req'[r].permit = req[r].permit /\ req'[r].at = req[r].at
        /\ req'[r].stage = "waiting" /\ req[r].stage = "waiting"
    BY <1>0, <1>8 DEF Rectify, Task
  <2>2. OthersStay(r)
    BY <1>0, <1>8 DEF Rectify, OthersStay
  <2>3. WalksOn(r)
    BY <1>8, <2>1, <2>2 DEF Rectify, WalksOn, Occupying
  <2> QED
    BY <2>3
<1>9. ASSUME NEW r \in Requests, KeyRefused(r) \/ KeyAgain(r) \/ KeyExhausted(r) PROVE Shaped
  <2>1. CASE KeyRefused(r)
    <3>1. PICK next \in SUBSET Keys : Refused(r, next)
      BY <2>1, RefusedChooses
    <3>2. /\ req'[r].permit = req[r].permit /\ req'[r].at = req[r].at
          /\ req'[r].stage = "refused" /\ req[r].stage = "waiting" /\ OthersStay(r)
      BY <1>0, <2>1, <3>1 DEF KeyRefused, Refused, Task, OthersStay
    <3>3. WalksOn(r)
      BY <2>1, <3>2 DEF KeyRefused, WalksOn, Occupying
    <3> QED
      BY <3>3
  <2>2. CASE KeyAgain(r)
    <3>1. PICK key \in Keys : Sending(r, key)
      BY <1>0, <2>2 DEF KeyAgain, Task
    <3>2. WalksOn(r)
      BY <1>2, <2>2, <3>1 DEF KeyAgain
    <3> QED
      BY <3>2
  <2>3. CASE KeyExhausted(r)
    <3>1. Settles(r)
      BY <1>1, <2>3 DEF KeyExhausted, Settles, Occupying
    <3> QED
      BY <3>1
  <2> QED
    BY <1>9, <2>1, <2>2, <2>3
<1>10. ASSUME NEW r \in Requests, Accepted(r) PROVE Shaped
  <2>1. PICK success \in BOOLEAN :
           req' = [req EXCEPT ![r].stage = "body", ![r].success = success]
    BY <1>10 DEF Accepted
  <2>2. /\ req'[r].permit = req[r].permit /\ req'[r].at = req[r].at
        /\ req'[r].stage = "body" /\ req[r].stage = "waiting"
    BY <1>0, <1>10, <2>1 DEF Accepted, Task
  <2>3. OthersStay(r)
    BY <1>0, <2>1 DEF OthersStay
  <2>4. WalksOn(r)
    BY <1>10, <2>2, <2>3 DEF Accepted, WalksOn, Occupying
  <2> QED
    BY <2>4
<1>11. ASSUME NEW r \in Requests, ReadBody(r) \/ StreamBreaksOff(r) \/ StreamDropped(r)
       PROVE  Shaped
  <2>1. Settles(r)
    BY <1>1, <1>11 DEF ReadBody, StreamBreaksOff, StreamDropped, Settles, Occupying
  <2> QED
    BY <2>1
<1>12. ASSUME NEW r \in Requests, StreamSettles(r) PROVE Shaped
  <2>1. req'[r].permit = "none" /\ req'[r].stage = "relaying" /\ OthersStay(r)
    BY <1>0, <1>12 DEF StreamSettles, Task, OthersStay
  <2>2. Settles(r)
    BY <1>12, <2>1 DEF StreamSettles, Settles, Occupying
  <2> QED
    BY <2>2
<1>13. ASSUME NEW p \in Queue, KeyCools(p) PROVE UNCHANGED <<circuit, req, blame, resets>>
  BY <1>13 DEF KeyCools
<1>14. UNCHANGED vars => UNCHANGED <<circuit, req, blame, resets>>
  BY DEF vars
<1> HIDE DEF Shaped
<1>15. \/ Shaped \/ \E p \in Queue : CoolDown(p)
       \/ Reset \/ UNCHANGED <<circuit, req, blame, resets>>
  <2>1. CASE UNCHANGED vars
    BY <1>14, <2>1
  <2>2. CASE Reset \/ \E p \in Queue : CoolDown(p) \/ KeyCools(p)
    BY <1>13, <2>2
  <2>3. ASSUME NEW r \in Requests, Begin(r) \/ Step(r) \/ StreamDropped(r) \/ Cancel(r)
        PROVE  Shaped
    BY <1>3, <1>4, <1>5, <1>6, <1>7, <1>8, <1>9, <1>10, <1>11, <1>12, <2>3 DEF Step, Walk
  <2> QED
    BY <2>1, <2>2, <2>3 DEF Next
<1> QED
  BY <1>15 DEF Shaped

-----------------------------------------------------------------------------
(* One probe at a time *)

LEMMA ProbeStep == ProbeInv /\ [Next]_vars => ProbeInv'
<1> SUFFICES ASSUME ProbeInv, [Next]_vars PROVE ProbeInv'
  OBVIOUS
<1>0. TypeOK /\ TypeOK' /\ Placed
  BY TypeStep DEF ProbeInv
<1>1. ASSUME NEW r \in Requests, Settles(r) \/ WalksOn(r) \/ Admitted(r) PROVE ProbeInv'
  BY <1>0, <1>1, ProbeSettles, ProbeWalks, ProbeAdmits
<1>2. ASSUME NEW p \in Queue, CoolDown(p) PROVE ProbeInv'
  <2>1. req' = req /\ resets' = resets
    BY <1>2 DEF CoolDown
  <2>2. \A q \in Queue : circuit[q].status = "halfOpen" => circuit'[q] = circuit[q]
    BY <1>0, <1>2 DEF CoolDown, TypeOK
  <2>3. Placed' /\ SingleProbe'
    BY <2>1 DEF ProbeInv, Placed, SingleProbe, Probing
  <2>4. resets' = 0 => ProbesKnown'
    BY <1>0, <2>1, <2>2 DEF ProbeInv, ProbesKnown, Placed
  <2> QED
    BY <1>0, <2>3, <2>4 DEF ProbeInv
<1>3. CASE Reset
  <2>1. resets' # 0 /\ req' = req
    BY <1>0, <1>3 DEF Reset, TypeOK
  <2> QED
    BY <1>0, <2>1 DEF ProbeInv, Placed, SingleProbe
<1>4. CASE UNCHANGED <<circuit, req, blame, resets>>
  BY <1>0, <1>4 DEF ProbeInv, Placed, ProbesKnown, SingleProbe, Probing
<1> QED
  BY <1>0, <1>1, <1>2, <1>3, <1>4, Shapes

LEMMA ProbeInit == Init => ProbeInv
<1> SUFFICES ASSUME Init PROVE ProbeInv
  OBVIOUS
<1>1. \A r \in Requests : req[r].stage = "idle" /\ req[r].permit = "none"
  BY DEF Init, Idle
<1> QED
  BY <1>1, TypeInit DEF ProbeInv, Placed, Occupying, ProbesKnown, SingleProbe, Probing

\* However many requests run at once and whatever the upstreams answer, a
\* half-open provider carries at most one probe until a user resets it.
THEOREM OneProbe == Spec => []SingleProbe
<1>1. ProbeInv => SingleProbe
  BY DEF ProbeInv
<1> QED
  BY <1>1, ProbeInit, ProbeStep, PTL DEF Spec

-----------------------------------------------------------------------------
(* A circuit opens for a reason *)

\* What BlameCovers and OpenEarned say of one provider.
Justified(p) ==
    /\ circuit[p].status = "closed" => circuit[p].consecutive <= blame[p]
    /\ Earned(p)

LEMMA JustifiedIsEarned ==
    EarnedInv <=> ProbeInv /\ (resets = 0 => \A p \in Queue : Justified(p))
  BY DEF EarnedInv, BlameCovers, OpenEarned, Justified

\* A recorded failure is counted where it is blamed.
LEMMA FailureJustified ==
    ASSUME TypeOK, NEW r \in Requests, NEW p \in Queue, p = req[r].at, Justified(p),
           req[r].permit = "probe" => circuit[p].status = "halfOpen",
           NEW threshold \in {1, FailureThreshold}, RecordFailure(r, threshold)
    PROVE  Justified(p)'
<1> DEFINE permit == req[r].permit
           e == circuit[p]
           f == circuit'[p]
<1>1. /\ e \in CircuitEntry /\ blame \in [Queue -> Nat] /\ blame[p] \in Nat
      /\ circuit \in [Queue -> CircuitEntry] /\ permit \in Permits
      /\ threshold \in Nat /\ FailureThreshold \in Nat /\ threshold <= FailureThreshold
      /\ threshold = 1 \/ threshold = FailureThreshold
  BY CircuitPolicy DEF TypeOK, Task
<1>2. f = Failed(e, permit, threshold)
  BY <1>1 DEF RecordFailure
<1>3. /\ blame'[p] \in Nat
      /\ IF permit = "probe" \/ e.status = "closed"
         THEN blame'[p] = blame[p] + 1 + FailureThreshold - threshold
         ELSE blame'[p] = blame[p]
  BY <1>1 DEF RecordFailure
<1>4. e.consecutive \in Nat /\ f \in CircuitEntry /\ f.consecutive \in Nat
  <2>1. f \in CircuitEntry
    BY <1>1, <1>2, EntryTypes
  <2> QED
    BY <1>1, <2>1 DEF CircuitEntry
<1>5. CASE permit = "probe"
  <2>1. f.status = "open" /\ f.requests = e.requests /\ f.failures = e.failures
    BY <1>1, <1>2, <1>5, FailedFields
  <2>2. e.status # "closed" /\ blame'[p] >= blame[p]
    BY <1>1, <1>3, <1>5
  <2> QED
    BY <1>1, <1>3, <2>1, <2>2 DEF Justified, Earned
<1>6. CASE permit # "probe" /\ e.status # "closed"
  <2>1. f = e /\ blame'[p] = blame[p]
    BY <1>1, <1>2, <1>3, <1>6, FailedFields
  <2> QED
    BY <2>1 DEF Justified, Earned
<1>7. CASE permit # "probe" /\ e.status = "closed"
  <2>1. /\ f.consecutive <= e.consecutive + 1
        /\ f.status = "closed" \/ (f.status = "open" /\ Trips(f, threshold))
    BY <1>1, <1>2, <1>7, FailedFields
  <2>2. e.consecutive <= blame[p]
    BY <1>7 DEF Justified
  <2>3. f.consecutive <= blame'[p] /\ (threshold = 1 => blame'[p] >= FailureThreshold)
    BY <1>1, <1>3, <1>4, <1>7, <2>1, <2>2
  <2>4. CASE f.status = "closed"
    BY <2>3, <2>4 DEF Justified, Earned
  <2>5. CASE f.status = "open" /\ f.consecutive >= threshold
    <3>1. blame'[p] >= FailureThreshold
      BY <1>1, <1>3, <1>4, <2>3, <2>5
    <3> QED
      BY <2>5, <3>1 DEF Justified, Earned
  <2>6. CASE f.status = "open" /\ ~(f.consecutive >= threshold)
    BY <2>1, <2>6 DEF Trips, Justified, Earned
  <2> QED
    BY <2>1, <2>4, <2>5, <2>6
<1> QED
  BY <1>5, <1>6, <1>7

\* A success forgets the blame only when it closes the circuit.
LEMMA SuccessJustified ==
    ASSUME TypeOK, NEW r \in Requests, NEW p \in Queue, p = req[r].at, Justified(p),
           RecordSuccess(r)
    PROVE  Justified(p)'
<1> DEFINE permit == req[r].permit
           e == circuit[p]
           f == circuit'[p]
<1>1. /\ e \in CircuitEntry /\ blame \in [Queue -> Nat] /\ blame[p] \in Nat
      /\ circuit \in [Queue -> CircuitEntry] /\ permit \in Permits
      /\ e.consecutive \in Nat
  BY DEF TypeOK, Task, CircuitEntry
<1>2. f = Succeeded(e, permit)
  BY <1>1 DEF RecordSuccess
<1>3. blame'[p] = IF f = Closed THEN 0 ELSE blame[p]
  BY <1>1 DEF RecordSuccess
<1>4. CASE f = Closed
  <2>1. f.status = "closed" /\ f.consecutive = 0
    BY <1>4 DEF Closed
  <2> QED
    BY <1>3, <1>4, <2>1 DEF Justified, Earned
<1>5. CASE f # Closed
  <2>1. /\ f.status = e.status
        /\ e.status = "closed" => f.consecutive \in {0, e.consecutive}
        /\ e.status # "closed" => f.requests = e.requests /\ f.failures = e.failures
        /\ blame'[p] = blame[p]
    BY <1>1, <1>2, <1>3, <1>5, SucceededFields
  <2>2. e.status = "closed" => f.consecutive <= blame[p]
    BY <1>1, <2>1 DEF Justified
  <2> QED
    BY <2>1, <2>2 DEF Justified, Earned
<1> QED
  BY <1>4, <1>5

LEMMA SettleJustified ==
    ASSUME ProbeInv, resets = 0, \A p \in Queue : Justified(p),
           NEW r \in Requests, Settles(r), NEW p \in Queue
    PROVE  Justified(p)'
<1>1. /\ TypeOK /\ req[r].at \in Queue /\ Justified(p)
      /\ circuit \in [Queue -> CircuitEntry] /\ blame \in [Queue -> Nat]
      /\ req[r].permit \in Permits
      /\ req[r].permit = "probe" => circuit[req[r].at].status = "halfOpen"
  BY DEF ProbeInv, TypeOK, Placed, ProbesKnown, Settles, Task
<1>2. CASE p # req[r].at
  <2>1. circuit'[p] = circuit[p]
    BY <1>1, <1>2, SettleSpares
  <2>2. blame'[p] = blame[p]
    BY <1>1, <1>2 DEF Settles, RecordSuccess, RecordFailure, Release
  <2> QED
    BY <1>1, <2>1, <2>2 DEF Justified, Earned
<1>3. CASE p = req[r].at /\ Release(r)
  <2>1. circuit'[p] = Released(circuit[p], req[r].permit) /\ blame' = blame
    BY <1>1, <1>3 DEF Release
  <2>2. circuit[p] \in CircuitEntry
    BY <1>1
  <2> QED
    BY <1>1, <2>1, <2>2, ReleasedFields DEF Justified, Earned
<1>4. CASE p = req[r].at /\ RecordSuccess(r)
  BY <1>1, <1>4, SuccessJustified
<1>5. CASE p = req[r].at /\ (RecordFailure(r, 1) \/ RecordFailure(r, FailureThreshold))
  BY <1>1, <1>5, FailureJustified
<1> QED
  BY <1>2, <1>3, <1>4, <1>5 DEF Settles

LEMMA EarnedStep == EarnedInv /\ [Next]_vars => EarnedInv'
<1> SUFFICES ASSUME EarnedInv, [Next]_vars PROVE EarnedInv'
  OBVIOUS
<1>1. /\ ProbeInv /\ ProbeInv' /\ TypeOK /\ Placed /\ TypeOK'
      /\ resets = 0 => \A p \in Queue : Justified(p)
  BY ProbeStep, JustifiedIsEarned DEF ProbeInv
<1> SUFFICES ASSUME resets' = 0, NEW p \in Queue PROVE Justified(p)'
  BY <1>1 DEF EarnedInv, BlameCovers, OpenEarned, Justified
<1>2. ASSUME NEW r \in Requests, Settles(r) PROVE Justified(p)'
  BY <1>1, <1>2, SettleJustified DEF Settles
<1>3. ASSUME NEW r \in Requests, WalksOn(r) PROVE Justified(p)'
  BY <1>1, <1>3 DEF WalksOn, Justified, Earned
<1>4. ASSUME NEW r \in Requests, Admitted(r) PROVE Justified(p)'
  <2> DEFINE e == circuit[p]
             f == circuit'[p]
  <2>1. /\ circuit \in [Queue -> CircuitEntry] /\ e \in CircuitEntry
        /\ f = e \/ f = Acquired(e)
        /\ blame' = blame /\ Justified(p)
    BY <1>1, <1>4 DEF Admitted, TypeOK
  <2>2. \/ f = e
        \/ /\ e.status # "closed" /\ f.status # "closed"
           /\ f.requests = e.requests /\ f.failures = e.failures
    BY <2>1 DEF Acquired, CircuitEntry
  <2> QED
    BY <2>1, <2>2 DEF Justified, Earned
<1>5. ASSUME NEW q \in Queue, CoolDown(q) PROVE Justified(p)'
  <2>1. /\ circuit'[p].status = circuit[p].status
        /\ circuit'[p].consecutive = circuit[p].consecutive
        /\ circuit'[p].requests = circuit[p].requests
        /\ circuit'[p].failures = circuit[p].failures
    BY <1>1, <1>5 DEF CoolDown, TypeOK, CircuitEntry
  <2>2. blame' = blame /\ Justified(p)
    BY <1>1, <1>5 DEF CoolDown
  <2> QED
    BY <2>1, <2>2 DEF Justified, Earned
<1>6. ~Reset
  BY <1>1 DEF Reset, TypeOK
<1>7. CASE UNCHANGED <<circuit, req, blame, resets>>
  BY <1>1, <1>7 DEF Justified, Earned
<1> QED
  BY <1>1, <1>2, <1>3, <1>4, <1>5, <1>6, <1>7, Shapes

LEMMA EarnedInit == Init => EarnedInv
<1> SUFFICES ASSUME Init PROVE EarnedInv
  OBVIOUS
<1>1. \A p \in Queue : circuit[p].status = "closed" /\ circuit[p].consecutive = blame[p]
  BY DEF Init, Closed
<1>2. \A p \in Queue : blame[p] = 0
  BY DEF Init
<1> QED
  BY <1>1, <1>2, ProbeInit DEF EarnedInv, BlameCovers, OpenEarned, Earned

\* As long as nobody resets it, no circuit is open or half-open that has not
\* seen a threshold of failures, a failed stream or a failure rate.
THEOREM OpensForAReason == Spec => []OpenEarned
<1>1. EarnedInv => OpenEarned
  BY DEF EarnedInv
<1> QED
  BY <1>1, EarnedInit, EarnedStep, PTL DEF Spec

-----------------------------------------------------------------------------
(* What a provider is blamed for *)

\* Only settling a permit as a failure makes a provider's blame grow.
LEMMA BlameGrows ==
    ASSUME TypeOK, NEW r \in Requests, NEW p \in Queue, blame'[p] > blame[p],
           \/ RecordSuccess(r) \/ Release(r)
           \/ RecordFailure(r, 1) \/ RecordFailure(r, FailureThreshold)
    PROVE  req[r].at = p
<1>1. blame \in [Queue -> Nat] /\ blame[p] \in Nat
  BY DEF TypeOK
<1>2. ~Release(r)
  BY <1>1 DEF Release
<1>3. CASE RecordSuccess(r)
  BY <1>1, <1>3 DEF RecordSuccess
<1>4. CASE RecordFailure(r, 1) \/ RecordFailure(r, FailureThreshold)
  BY <1>1, <1>4 DEF RecordFailure
<1> QED
  BY <1>2, <1>3, <1>4

\* No step that skips a candidate, finds its keys cooling down or loses its
\* client makes the blame of any provider grow: only an answer, or its absence
\* after a send, does.
THEOREM SkippingBlamesNobody == Spec => SkipsUnblamed
<1> DEFINE Unblamed(p) == blame'[p] > blame[p] =>
              \E r \in Requests : /\ req[r].at = p
                                  /\ req[r].stage \in {"waiting", "refused", "body"}
                                  /\ req'[r] # req[r]
<1>1. ASSUME TypeOK, [Next]_vars, NEW p \in Queue PROVE Unblamed(p)
  <2> SUFFICES ASSUME blame'[p] > blame[p]
               PROVE  \E r \in Requests : /\ req[r].at = p
                                          /\ req[r].stage \in {"waiting", "refused", "body"}
                                          /\ req'[r] # req[r]
    OBVIOUS
  <2>0. /\ blame[p] \in Nat /\ blame' # blame /\ req \in [Requests -> Task]
    BY <1>1 DEF TypeOK
  <2>1. ASSUME NEW r \in Requests, ProviderFails(r) \/ KeyExhausted(r) \/ ReadBody(r)
                 \/ StreamSettles(r) \/ StreamBreaksOff(r)
        PROVE  /\ req[r].stage \in {"waiting", "refused", "body"} /\ req'[r] # req[r]
               /\ req[r].at = p
    <3>1. /\ req[r].stage \in {"waiting", "refused", "body"}
          /\ RecordFailure(r, FailureThreshold) \/ RecordFailure(r, 1) \/ RecordSuccess(r)
             \/ Release(r)
          /\ req'[r].stage # req[r].stage
      <4>1. CASE KeyExhausted(r)
        BY <2>0, <4>1 DEF KeyExhausted, NextCandidate, Task
      <4>2. CASE ProviderFails(r)
        BY <2>0, <4>2 DEF ProviderFails, NextCandidate, Task
      <4>3. CASE ReadBody(r)
        BY <2>0, <4>3 DEF ReadBody, End, Idle
      <4>4. CASE StreamSettles(r)
        BY <2>0, <4>4 DEF StreamSettles, Task
      <4>5. CASE StreamBreaksOff(r)
        BY <2>0, <4>5 DEF StreamBreaksOff, End, Idle
      <4> QED
        BY <2>1, <4>1, <4>2, <4>3, <4>4, <4>5
    <3> QED
      BY <1>1, <3>1, BlameGrows
  <2>2. ASSUME NEW r \in Requests,
               SkipUnsent(r) \/ StreamDropped(r) \/ Begin(r) \/ Acquire(r) \/ GiveUp(r)
                 \/ SelectKey(r) \/ Rectify(r) \/ KeyRefused(r) \/ KeyAgain(r) \/ Accepted(r)
                 \/ StreamEnds(r) \/ Cancel(r)
        PROVE  blame' = blame
    BY <2>2 DEF SkipUnsent, StreamDropped, Release, Begin, Acquire, GiveUp, SelectKey,
                Rectify, KeyRefused, KeyAgain, Accepted, StreamEnds, Cancel
  <2>3. ASSUME NEW q \in Queue, CoolDown(q) \/ KeyCools(q) PROVE blame' = blame
    BY <2>3 DEF CoolDown, KeyCools
  <2>4. ~Reset
    BY <2>0 DEF Reset
  <2>5. ~UNCHANGED vars
    BY <2>0 DEF vars
  <2>6. PICK r \in Requests : Begin(r) \/ Step(r) \/ StreamDropped(r) \/ Cancel(r)
    BY <1>1, <2>0, <2>3, <2>4, <2>5 DEF Next
  <2> QED
    BY <2>0, <2>1, <2>2, <2>6 DEF Step, Walk
<1>2. TypeOK /\ [Next]_vars => [\A p \in Queue : Unblamed(p)]_vars
  BY <1>1
<1> QED
  BY <1>2, TypeInit, TypeStep, PTL DEF Spec, SkipsUnblamed

-----------------------------------------------------------------------------
(* Keys before providers *)

\* The sends of a request stay within its budget, and one is left to a request
\* that has been admitted to a provider or has chosen its next key.
HasSend(task) ==
    task.stage = "selecting" \/ (task.stage = "refused" /\ task.key # {}) =>
        task.sends < MaxAttempts
Budget == \A r \in Requests : req[r].sends <= MaxAttempts /\ HasSend(req[r])
BudgetInv == TypeOK /\ Budget

LEMMA BudgetStep == BudgetInv /\ [Next]_vars => BudgetInv'
<1> SUFFICES ASSUME BudgetInv, [Next]_vars PROVE BudgetInv'
  OBVIOUS
<1>0. /\ TypeOK /\ TypeOK' /\ req \in [Requests -> Task] /\ MaxAttempts \in Nat \ {0}
      /\ \A r \in Requests : req[r].sends \in Nat
  BY TypeStep, ForwardingConstants DEF BudgetInv, TypeOK, Task
<1> DEFINE Frugal(r) == /\ OthersStay(r)
                        /\ req'[r].sends <= MaxAttempts
                        /\ HasSend(req'[r])
<1>1. ASSUME NEW r \in Requests, Begin(r) \/ Step(r) \/ StreamDropped(r) \/ Cancel(r)
      PROVE  Frugal(r)
  <2>0. /\ req[r].sends <= MaxAttempts /\ req[r] \in Task
        /\ req[r].stage = "selecting" => req[r].sends < MaxAttempts
        /\ req[r].stage = "refused" /\ req[r].key # {} => req[r].sends < MaxAttempts
    BY <1>0 DEF BudgetInv, Budget, HasSend
  <2> USE DEF HasSend
  <2>1. ASSUME End(r) PROVE Frugal(r)
    <3>1. OthersStay(r) /\ req'[r] = Idle
      BY <1>0, <2>1 DEF End, OthersStay
    <3>2. Idle.sends = 0 /\ Idle.stage = "idle"
      BY DEF Idle
    <3> QED
      BY <1>0, <3>1, <3>2
  <2>2. ASSUME NextCandidate(r) PROVE Frugal(r)
    <3>1. /\ OthersStay(r) /\ req'[r].sends = req[r].sends /\ req'[r].stage = "candidate"
      BY <1>0, <2>2 DEF NextCandidate, OthersStay, Task
    <3> QED
      BY <2>0, <3>1
  <2>3. ASSUME NEW key \in Keys, Sending(r, key), req[r].sends < MaxAttempts PROVE Frugal(r)
    <3>1. /\ OthersStay(r) /\ req'[r].sends = req[r].sends + 1 /\ req'[r].stage = "waiting"
      BY <1>0, <2>3 DEF Sending, OthersStay, Task
    <3> QED
      BY <1>0, <2>3, <3>1
  <2>4. CASE Begin(r)
    <3>1. /\ OthersStay(r) /\ req'[r].sends = req[r].sends /\ req'[r].stage = "candidate"
      BY <1>0, <2>4 DEF Begin, OthersStay, Task
    <3> QED
      BY <2>0, <3>1
  <2>5. CASE Acquire(r)
    <3>1. CASE NextCandidate(r)
      BY <2>2, <3>1
    <3>2. CASE req' = [req EXCEPT ![r].stage = "selecting",
                                  ![r].permit = PermitOf(circuit[req[r].at])]
      <4>1. OthersStay(r) /\ req'[r].sends = req[r].sends
        BY <1>0, <3>2 DEF OthersStay, Task
      <4>2. req[r].sends < MaxAttempts
        BY <1>0, <2>5 DEF Acquire, Exhausted
      <4> QED
        BY <2>0, <4>1, <4>2
    <3> QED
      BY <2>5, <3>1, <3>2 DEF Acquire
  <2>6. CASE SelectKey(r)
    BY <2>0, <2>3, <2>6 DEF SelectKey, Eligible
  <2>7. CASE SkipUnsent(r) \/ ProviderFails(r)
    BY <2>2, <2>7 DEF SkipUnsent, ProviderFails
  <2>8. CASE Rectify(r)
    <3>1. OthersStay(r)
      BY <1>0, <2>8 DEF Rectify, OthersStay
    <3>2. req'[r].sends = req[r].sends + 1 /\ req'[r].stage = "waiting"
      BY <1>0, <2>8 DEF Rectify, Task
    <3> QED
      BY <1>0, <2>8, <3>1, <3>2 DEF Rectify
  <2>9. CASE KeyRefused(r)
    <3>1. PICK next \in SUBSET Keys :
             Refused(r, next) /\ (next # {} => req[r].sends < MaxAttempts)
      BY <2>9, RefusedChooses
    <3>2. /\ OthersStay(r) /\ req'[r].sends = req[r].sends
          /\ req'[r].stage = "refused" /\ req'[r].key = next
      BY <1>0, <3>1 DEF Refused, OthersStay, Task
    <3> QED
      BY <2>0, <3>1, <3>2
  <2>13. CASE KeyAgain(r)
    <3>1. PICK key \in Keys : Sending(r, key) /\ key \in req[r].key
      BY <1>0, <2>13 DEF KeyAgain, Task
    <3> QED
      BY <2>0, <2>3, <2>13, <3>1 DEF KeyAgain
  <2>14. CASE KeyExhausted(r)
    BY <2>2, <2>14 DEF KeyExhausted
  <2>10. CASE Accepted(r)
    <3>1. PICK success \in BOOLEAN :
             req' = [req EXCEPT ![r].stage = "body", ![r].success = success]
      BY <2>10 DEF Accepted
    <3>2. OthersStay(r) /\ req'[r].sends = req[r].sends /\ req'[r].stage = "body"
      BY <1>0, <3>1 DEF OthersStay, Task
    <3> QED
      BY <2>0, <3>2
  <2>11. CASE StreamSettles(r)
    <3>1. OthersStay(r) /\ req'[r].sends = req[r].sends /\ req'[r].stage = "relaying"
      BY <1>0, <2>11 DEF StreamSettles, OthersStay, Task
    <3> QED
      BY <2>0, <3>1
  <2>12. CASE \/ GiveUp(r) \/ ReadBody(r) \/ StreamBreaksOff(r) \/ StreamEnds(r)
             \/ StreamDropped(r) \/ Cancel(r)
    BY <2>1, <2>12 DEF GiveUp, ReadBody, StreamBreaksOff, StreamEnds, StreamDropped, Cancel
  <2> HIDE DEF Frugal
  <2> QED
    BY <1>1, <2>4, <2>5, <2>6, <2>7, <2>8, <2>9, <2>10, <2>11, <2>12, <2>13, <2>14
       DEF Step, Walk
<1>2. ASSUME NEW r \in Requests, Frugal(r) PROVE Budget'
  BY <1>2 DEF BudgetInv, Budget, HasSend, OthersStay
<1>3. CASE Reset \/ UNCHANGED vars \/ \E p \in Queue : CoolDown(p) \/ KeyCools(p)
  <2>1. req' = req
    BY <1>3 DEF Reset, vars, CoolDown, KeyCools
  <2> QED
    BY <1>0, <2>1 DEF BudgetInv, Budget, HasSend
<1> HIDE DEF Frugal
<1>4. CASE \E r \in Requests : Begin(r) \/ Step(r) \/ StreamDropped(r) \/ Cancel(r)
  BY <1>0, <1>1, <1>2, <1>4 DEF BudgetInv
<1> QED
  BY <1>3, <1>4 DEF Next

LEMMA BudgetInit == Init => BudgetInv
<1> SUFFICES ASSUME Init PROVE BudgetInv
  OBVIOUS
<1>1. \A r \in Requests : req[r].stage = "idle" /\ req[r].sends = 0
  BY DEF Init, Idle
<1> QED
  BY <1>1, TypeInit, ForwardingConstants DEF BudgetInv, Budget, HasSend

\* A refused key is blamed on its provider only when, at the refusal, every other key had
\* been used or was cooling down, or the budget of the request was used up.
THEOREM ProviderBlamedLast == Spec => KeysFirst
<1> DEFINE Last(r) ==
       LET p == req[r].at
           moves == p \in Queue /\ req'[r] # req[r]
           spent == req[r].sends = MaxAttempts \/ Keys \subseteq req[r].used \cup cooling'[p]
       IN  /\ moves /\ cooling'[p] # cooling[p] =>
                 blame' = blame /\ (req'[r].key = {} => spent)
           /\ moves /\ req[r].stage = "refused" /\ blame'[p] > blame[p] =>
                 req[r].key = {}
<1>1. ASSUME BudgetInv, [Next]_vars, NEW r \in Requests, NEW p \in Queue, p = req[r].at,
             cooling'[p] # cooling[p], req'[r] # req[r]
      PROVE  /\ blame' = blame
             /\ req'[r].key = {} =>
                   req[r].sends = MaxAttempts \/ Keys \subseteq req[r].used \cup cooling'[p]
  <2>0. /\ req \in [Requests -> Task] /\ cooling \in [Queue -> SUBSET Keys]
        /\ cooling' # cooling /\ req' # req
        /\ req[r].sends \in Nat /\ req[r].sends <= MaxAttempts /\ MaxAttempts \in Nat
    BY <1>1, ForwardingConstants DEF BudgetInv, Budget, TypeOK, Task
  <2>1. PICK s \in Requests : KeyRefused(s)
    <3>1. ~UNCHANGED vars /\ ~Reset /\ ~\E q \in Queue : CoolDown(q) \/ KeyCools(q)
      BY <2>0 DEF vars, Reset, CoolDown, KeyCools
    <3>2. PICK s \in Requests : Begin(s) \/ Step(s) \/ StreamDropped(s) \/ Cancel(s)
      BY <1>1, <3>1 DEF Next
    <3>3. KeyRefused(s)
      BY <2>0, <3>2 DEF Step, Walk, Begin, Acquire, GiveUp, SelectKey, SkipUnsent, ProviderFails,
                        Rectify, KeyAgain, KeyExhausted, Accepted, ReadBody, StreamSettles,
                        StreamBreaksOff, StreamEnds, StreamDropped, Cancel
    <3> QED
      BY <3>3
  <2>2. PICK next \in SUBSET Keys :
           /\ Refused(s, next)
           /\ next = {} => \/ ~(req[s].sends < MaxAttempts)
                          \/ Eligible(req[s].at, req[s].used \cup req[s].key) = {}
    BY <2>1, RefusedChooses
  <2>3. s = r
    BY <1>1, <2>0, <2>2 DEF Refused
  <2>4. blame' = blame /\ req'[r].key = next
    <3>1. blame' = blame
      BY <2>1 DEF KeyRefused
    <3>2. req'[r].key = next
      BY <2>0, <2>2, <2>3 DEF Refused, Task
    <3> QED
      BY <3>1, <3>2
  <2>5. cooling'[p] = cooling[p] \cup req[r].key
    BY <1>1, <2>0, <2>1, <2>3 DEF KeyRefused
  <2> QED
    BY <1>1, <2>0, <2>2, <2>3, <2>4, <2>5 DEF Eligible
<1>2. ASSUME BudgetInv, [Next]_vars, NEW r \in Requests, NEW p \in Queue, p = req[r].at,
             req[r].stage = "refused", req'[r] # req[r], blame'[p] > blame[p]
      PROVE  req[r].key = {}
  <2>0. blame[p] \in Nat /\ blame' # blame /\ req' # req /\ req \in [Requests -> Task]
    BY <1>2 DEF BudgetInv, TypeOK
  <2>1. PICK s \in Requests : Begin(s) \/ Step(s) \/ StreamDropped(s) \/ Cancel(s)
    <3>1. ~UNCHANGED vars /\ ~Reset /\ ~\E q \in Queue : CoolDown(q) \/ KeyCools(q)
      BY <2>0 DEF vars, Reset, CoolDown, KeyCools
    <3> QED
      BY <1>2, <3>1 DEF Next
  <2>2. \/ ProviderFails(s) \/ KeyExhausted(s) \/ ReadBody(s)
        \/ StreamSettles(s) \/ StreamBreaksOff(s)
    BY <2>0, <2>1 DEF Step, Walk, Begin, Acquire, GiveUp, SelectKey, SkipUnsent, Rectify,
                      KeyRefused, KeyAgain, Accepted, StreamEnds, StreamDropped, Cancel, Release
  <2>3. s = r
    BY <1>2, <2>0, <2>2 DEF ProviderFails, KeyExhausted, ReadBody, StreamSettles,
                            StreamBreaksOff, NextCandidate, End
  <2>4. KeyExhausted(r)
    BY <1>2, <2>2, <2>3 DEF ProviderFails, ReadBody, StreamSettles, StreamBreaksOff
  <2> QED
    BY <2>4 DEF KeyExhausted
<1>3. BudgetInv /\ [Next]_vars => [\A r \in Requests : Last(r)]_vars
  BY <1>1, <1>2
<1> QED
  BY <1>3, BudgetInit, BudgetStep, PTL DEF Spec, KeysFirst

=============================================================================
