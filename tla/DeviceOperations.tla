-------------------------- MODULE DeviceOperations --------------------------
(***************************************************************************)
(* A browser's operation on a device, from the HTTP request to its final   *)
(* status: the server's handlers (apps/server: api.rs, ws.rs, storage.rs,  *)
(* registry.rs), the device daemon's queues (web_daemon.rs), and the web   *)
(* view that carries the operation out (useWebDeviceBridge.ts).  The three *)
(* run concurrently, joined by a connection that breaks and is made again, *)
(* and a handler's reads and writes of the database are separate steps.    *)
(***************************************************************************)
EXTENDS DeviceOutbox

CONSTANTS
    Ops,         \* operations, strings
    Created,     \* those whose request has been answered while the device was away
    SendQueue,   \* DEVICE_SEND_QUEUE
    MaxPending,  \* MAX_OPERATIONS
    SlowStorage, \* whether another handler may read a status between the read and the write
                 \* of an update, and a write may outlast RECONNECT_DELAY
    FaultKinds, MaxFaults \* bounds: the faults there may be, each at most once

ASSUME OperationConstants ==
    /\ Created \subseteq Ops /\ SlowStorage \in BOOLEAN
    /\ SendQueue \in Nat /\ MaxPending \in Nat /\ MaxFaults \in Nat
    /\ FaultKinds \subseteq {"cut", "crash", "refusal", "unheard", "reload"} /\ IsFiniteSet(Ops)

VARIABLES
    op,       \* the operations table: status and the stages seen
    api,      \* where each create_operation handler is
    linked,   \* the device's socket is open
    entry,    \* the server's registry holds the connection, which is greeted once the
              \* pending operations are queued, and shut when its queue has overflowed
    queue,    \* the connection's mpsc queue
    up, down, \* frames on the connection
    job,      \* the update under way for the connection, and for the one before
    box,      \* DaemonState.outbound
    local,    \* OperationQueue.pending: the status of each operation, or "none"
    seen,     \* OperationQueue.seen
    batch,    \* drainOperations: the operations of the snapshot still to look at
    at,       \* executeOperation: the step of the head of batch
    active,   \* activeOperationIds
    runs,     \* history: how often an operation was carried out, 2 for more than once
    outcome,  \* history: what the first completion of each operation reported
    faults    \* the faults that have happened, "refusal" also when the outbox was full

server == <<op, api, entry, queue, job>>
device == <<box, local, seen>>
view == <<batch, at, active, runs, outcome>>
vars == <<server, linked, up, down, device, view, faults>>

Final == TerminalStatuses
Status == {"submitted", "waiting", "accepted", "running"} \cup Final
Absent == [status |-> "absent", accepted |-> FALSE, running |-> FALSE]
NoEntry == [registered |-> FALSE, greeted |-> FALSE, shut |-> FALSE]
NoJob == [at |-> "none"]
Jobs == {NoJob} \cup [at: {"write", "answer"}, o: Ops, next: Status]
Steps == {"idle", "validate", "accept", "start", "execute", "interrupted", "succeeded",
          "failed", "rejected"}

TypeOK ==
    /\ op \in [Ops -> [status: Status \cup {"absent"}, accepted: BOOLEAN, running: BOOLEAN]]
    /\ api \in [Ops -> {"new", "send", "read", "write", "done"}]
    /\ linked \in BOOLEAN
    /\ entry \in [registered: BOOLEAN, greeted: BOOLEAN, shut: BOOLEAN]
    /\ Len(queue) <= SendQueue
    /\ job \in [{"now", "old"} -> Jobs]
    /\ local \in [Ops -> Status \cup {"none"}]
    /\ Cardinality({o \in Ops : local[o] # "none"}) <= MaxPending
    /\ seen \subseteq Ops /\ active \subseteq Ops
    /\ batch \in Seq([o: Ops, status: Status]) /\ at \in Steps
    /\ runs \in [Ops -> 0..2] /\ outcome \in [Ops -> Final \cup {"none"}]
    /\ faults \subseteq FaultKinds \cup {"refusal"}

Init ==
    /\ op = [o \in Ops |-> IF o \in Created THEN [Absent EXCEPT !.status = "submitted"] ELSE Absent]
    /\ api = [o \in Ops |-> IF o \in Created THEN "done" ELSE "new"]
    /\ linked = FALSE /\ entry = NoEntry /\ queue = <<>> /\ up = <<>> /\ down = <<>>
    /\ job = [c \in {"now", "old"} |-> NoJob]
    /\ box = EmptyBox /\ local = [o \in Ops |-> "none"] /\ seen = {}
    /\ batch = <<>> /\ at = "idle" /\ active = {}
    /\ runs = [o \in Ops |-> 0] /\ outcome = [o \in Ops |-> "none"]
    /\ faults = {}

Request(o, status) == [type |-> "request", o |-> o, status |-> status]
Ack(o, status) == [type |-> "ack", o |-> o, status |-> status]
Error(o) == [type |-> "error", o |-> o, status |-> "none"]
Fault(kind) ==
    /\ kind \in FaultKinds \ faults /\ Cardinality(faults) < MaxFaults
    /\ faults' = faults \cup {kind}
\* A frame written to the connection, lost when the device has left it.
Written(f) == IF linked THEN Append(down, f) ELSE down

\* valid_operation_transition; nothing makes an operation canceled or timed_out.
Valid(from, to) ==
    <<from, to>> \in
      {<<"submitted", "waiting">>, <<"submitted", "accepted">>, <<"submitted", "rejected">>,
       <<"waiting", "accepted">>, <<"waiting", "rejected">>, <<"accepted", "running">>,
       <<"running", "succeeded">>, <<"running", "failed">>, <<"running", "rejected">>}

\* UPDATE operations
Update(o, next) ==
    op' = [op EXCEPT ![o].status = next,
                     ![o].accepted = @ \/ next = "accepted",
                     ![o].running = @ \/ next = "running"]

-----------------------------------------------------------------------------
(* The server *)

\* create_operation: the device is online and the row is inserted.
Create(o) ==
    /\ api[o] = "new" /\ entry.registered
    /\ op' = [op EXCEPT ![o].status = "submitted"]
    /\ api' = [api EXCEPT ![o] = "send"]
    /\ UNCHANGED <<entry, queue, job, linked, up, down, device, view, faults>>

\* send_device: a full queue shuts the connection.
SendDevice(o) ==
    /\ api[o] = "send"
    /\ IF entry.registered /\ Len(queue) < SendQueue
       THEN /\ queue' = Append(queue, Request(o, "submitted"))
            /\ api' = [api EXCEPT ![o] = "done"] /\ UNCHANGED entry
       ELSE /\ entry' = [entry EXCEPT !.shut = @ \/ entry.registered]
            /\ api' = [api EXCEPT ![o] = "read"] /\ UNCHANGED queue
    /\ UNCHANGED <<op, job, linked, up, down, device, view, faults>>

\* update_operation_status to waiting_device: the status is read and checked, ...
ReadForWaiting(o) ==
    /\ api[o] = "read" /\ (SlowStorage \/ \A c \in {"now", "old"} : job[c].at # "write")
    /\ api' = [api EXCEPT ![o] = IF Valid(op[o].status, "waiting") THEN "write" ELSE "done"]
    /\ UNCHANGED <<op, entry, queue, job, linked, up, down, device, view, faults>>

\* ... and written whatever it has become.
WriteWaiting(o) ==
    /\ api[o] = "write" /\ Update(o, "waiting")
    /\ api' = [api EXCEPT ![o] = "done"]
    /\ UNCHANGED <<entry, queue, job, linked, up, down, device, view, faults>>

\* pending_operations_for_device, queued up to the capacity of the queue.
Greet ==
    /\ entry.registered /\ ~entry.greeted
    /\ LET pending == SetToSeq({o \in Ops : op[o].status \in Status \ Final})
           fits == {i \in DOMAIN pending : Len(queue) + i <= SendQueue}
       IN  /\ queue' = queue \o [i \in fits |-> Request(pending[i], op[pending[i]].status)]
           /\ entry' = [entry EXCEPT !.greeted = TRUE, !.shut = @ \/ fits # DOMAIN pending]
    /\ UNCHANGED <<op, api, job, linked, up, down, device, view, faults>>

\* The socket loop writes what is queued.
Forward ==
    /\ entry.greeted /\ queue # <<>>
    /\ queue' = Tail(queue) /\ down' = Written(Head(queue))
    /\ UNCHANGED <<op, api, entry, job, linked, up, device, view, faults>>

Working ==
    /\ entry.greeted /\ job["now"] = NoJob
    /\ SlowStorage \/ \A o \in Ops : api[o] # "write"

\* Mutant: the table of transitions is not consulted.
ReceiveUnchecked ==
    /\ Working /\ up # <<>> /\ up' = Tail(up)
    /\ LET o == Head(up).of
           next == IF Head(up).kind = "completed" THEN Head(up).n ELSE Head(up).kind
       IN  job' = [job EXCEPT !["now"] = [at |-> "write", o |-> o, next |-> next]]
    /\ UNCHANGED <<op, api, entry, queue, linked, down, device, view, faults>>
\* handle_operation_update: update_operation_status reads the status and the stages seen.
Receive ==
    /\ Working /\ up # <<>> /\ up' = Tail(up)
    /\ LET o == Head(up).of
           next == IF Head(up).kind = "completed" THEN Head(up).n ELSE Head(up).kind
           already == \/ op[o].status = next
                      \/ next = "accepted" /\ op[o].accepted
                      \/ next = "running" /\ op[o].running
       IN  IF already
           THEN down' = Written(Ack(o, op[o].status)) /\ UNCHANGED job
           ELSE IF ~Valid(op[o].status, next)
           THEN down' = Written(Error(o)) /\ UNCHANGED job
           ELSE job' = [job EXCEPT !["now"] = [at |-> "write", o |-> o, next |-> next]]
                /\ UNCHANGED down
    /\ UNCHANGED <<op, api, entry, queue, linked, device, view, faults>>

\* update_operation_status writes what it decided, ...
Write(c) ==
    /\ job[c].at = "write" /\ Update(job[c].o, job[c].next)
    /\ job' = [job EXCEPT ![c].at = "answer"]
    /\ UNCHANGED <<api, entry, queue, linked, up, down, device, view, faults>>

\* ... and the status read again is acknowledged to the connection the frame came by.
Answer(c) ==
    /\ job[c].at = "answer" /\ job' = [job EXCEPT ![c] = NoJob]
    /\ down' = IF c = "now" THEN Written(Ack(job[c].o, op[job[c].o].status)) ELSE down
    /\ UNCHANGED <<op, api, entry, queue, linked, up, device, view, faults>>

\* cleanup_device_connection, when the socket has closed or the queue overflowed.
Cleanup ==
    /\ entry.registered /\ entry.greeted /\ job["now"] = NoJob
    /\ entry.shut \/ (~linked /\ up = <<>>)
    /\ entry' = NoEntry /\ queue' = <<>> /\ linked' = FALSE /\ up' = <<>> /\ down' = <<>>
    /\ UNCHANGED <<op, api, job, device, view, faults>>

-----------------------------------------------------------------------------
(* The device *)

\* run_connection, after RECONNECT_DELAY; register_device replaces the old entry.
Connect ==
    /\ ~linked /\ job["old"] = NoJob
    /\ SlowStorage \/ job["now"] = NoJob
    /\ linked' = TRUE /\ box' = Reconnected(box)
    /\ entry' = [NoEntry EXCEPT !.registered = TRUE]
    /\ job' = [now |-> NoJob, old |-> job["now"]]
    /\ queue' = <<>> /\ up' = <<>> /\ down' = <<>>
    /\ UNCHANGED <<op, api, local, seen, view, faults>>

\* flush_outbound
Flush ==
    /\ linked /\ NextIndex(box) # 0
    /\ up' = Append(up, box.entries[NextIndex(box)].frame)
    /\ box' = Sent(Selected(box))
    /\ UNCHANGED <<server, linked, down, local, seen, view, faults>>

\* The device leaves the connection; a part of what it wrote still arrives.
Leave ==
    /\ linked' = FALSE /\ down' = <<>>
    /\ \E k \in 0..Len(up) : up' = SubSeq(up, 1, k)

Full == Cardinality({o \in Ops : local[o] # "none"}) >= MaxPending
Overflows(f) == f.type = "request" /\ f.o \notin seen /\ Full

\* Mutant: an operation the daemon has seen before enters the queue again.
TakeRequestTwice ==
    /\ linked /\ down # <<>> /\ Head(down).type = "request" /\ ~Overflows(Head(down))
    /\ local' = [local EXCEPT ![Head(down).o] = Head(down).status]
    /\ seen' = seen \cup {Head(down).o} /\ down' = Tail(down)
    /\ UNCHANGED <<server, linked, up, box, view, faults>>
\* handle_server_frame, OperationRequest: OperationQueue.push.
TakeRequest ==
    /\ linked /\ down # <<>> /\ Head(down).type = "request" /\ ~Overflows(Head(down))
    /\ local' = [local EXCEPT ![Head(down).o] =
                   IF Head(down).o \in seen THEN @ ELSE Head(down).status]
    /\ seen' = seen \cup {Head(down).o} /\ down' = Tail(down)
    /\ UNCHANGED <<server, linked, up, box, view, faults>>

\* handle_server_frame, OperationAck
TakeAck ==
    /\ linked /\ down # <<>> /\ Head(down).type = "ack"
    /\ LET o == Head(down).o
           status == Head(down).status
       IN  /\ box' = OperationAcknowledged(box, o, status)
           /\ local' = [local EXCEPT ![o] = IF status \in Final \/ @ = "none" THEN "none"
                                            ELSE status]
    /\ down' = Tail(down)
    /\ UNCHANGED <<server, linked, up, seen, view, faults>>

\* handle_server_frame: an error, or a request beyond the bound, ends the connection.
TakeError ==
    /\ linked /\ down # <<>> /\ (Head(down).type = "error" \/ Overflows(Head(down)))
    /\ Leave
    /\ UNCHANGED <<server, device, view, faults>>

Cut ==
    /\ linked /\ Fault("cut") /\ Leave
    /\ UNCHANGED <<server, device, view>>

\* The daemon's queues are in memory.
Crash ==
    /\ Fault("crash") /\ Leave
    /\ box' = EmptyBox /\ local' = [o \in Ops |-> "none"] /\ seen' = {}
    /\ UNCHANGED <<server, view>>

-----------------------------------------------------------------------------
(* The web view *)

Now == Head(batch).o

\* drainOperations: a snapshot of the queue, while the bridge is online.
Drain ==
    /\ batch = <<>> /\ linked
    /\ LET pending == {o \in Ops : local[o] # "none"}
       IN  /\ pending # {}
           /\ batch' = SetToSeq({[o |-> o, status |-> local[o]] : o \in pending})
    /\ UNCHANGED <<server, linked, up, down, device, at, active, runs, outcome, faults>>

\* Mutant: what was running when the view was reloaded is taken for done.
BeginHopeful ==
    /\ batch # <<>> /\ at = "idle"
    /\ IF Now \in active \/ Head(batch).status \in Final
       THEN batch' = Tail(batch) /\ UNCHANGED <<at, active>>
       ELSE /\ at' = CASE Head(batch).status = "accepted" -> "interrupted"
                       [] Head(batch).status = "running" -> "succeeded"
                       [] OTHER -> "validate"
            /\ active' = active \cup {Now} /\ UNCHANGED batch
    /\ UNCHANGED <<server, linked, up, down, device, runs, outcome, faults>>
\* executeOperation: an operation found accepted or running was interrupted.
Begin ==
    /\ batch # <<>> /\ at = "idle"
    /\ IF Now \in active \/ Head(batch).status \in Final
       THEN batch' = Tail(batch) /\ UNCHANGED <<at, active>>
       ELSE /\ at' = CASE Head(batch).status = "accepted" -> "interrupted"
                       [] Head(batch).status = "running" -> "failed"
                       [] OTHER -> "validate"
            /\ active' = active \cup {Now} /\ UNCHANGED batch
    /\ UNCHANGED <<server, linked, up, down, device, runs, outcome, faults>>

Validate ==
    /\ at = "validate" /\ at' \in {"accept", "rejected"}
    /\ UNCHANGED <<server, linked, up, down, device, batch, active, runs, outcome, faults>>

\* handle_request: a frame is queued, if there is room, and the local status follows it.
Report(kind, n, status) ==
    /\ Len(box.entries) < Limit
    /\ box' = Pushed(box, [kind |-> kind, of |-> Now, n |-> n])
    /\ local' = [local EXCEPT ![Now] = IF @ = "none" THEN @ ELSE status]
    /\ UNCHANGED seen

\* The view goes on when the daemon answers; a report whose answer is lost counts as refused.
Answered(next) ==
    \/ at' = next /\ UNCHANGED faults
    \/ at' = "rejected" /\ Fault("refusal")

\* Mutant: the operation is carried out without awaiting that it is running.
AdvanceSilently ==
    /\ at \in {"accept", "start", "interrupted"} /\ UNCHANGED device
    /\ at' = IF at = "interrupted" THEN "failed" ELSE "execute"
    /\ UNCHANGED <<server, linked, up, down, batch, active, runs, outcome, faults>>
\* webDeviceApi.accepted and running
Advance ==
    /\ \/ at = "accept" /\ Report("accepted", "", "accepted") /\ Answered("start")
       \/ at = "start" /\ Report("running", "", "running") /\ Answered("execute")
       \/ at = "interrupted" /\ Report("running", "", "running") /\ Answered("failed")
    /\ UNCHANGED <<server, linked, up, down, batch, active, runs, outcome>>

\* The daemon refuses a stage's report; nothing was executed: the operation is rejected.
Refused ==
    /\ at \in {"accept", "start", "interrupted"}
    /\ at' = "rejected"
    /\ IF Len(box.entries) = Limit THEN faults' = faults \cup {"refusal"} ELSE Fault("refusal")
    /\ UNCHANGED <<server, linked, up, down, device, batch, active, runs, outcome>>

\* executeWebManagementOperation: any outcome but a refusal comes after the side effect.
Execute ==
    /\ at = "execute" /\ at' \in Final
    /\ runs' = [runs EXCEPT ![Now] = IF @ = 2 THEN 2 ELSE @ + 1]
    /\ UNCHANGED <<server, linked, up, down, device, batch, active, outcome, faults>>

\* reportCompletion: a report that is queued but not answered is sent again.
Complete ==
    /\ at \in Final /\ Report("completed", at, at)
    /\ outcome' = [outcome EXCEPT ![Now] = IF @ = "none" THEN at ELSE @]
    /\ \/ /\ at' = "idle" /\ batch' = Tail(batch) /\ active' = active \ {Now}
          /\ UNCHANGED faults
       \/ Fault("unheard") /\ UNCHANGED <<at, batch, active>>
    /\ UNCHANGED <<server, linked, up, down, runs>>

\* reportCompletion gives up after MAX_COMPLETION_REPORT_ATTEMPTS that queued nothing:
\* the outbox was full, or the daemon could not be asked.
GiveUp ==
    /\ at \in Final /\ at' = "idle" /\ batch' = Tail(batch) /\ active' = active \ {Now}
    /\ IF Len(box.entries) = Limit THEN UNCHANGED faults ELSE Fault("unheard")
    /\ UNCHANGED <<server, linked, up, down, device, runs, outcome>>

\* The web view is reloaded.
Reload ==
    /\ Fault("reload")
    /\ batch' = <<>> /\ at' = "idle" /\ active' = {}
    /\ UNCHANGED <<server, linked, up, down, device, runs, outcome>>

-----------------------------------------------------------------------------
Serve ==
    \/ \E o \in Ops : SendDevice(o) \/ ReadForWaiting(o) \/ WriteWaiting(o)
    \/ Greet \/ Forward \/ Receive \/ Cleanup
    \/ \E c \in {"now", "old"} : Write(c) \/ Answer(c)
Run == Connect \/ Flush \/ TakeRequest \/ TakeAck \/ TakeError
View == Drain \/ Begin \/ Validate \/ Advance \/ Execute \/ Complete

Next ==
    \/ Serve \/ Run \/ View
    \/ \E o \in Ops : Create(o)
    \/ Cut \/ Crash \/ Refused \/ GiveUp \/ Reload

Spec == Init /\ [][Next]_vars

\* Each part runs; the socket loop and the device's worker look at both directions in turn.
FairSpec ==
    /\ Spec
    /\ \A o \in Ops : WF_vars(SendDevice(o)) /\ WF_vars(ReadForWaiting(o)) /\ WF_vars(WriteWaiting(o))
    /\ WF_vars(Greet) /\ SF_vars(Forward) /\ SF_vars(Receive) /\ WF_vars(Cleanup)
    /\ \A c \in {"now", "old"} : WF_vars(Write(c)) /\ WF_vars(Answer(c))
    /\ WF_vars(Connect) /\ SF_vars(Flush)
    /\ SF_vars(TakeRequest) /\ SF_vars(TakeAck) /\ WF_vars(TakeError)
    /\ SF_vars(Drain) /\ WF_vars(Begin) /\ WF_vars(Validate) /\ WF_vars(Advance)
    /\ WF_vars(Execute) /\ WF_vars(Complete)

-----------------------------------------------------------------------------
\* The table of web-service-contracts.md: every change of a stored status is one the
\* table allows (update_operation_status checks it before the write).
LegalJumps ==
    [][\A o \in Ops : op'[o].status # op[o].status /\ op[o].status # "absent"
                        => Valid(op[o].status, op'[o].status)]_vars

\* A management operation is carried out once, over resent requests, reloads and
\* broken connections, unless the daemon crashes (executeOperation, OperationQueue.push).
ExecutedOnce == "crash" \notin faults => \A o \in Ops : runs[o] <= 1

\* web-service-contracts.md: what was interrupted is reported, never carried out again,
\* also when the daemon crashed.
NeverTwice == \A o \in Ops : runs[o] <= 1

\* What the server stores at the end is what the view first reported, over resent frames
\* and reloads, unless the daemon crashed or a stage's report failed (reportCompletion,
\* update_operation_status).
FirstReportStands ==
    faults \cap {"crash", "refusal"} = {} =>
        \A o \in Ops : op[o].status \in Final => op[o].status = outcome[o]

\* A rejection that never ran left nothing behind: what the server stores as rejected
\* without having been accepted was not carried out, unless a daemon that crashed forgot
\* the reports of it (executeOperation, rejectBeforeExecution, webDeviceApi.accepted).
RejectedUntouched ==
    "crash" \notin faults =>
        \A o \in Ops : op[o].status = "rejected" /\ ~op[o].accepted => runs[o] = 0

\* Success is never inferred: what the server stores as succeeded was carried out
\* (web-service-contracts.md: only device frames update states).
SuccessIsReal == \A o \in Ops : op[o].status = "succeeded" => runs[o] > 0

\* web-service-contracts.md: a rejection without execution comes before accepted; the
\* server's table knows no rejection of an accepted operation.
RejectsInTime ==
    \A f \in Held(box) : f.kind = "completed" /\ f.n = "rejected" /\ runs[f.of] = 0
        => /\ ~op[f.of].accepted
           /\ \A g \in Held(box) : ~(g.kind = "accepted" /\ g.of = f.of)

\* web-service-contracts.md: an interrupted operation is reported as failed; one that
\* has reported its outcome is not interrupted.
NoFalseInterruption ==
    \A f \in Held(box) : f.kind = "completed" /\ outcome[f.of] # "none" => f.n = outcome[f.of]

\* web-service-contracts.md: a full operation queue keeps the connection alive.
OverflowKeepsLink ==
    [][linked /\ down # <<>> /\ Overflows(Head(down)) /\ down' # down => linked']_vars

\* An operation the server accepted reaches its end.
OperationSettles ==
    \A o \in Ops : (op[o].status = "submitted" /\ api[o] = "done") ~> (op[o].status \in Final)
=============================================================================
