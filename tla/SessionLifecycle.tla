-------------------------- MODULE SessionLifecycle -------------------------
(***************************************************************************)
(* The life of terminal sessions between the views and the daemon: create  *)
(* with its reservation, subscription and roll-back, close and close_all,  *)
(* attach behind a barrier, the end of the process and the Exit frame, and *)
(* what a view does when its connection breaks (PtyHostSocket): it rejects *)
(* what was pending, probes a rejected create by an attach, attaches again *)
(* what it still holds and never what it has closed.                       *)
(*                                                                         *)
(* Every critical section of the daemon (server.rs) is one step; a         *)
(* connection has one reader thread, which answers one request at a time   *)
(* and outlives the view's interest in it.  Output is left out (see        *)
(* OutputDelivery).  Session ids are never used twice.                     *)
(***************************************************************************)
EXTENDS Naturals, Sequences, FiniteSets

CONSTANTS
    Views,          \* PtyHostSocket instances
    Owners,         \* the views that create and close sessions
    Flaky,          \* bound: the views whose connections break
    Sessions,       \* session ids
    MaxSessions,    \* MAX_SESSIONS
    MaxConns,       \* bound: connections opened
    MaxCuts,        \* bound: broken connections and failed connects
    MaxCloses       \* bound: close and close_all calls

ASSUME LifecycleConstants ==
    /\ Owners \subseteq Views /\ Flaky \subseteq Views
    /\ MaxSessions \in Nat /\ MaxConns \in Nat /\ MaxCuts \in Nat /\ MaxCloses \in Nat

VARIABLES
    entry,    \* DaemonHost.sessions: what the table says of each session
    proc,     \* the PTY process and how far its sink thread has reported its end
    conn,     \* the connections: reader thread, ClientHandle and both directions
    view,     \* the views
    cuts, closes

vars == <<entry, proc, conn, view, cuts, closes>>

Conns == 1..MaxConns
None == 0

Ops == {"create", "probe", "attach", "reattach", "close", "close_all"}
Call == [op: Ops, s: Sessions]
CloseOps == {"close", "close_all"}
\* close_all names no session: it is about every one.
Targets(call) == IF call.op = "close_all" THEN Sessions ELSE {call.s}

Frame == [kind: {"exit"}, s: Sessions]
           \cup [kind: {"reply"}, call: Call, ok: BOOLEAN, alive: BOOLEAN]
Reply(call, ok, alive) == [kind |-> "reply", call |-> call, ok |-> ok, alive |-> alive]
Exit(s) == [kind |-> "exit", s |-> s]

\* job: the request the reader thread is answering and the step it is about to do.
Steps == {"reserve", "subscribe", "spawn", "confirm", "unreserve", "unsubscribe",
          "kill", "remove", "detach", "snapshot", "complete"}
Job == [step: Steps, call: Call, alive: BOOLEAN]
\* handle: the client is registered; open: the view still holds the connection;
\* barrier and held: ClientHandle.attaching and the Exit buffered in it.
Connection == [owner: Views, handle: BOOLEAN, open: BOOLEAN, inbox: Seq(Call),
               job: SUBSET Job, attached: SUBSET Sessions, barrier: SUBSET Sessions,
               held: SUBSET Sessions, out: Seq(Frame)]
NewConnection(v, calls) ==
    [owner |-> v, handle |-> TRUE, open |-> TRUE, inbox |-> calls, job |-> {},
     attached |-> {}, barrier |-> {}, held |-> {}, out |-> <<>>]

\* attached, tombs: attachedSessions and closedSessions; pending: the requests
\* awaiting a reply; unsent: those awaiting connect(); due: what is left of the
\* reconnect loop; got: the sessions whose Exit has come and was kept.
View == [conn: {None} \cup Conns, attached: SUBSET Sessions, tombs: SUBSET Sessions,
         pending: SUBSET Call, unsent: Seq(Call), timer: BOOLEAN, due: SUBSET Sessions,
         got: SUBSET Sessions,
         show: [Sessions -> {"none", "opening", "running", "failed", "closed"}]]
NewView == [conn |-> None, attached |-> {}, tombs |-> {}, pending |-> {}, unsent |-> <<>>,
            timer |-> FALSE, due |-> {}, got |-> {}, show |-> [s \in Sessions |-> "none"]]

TypeOK ==
    /\ entry \in [Sessions -> {"none", "alive", "exited"}]
    /\ proc \in [Sessions -> {"none", "running", "ended", "marked", "told", "settled"}]
    /\ DOMAIN conn \subseteq Conns /\ conn \in [DOMAIN conn -> Connection]
    /\ view \in [Views -> View]
    /\ cuts \in Nat /\ closes \in Nat

Init ==
    /\ entry = [s \in Sessions |-> "none"]
    /\ proc = [s \in Sessions |-> "none"]
    /\ conn = << >>
    /\ view = [v \in Views |-> NewView]
    /\ cuts = 0 /\ closes = 0

-----------------------------------------------------------------------------
(* The view *)

\* request(): the call goes out when the socket is open, else it awaits connect().
\* Requested gives the view, Carried the connections after the call was made.
Requested(w, call) ==
    IF w.conn = None THEN [w EXCEPT !.unsent = Append(@, call)]
                     ELSE [w EXCEPT !.pending = @ \cup {call}]
Carried(w, call) ==
    IF w.conn = None THEN conn ELSE [conn EXCEPT ![w.conn].inbox = Append(@, call)]
Make(v, w, call) ==
    /\ view' = [view EXCEPT ![v] = Requested(w, call)]
    /\ conn' = Carried(w, call)

\* clearSession, with cancelReconnectWhenIdle
ClearSession(w, ss) ==
    LET rest == w.attached \ ss
    IN  [w EXCEPT !.attached = rest, !.got = @ \ ss, !.timer = @ /\ rest # {}]

Create(v, s) ==
    LET w == view[v]
    IN  /\ \A u \in Views : view[u].show[s] = "none"
        /\ Make(v, [w EXCEPT !.tombs = @ \ {s}, !.attached = @ \cup {s}, !.show[s] = "opening"],
                [op |-> "create", s |-> s])
        /\ UNCHANGED <<entry, proc, cuts, closes>>

\* A session the daemon's list names is attached.
Attach(v, s) ==
    LET w == view[v]
    IN  /\ w.show[s] = "none" /\ entry[s] # "none" /\ s \notin w.tombs
        /\ Make(v, [w EXCEPT !.attached = @ \cup {s}, !.show[s] = "opening"],
                [op |-> "attach", s |-> s])
        /\ UNCHANGED <<entry, proc, cuts, closes>>

\* The tombstones are set before the request is sent.
Close(v, s) ==
    LET w == view[v]
    IN  /\ w.show[s] \in {"opening", "running"} /\ closes < MaxCloses
        /\ closes' = closes + 1
        /\ Make(v, [ClearSession(w, {s}) EXCEPT !.tombs = @ \cup {s}, !.show[s] = "closed"],
                [op |-> "close", s |-> s])
        /\ UNCHANGED <<entry, proc, cuts>>

CloseAll(v) ==
    LET w == view[v]
    IN  /\ w.attached # {} /\ closes < MaxCloses
        /\ closes' = closes + 1
        /\ Make(v, [ClearSession(w, w.attached) EXCEPT
                        !.tombs = @ \cup w.attached, !.got = {},
                        !.show = [s \in Sessions |-> IF s \in w.attached THEN "closed" ELSE @[s]]],
                [op |-> "close_all", s |-> CHOOSE s \in Sessions : TRUE])
        /\ UNCHANGED <<entry, proc, cuts>>

\* An attach that failed: attach() catches, and arms the timer when offline.
AttachFailed(w, s) ==
    IF w.conn = None THEN [w EXCEPT !.timer = TRUE] ELSE [w EXCEPT !.attached = @ \ {s}]
CreateFailed(w, s) ==
    [ClearSession(w, {s}) EXCEPT !.show[s] = IF @ = "closed" THEN @ ELSE "failed"]

\* A request was refused or lost.  A create that failed is probed by an attach,
\* which a tombstone answers at once.
Failed(w, call) ==
    CASE call.op = "create" ->
            IF call.s \in w.tombs THEN CreateFailed(w, call.s)
            ELSE Requested([w EXCEPT !.attached = @ \cup {call.s}], [call EXCEPT !.op = "probe"])
      [] call.op = "probe" -> CreateFailed(AttachFailed(w, call.s), call.s)
      [] call.op = "attach" ->
            [AttachFailed(w, call.s) EXCEPT !.show[call.s] = IF @ = "closed" THEN @ ELSE "failed"]
      [] call.op = "reattach" -> AttachFailed(w, call.s)
      [] call.op \in CloseOps -> w

\* All of a set of requests fail, in one order or another.
FailedAll(w, calls) ==
    LET one[cs \in SUBSET calls] ==
            IF cs = {} THEN w
            ELSE LET c == CHOOSE c \in cs : TRUE IN Failed(one[cs \ {c}], c)
    IN  one[calls]

\* What the caller is told; reattach and the probe of a create ignore "alive".
Succeeded(w, f) ==
    LET s == f.call.s
        live == f.alive \/ f.call.op # "attach"
    IN  IF f.call.op \in {"create", "probe", "attach"} /\ w.show[s] = "opening"
        THEN [w EXCEPT !.show[s] = "running", !.got = IF live THEN @ ELSE @ \cup {s}]
        ELSE w

\* handleControlFrame
Receive(v) ==
    LET w == view[v]
        k == w.conn
        f == Head(conn[k].out)
        read == [conn EXCEPT ![k].out = Tail(@)]
        done == [w EXCEPT !.pending = @ \ {f.call}]
    IN  /\ k # None /\ conn[k].out # <<>>
        /\ IF f.kind = "exit"
           THEN /\ view' = [view EXCEPT ![v].got = IF f.s \in w.tombs THEN @ ELSE @ \cup {f.s}]
                /\ conn' = read
           ELSE IF f.ok
           THEN view' = [view EXCEPT ![v] = Succeeded(done, f)] /\ conn' = read
           ELSE /\ view' = [view EXCEPT ![v] = Failed(done, f.call)]
                /\ conn' = IF f.call.op = "create" /\ f.call.s \notin w.tombs
                           THEN [read EXCEPT ![k].inbox = Append(@, [f.call EXCEPT !.op = "probe"])]
                           ELSE read
        /\ UNCHANGED <<entry, proc, cuts, closes>>

\* handleDisconnect, after a close, an error, a missed heartbeat or a request
\* that timed out.  What was written may still reach the daemon.
Cut(v) ==
    LET w == view[v]
        off == FailedAll([w EXCEPT !.conn = None, !.pending = {}], w.pending)
    IN  /\ w.conn # None /\ cuts < MaxCuts
        /\ cuts' = cuts + 1
        /\ view' = [view EXCEPT ![v] = [off EXCEPT !.timer = @ \/ off.attached # {}]]
        /\ \E n \in 0..Len(conn[w.conn].inbox) :
              conn' = [conn EXCEPT ![w.conn].open = FALSE, ![w.conn].out = <<>>,
                                   ![w.conn].inbox = SubSeq(@, 1, n)]
        /\ UNCHANGED <<entry, proc, closes>>

\* openSocket succeeds: requests that waited go out; a reconnect loop starts
\* over what is attached.
Online(v, loop) ==
    LET w == view[v]
        k == Cardinality(DOMAIN conn) + 1
    IN  /\ k \in Conns
        /\ conn' = [i \in DOMAIN conn \cup {k} |->
                        IF i = k THEN NewConnection(v, w.unsent) ELSE conn[i]]
        /\ view' = [view EXCEPT ![v].conn = k, ![v].unsent = <<>>,
                        ![v].pending = {w.unsent[i] : i \in 1..Len(w.unsent)},
                        ![v].timer = @ /\ ~loop,
                        ![v].due = IF loop THEN w.attached \ w.tombs ELSE @]

Connect(v) ==
    /\ view[v].conn = None /\ view[v].unsent # <<>>
    /\ Online(v, FALSE)
    /\ UNCHANGED <<entry, proc, cuts, closes>>

\* openSocket fails: every request that waited is rejected; a create gives up
\* because its probe awaits the same connection.
ConnectFails(v) ==
    LET w == view[v]
        calls == {IF w.unsent[i].op = "create" THEN [w.unsent[i] EXCEPT !.op = "probe"]
                  ELSE w.unsent[i] : i \in 1..Len(w.unsent)}
    IN  /\ w.conn = None /\ w.unsent # <<>> /\ cuts < MaxCuts
        /\ cuts' = cuts + 1
        /\ view' = [view EXCEPT ![v] = FailedAll([w EXCEPT !.unsent = <<>>], calls)]
        /\ UNCHANGED <<entry, proc, conn, closes>>

\* reconnectAttachedSessions: the timer fires.
Reconnect(v) ==
    /\ view[v].timer
    /\ IF view[v].conn = None /\ view[v].attached \ view[v].tombs # {} THEN Online(v, TRUE)
       ELSE /\ view' = [view EXCEPT ![v].timer = FALSE,
                                    ![v].due = view[v].attached \ view[v].tombs]
            /\ UNCHANGED conn
    /\ UNCHANGED <<entry, proc, cuts, closes>>

\* Mutant: the tombstones are read when the loop starts, not in its body.
ReattachStale(v, s) ==
    LET w == view[v]
    IN  /\ s \in w.due
        /\ Make(v, [w EXCEPT !.due = @ \ {s}, !.attached = @ \cup {s}],
                [op |-> "reattach", s |-> s])
        /\ UNCHANGED <<entry, proc, cuts, closes>>

\* The body of its loop, one awaited attach after another.
Reattach(v, s) ==
    LET w == view[v]
        next == [w EXCEPT !.due = @ \ {s}]
    IN  /\ s \in w.due /\ \A c \in w.pending : c.op # "reattach"
        /\ \A i \in 1..Len(w.unsent) : w.unsent[i].op # "reattach"
        /\ IF s \in w.tombs
           THEN view' = [view EXCEPT ![v] = next] /\ UNCHANGED conn
           ELSE Make(v, [next EXCEPT !.attached = @ \cup {s}], [op |-> "reattach", s |-> s])
        /\ UNCHANGED <<entry, proc, cuts, closes>>

-----------------------------------------------------------------------------
(* The reader thread of a connection *)

FirstStep(call) ==
    IF call.op = "create" THEN "reserve" ELSE IF call.op \in CloseOps THEN "kill" ELSE "snapshot"

Take(k) ==
    /\ conn[k].handle /\ conn[k].job = {} /\ conn[k].inbox # <<>>
    /\ LET call == Head(conn[k].inbox)
       IN conn' = [conn EXCEPT ![k].inbox = Tail(@),
                       ![k].job = {[step |-> FirstStep(call), call |-> call, alive |-> FALSE]}]
    /\ UNCHANGED <<entry, proc, view, cuts, closes>>

\* The connection is gone and all it had sent is answered.
HangUp(k) ==
    /\ conn[k].handle /\ ~conn[k].open /\ conn[k].job = {} /\ conn[k].inbox = <<>>
    /\ conn' = [conn EXCEPT ![k].handle = FALSE, ![k].attached = {}, ![k].barrier = {},
                            ![k].held = {}]
    /\ UNCHANGED <<entry, proc, view, cuts, closes>>

At(k, step) == \E j \in conn[k].job : j.step = step
CallOf(k) == (CHOOSE j \in conn[k].job : TRUE).call
Goto(c, step) == [c EXCEPT !.job = {[j EXCEPT !.step = step] : j \in @}]
\* A frame for a connection nobody holds goes nowhere.
Sent(c, frames) == IF c.open THEN [c EXCEPT !.out = @ \o frames] ELSE c
Answer(c, f) == Sent([c EXCEPT !.job = {}], <<f>>)
Unsubscribed(c, ss) ==
    [c EXCEPT !.attached = @ \ ss, !.barrier = @ \ ss, !.held = @ \ ss]

\* handle_create: reserve_session_with_launch
Reserve(k) ==
    LET call == CallOf(k)
        taken == {s \in Sessions : entry[s] # "none"}
    IN  /\ At(k, "reserve")
        /\ IF call.s \in taken \/ Cardinality(taken) >= MaxSessions
           THEN entry' = entry /\ conn' = [conn EXCEPT ![k] = Answer(@, Reply(call, FALSE, FALSE))]
           ELSE /\ entry' = [entry EXCEPT ![call.s] = "alive"]
                /\ conn' = [conn EXCEPT ![k] = Goto(@, "subscribe")]
        /\ UNCHANGED <<proc, view, cuts, closes>>

\* The subscription of a create, without barrier; the thread itself removes its client,
\* which is therefore there.
Subscribed(c, s) == [Unsubscribed(c, {s}) EXCEPT !.attached = @ \cup {s}]
Subscribe(k) ==
    /\ At(k, "subscribe")
    /\ conn' = [conn EXCEPT ![k] = Goto(Subscribed(@, CallOf(k).s), "spawn")]
    /\ UNCHANGED <<entry, proc, view, cuts, closes>>

Spawn(k) ==
    /\ At(k, "spawn")
    /\ proc' = [proc EXCEPT ![CallOf(k).s] = "running"]
    /\ conn' = [conn EXCEPT ![k] = Goto(@, "confirm")]
    /\ UNCHANGED <<entry, view, cuts, closes>>

SpawnFails(k) ==
    /\ At(k, "spawn")
    /\ conn' = [conn EXCEPT ![k] = Goto(@, "unreserve")]
    /\ UNCHANGED <<entry, proc, view, cuts, closes>>

Confirm(k) ==
    LET call == CallOf(k)
    IN  /\ At(k, "confirm")
        /\ conn' = [conn EXCEPT ![k] = Answer(@, Reply(call, entry[call.s] # "none", TRUE))]
        /\ UNCHANGED <<entry, proc, view, cuts, closes>>

\* Mutant: a create that failed leaves its reservation.
UnreserveForgets(k) ==
    /\ At(k, "unreserve")
    /\ conn' = [conn EXCEPT ![k] = Goto(@, "unsubscribe")]
    /\ UNCHANGED <<entry, proc, view, cuts, closes>>

Unreserve(k) ==
    /\ At(k, "unreserve")
    /\ entry' = [entry EXCEPT ![CallOf(k).s] = "none"]
    /\ conn' = [conn EXCEPT ![k] = Goto(@, "unsubscribe")]
    /\ UNCHANGED <<proc, view, cuts, closes>>

\* Only the creator's own subscription is taken back.
Unsubscribe(k) ==
    LET call == CallOf(k)
    IN  /\ At(k, "unsubscribe")
        /\ conn' = [conn EXCEPT ![k] =
               Answer(Unsubscribed(@, {call.s}), Reply(call, FALSE, FALSE))]
        /\ UNCHANGED <<entry, proc, view, cuts, closes>>

\* Close and CloseAll: the process, the table and the clients, one after another.
Kill(k) ==
    LET ss == Targets(CallOf(k))
    IN  /\ At(k, "kill")
        /\ proc' = [s \in Sessions |-> IF s \in ss /\ proc[s] = "running" THEN "ended" ELSE proc[s]]
        /\ conn' = [conn EXCEPT ![k] = Goto(@, "remove")]
        /\ UNCHANGED <<entry, view, cuts, closes>>

Remove(k) ==
    LET ss == Targets(CallOf(k))
    IN  /\ At(k, "remove")
        /\ entry' = [s \in Sessions |-> IF s \in ss THEN "none" ELSE entry[s]]
        /\ conn' = [conn EXCEPT ![k] = Goto(@, "detach")]
        /\ UNCHANGED <<proc, view, cuts, closes>>

Detach(k) ==
    LET call == CallOf(k)
        free == [i \in DOMAIN conn |-> Unsubscribed(conn[i], Targets(call))]
    IN  /\ At(k, "detach")
        /\ conn' = [free EXCEPT ![k] = Answer(@, Reply(call, TRUE, FALSE))]
        /\ UNCHANGED <<entry, proc, view, cuts, closes>>


\* Attach: the snapshot and the subscription are taken under both locks.
Barred(c, call, alive) ==
    [c EXCEPT !.attached = @ \cup {call.s}, !.barrier = @ \cup {call.s}, !.held = @ \ {call.s},
              !.job = {[step |-> "complete", call |-> call, alive |-> alive]}]
Snapshot(k) ==
    LET call == CallOf(k)
    IN  /\ At(k, "snapshot")
        /\ conn' = [conn EXCEPT ![k] =
               IF entry[call.s] = "none" THEN Answer(@, Reply(call, FALSE, FALSE))
               ELSE Barred(@, call, entry[call.s] = "alive")]
        /\ UNCHANGED <<entry, proc, view, cuts, closes>>

Unbarred(c, s) == [c EXCEPT !.job = {}, !.barrier = @ \ {s}, !.held = @ \ {s}]
\* Mutant: the reply without what the barrier held back.
CompleteForgets(k) ==
    LET j == CHOOSE j \in conn[k].job : TRUE
    IN  /\ At(k, "complete")
        /\ conn' = [conn EXCEPT ![k] = Sent(Unbarred(@, j.call.s), <<Reply(j.call, TRUE, j.alive)>>)]
        /\ UNCHANGED <<entry, proc, view, cuts, closes>>

\* The reply, then complete_attach with what the barrier held back.
Complete(k) ==
    LET j == CHOOSE j \in conn[k].job : TRUE
        s == j.call.s
    IN  /\ At(k, "complete")
        /\ conn' = [conn EXCEPT ![k] =
               Sent(Unbarred(@, s), <<Reply(j.call, TRUE, j.alive)>>
                        \o (IF s \in conn[k].held THEN <<Exit(s)>> ELSE <<>>))]
        /\ UNCHANGED <<entry, proc, view, cuts, closes>>

-----------------------------------------------------------------------------
(* The process and its sink thread *)

ProcessEnds(s) ==
    /\ proc[s] = "running"
    /\ proc' = [proc EXCEPT ![s] = "ended"]
    /\ UNCHANGED <<entry, conn, view, cuts, closes>>

\* emit_daemon_status: the table first, then the clients, then the memory cap.
MarkExited(s) ==
    /\ proc[s] = "ended"
    /\ proc' = [proc EXCEPT ![s] = "marked"]
    /\ entry' = [entry EXCEPT ![s] = IF @ = "none" THEN @ ELSE "exited"]
    /\ UNCHANGED <<conn, view, cuts, closes>>

PushExit(s) ==
    /\ proc[s] = "marked"
    /\ proc' = [proc EXCEPT ![s] = "told"]
    /\ conn' = [k \in DOMAIN conn |->
                    IF s \notin conn[k].attached THEN conn[k]
                    ELSE IF s \in conn[k].barrier THEN [conn[k] EXCEPT !.held = @ \cup {s}]
                    ELSE Sent(conn[k], <<Exit(s)>>)]
    /\ UNCHANGED <<entry, view, cuts, closes>>

\* enforce_total_buffer_cap: exited sessions may be dropped.
Govern(s) ==
    /\ proc[s] = "told"
    /\ proc' = [proc EXCEPT ![s] = "settled"]
    /\ \E drop \in SUBSET {t \in Sessions : entry[t] = "exited"} :
          entry' = [t \in Sessions |-> IF t \in drop THEN "none" ELSE entry[t]]
    /\ UNCHANGED <<conn, view, cuts, closes>>

ReaderStep(k) ==
    \/ Take(k) \/ HangUp(k) \/ Reserve(k) \/ Subscribe(k) \/ Spawn(k) \/ SpawnFails(k)
    \/ Confirm(k) \/ Unreserve(k) \/ Unsubscribe(k)
    \/ Kill(k) \/ Remove(k) \/ Detach(k) \/ Snapshot(k) \/ Complete(k)
SinkStep(s) == MarkExited(s) \/ PushExit(s) \/ Govern(s)
ViewStep(v) ==
    Receive(v) \/ Connect(v) \/ Reconnect(v) \/ \E s \in Sessions : Reattach(v, s)

Next ==
    \/ \E v \in Owners : CloseAll(v) \/ \E s \in Sessions : Create(v, s) \/ Close(v, s)
    \/ \E v \in Views : ViewStep(v) \/ \E s \in Sessions : Attach(v, s)
    \/ \E v \in Flaky : Cut(v) \/ ConnectFails(v)
    \/ \E k \in DOMAIN conn : ReaderStep(k)
    \/ \E s \in Sessions : ProcessEnds(s) \/ SinkStep(s)

Spec == Init /\ [][Next]_vars

\* Threads run on, and so does the view's event loop.  Nothing forces a process
\* to end, a connection to break or the user to act.
FairSpec ==
    /\ Spec
    /\ \A k \in Conns : WF_vars(k \in DOMAIN conn /\ ReaderStep(k))
    /\ \A s \in Sessions : WF_vars(SinkStep(s))
    /\ \A v \in Views : WF_vars(ViewStep(v))

-----------------------------------------------------------------------------
(* Properties *)

Creating(s) ==
    \E k \in DOMAIN conn : \E j \in conn[k].job :
        j.call.op = "create" /\ j.call.s = s /\ j.step # "reserve"

\* A session counted as alive (which keeps the daemon from exiting) has a
\* process, one that is being started, or an end that is about to be reported.
NoPhantom ==
    \A s \in Sessions :
        entry[s] = "alive" => proc[s] \in {"running", "ended"} \/ Creating(s)

\* While a view's connection is subscribed to a session that the view closed,
\* the close is still on its way on that very connection: a reconnect never
\* subscribes a closed session again.
ClosedGetsDetached ==
    \A v \in Views : \A s \in view[v].tombs :
        LET k == view[v].conn
            closing(call) == call.op \in CloseOps /\ s \in Targets(call)
        IN  k # None /\ s \in conn[k].attached =>
                \/ \E i \in 1..Len(conn[k].inbox) : closing(conn[k].inbox[i])
                \/ \E j \in conn[k].job : closing(j.call)

\* A view does not stay wrong about a session: every create and attach comes to an end,
\* whatever breaks, and a view that shows a session as running learns that the process
\* has ended, also when it attaches between the two halves of the report, as long as no
\* connection breaks and nobody closes the session.
Over(s) == proc[s] \in {"ended", "marked", "told", "settled"}
Believes(v, s) == view[v].show[s] = "running" /\ s \notin view[v].got
Wrong(v, s) == view[v].show[s] = "opening" \/ (Over(s) /\ Believes(v, s) /\ cuts + closes = 0)
ViewsCatchUp == \A v \in Views : \A s \in Sessions : Wrong(v, s) ~> ~Wrong(v, s)

-----------------------------------------------------------------------------
(* What the documents say and the code does not do *)

\* docs/pty-daemon-manual.md: no orphan processes.  A running process is in
\* the session table, or is being started.
NoOrphan ==
    \A s \in Sessions : proc[s] = "running" => entry[s] # "none" \/ Creating(s)

\* pty-daemon-contracts.md: the original create error is returned only when
\* the session does not exist.
FailedMeansAbsent ==
    \A v \in Views : \A s \in Sessions :
        view[v].show[s] = "failed" /\ entry[s] # "none" => Creating(s)

=============================================================================
