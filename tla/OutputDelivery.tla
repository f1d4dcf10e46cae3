--------------------------- MODULE OutputDelivery ---------------------------
(***************************************************************************)
(* How the output of one PTY session reaches the terminals of several      *)
(* clients: the daemon's session entry and client table (server.rs,        *)
(* pty_events.rs, client_transport.rs), the socket of the web view         *)
(* (PtyHostSocket.ts), its output queue (TerminalProcessManager.ts) and    *)
(* the xterm that renders it.                                              *)
(*                                                                         *)
(* A frame is its sequence number, and every output frame weighs one       *)
(* character and one byte.  The daemon's writer queue, TCP and the         *)
(* browser's message queue are one FIFO, wire[c]; control replies that     *)
(* change no state (ok, checkpoint_accepted) are left out.                 *)
(***************************************************************************)
EXTENDS ReplayBuffer, Sequences

CONSTANTS
    Clients,        \* sockets that may attach to the session
    High, Low,      \* CLIENT_OUTPUT_HIGH_WATERMARK, CLIENT_OUTPUT_LOW_WATERMARK
    AttachMax,      \* CLIENT_OUTPUT_QUEUE_MAX_BYTES, for the attach barrier
    Checkpointers,  \* the clients whose terminals upload snapshots
    SnapshotRace,   \* may a write commit between reading the screen and the cursor?
    MaxSeq,         \* bound: sequence numbers handed out
    MaxBreaks,      \* bound: connections lost to the environment
    InboxMax        \* bound: requests of one client in flight

ASSUME DeliveryConstants ==
    /\ High \in Nat /\ Low \in Nat /\ Low < High
    /\ AttachMax \in Nat /\ MaxSeq \in Nat /\ MaxBreaks \in Nat /\ InboxMax \in Nat
    /\ Checkpointers \subseteq Clients
    /\ SnapshotRace \in BOOLEAN

VARIABLES
    next,     \* SessionEntry.next_sequence
    outs,     \* history: the sequence numbers that carry output
    buf,      \* SessionEntry.buffer
    handle,   \* ClientHandle of each client, for this session
    wire,     \* daemon -> client, in order
    inbox,    \* client -> daemon, in order
    term,     \* PtyHostSocket + TerminalProcessManager + xterm of each client
    breaks    \* connections broken so far

vars == <<next, outs, buf, handle, wire, inbox, term, breaks>>

-----------------------------------------------------------------------------
(* Data *)

\* A run of live output frames, and an attach reply: an optional reset, the
\* snapshot, the retained frames after the cursor, then the Attached frame.
OutputRun(S) == [kind |-> "output", frames |-> S]
Reply(reset, snapshot, screen, S, latest) ==
    [kind |-> "attached", reset |-> reset, snapshot |-> snapshot, screen |-> screen,
     frames |-> S, latest |-> latest]
WireItem ==
    [kind: {"output"}, frames: SUBSET Nat] \cup
    [kind: {"attached"}, reset: BOOLEAN, snapshot: Nat \cup {NoCheckpoint},
     screen: SUBSET Nat, frames: SUBSET Nat, latest: Nat]
NoReply == Reply(FALSE, NoCheckpoint, {}, {}, 0)

Ack(n, chars) == [type |-> "ack", seq |-> n, chars |-> chars, screen |-> {}]
Attach(after) == [type |-> "attach", seq |-> after, chars |-> 0, screen |-> {}]
Checkpoint(n, screen) == [type |-> "checkpoint", seq |-> n, chars |-> 0, screen |-> screen]
Request == [type: {"ack", "attach", "checkpoint"}, seq: Nat, chars: Nat, screen: SUBSET Nat]

\* ClientHandle restricted to the session.  stage and reply belong to the
\* connection's thread: between the attach snapshot, the sending of Attached
\* and complete_attach other threads run.  The attaching entry of the code
\* exists exactly while the client is attached and stage is not idle.
Handle == [attached: BOOLEAN, unacked: Nat, paused: BOOLEAN, lastSent: Nat, lastAcked: Nat,
           attaching: SUBSET Nat, closed: BOOLEAN, stage: {"idle", "snapshot", "replied"},
           reply: WireItem]
NewHandle == [attached |-> FALSE, unacked |-> 0, paused |-> FALSE, lastSent |-> 0,
              lastAcked |-> 0, attaching |-> {}, closed |-> FALSE, stage |-> "idle",
              reply |-> NoReply]

\* A frame waiting in TerminalProcessManager for xterm's write callback.
QueueItem == [kind: {"reset", "frame", "snapshot"}, seq: Nat, screen: SUBSET Nat]

\* received and committed: PtyHostSocket.latestReceivedSequence and
\* latestCommittedSequence.  tpmCommitted and queue: latestCommittedSequence and
\* frames of TerminalOutputState.  shown: the outputs on the screen; garbled:
\* some output is there twice or out of order; stale: history, a reconnect has
\* resumed after a cursor of the socket that a reset had taken back in the terminal.
Terminal == [phase: {"offline", "attaching", "attached"}, received: Nat, committed: Nat,
             tpmCommitted: Nat, queue: Seq(QueueItem), shown: SUBSET Nat, garbled: BOOLEAN,
             stale: BOOLEAN]
NewTerminal == [phase |-> "offline", received |-> 0, committed |-> 0, tpmCommitted |-> 0,
                queue |-> <<>>, shown |-> {}, garbled |-> FALSE, stale |-> FALSE]

Larger(m, n) == IF m > n THEN m ELSE n
Monus(m, n) == IF m > n THEN m - n ELSE 0

TypeOK ==
    /\ next \in Nat \ {0}
    /\ outs \in SUBSET Nat
    /\ buf \in Buffer
    /\ handle \in [Clients -> Handle]
    /\ wire \in [Clients -> Seq(WireItem)]
    /\ inbox \in [Clients -> Seq(Request)]
    /\ term \in [Clients -> Terminal]
    /\ breaks \in Nat

Init ==
    /\ next = 1
    /\ outs = {}
    /\ buf = EmptyBuffer
    /\ handle = [c \in Clients |-> NewHandle]
    /\ wire = [c \in Clients |-> <<>>]
    /\ inbox = [c \in Clients |-> <<>>]
    /\ term = [c \in Clients |-> NewTerminal]
    /\ breaks = 0

-----------------------------------------------------------------------------
(* The daemon: output and resize events of the PTY *)

\* clear_client_session_state
Cleared(h) == [h EXCEPT !.attached = FALSE, !.unacked = 0, !.paused = FALSE, !.lastSent = 0,
                        !.lastAcked = 0, !.attaching = {}]

\* writer.close() and clear_client_session_state
Dropped(h) == [Cleared(h) EXCEPT !.closed = TRUE]

\* Mutant: the high watermark never pauses the client.
CountedUnpaused(h, chars, last) == [h EXCEPT !.unacked = @ + chars, !.lastSent = last]

\* Output counted against the client's watermark.
Counted(h, chars, last) ==
    [h EXCEPT !.unacked = @ + chars, !.lastSent = last,
              !.paused = @ \/ h.unacked + chars >= High]

\* push_output_to_attached sends frame to this client now.
SendsLive(h) ==
    h.attached /\ h.stage = "idle" /\ ~h.paused /\ h.unacked < High /\ ~h.closed

\* What push_output_to_attached does to the handle of one client.
Pushed(h, n) ==
    CASE ~h.attached -> h
      [] h.attached /\ h.stage # "idle" ->
            LET held == [Counted(h, 1, n) EXCEPT !.attaching = @ \cup {n}]
            IN  IF Cardinality(held.attaching) > AttachMax THEN Dropped(held) ELSE held
      [] h.attached /\ h.stage = "idle" /\ (h.paused \/ h.unacked >= High) ->
            [h EXCEPT !.paused = TRUE]
      [] h.attached /\ h.stage = "idle" /\ ~h.paused /\ h.unacked < High ->
            IF h.closed THEN Dropped(h) ELSE Counted(h, 1, n)

\* emit_daemon_output: number, retain and push one batch, under the session lock.
Emit ==
    /\ next <= MaxSeq
    /\ next' = next + 1
    /\ outs' = outs \cup {next}
    /\ buf' = PushOutput(buf, outs', next)
    /\ handle' = [c \in Clients |-> Pushed(handle[c], next)]
    /\ wire' = [c \in Clients |-> IF SendsLive(handle[c])
                                  THEN Append(wire[c], OutputRun({next})) ELSE wire[c]]
    /\ UNCHANGED <<inbox, term, breaks>>

\* handle_frame(Resize), asked for by an attached terminal: the event takes a
\* number and enters the buffer, but no client is told.
Resize ==
    /\ next <= MaxSeq
    /\ \E c \in Clients : term[c].phase = "attached"
    /\ next' = next + 1
    /\ buf' = PushResize(buf, outs, next)
    /\ UNCHANGED <<outs, handle, wire, inbox, term, breaks>>

-----------------------------------------------------------------------------
(* The daemon: requests, one at a time on the connection's thread *)

Receives(c, type) ==
    /\ handle[c].stage = "idle"
    /\ inbox[c] # <<>>
    /\ Head(inbox[c]).type = type
    /\ inbox' = [inbox EXCEPT ![c] = Tail(@)]

\* handle_frame(Attach): one critical section takes the replay and subscribes.
AttachSnapshot(c) ==
    /\ Receives(c, "attach")
    /\ LET after  == Head(inbox[c]).seq   \* 0: no cursor
           reset  == after = 0 \/ OldestAfter(buf, after + 1)
           frames == {n \in LiveFrames(buf) : reset \/ n > after}
           snapshot == IF reset \/ buf.checkpoint > after THEN buf.checkpoint ELSE NoCheckpoint
       IN  handle' = [handle EXCEPT ![c] =
              [@ EXCEPT !.attached = TRUE, !.unacked = 0, !.paused = FALSE,
                        !.lastSent = next - 1, !.lastAcked = next - 1, !.attaching = {},
                        !.stage = "snapshot",
                        !.reply = Reply(reset, snapshot, buf.screen, frames, next - 1)]]
    /\ UNCHANGED <<next, outs, buf, wire, term, breaks>>

\* dispatch: send_attached queues the whole reply; a closed writer refuses it and
\* the connection's loop is left with the client still registered.
AttachReply(c) ==
    /\ handle[c].stage = "snapshot"
    /\ ~handle[c].closed
    /\ wire' = [wire EXCEPT ![c] = Append(@, handle[c].reply)]
    /\ handle' = [handle EXCEPT ![c].stage = "replied", ![c].reply = NoReply]
    /\ UNCHANGED <<next, outs, buf, inbox, term, breaks>>

\* Mutant: the held-back frames are forgotten.
AttachForgets(c) ==
    /\ handle[c].stage = "replied"
    /\ handle' = [handle EXCEPT ![c].stage = "idle", ![c].attaching = {}]
    /\ UNCHANGED <<next, outs, buf, inbox, term, breaks, wire>>

\* complete_attach: the frames held back during the attach follow the reply.
AttachComplete(c) ==
    /\ handle[c].stage = "replied"
    /\ LET h    == [handle[c] EXCEPT !.stage = "idle", !.attaching = {}]
           held == handle[c].attaching
       IN  /\ handle' = [handle EXCEPT ![c] = IF held # {} /\ h.closed THEN Dropped(h) ELSE h]
           /\ wire' = IF held # {} /\ ~h.closed
                      THEN [wire EXCEPT ![c] = Append(@, OutputRun(held))] ELSE wire
    /\ UNCHANGED <<next, outs, buf, inbox, term, breaks>>

\* Mutant: an ACK that was already given counts again.
AcceptsAny(h, ack) == ack.seq <= h.lastSent

\* Mutants: an ACK unpauses the client without a flush; an ACK returns no credit.
AckedUnpauses(h, ack) ==
    [h EXCEPT !.unacked = Monus(@, ack.chars), !.lastAcked = ack.seq, !.paused = FALSE]
AckedKeepsCount(h, ack) == [h EXCEPT !.lastAcked = ack.seq]

\* acknowledge_output: only an ACK that advances and was sent counts.
Accepts(h, ack) == ack.seq > h.lastAcked /\ ack.seq <= h.lastSent
Acked(h, ack) == [h EXCEPT !.unacked = Monus(@, ack.chars), !.lastAcked = ack.seq]
Resumes(h) == h.unacked <= Low /\ h.paused

\* flush_buffered_output_locked finds that the first retained event after the
\* last one sent does not follow it.
Gap(h) == LET missed == {n \in LiveFrames(buf) : n > h.lastSent}
          IN  missed # {} /\ h.lastSent + 1 \notin missed

\* flush_buffered_output_locked without a gap: the retained outputs up to last
\* are sent, as many as the high watermark admits.
Flush(c, h) ==
    LET missed == {n \in LiveFrames(buf) \cap outs : n > h.lastSent}
    IN  \E last \in missed \cup {h.lastSent} :
           LET batch == {n \in missed : n <= last}
               sent  == Counted(h, Cardinality(batch), last)
           IN  /\ Cardinality(batch) <= High - h.unacked
               /\ batch = missed \/ Cardinality(batch) = High - h.unacked
               /\ IF batch # {} /\ h.closed
                  THEN handle' = [handle EXCEPT ![c] = Dropped(h)] /\ UNCHANGED wire
                  ELSE /\ handle' = [handle EXCEPT ![c] =
                                        [sent EXCEPT !.paused = sent.unacked > Low]]
                       /\ wire' = IF batch = {} THEN wire
                                  ELSE [wire EXCEPT ![c] = Append(@, OutputRun(batch))]

HandleAck(c) ==
    /\ Receives(c, "ack")
    /\ LET h == handle[c]
           ack == Head(inbox[c])
           acked == Acked(h, ack)
       IN  \/ ~Accepts(h, ack) /\ UNCHANGED <<handle, wire>>
           \/ /\ Accepts(h, ack) /\ ~Resumes(acked)
              /\ handle' = [handle EXCEPT ![c] = acked] /\ UNCHANGED wire
           \/ /\ Accepts(h, ack) /\ Resumes(acked) /\ Gap(acked)
              /\ handle' = [handle EXCEPT ![c] = Dropped(acked)] /\ UNCHANGED wire
           \/ Accepts(h, ack) /\ Resumes(acked) /\ ~Gap(acked) /\ Flush(c, acked)
    /\ UNCHANGED <<next, outs, buf, term, breaks>>

\* handle_binary_frame(CHECKPOINT): a client that is not attached loses its
\* connection; a snapshot ahead of the daemon's output is rejected.
HandleCheckpoint(c) ==
    /\ Receives(c, "checkpoint")
    /\ LET m == Head(inbox[c])
       IN  /\ handle' = IF handle[c].attached THEN handle
                        ELSE [handle EXCEPT ![c].closed = TRUE]
           /\ buf' = IF handle[c].attached /\ m.seq < next
                     THEN AcceptCheckpoint(buf, m.seq, m.screen) ELSE buf
    /\ UNCHANGED <<next, outs, wire, term, breaks>>

-----------------------------------------------------------------------------
(* The connection *)

\* The writer stops although this session is well: the client's control queue or,
\* with the output of its other sessions, its output queue is full.
WriterCloses(c) ==
    /\ term[c].phase # "offline" /\ ~handle[c].closed
    /\ breaks < MaxBreaks
    /\ breaks' = breaks + 1
    /\ handle' = [handle EXCEPT ![c].closed = TRUE]
    /\ UNCHANGED <<next, outs, buf, wire, inbox, term>>

\* Both ends notice: the client is removed from the table and what was queued is
\* lost (handle_websocket_connection, handleDisconnect).
Cut(c) ==
    /\ term[c].phase # "offline"
    /\ handle' = [handle EXCEPT ![c] = NewHandle]
    /\ wire' = [wire EXCEPT ![c] = <<>>]
    /\ inbox' = [inbox EXCEPT ![c] = <<>>]
    /\ UNCHANGED <<next, outs, buf>>

GoOffline(c) == term' = [term EXCEPT ![c].phase = "offline"]

\* A closed writer shuts the socket down.
HangUp(c) == handle[c].closed /\ Cut(c) /\ GoOffline(c) /\ UNCHANGED breaks

\* The network or a heartbeat timeout breaks the connection.
Break(c) ==
    /\ ~handle[c].closed /\ breaks < MaxBreaks
    /\ breaks' = breaks + 1
    /\ Cut(c) /\ GoOffline(c)

\* The client's process dies or quits and starts again with an empty terminal,
\* while the daemon keeps the session.
Restart(c) ==
    /\ ~handle[c].closed /\ breaks < MaxBreaks
    /\ breaks' = breaks + 1
    /\ Cut(c) /\ term' = [term EXCEPT ![c] = NewTerminal]

\* Mutant: resume at the last committed frame, not after it.
ConnectInclusive(c) ==
    /\ term[c].phase = "offline"
    /\ term' = [term EXCEPT ![c].phase = "attaching", ![c].received = term[c].committed]
    /\ inbox' = [inbox EXCEPT ![c] = Append(@, Attach(term[c].committed - 1))]
    /\ UNCHANGED <<next, outs, buf, handle, wire, breaks>>

\* reconnectAttachedSessions and attach: resume after what xterm has committed.
Connect(c) ==
    /\ term[c].phase = "offline"
    /\ term' = [term EXCEPT ![c].phase = "attaching", ![c].received = term[c].committed,
                             ![c].stale = @ \/ term[c].committed # term[c].tpmCommitted]
    /\ inbox' = [inbox EXCEPT ![c] = Append(@, Attach(term[c].committed))]
    /\ UNCHANGED <<next, outs, buf, handle, wire, breaks>>

-----------------------------------------------------------------------------
(* The client: frames arriving on the socket *)

\* The sequence numbers TerminalOutputState.sequences keeps.
Queued(t) == {t.queue[i].seq : i \in DOMAIN t.queue}

\* Mutant: frames are compared with the committed cursor only.
EnqueuedTwice(t, item) ==
    IF item.seq <= t.tpmCommitted THEN t ELSE [t EXCEPT !.queue = Append(@, item)]

\* enqueueOutputFrame: a frame that is committed or already queued is dropped.
Enqueued(t, item) ==
    IF item.seq <= t.tpmCommitted \/ item.seq \in Queued(t)
    THEN t ELSE [t EXCEPT !.queue = Append(@, item)]

\* Mutants: a reset leaves the cursor where it was; it empties the queue without
\* clearing the screen.
RestartedAtCursor(t) == [t EXCEPT !.queue = <<[kind |-> "reset", seq |-> 0, screen |-> {}]>>]
RestartedInPlace(t) == [t EXCEPT !.tpmCommitted = 0, !.queue = <<>>]

\* enqueueOutputFrame of a reset: the queue and the cursor start over.
Restarted(t) ==
    [t EXCEPT !.tpmCommitted = 0,
              !.queue = <<[kind |-> "reset", seq |-> 0, screen |-> {}]>>]

\* The first frame of a run, in ascending order.
First(n, S) == n \in S /\ \A m \in S : n <= m

Arriving(c, kind) == wire[c] # <<>> /\ Head(wire[c]).kind = kind

\* The rest of the run or reply at the head of the wire.
Remaining(c, item) == [wire EXCEPT ![c] = <<item>> \o Tail(@)]

ReceiveReset(c) ==
    /\ Arriving(c, "attached") /\ Head(wire[c]).reset
    /\ term' = [term EXCEPT ![c] = Restarted(@)]
    /\ wire' = Remaining(c, [Head(wire[c]) EXCEPT !.reset = FALSE])
    /\ UNCHANGED <<next, outs, buf, handle, inbox, breaks>>

ReceiveSnapshot(c) ==
    /\ Arriving(c, "attached") /\ ~Head(wire[c]).reset
    /\ LET reply == Head(wire[c])
       IN  /\ reply.snapshot # NoCheckpoint
           /\ term' = [term EXCEPT ![c] = Enqueued(@,
                [kind |-> "snapshot", seq |-> reply.snapshot, screen |-> reply.screen])]
           /\ wire' = Remaining(c, [reply EXCEPT !.snapshot = NoCheckpoint, !.screen = {}])
    /\ UNCHANGED <<next, outs, buf, handle, inbox, breaks>>

Frame(n) == [kind |-> "frame", seq |-> n, screen |-> {}]

\* handleBinaryFrame(REPLAY): handed on whatever latestReceivedSequence says.
ReceiveReplay(c) ==
    /\ Arriving(c, "attached") /\ ~Head(wire[c]).reset
    /\ Head(wire[c]).snapshot = NoCheckpoint
    /\ \E n \in Head(wire[c]).frames :
          /\ First(n, Head(wire[c]).frames)
          /\ term' = [term EXCEPT ![c] = Enqueued(@, Frame(n))]
          /\ wire' = Remaining(c, [Head(wire[c]) EXCEPT !.frames = @ \ {n}])
    /\ UNCHANGED <<next, outs, buf, handle, inbox, breaks>>

\* The Attached control frame ends the reply: attach sets latestReceivedSequence.
ReceiveAttached(c) ==
    /\ Arriving(c, "attached") /\ ~Head(wire[c]).reset
    /\ Head(wire[c]).snapshot = NoCheckpoint /\ Head(wire[c]).frames = {}
    /\ term' = [term EXCEPT ![c].phase = "attached", ![c].received = Head(wire[c]).latest]
    /\ wire' = [wire EXCEPT ![c] = Tail(@)]
    /\ UNCHANGED <<next, outs, buf, handle, inbox, breaks>>

\* handleBinaryFrame(OUTPUT): a number that is not new is dropped.
ReceiveOutput(c) ==
    /\ Arriving(c, "output")
    /\ \E n \in Head(wire[c]).frames :
          /\ First(n, Head(wire[c]).frames)
          /\ term' = [term EXCEPT ![c] =
                IF n <= @.received THEN @ ELSE Enqueued([@ EXCEPT !.received = n], Frame(n))]
          /\ wire' = IF Head(wire[c]).frames = {n}
                     THEN [wire EXCEPT ![c] = Tail(@)]
                     ELSE Remaining(c, OutputRun(Head(wire[c]).frames \ {n}))
    /\ UNCHANGED <<next, outs, buf, handle, inbox, breaks>>

Receive(c) ==
    \/ ReceiveReset(c) \/ ReceiveSnapshot(c) \/ ReceiveReplay(c)
    \/ ReceiveAttached(c) \/ ReceiveOutput(c)

-----------------------------------------------------------------------------
(* The client: rendering, acknowledging and checkpointing *)

\* What the write of one queued frame makes of the screen.
Drawn(t, item) ==
    CASE item.kind = "reset" -> [t EXCEPT !.shown = {}, !.garbled = FALSE]
      [] item.kind = "snapshot" ->
            [t EXCEPT !.shown = @ \cup item.screen, !.garbled = @ \/ t.shown # {}]
      [] item.kind = "frame" /\ item.seq \in outs ->
            [t EXCEPT !.shown = @ \cup {item.seq},
                      !.garbled = @ \/ \E m \in t.shown : m >= item.seq]
      [] item.kind = "frame" /\ item.seq \notin outs -> t

\* drainCommittedOutput: both cursors advance to the frame.
Committed(t, item) ==
    [Drawn(t, item) EXCEPT !.queue = Tail(@),
        !.tpmCommitted = Larger(@, item.seq), !.committed = Larger(@, item.seq)]

\* acknowledge sends an ACK for text, while the socket is open.
Acknowledges(c, item) ==
    /\ term[c].phase # "offline"
    /\ \/ item.kind = "frame" /\ item.seq \in outs
       \/ item.kind = "snapshot" /\ item.screen # {}

\* xterm's write callback commits the oldest queued frame.
Render(c) ==
    /\ term[c].queue # <<>>
    /\ LET item == Head(term[c].queue)
       IN  /\ term' = [term EXCEPT ![c] = Committed(@, item)]
           /\ IF Acknowledges(c, item)
              THEN /\ Len(inbox[c]) < InboxMax
                   /\ inbox' = [inbox EXCEPT ![c] = Append(@, Ack(item.seq, 1))]
              ELSE UNCHANGED inbox
    /\ UNCHANGED <<next, outs, buf, handle, wire, breaks>>

\* The screens that serializeAfterWriteBarrier may hand to checkpoint.  It reads
\* the screen in xterm's write callback; the sequence is read a microtask later,
\* after the callbacks of the writes that xterm processed in the same loop.
SerializedScreens(t) ==
    IF SnapshotRace THEN {{n \in t.shown : n <= k} : k \in 0..t.tpmCommitted} ELSE {t.shown}

\* TerminalProcessManager.checkpoint: the screen is uploaded under the sequence
\* committed by now.  At most one upload is in flight.
UploadCheckpoint(c) ==
    /\ c \in Checkpointers
    /\ term[c].phase = "attached"
    /\ Len(inbox[c]) < InboxMax
    /\ \A i \in DOMAIN inbox[c] : inbox[c][i].type # "checkpoint"
    /\ \E screen \in SerializedScreens(term[c]) :
          inbox' = [inbox EXCEPT ![c] = Append(@, Checkpoint(term[c].tpmCommitted, screen))]
    /\ UNCHANGED <<next, outs, buf, handle, wire, term, breaks>>

-----------------------------------------------------------------------------
Daemon(c) ==
    \/ AttachSnapshot(c) \/ AttachReply(c) \/ AttachComplete(c)
    \/ HandleAck(c) \/ HandleCheckpoint(c)

Faults(c) == WriterCloses(c) \/ Break(c) \/ Restart(c)

Next ==
    \/ Emit
    \/ Resize
    \/ \E c \in Clients :
          \/ Daemon(c)
          \/ Connect(c) \/ HangUp(c) \/ Faults(c)
          \/ Receive(c) \/ Render(c)
          \/ UploadCheckpoint(c)

Spec == Init /\ [][Next]_vars

\* The connection threads, the writer threads and the browser's event loop keep
\* running, a closed socket is noticed, and a client retries its connection; the
\* program in the terminal, resizes, snapshots and faults owe nothing.
Fairness ==
    \A c \in Clients :
        /\ WF_vars(Daemon(c)) /\ WF_vars(Connect(c)) /\ WF_vars(HangUp(c))
        /\ WF_vars(Receive(c)) /\ WF_vars(Render(c))

FairSpec == Spec /\ Fairness

-----------------------------------------------------------------------------
(* Properties *)

\* Flow control and the attach barrier: the ACK cursor never passes the send
\* cursor, the send cursor never passes the session's numbering, a client over
\* the high watermark is paused, and what is unacknowledged is bounded by the
\* high watermark and the frames an attach may hold back.
FlowControl ==
    \A c \in Clients :
        LET h == handle[c]
        IN  /\ h.lastAcked <= h.lastSent /\ h.lastSent < next
            /\ h.unacked >= High => h.paused
            /\ h.unacked <= Larger(High, AttachMax)

\* A client that is attached, past its attach and not paused has been sent every
\* output of the session: nothing waits that no ACK would release.
NothingWithheld ==
    \A c \in Clients :
        LET h == handle[c]
        IN  h.attached /\ ~h.paused /\ ~h.closed => \A n \in outs : n <= h.lastSent

\* The outputs on a screen have no hole, unless a reconnect resumed after a stale
\* cursor: between the first and the last one shown, every output of the session
\* is shown.  Output that the buffer had to drop is missing only before the first
\* one, after a reset.
NoHole ==
    \A c \in Clients : ~term[c].stale => \A n \in outs :
        (\E a, b \in term[c].shown : a < n /\ n < b) => n \in term[c].shown

\* No output is on a screen twice, out of order or next to a snapshot that
\* contains it.
NoGarble == \A c \in Clients : ~term[c].garbled

\* While the buffer has dropped nothing, a screen shows every output up to the
\* terminal's cursor, unless a reconnect resumed after a stale one.
NothingLost ==
    ~buf.truncated =>
        \A c \in Clients : ~term[c].stale => \A n \in outs :
            n <= term[c].tpmCommitted => n \in term[c].shown

\* What the client promises itself and a second disconnect breaks: it resumes after
\* what its terminal shows.  A reset takes back the terminal's cursor, not the socket's.
ResumesAfterShown == \A c \in Clients : ~term[c].stale

\* What the daemon counts as unacknowledged is what it has sent since the last ACK it
\* accepted: an ACK gives its credit once and to the output it is for, whatever late,
\* repeated or replay-caused ACKs arrive and whatever an attach holds back.
CreditExact ==
    \A c \in Clients :
        LET h == handle[c]
        IN  h.unacked = Cardinality({n \in outs : h.lastAcked < n /\ n <= h.lastSent})

\* A terminal that keeps rendering ends up showing all of the session's output,
\* whatever pauses, disconnects and resizes happened on the way.
CaughtUp ==
    \A c \in Clients : <>[](term[c].phase = "attached" /\ outs \subseteq term[c].shown)

\* The session and its terminals implement the stream: see PrefixStream.
Stream == INSTANCE PrefixStream
             WITH stream <- outs, screen <- [c \in Clients |-> term[c].shown]

ImplementsStream == Stream!Spec
=============================================================================
