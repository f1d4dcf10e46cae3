----------------------- MODULE OutputDeliveryProofs ------------------------
(***************************************************************************)
(* Proofs about the replay buffer and the delivery built on it:            *)
(*   - OutputDelivery, for any number of clients and sequence numbers, any *)
(*     watermarks and any buffer sizes;                                    *)
(*   - SpoolFaults, from "The spool file" on, for any buffer sizes and any *)
(*     number of events and of faults of the disk.                         *)
(***************************************************************************)
EXTENDS OutputDelivery, SpoolFaults, FiniteSetTheorems, WellFoundedInduction, TLAPS

-----------------------------------------------------------------------------
(* Types of the parts *)

Replies == [kind: {"attached"}, reset: BOOLEAN, snapshot: Nat \cup {NoCheckpoint},
            screen: SUBSET Nat, frames: SUBSET Nat, latest: Nat]

\* What the daemon puts on the wire, and what is in a reply that comes off it.
LEMMA WireTypes ==
    /\ \A S \in SUBSET Nat : OutputRun(S) \in WireItem
    /\ \A w \in Replies : w \in WireItem
    /\ \A w \in WireItem : w.kind = "attached" => w \in Replies
    /\ \A w \in WireItem : w.frames \in SUBSET Nat
    /\ NoReply \in Replies
  BY DEF WireItem, Replies, OutputRun, NoReply, Reply, NoCheckpoint

LEMMA RequestTypes ==
    ASSUME NEW n \in Nat, NEW S \in SUBSET Nat
    PROVE  Ack(n, 1) \in Request /\ Attach(n) \in Request /\ Checkpoint(n, S) \in Request
  BY DEF Ack, Attach, Checkpoint, Request

LEMMA CountedType ==
    ASSUME NEW h \in Handle, NEW chars \in Nat, NEW last \in Nat
    PROVE  Counted(h, chars, last) \in Handle
<1> DEFINE n == h.unacked + chars
           b == h.paused \/ h.unacked + chars >= High
<1>1. n \in Nat
  BY DEF Handle
<1>2. b \in BOOLEAN
  OBVIOUS
<1> HIDE DEF n, b
<1>3. [h EXCEPT !.unacked = n, !.lastSent = last, !.paused = b] \in Handle
  BY <1>1, <1>2, Zenon DEF Handle
<1> QED
  BY <1>3 DEF Counted, n, b

LEMMA DroppedType ==
    ASSUME NEW h \in Handle
    PROVE  Cleared(h) \in Handle /\ Dropped(h) \in Handle
<1>1. 0 \in Nat
  OBVIOUS
<1>2. Cleared(h) \in Handle
  BY <1>1, Zenon DEF Cleared, Handle
<1>3. Dropped(h) \in Handle
  BY <1>2, Zenon DEF Dropped, Handle
<1> QED
  BY <1>2, <1>3

LEMMA PushedType ==
    ASSUME NEW h \in Handle, NEW n \in Nat
    PROVE  Pushed(h, n) \in Handle
<1> DEFINE held == [Counted(h, 1, n) EXCEPT !.attaching = @ \cup {n}]
<1>1. held \in Handle
  <2>1. Counted(h, 1, n) \in Handle
    BY CountedType
  <2> QED
    BY <2>1, Zenon DEF Handle
<1>2. Pushed(h, n) \in {h, held, Dropped(held), [h EXCEPT !.paused = TRUE], Dropped(h),
                        Counted(h, 1, n)}
  BY DeliveryConstants DEF Pushed, Handle
<1>3. [h EXCEPT !.paused = TRUE] \in Handle
  BY Zenon DEF Handle
<1> HIDE DEF held
<1> QED
  BY <1>1, <1>2, <1>3, CountedType, DroppedType

LEMMA AckedType ==
    ASSUME NEW h \in Handle, NEW ack \in Request
    PROVE  Acked(h, ack) \in Handle
<1>1. Monus(h.unacked, ack.chars) \in Nat /\ ack.seq \in Nat
  BY DEF Handle, Request, Monus
<1> QED
  BY <1>1, Zenon DEF Acked, Handle

LEMMA NewHandleType == NewHandle \in Handle
<1>1. NoReply \in WireItem /\ 0 \in Nat
  BY WireTypes
<1> QED
  BY <1>1, Zenon DEF NewHandle, Handle

LEMMA BufferTypes ==
    ASSUME NEW b \in Buffer, NEW S \in SUBSET Nat, NEW n \in Nat, NEW screen \in SUBSET Nat
    PROVE  /\ EmptyBuffer \in Buffer
           /\ PushOutput(b, S, n) \in Buffer
           /\ PushResize(b, S, n) \in Buffer
           /\ AcceptCheckpoint(b, n, screen) \in Buffer
           /\ LiveFrames(b) \in SUBSET Nat
<1>1. EmptyBuffer \in Buffer
  BY DEF EmptyBuffer, Buffer, NoCheckpoint
<1>2. PushOutput(b, S, n) \in Buffer
  <2> DEFINE all  == b.mem \cup {n}
             mem  == Newest(all, S, MemMax)
             disk == b.spool \cup (all \ mem)
             kept == Newest(disk, S, SpoolMax)
             trunc == b.truncated \/ kept # disk
  <2>1. mem \in SUBSET Nat /\ kept \in SUBSET Nat
    BY DEF Newest, Buffer
  <2>2. trunc \in BOOLEAN
    OBVIOUS
  <2>3. PushOutput(b, S, n) = [b EXCEPT !.mem = mem, !.spool = kept, !.truncated = trunc]
    BY DEF PushOutput, Settled, Buffer
  <2> HIDE DEF mem, kept, trunc
  <2> QED
    BY <2>1, <2>2, <2>3, Zenon DEF Buffer
<1>3. PushResize(b, S, n) \in Buffer
  <2> DEFINE mem == (b.mem \ {m \in b.mem \ S : \A k \in b.mem : k <= m}) \cup {n}
  <2>1. mem \in SUBSET Nat
    BY DEF Buffer
  <2>2. PushResize(b, S, n) = [b EXCEPT !.mem = mem]
    BY DEF PushResize
  <2> HIDE DEF mem
  <2> QED
    BY <2>1, <2>2, Zenon DEF Buffer
<1>4. AcceptCheckpoint(b, n, screen) \in Buffer
  <2> DEFINE mem == {m \in b.mem : m > n}
             spool == {m \in b.spool : m > n}
  <2>1. mem \in SUBSET Nat /\ spool \in SUBSET Nat
    BY DEF Buffer
  <2>2. \/ AcceptCheckpoint(b, n, screen) = b
        \/ AcceptCheckpoint(b, n, screen) =
              [b EXCEPT !.checkpoint = n, !.screen = screen, !.mem = mem, !.spool = spool]
    BY DEF AcceptCheckpoint
  <2> HIDE DEF mem, spool
  <2> QED
    BY <2>1, <2>2, Zenon DEF Buffer
<1>5. LiveFrames(b) \in SUBSET Nat
  BY DEF LiveFrames, Buffer
<1> QED
  BY <1>1, <1>2, <1>3, <1>4, <1>5

LEMMA TerminalTypes ==
    ASSUME NEW t \in Terminal
    PROVE  /\ NewTerminal \in Terminal
           /\ \A item \in QueueItem : Enqueued(t, item) \in Terminal
           /\ Restarted(t) \in Terminal
           /\ t.queue # <<>> => /\ Head(t.queue) \in QueueItem
                                /\ Committed(t, Head(t.queue)) \in Terminal
<1>0. 0 \in Nat
  OBVIOUS
<1>1. NewTerminal \in Terminal
  <2>1. <<>> \in Seq(QueueItem)
    OBVIOUS
  <2> QED
    BY <1>0, <2>1, Zenon DEF NewTerminal, Terminal
<1>2. ASSUME NEW item \in QueueItem PROVE Enqueued(t, item) \in Terminal
  <2>1. Append(t.queue, item) \in Seq(QueueItem)
    BY DEF Terminal
  <2>2. [t EXCEPT !.queue = Append(@, item)] \in Terminal
    BY <2>1, Zenon DEF Terminal
  <2> QED
    BY <2>2 DEF Enqueued
<1>3. Restarted(t) \in Terminal
  <2>1. <<[kind |-> "reset", seq |-> 0, screen |-> {}]>> \in Seq(QueueItem)
    BY DEF QueueItem
  <2> QED
    BY <1>0, <2>1, Zenon DEF Restarted, Terminal
<1>4. ASSUME t.queue # <<>>
      PROVE  Head(t.queue) \in QueueItem /\ Committed(t, Head(t.queue)) \in Terminal
  <2> DEFINE item == Head(t.queue)
             rest == Tail(t.queue)
  <2>1. /\ item \in QueueItem /\ rest \in Seq(QueueItem) /\ item.seq \in Nat
        /\ item.screen \in SUBSET Nat
    <3>1. t.queue \in Seq(QueueItem)
      BY DEF Terminal
    <3>2. item \in QueueItem /\ rest \in Seq(QueueItem)
      BY <1>4, <3>1
    <3> HIDE DEF item, rest
    <3> QED
      BY <3>2 DEF QueueItem
  <2> HIDE DEF item, rest
  <2>2. Drawn(t, item) \in Terminal
    <3> DEFINE b == t.garbled \/ t.shown # {}
               d == t.garbled \/ \E m \in t.shown : m >= item.seq
               s == t.shown \cup item.screen
               u == t.shown \cup {item.seq}
    <3>1. b \in BOOLEAN /\ d \in BOOLEAN
      OBVIOUS
    <3>2. s \in SUBSET Nat /\ u \in SUBSET Nat
      BY <2>1 DEF Terminal
    <3>3. Drawn(t, item) \in {[t EXCEPT !.shown = {}, !.garbled = FALSE],
                              [t EXCEPT !.shown = s, !.garbled = b],
                              [t EXCEPT !.shown = u, !.garbled = d], t}
      BY <2>1 DEF Drawn, QueueItem
    <3> HIDE DEF b, d, s, u
    <3>4. [t EXCEPT !.shown = {}, !.garbled = FALSE] \in Terminal
      BY Zenon DEF Terminal
    <3>5. [t EXCEPT !.shown = s, !.garbled = b] \in Terminal
      BY <3>1, <3>2, Zenon DEF Terminal
    <3>6. [t EXCEPT !.shown = u, !.garbled = d] \in Terminal
      BY <3>1, <3>2, Zenon DEF Terminal
    <3> QED
      BY <3>3, <3>4, <3>5, <3>6
  <2>3. Drawn(t, item).queue = t.queue
    BY <2>1 DEF Drawn, Terminal, QueueItem
  <2> DEFINE drawn == Drawn(t, item)
             m == Larger(drawn.tpmCommitted, item.seq)
             n == Larger(drawn.committed, item.seq)
  <2>4. m \in Nat /\ n \in Nat
    BY <2>1, <2>2 DEF Terminal, Larger
  <2>5. Committed(t, item) =
           [drawn EXCEPT !.queue = rest, !.tpmCommitted = m, !.committed = n]
    BY <2>2, <2>3 DEF Committed, rest, Terminal
  <2> HIDE DEF drawn, m, n
  <2>6. drawn \in Terminal
    BY <2>2 DEF drawn
  <2>7. Committed(t, item) \in Terminal
    BY <2>1, <2>4, <2>5, <2>6, Zenon DEF Terminal
  <2> QED
    BY <2>1, <2>7 DEF item
<1> QED
  BY <1>1, <1>2, <1>3, <1>4

-----------------------------------------------------------------------------
(* Type correctness *)

\* The outputs have been numbered by the session.  TypeOK needs it: what a flush
\* adds to a client's count is a number because the outputs are finitely many.
Numbered == outs \subseteq 1..(next - 1)
TypeInv == TypeOK /\ Numbered

LEMMA TypeInit == Init => TypeInv
<1> SUFFICES ASSUME Init PROVE TypeOK /\ Numbered
  BY DEF TypeInv
<1>1. /\ EmptyBuffer \in Buffer /\ NewHandle \in Handle /\ NewTerminal \in Terminal
      /\ 1 \in Nat /\ 0 \in Nat
  <2>1. EmptyBuffer \in Buffer
    BY DEF EmptyBuffer, Buffer, NoCheckpoint
  <2>2. NewTerminal \in Terminal
    <3>1. 0 \in Nat /\ <<>> \in Seq(QueueItem)
      OBVIOUS
    <3> QED
      BY <3>1, Zenon DEF NewTerminal, Terminal
  <2> QED
    BY <2>1, <2>2, NewHandleType
<1> QED
  BY <1>1 DEF Init, TypeOK, Numbered

\* Taking a request off the inbox.
LEMMA ReceivesType ==
    ASSUME TypeOK, NEW c \in Clients, NEW type, Receives(c, type)
    PROVE  Head(inbox[c]) \in Request /\ inbox' \in [Clients -> Seq(Request)]
<1>1. inbox[c] \in Seq(Request) /\ inbox[c] # <<>>
  BY DEF TypeOK, Receives
<1>2. Head(inbox[c]) \in Request /\ Tail(inbox[c]) \in Seq(Request)
  BY <1>1
<1> QED
  BY <1>2 DEF TypeOK, Receives

\* Sending a request.
LEMMA SendsType ==
    ASSUME TypeOK, NEW c \in Clients, NEW request \in Request,
           inbox' = [inbox EXCEPT ![c] = Append(@, request)]
    PROVE  inbox' \in [Clients -> Seq(Request)]
<1>1. Append(inbox[c], request) \in Seq(Request)
  BY DEF TypeOK
<1> QED
  BY <1>1 DEF TypeOK

\* Queueing one item on the wire, and taking one off.
LEMMA QueuesType ==
    ASSUME TypeOK, NEW c \in Clients, NEW item \in WireItem
    PROVE  [wire EXCEPT ![c] = Append(@, item)] \in [Clients -> Seq(WireItem)]
<1>1. Append(wire[c], item) \in Seq(WireItem)
  BY DEF TypeOK
<1> QED
  BY <1>1 DEF TypeOK

LEMMA ArrivesType ==
    ASSUME TypeOK, NEW c \in Clients, wire[c] # <<>>
    PROVE  /\ Head(wire[c]) \in WireItem
           /\ [wire EXCEPT ![c] = Tail(@)] \in [Clients -> Seq(WireItem)]
           /\ \A item \in WireItem : Remaining(c, item) \in [Clients -> Seq(WireItem)]
<1>1. wire[c] \in Seq(WireItem)
  BY DEF TypeOK
<1>2. Head(wire[c]) \in WireItem /\ Tail(wire[c]) \in Seq(WireItem)
  BY <1>1
<1>3. ASSUME NEW item \in WireItem PROVE Remaining(c, item) \in [Clients -> Seq(WireItem)]
  <2>1. <<item>> \in Seq(WireItem)
    OBVIOUS
  <2>2. <<item>> \o Tail(wire[c]) \in Seq(WireItem)
    BY <1>2, <2>1
  <2> QED
    BY <2>2 DEF TypeOK, Remaining
<1> QED
  BY <1>2, <1>3 DEF TypeOK

\* What flush_buffered_output_locked sends is a finite batch of outputs within
\* the client's credit, and the send cursor moves to its end.
LEMMA FlushShape ==
    ASSUME TypeInv, NEW c \in Clients, NEW h \in Handle, Flush(c, h)
    PROVE  \E batch \in SUBSET outs : \E last \in Nat :
              /\ IsFiniteSet(batch) /\ Cardinality(batch) \in Nat
              /\ Cardinality(batch) <= High - h.unacked
              /\ last >= h.lastSent /\ (last = h.lastSent \/ last \in outs)
              /\ \/ /\ handle' = [handle EXCEPT ![c] = Dropped(h)]
                    /\ wire' = wire
                 \/ LET sent == Counted(h, Cardinality(batch), last)
                    IN  /\ handle' = [handle EXCEPT ![c] =
                                         [sent EXCEPT !.paused = sent.unacked > Low]]
                        /\ \/ wire' = wire
                           \/ wire' = [wire EXCEPT ![c] = Append(@, OutputRun(batch))]
<1> DEFINE missed == {n \in LiveFrames(buf) \cap outs : n > h.lastSent}
<1>1. PICK last \in missed \cup {h.lastSent} :
         LET batch == {n \in missed : n <= last}
             sent  == Counted(h, Cardinality(batch), last)
         IN  /\ Cardinality(batch) <= High - h.unacked
             /\ IF batch # {} /\ h.closed
                THEN handle' = [handle EXCEPT ![c] = Dropped(h)] /\ UNCHANGED wire
                ELSE /\ handle' = [handle EXCEPT ![c] =
                                      [sent EXCEPT !.paused = sent.unacked > Low]]
                     /\ wire' = IF batch = {} THEN wire
                                ELSE [wire EXCEPT ![c] = Append(@, OutputRun(batch))]
  BY DEF Flush
<1> DEFINE batch == {n \in missed : n <= last}
<1>2. batch \in SUBSET outs
  OBVIOUS
<1>3. IsFiniteSet(batch) /\ Cardinality(batch) \in Nat
  <2>1. next - 1 \in Int /\ 1 \in Int
    BY DEF TypeInv, TypeOK
  <2>2. IsFiniteSet(1..(next - 1))
    BY <2>1, FS_Interval
  <2>3. IsFiniteSet(batch)
    BY <1>2, <2>2, FS_Subset DEF TypeInv, Numbered
  <2> QED
    BY <2>3, FS_CardinalityType
<1>4. last \in Nat /\ last >= h.lastSent /\ (last = h.lastSent \/ last \in outs)
  <2>1. h.lastSent \in Nat /\ outs \in SUBSET Nat
    BY DEF TypeInv, TypeOK, Handle
  <2>2. CASE last = h.lastSent
    BY <2>1, <2>2
  <2>3. CASE last \in outs /\ last > h.lastSent
    <3>1. last \in Nat /\ last >= h.lastSent
      BY <2>1, <2>3
    <3> QED
      BY <2>3, <3>1
  <2> QED
    BY <2>2, <2>3
<1> HIDE DEF missed
<1>5. /\ Cardinality(batch) <= High - h.unacked
      /\ \/ /\ handle' = [handle EXCEPT ![c] = Dropped(h)]
            /\ wire' = wire
         \/ LET sent == Counted(h, Cardinality(batch), last)
            IN  /\ handle' = [handle EXCEPT ![c] =
                                 [sent EXCEPT !.paused = sent.unacked > Low]]
                /\ \/ wire' = wire
                   \/ wire' = [wire EXCEPT ![c] = Append(@, OutputRun(batch))]
  BY <1>1
<1> HIDE DEF batch
<1> QED
  BY <1>2, <1>3, <1>4, <1>5

LEMMA TypeStep == TypeInv /\ [Next]_vars => TypeOK'
<1> SUFFICES ASSUME TypeInv, TypeOK, [Next]_vars PROVE TypeOK'
  BY DEF TypeInv
<1>0. /\ next \in Nat \ {0} /\ outs \in SUBSET Nat /\ buf \in Buffer /\ breaks \in Nat
      /\ handle \in [Clients -> Handle] /\ wire \in [Clients -> Seq(WireItem)]
      /\ inbox \in [Clients -> Seq(Request)] /\ term \in [Clients -> Terminal]
  BY DEF TypeOK
<1>1. CASE Emit
  <2>1. outs' \in SUBSET Nat /\ next' \in Nat \ {0}
    BY <1>0, <1>1 DEF Emit
  <2>2. buf' \in Buffer
    BY <1>0, <1>1, <2>1, BufferTypes DEF Emit
  <2>3. handle' \in [Clients -> Handle]
    BY <1>0, <1>1, PushedType DEF Emit
  <2>4. wire' \in [Clients -> Seq(WireItem)]
    <3>1. OutputRun({next}) \in WireItem
      BY <1>0, WireTypes
    <3>2. \A c \in Clients : /\ wire[c] \in Seq(WireItem)
                             /\ Append(wire[c], OutputRun({next})) \in Seq(WireItem)
      BY <1>0, <3>1
    <3> QED
      BY <1>1, <3>2 DEF Emit
  <2> QED
    BY <1>0, <1>1, <2>1, <2>2, <2>3, <2>4 DEF Emit, TypeOK
<1>2. CASE Resize
  <2>1. next' \in Nat \ {0}
    BY <1>0, <1>2 DEF Resize
  <2>2. buf' \in Buffer
    <3>1. buf' = PushResize(buf, outs, next) /\ next \in Nat
      BY <1>0, <1>2 DEF Resize
    <3> QED
      BY <1>0, <3>1, BufferTypes
  <2> QED
    BY <1>0, <1>2, <2>1, <2>2 DEF Resize, TypeOK
<1>3. ASSUME NEW c \in Clients, AttachSnapshot(c) PROVE TypeOK'
  <2>1. Head(inbox[c]) \in Request /\ inbox' \in [Clients -> Seq(Request)]
    BY <1>3, ReceivesType DEF AttachSnapshot
  <2> DEFINE after  == Head(inbox[c]).seq
             reset  == after = 0 \/ OldestAfter(buf, after + 1)
             frames == {n \in LiveFrames(buf) : reset \/ n > after}
             snapshot == IF reset \/ buf.checkpoint > after
                         THEN buf.checkpoint ELSE NoCheckpoint
             reply == Reply(reset, snapshot, buf.screen, frames, next - 1)
             sent == next - 1
  <2>2. sent \in Nat
    BY <1>0
  <2>3. reply \in WireItem
    <3>1. /\ reset \in BOOLEAN /\ snapshot \in Nat \cup {NoCheckpoint}
          /\ buf.screen \in SUBSET Nat
      BY <1>0 DEF Buffer
    <3>2. frames \in SUBSET Nat
      BY <1>0, BufferTypes
    <3> HIDE DEF reset, snapshot, frames, sent
    <3>3. Reply(reset, snapshot, buf.screen, frames, sent) \in Replies
      BY <2>2, <3>1, <3>2, Zenon DEF Reply, Replies
    <3> QED
      BY <3>3, WireTypes DEF sent
  <2>4. handle' = [handle EXCEPT ![c] =
              [@ EXCEPT !.attached = TRUE, !.unacked = 0, !.paused = FALSE,
                        !.lastSent = sent, !.lastAcked = sent, !.attaching = {},
                        !.stage = "snapshot", !.reply = reply]]
    BY <1>3 DEF AttachSnapshot
  <2> HIDE DEF sent, reply
  <2>5. handle[c] \in Handle /\ 0 \in Nat
    BY <1>0
  <2>6. [handle[c] EXCEPT !.attached = TRUE, !.unacked = 0, !.paused = FALSE,
                          !.lastSent = sent, !.lastAcked = sent, !.attaching = {},
                          !.stage = "snapshot", !.reply = reply] \in Handle
    BY <2>2, <2>3, <2>5, Zenon DEF Handle
  <2>7. handle' \in [Clients -> Handle]
    BY <1>0, <2>4, <2>6
  <2> QED
    BY <1>0, <1>3, <2>1, <2>7 DEF AttachSnapshot, TypeOK
<1>4. ASSUME NEW c \in Clients, AttachReply(c) PROVE TypeOK'
  <2>1. handle[c].reply \in WireItem
    BY <1>0 DEF Handle
  <2>2. wire' \in [Clients -> Seq(WireItem)]
    BY <1>4, <2>1, QueuesType DEF AttachReply
  <2>3. handle[c] \in Handle /\ NoReply \in WireItem
    BY <1>0, WireTypes
  <2>4. [handle[c] EXCEPT !.stage = "replied", !.reply = NoReply] \in Handle
    BY <2>3, Zenon DEF Handle
  <2>5. handle' \in [Clients -> Handle]
    BY <1>0, <1>4, <2>4 DEF AttachReply
  <2> QED
    BY <1>0, <1>4, <2>2, <2>5 DEF AttachReply, TypeOK
<1>5. ASSUME NEW c \in Clients, AttachComplete(c) PROVE TypeOK'
  <2> DEFINE h == [handle[c] EXCEPT !.stage = "idle", !.attaching = {}]
             held == handle[c].attaching
  <2>1. h \in Handle /\ held \in SUBSET Nat
    BY <1>0, Zenon DEF Handle
  <2>2. OutputRun(held) \in WireItem /\ Dropped(h) \in Handle
    BY <2>1, WireTypes, DroppedType
  <2>3. /\ handle' = [handle EXCEPT ![c] = Dropped(h)] \/ handle' = [handle EXCEPT ![c] = h]
        /\ wire' = [wire EXCEPT ![c] = Append(@, OutputRun(held))] \/ wire' = wire
    BY <1>5 DEF AttachComplete
  <2> HIDE DEF h, held
  <2>4. handle' \in [Clients -> Handle]
    BY <1>0, <2>1, <2>2, <2>3
  <2>5. [wire EXCEPT ![c] = Append(@, OutputRun(held))] \in [Clients -> Seq(WireItem)]
    BY <2>2, QueuesType
  <2>6. wire' \in [Clients -> Seq(WireItem)]
    BY <1>0, <2>3, <2>5
  <2> QED
    BY <1>0, <1>5, <2>4, <2>6 DEF AttachComplete, TypeOK
<1>6. ASSUME NEW c \in Clients, HandleAck(c) PROVE TypeOK'
  <2> DEFINE acked == Acked(handle[c], Head(inbox[c]))
  <2>1. Head(inbox[c]) \in Request /\ inbox' \in [Clients -> Seq(Request)]
    BY <1>6, ReceivesType DEF HandleAck
  <2>2. acked \in Handle /\ Dropped(acked) \in Handle
    BY <1>0, <2>1, AckedType, DroppedType
  <2> HIDE DEF acked
  <2>3. ASSUME Flush(c, acked)
        PROVE  handle' \in [Clients -> Handle] /\ wire' \in [Clients -> Seq(WireItem)]
    <3>1. PICK batch \in SUBSET outs, last \in Nat :
              /\ Cardinality(batch) \in Nat
              /\ \/ /\ handle' = [handle EXCEPT ![c] = Dropped(acked)]
                    /\ wire' = wire
                 \/ LET sent == Counted(acked, Cardinality(batch), last)
                    IN  /\ handle' = [handle EXCEPT ![c] =
                                         [sent EXCEPT !.paused = sent.unacked > Low]]
                        /\ \/ wire' = wire
                           \/ wire' = [wire EXCEPT ![c] = Append(@, OutputRun(batch))]
      BY <2>2, <2>3, FlushShape
    <3> DEFINE sent == Counted(acked, Cardinality(batch), last)
               paused == sent.unacked > Low
               credited == [sent EXCEPT !.paused = paused]
    <3>2. sent \in Handle
      BY <2>2, <3>1, CountedType
    <3>3. credited \in Handle
      <4>1. paused \in BOOLEAN
        OBVIOUS
      <4> HIDE DEF sent, paused
      <4> QED
        BY <3>2, <4>1, Zenon DEF Handle
    <3>4. OutputRun(batch) \in WireItem
      BY <1>0, WireTypes
    <3>5. /\ handle' = [handle EXCEPT ![c] = Dropped(acked)]
             \/ handle' = [handle EXCEPT ![c] = credited]
          /\ wire' = wire \/ wire' = [wire EXCEPT ![c] = Append(@, OutputRun(batch))]
      BY <3>1
    <3> HIDE DEF sent, credited
    <3>6. [wire EXCEPT ![c] = Append(@, OutputRun(batch))] \in [Clients -> Seq(WireItem)]
      BY <3>4, QueuesType
    <3>7. handle' \in [Clients -> Handle]
      BY <1>0, <2>2, <3>3, <3>5
    <3> QED
      BY <1>0, <3>5, <3>6, <3>7
  <2>4. handle' \in [Clients -> Handle] /\ wire' \in [Clients -> Seq(WireItem)]
    <3>1. CASE wire' = wire /\ (handle' = handle \/ handle' = [handle EXCEPT ![c] = acked]
                                 \/ handle' = [handle EXCEPT ![c] = Dropped(acked)])
      BY <1>0, <2>2, <3>1
    <3> QED
      BY <1>6, <2>3, <3>1 DEF HandleAck, acked
  <2> QED
    BY <1>0, <1>6, <2>1, <2>4 DEF HandleAck, TypeOK
<1>7. ASSUME NEW c \in Clients, HandleCheckpoint(c) PROVE TypeOK'
  <2>1. Head(inbox[c]) \in Request /\ inbox' \in [Clients -> Seq(Request)]
    BY <1>7, ReceivesType DEF HandleCheckpoint
  <2>2. Head(inbox[c]).seq \in Nat /\ Head(inbox[c]).screen \in SUBSET Nat
    BY <2>1 DEF Request
  <2>3. buf' \in Buffer
    <3>1. \/ buf' = buf
          \/ buf' = AcceptCheckpoint(buf, Head(inbox[c]).seq, Head(inbox[c]).screen)
      BY <1>7 DEF HandleCheckpoint
    <3> QED
      BY <1>0, <2>2, <3>1, BufferTypes
  <2>4. [handle[c] EXCEPT !.closed = TRUE] \in Handle
    BY <1>0, Zenon DEF Handle
  <2>5. handle' \in [Clients -> Handle]
    BY <1>0, <1>7, <2>4 DEF HandleCheckpoint
  <2> QED
    BY <1>0, <1>7, <2>1, <2>3, <2>5 DEF HandleCheckpoint, TypeOK
<1>8. ASSUME NEW c \in Clients, WriterCloses(c) PROVE TypeOK'
  <2>1. [handle[c] EXCEPT !.closed = TRUE] \in Handle
    BY <1>0, Zenon DEF Handle
  <2>2. handle' \in [Clients -> Handle] /\ breaks' \in Nat
    BY <1>0, <1>8, <2>1 DEF WriterCloses
  <2> QED
    BY <1>0, <1>8, <2>2 DEF WriterCloses, TypeOK
<1>9. ASSUME NEW c \in Clients, HangUp(c) \/ Break(c) \/ Restart(c) PROVE TypeOK'
  <2>1. /\ handle' = [handle EXCEPT ![c] = NewHandle] /\ wire' = [wire EXCEPT ![c] = <<>>]
        /\ inbox' = [inbox EXCEPT ![c] = <<>>] /\ UNCHANGED <<next, outs, buf>>
    BY <1>9 DEF HangUp, Break, Restart, Cut
  <2>2. [term[c] EXCEPT !.phase = "offline"] \in Terminal /\ NewTerminal \in Terminal
    <3>1. [term[c] EXCEPT !.phase = "offline"] \in Terminal
      BY <1>0, Zenon DEF Terminal
    <3> QED
      BY <1>0, <3>1, TerminalTypes
  <2>3. term' \in [Clients -> Terminal]
    BY <1>0, <1>9, <2>2 DEF HangUp, Break, Restart, GoOffline
  <2>4. breaks' \in Nat
    BY <1>0, <1>9 DEF HangUp, Break, Restart
  <2>5. <<>> \in Seq(WireItem) /\ <<>> \in Seq(Request)
    OBVIOUS
  <2> QED
    BY <1>0, <2>1, <2>3, <2>4, <2>5, NewHandleType DEF TypeOK
<1>10. ASSUME NEW c \in Clients, Connect(c) PROVE TypeOK'
  <2>1. term[c] \in Terminal /\ term[c].committed \in Nat
    BY <1>0 DEF Terminal
  <2> DEFINE b == term[c].stale \/ term[c].committed # term[c].tpmCommitted
  <2>2. \A x \in BOOLEAN : [term[c] EXCEPT !.phase = "attaching", !.received = term[c].committed,
                                         !.stale = x] \in Terminal
    BY <2>1, Zenon DEF Terminal
  <2>3. term' \in [Clients -> Terminal]
    <3>1. term' = [term EXCEPT ![c] = [term[c] EXCEPT !.phase = "attaching",
                                          !.received = term[c].committed, !.stale = b]]
      BY <1>0, <1>10, Zenon DEF Connect
    <3>2. b \in BOOLEAN
      OBVIOUS
    <3> HIDE DEF b
    <3> QED
      BY <1>0, <2>2, <3>1, <3>2
  <2>4. inbox' \in [Clients -> Seq(Request)]
    BY <1>10, <2>1, RequestTypes, SendsType DEF Connect
  <2> QED
    BY <1>0, <1>10, <2>3, <2>4 DEF Connect, TypeOK
<1>11. ASSUME NEW c \in Clients, Receive(c) PROVE TypeOK'
  <2> DEFINE w == Head(wire[c])
  <2>0. /\ wire[c] # <<>> /\ UNCHANGED <<next, outs, buf, handle, inbox, breaks>>
        /\ term[c] \in Terminal
    BY <1>0, <1>11 DEF Receive, ReceiveReset, ReceiveSnapshot, ReceiveReplay, ReceiveAttached,
                       ReceiveOutput, Arriving
  <2>1. /\ w \in WireItem /\ w.frames \in SUBSET Nat /\ (w.kind = "attached" => w \in Replies)
        /\ [wire EXCEPT ![c] = Tail(@)] \in [Clients -> Seq(WireItem)]
        /\ \A item \in WireItem : Remaining(c, item) \in [Clients -> Seq(WireItem)]
    BY <2>0, ArrivesType, WireTypes
  <2> HIDE DEF w
  <2> DEFINE Good == term' \in [Clients -> Terminal] /\ wire' \in [Clients -> Seq(WireItem)]
  <2>2. ASSUME ReceiveReset(c) PROVE Good
    <3>1. w.kind = "attached" /\ term' = [term EXCEPT ![c] = Restarted(@)]
          /\ wire' = Remaining(c, [w EXCEPT !.reset = FALSE])
      BY <2>2 DEF ReceiveReset, Arriving, w
    <3>2. [w EXCEPT !.reset = FALSE] \in Replies
      BY <2>1, <3>1, Zenon DEF Replies
    <3>3. Restarted(term[c]) \in Terminal
      BY <2>0, TerminalTypes
    <3> QED
      BY <1>0, <2>1, <3>1, <3>2, <3>3, WireTypes
  <2>3. ASSUME ReceiveSnapshot(c) PROVE Good
    <3> DEFINE item == [kind |-> "snapshot", seq |-> w.snapshot, screen |-> w.screen]
    <3>1. /\ w.kind = "attached" /\ w.snapshot # NoCheckpoint
          /\ term' = [term EXCEPT ![c] = Enqueued(@, item)]
          /\ wire' = Remaining(c, [w EXCEPT !.snapshot = NoCheckpoint, !.screen = {}])
      BY <2>3 DEF ReceiveSnapshot, Arriving, w
    <3>2. [w EXCEPT !.snapshot = NoCheckpoint, !.screen = {}] \in Replies
      BY <2>1, <3>1, Zenon DEF Replies
    <3>3. item \in QueueItem
      BY <2>1, <3>1 DEF Replies, QueueItem
    <3>4. Enqueued(term[c], item) \in Terminal
      BY <2>0, <3>3, TerminalTypes
    <3> HIDE DEF item
    <3> QED
      BY <1>0, <2>1, <3>1, <3>2, <3>4, WireTypes
  <2>4. ASSUME ReceiveReplay(c) PROVE Good
    <3>1. PICK n \in w.frames :
             /\ w.kind = "attached"
             /\ term' = [term EXCEPT ![c] = Enqueued(@, Frame(n))]
             /\ wire' = Remaining(c, [w EXCEPT !.frames = @ \ {n}])
      BY <2>4 DEF ReceiveReplay, Arriving, w
    <3> DEFINE rest == w.frames \ {n}
    <3>2. [w EXCEPT !.frames = rest] \in Replies
      <4>1. rest \in SUBSET Nat
        BY <2>1
      <4> HIDE DEF rest
      <4> QED
        BY <2>1, <3>1, <4>1, Zenon DEF Replies
    <3>3. Frame(n) \in QueueItem
      BY <2>1 DEF Frame, QueueItem
    <3>4. Enqueued(term[c], Frame(n)) \in Terminal
      BY <2>0, <3>3, TerminalTypes
    <3> QED
      BY <1>0, <2>1, <3>1, <3>2, <3>4, WireTypes
  <2>5. ASSUME ReceiveAttached(c) PROVE Good
    <3>1. /\ w.kind = "attached"
          /\ term' = [term EXCEPT ![c].phase = "attached", ![c].received = w.latest]
          /\ wire' = [wire EXCEPT ![c] = Tail(@)]
      BY <2>5 DEF ReceiveAttached, Arriving, w
    <3>2. w.latest \in Nat
      BY <2>1, <3>1 DEF Replies
    <3>3. [term[c] EXCEPT !.phase = "attached", !.received = w.latest] \in Terminal
      BY <2>0, <3>2, Zenon DEF Terminal
    <3> QED
      BY <1>0, <2>1, <3>1, <3>3
  <2>6. ASSUME ReceiveOutput(c) PROVE Good
    <3>1. PICK n \in w.frames :
             /\ term' = [term EXCEPT ![c] =
                    IF n <= @.received THEN @ ELSE Enqueued([@ EXCEPT !.received = n], Frame(n))]
             /\ \/ wire' = [wire EXCEPT ![c] = Tail(@)]
                \/ wire' = Remaining(c, OutputRun(w.frames \ {n}))
      BY <2>6 DEF ReceiveOutput, w
    <3>2. n \in Nat /\ OutputRun(w.frames \ {n}) \in WireItem
      <4>1. w.frames \ {n} \in SUBSET Nat
        BY <2>1
      <4> QED
        BY <2>1, <4>1, WireTypes
    <3>3. Frame(n) \in QueueItem
      BY <3>2 DEF Frame, QueueItem
    <3>4. [term[c] EXCEPT !.received = n] \in Terminal
      BY <2>0, <3>2, Zenon DEF Terminal
    <3>5. Enqueued([term[c] EXCEPT !.received = n], Frame(n)) \in Terminal
      BY <3>3, <3>4, TerminalTypes
    <3> QED
      BY <1>0, <2>0, <2>1, <3>1, <3>2, <3>5
  <2>7. Good
    <3> HIDE DEF Good
    <3> QED
      BY <1>11, <2>2, <2>3, <2>4, <2>5, <2>6 DEF Receive
  <2> QED
    BY <1>0, <2>0, <2>7 DEF TypeOK
<1>12. ASSUME NEW c \in Clients, Render(c) PROVE TypeOK'
  <2> DEFINE item == Head(term[c].queue)
  <2>1. item \in QueueItem /\ Committed(term[c], item) \in Terminal
    BY <1>0, <1>12, TerminalTypes DEF Render
  <2>2. term' \in [Clients -> Terminal]
    BY <1>0, <1>12, <2>1 DEF Render
  <2>3. inbox' = inbox \/ inbox' = [inbox EXCEPT ![c] = Append(@, Ack(item.seq, 1))]
    BY <1>12 DEF Render
  <2>4. Ack(item.seq, 1) \in Request
    BY <2>1, RequestTypes DEF QueueItem
  <2>5. inbox' \in [Clients -> Seq(Request)]
    BY <1>0, <2>3, <2>4, SendsType
  <2> QED
    BY <1>0, <1>12, <2>2, <2>5 DEF Render, TypeOK
<1>13. ASSUME NEW c \in Clients, UploadCheckpoint(c) PROVE TypeOK'
  <2>1. PICK screen \in SerializedScreens(term[c]) :
           inbox' = [inbox EXCEPT ![c] =
                       Append(@, Checkpoint(term[c].tpmCommitted, screen))]
    BY <1>13 DEF UploadCheckpoint
  <2>2. term[c].tpmCommitted \in Nat /\ screen \in SUBSET Nat
    BY <1>0 DEF SerializedScreens, Terminal
  <2>3. Checkpoint(term[c].tpmCommitted, screen) \in Request
    BY <2>2, RequestTypes
  <2>4. inbox' \in [Clients -> Seq(Request)]
    BY <2>1, <2>3, SendsType
  <2> QED
    BY <1>0, <1>13, <2>4 DEF UploadCheckpoint, TypeOK
<1>14. CASE UNCHANGED vars
  BY <1>0, <1>14 DEF vars, TypeOK
<1>15. ASSUME NEW c \in Clients, Daemon(c) \/ Faults(c) PROVE TypeOK'
  BY <1>3, <1>4, <1>5, <1>6, <1>7, <1>8, <1>9, <1>15 DEF Daemon, Faults
<1> QED
  BY <1>1, <1>2, <1>9, <1>10, <1>11, <1>12, <1>13, <1>14, <1>15 DEF Next

LEMMA NumberedStep == TypeInv /\ [Next]_vars => Numbered'
<1> SUFFICES ASSUME TypeInv, [Next]_vars PROVE Numbered'
  OBVIOUS
<1>0. next \in Nat \ {0} /\ outs \subseteq 1..(next - 1)
  BY DEF TypeInv, TypeOK, Numbered
<1>1. CASE Emit
  <2>1. outs' = outs \cup {next} /\ next' = next + 1
    BY <1>1 DEF Emit
  <2> QED
    BY <1>0, <2>1 DEF Numbered
<1>2. CASE Resize
  <2>1. outs' = outs /\ next' = next + 1
    BY <1>2 DEF Resize
  <2> QED
    BY <1>0, <2>1 DEF Numbered
<1>3. CASE UNCHANGED <<outs, next>>
  BY <1>0, <1>3 DEF Numbered
<1>4. CASE UNCHANGED vars
  BY <1>3, <1>4 DEF vars
<1>5. ASSUME NEW c \in Clients, \/ Daemon(c) \/ Connect(c) \/ HangUp(c) \/ Faults(c)
                                \/ Receive(c) \/ Render(c) \/ UploadCheckpoint(c)
      PROVE  UNCHANGED <<outs, next>>
  BY <1>5 DEF Daemon, AttachSnapshot, AttachReply, AttachComplete, HandleAck, HandleCheckpoint,
              Connect, HangUp, Faults, WriterCloses, Break, Restart, Cut, Receive, ReceiveReset,
              ReceiveSnapshot, ReceiveReplay, ReceiveAttached, ReceiveOutput, Render,
              UploadCheckpoint
<1> QED
  BY <1>1, <1>2, <1>3, <1>4, <1>5 DEF Next

LEMMA TypeInvStep == TypeInv /\ [Next]_vars => TypeInv'
  BY TypeStep, NumberedStep DEF TypeInv

\* The daemon, the wire and the terminals keep their types, whatever breaks and
\* however long the session runs.
THEOREM TypeCorrect == Spec => []TypeOK
<1>1. TypeInv => TypeOK
  BY DEF TypeInv
<1> QED
  BY <1>1, TypeInit, TypeInvStep, PTL DEF Spec

-----------------------------------------------------------------------------
(* Flow control *)

\* FlowControl of one handle, strengthened: while an attach holds frames back,
\* what is unacknowledged is what is held back, and that is bounded by the
\* barrier, not by the high watermark.
Sound(h, n) ==
    /\ h.lastAcked <= h.lastSent /\ h.lastSent < n
    /\ h.unacked >= High => h.paused
    /\ h.unacked <= Larger(High, AttachMax)
    /\ h.attaching \subseteq 1..(n - 1)
    /\ h.attached /\ h.stage # "idle" => h.unacked <= Cardinality(h.attaching)

FlowInv == TypeInv /\ \A c \in Clients : Sound(handle[c], next)

\* The limits, as numbers.
LEMMA Limits ==
    /\ High \in Nat /\ Low \in Nat /\ Low < High /\ AttachMax \in Nat
    /\ Larger(High, AttachMax) \in Nat /\ High <= Larger(High, AttachMax)
    /\ AttachMax <= Larger(High, AttachMax)
  BY DeliveryConstants DEF Larger

LEMMA HeldFinite ==
    ASSUME NEW n \in Nat, NEW S \in SUBSET (1..(n - 1))
    PROVE  /\ IsFiniteSet(S) /\ Cardinality(S) \in Nat
           /\ IsFiniteSet(S \cup {n}) /\ Cardinality(S \cup {n}) = Cardinality(S) + 1
<1>1. IsFiniteSet(1..(n - 1))
  BY FS_Interval
<1>2. IsFiniteSet(S) /\ Cardinality(S) \in Nat
  BY <1>1, FS_Subset, FS_CardinalityType
<1>3. n \notin S
  OBVIOUS
<1> QED
  BY <1>2, <1>3, FS_AddElement

LEMMA SoundLater ==
    ASSUME NEW h \in Handle, NEW n \in Nat, Sound(h, n)
    PROVE  Sound(h, n + 1)
<1>1. h.lastSent < n + 1
  BY DEF Sound, Handle
<1>2. h.attaching \subseteq 1..n
  BY DEF Sound
<1> QED
  BY <1>1, <1>2 DEF Sound

\* A handle that starts over is sound.
LEMMA SoundAnew ==
    ASSUME NEW n \in Nat \ {0}, NEW h \in Handle
    PROVE  Sound(NewHandle, n) /\ Sound(Dropped(h), n)
<1>1. /\ NewHandle.lastAcked = 0 /\ NewHandle.lastSent = 0 /\ NewHandle.unacked = 0
      /\ NewHandle.attaching = {} /\ NewHandle.attached = FALSE
  BY DEF NewHandle
<1>2. /\ Dropped(h).lastAcked = 0 /\ Dropped(h).lastSent = 0 /\ Dropped(h).unacked = 0
      /\ Dropped(h).attaching = {} /\ Dropped(h).attached = FALSE
  BY DEF Dropped, Cleared, Handle
<1> QED
  BY <1>1, <1>2, Limits DEF Sound

\* Output that arrives while the client may be attaching, paused or closed.
LEMMA SoundPushed ==
    ASSUME NEW h \in Handle, NEW n \in Nat \ {0}, Sound(h, n)
    PROVE  Sound(Pushed(h, n), n + 1)
<1> DEFINE counted == Counted(h, 1, n)
           held == [counted EXCEPT !.attaching = @ \cup {n}]
<1>0. /\ h.unacked \in Nat /\ h.lastSent \in Nat /\ h.lastAcked \in Nat /\ n + 1 \in Nat \ {0}
      /\ h.attaching \subseteq 1..(n - 1)
  BY DEF Handle, Sound
<1>1. /\ counted.unacked = h.unacked + 1 /\ counted.lastSent = n
      /\ counted.lastAcked = h.lastAcked /\ counted.attaching = h.attaching
      /\ counted.attached = h.attached /\ counted.stage = h.stage
  BY DEF Counted, Handle
<1>2. counted.unacked >= High => counted.paused
  BY DEF Counted, Handle
<1>3. /\ held.unacked = counted.unacked /\ held.lastSent = n /\ held.lastAcked = h.lastAcked
      /\ held.attaching = h.attaching \cup {n} /\ held.attached = h.attached
      /\ held.stage = h.stage /\ held.paused = counted.paused
  BY <1>1 DEF Counted, Handle
<1>4. counted \in Handle /\ held \in Handle
  <2>1. counted \in Handle
    BY CountedType
  <2> HIDE DEF counted
  <2>2. held \in Handle
    BY <2>1, Zenon DEF Handle
  <2> QED
    BY <2>1, <2>2
<1> HIDE DEF counted, held
<1>5. CASE ~h.attached
  BY <1>5, SoundLater DEF Pushed
<1>6. CASE h.attached /\ h.stage # "idle"
  <2>1. Cardinality(held.attaching) = Cardinality(h.attaching) + 1
        /\ Cardinality(h.attaching) \in Nat
    BY <1>0, <1>3, HeldFinite
  <2>2. held.unacked <= Cardinality(held.attaching)
    BY <1>0, <1>1, <1>3, <1>6, <2>1 DEF Sound
  <2>3. CASE Cardinality(held.attaching) > AttachMax
    <3>1. Pushed(h, n) = Dropped(held)
      BY <1>6, <2>3 DEF Pushed, held, counted
    <3> QED
      BY <1>0, <1>4, <3>1, SoundAnew
  <2>4. CASE ~(Cardinality(held.attaching) > AttachMax)
    <3>1. Pushed(h, n) = held
      BY <1>6, <2>4 DEF Pushed, held, counted
    <3>2. held.unacked <= Larger(High, AttachMax)
      BY <1>0, <1>1, <1>3, <2>1, <2>2, <2>4, Limits
    <3>3. held.lastAcked <= held.lastSent /\ held.lastSent < n + 1
      BY <1>0, <1>3 DEF Sound
    <3>4. held.attaching \subseteq 1..((n + 1) - 1)
      BY <1>0, <1>3
    <3> QED
      BY <1>2, <1>3, <2>2, <3>1, <3>2, <3>3, <3>4 DEF Sound
  <2> QED
    BY <2>3, <2>4
<1>7. CASE h.attached /\ h.stage = "idle" /\ (h.paused \/ h.unacked >= High)
  <2> DEFINE paused == [h EXCEPT !.paused = TRUE]
  <2>1. Pushed(h, n) = paused
    <3>1. ~(~h.paused /\ h.unacked < High)
      BY <1>0, <1>7, Limits
    <3> QED
      BY <1>7, <3>1 DEF Pushed
  <2>2. /\ paused.unacked = h.unacked /\ paused.lastSent = h.lastSent /\ paused.paused
        /\ paused.lastAcked = h.lastAcked /\ paused.attaching = h.attaching
        /\ paused.attached = h.attached /\ paused.stage = h.stage
    BY DEF Handle
  <2>3. Sound(h, n + 1)
    BY SoundLater
  <2> HIDE DEF paused
  <2> QED
    BY <2>1, <2>2, <2>3 DEF Sound
<1>8. CASE h.attached /\ h.stage = "idle" /\ ~h.paused /\ h.unacked < High
  <2>1. Pushed(h, n) = IF h.closed THEN Dropped(h) ELSE counted
    BY <1>0, <1>8, Limits DEF Pushed, counted
  <2>2. counted.unacked <= Larger(High, AttachMax)
    BY <1>0, <1>1, <1>8, Limits
  <2>3. counted.lastAcked <= counted.lastSent /\ counted.lastSent < n + 1
    BY <1>0, <1>1 DEF Sound
  <2>4. counted.attaching \subseteq 1..((n + 1) - 1)
    BY <1>0, <1>1
  <2>5. Sound(counted, n + 1)
    BY <1>1, <1>2, <1>8, <2>2, <2>3, <2>4 DEF Sound
  <2> QED
    BY <1>0, <2>1, <2>5, SoundAnew
<1> QED
  BY <1>0, <1>5, <1>6, <1>7, <1>8, Limits

\* An accepted ACK moves the ACK cursor up to what was sent, and only lowers the
\* count.
LEMMA SoundAcked ==
    ASSUME NEW h \in Handle, NEW n \in Nat, NEW ack \in Request, Sound(h, n),
           h.stage = "idle", Accepts(h, ack)
    PROVE  Sound(Acked(h, ack), n) /\ Acked(h, ack).stage = "idle"
<1> DEFINE acked == Acked(h, ack)
<1>1. /\ acked.unacked = Monus(h.unacked, ack.chars) /\ acked.lastAcked = ack.seq
      /\ acked.lastSent = h.lastSent /\ acked.paused = h.paused
      /\ acked.attaching = h.attaching /\ acked.attached = h.attached /\ acked.stage = "idle"
  BY DEF Acked, Handle
<1>2. h.unacked \in Nat /\ acked.unacked \in Nat /\ acked.unacked <= h.unacked
  BY <1>1 DEF Handle, Request, Monus
<1>3. ack.seq <= h.lastSent
  BY DEF Accepts
<1>4. acked.unacked >= High => h.unacked >= High
  BY <1>2, Limits
<1>5. acked.unacked <= Larger(High, AttachMax)
  BY <1>2, Limits DEF Sound
<1> HIDE DEF acked
<1>6. Sound(acked, n)
  BY <1>1, <1>3, <1>4, <1>5 DEF Sound
<1> QED
  BY <1>1, <1>6 DEF acked

\* A flush within the credit leaves the client paused or below the low watermark.
LEMMA SoundFlushed ==
    ASSUME NEW h \in Handle, NEW n \in Nat, Sound(h, n), h.stage = "idle",
           NEW size \in Nat, size <= High - h.unacked,
           NEW last \in Nat, last >= h.lastSent, last < n
    PROVE  LET sent == Counted(h, size, last)
           IN  Sound([sent EXCEPT !.paused = sent.unacked > Low], n)
<1> DEFINE sent == Counted(h, size, last)
           credited == [sent EXCEPT !.paused = sent.unacked > Low]
<1>1. /\ sent.unacked = h.unacked + size /\ sent.lastSent = last
      /\ sent.lastAcked = h.lastAcked /\ sent.attaching = h.attaching
      /\ sent.stage = "idle"
  BY DEF Counted, Handle
<1>2. sent \in Handle
  BY CountedType
<1> HIDE DEF sent
<1>3. /\ credited.unacked = sent.unacked /\ credited.lastSent = sent.lastSent
      /\ credited.lastAcked = sent.lastAcked /\ credited.attaching = sent.attaching
      /\ credited.stage = sent.stage /\ credited.paused = (sent.unacked > Low)
  BY <1>2, Zenon DEF Handle
<1>4. h.unacked \in Nat /\ h.lastSent \in Nat /\ h.lastAcked \in Nat
  BY DEF Handle
<1> HIDE DEF credited
<1>5. credited.unacked <= Larger(High, AttachMax)
  BY <1>1, <1>3, <1>4, Limits
<1>6. credited.unacked >= High => credited.paused
  <2>1. sent.unacked >= High => sent.unacked > Low
    BY <1>1, <1>4, Limits
  <2> QED
    BY <1>3, <2>1, Zenon
<1>7. credited.lastAcked <= credited.lastSent /\ credited.lastSent < n
  BY <1>1, <1>3, <1>4 DEF Sound
<1>8. Sound(credited, n)
  BY <1>1, <1>3, <1>5, <1>6, <1>7 DEF Sound
<1> QED
  BY <1>8 DEF credited, sent

LEMMA FlowStep == FlowInv /\ [Next]_vars => FlowInv'
<1> SUFFICES ASSUME FlowInv, [Next]_vars, NEW d \in Clients PROVE Sound(handle[d], next)'
  BY TypeInvStep DEF FlowInv
<1>0. /\ TypeInv /\ TypeOK /\ next \in Nat \ {0} /\ handle \in [Clients -> Handle]
      /\ handle[d] \in Handle /\ Sound(handle[d], next)
      /\ \A c \in Clients : handle[c] \in Handle /\ Sound(handle[c], next)
  BY DEF FlowInv, TypeInv, TypeOK
<1>1. CASE Emit
  <2>1. handle'[d] = Pushed(handle[d], next) /\ next' = next + 1
    BY <1>1 DEF Emit
  <2> QED
    BY <1>0, <2>1, SoundPushed
<1>2. CASE Resize
  <2>1. handle' = handle /\ next' = next + 1
    BY <1>2 DEF Resize
  <2> QED
    BY <1>0, <2>1, SoundLater
<1>3. CASE UNCHANGED <<handle, next>>
  BY <1>0, <1>3
\* It is enough to know what a step makes of one handle.
<1>4. ASSUME NEW c \in Clients, NEW h, next' = next, Sound(h, next),
             handle' = [handle EXCEPT ![c] = h]
      PROVE  Sound(handle[d], next)'
  <2>1. handle'[d] = h \/ handle'[d] = handle[d]
    BY <1>0, <1>4
  <2> QED
    BY <1>0, <1>4, <2>1
<1>5. ASSUME NEW c \in Clients, AttachSnapshot(c) PROVE Sound(handle[d], next)'
  <2>1. PICK reply :
           /\ next' = next
           /\ handle' = [handle EXCEPT ![c] =
                 [@ EXCEPT !.attached = TRUE, !.unacked = 0, !.paused = FALSE,
                           !.lastSent = next - 1, !.lastAcked = next - 1, !.attaching = {},
                           !.stage = "snapshot", !.reply = reply]]
    BY <1>5 DEF AttachSnapshot
  <2> DEFINE h == [handle[c] EXCEPT !.attached = TRUE, !.unacked = 0, !.paused = FALSE,
                           !.lastSent = next - 1, !.lastAcked = next - 1, !.attaching = {},
                           !.stage = "snapshot", !.reply = reply]
  <2>2. /\ h.unacked = 0 /\ h.lastSent = next - 1 /\ h.lastAcked = next - 1
        /\ h.attaching = {}
    BY <1>0 DEF Handle
  <2>3. handle' = [handle EXCEPT ![c] = h]
    BY <2>1
  <2> HIDE DEF h
  <2>4. Sound(h, next)
    BY <1>0, <2>2, FS_EmptySet, Limits DEF Sound
  <2> QED
    BY <1>4, <2>1, <2>3, <2>4
<1>6. ASSUME NEW c \in Clients, AttachReply(c) PROVE Sound(handle[d], next)'
  <2> DEFINE h == [handle[c] EXCEPT !.stage = "replied", !.reply = NoReply]
  <2>1. handle' = [handle EXCEPT ![c] = h] /\ next' = next /\ handle[c].stage = "snapshot"
    BY <1>0, <1>6 DEF AttachReply
  <2>2. /\ h.unacked = handle[c].unacked /\ h.lastSent = handle[c].lastSent
        /\ h.lastAcked = handle[c].lastAcked /\ h.attaching = handle[c].attaching
        /\ h.paused = handle[c].paused /\ h.attached = handle[c].attached
    BY <1>0 DEF Handle
  <2> HIDE DEF h
  <2>3. Sound(h, next)
    BY <1>0, <2>1, <2>2 DEF Sound
  <2> QED
    BY <1>4, <2>1, <2>3
<1>7. ASSUME NEW c \in Clients, AttachComplete(c) PROVE Sound(handle[d], next)'
  <2> DEFINE h == [handle[c] EXCEPT !.stage = "idle", !.attaching = {}]
  <2>1. /\ handle' = [handle EXCEPT ![c] = Dropped(h)] \/ handle' = [handle EXCEPT ![c] = h]
        /\ next' = next
    BY <1>7 DEF AttachComplete
  <2>2. /\ h.unacked = handle[c].unacked /\ h.lastSent = handle[c].lastSent
        /\ h.lastAcked = handle[c].lastAcked /\ h.attaching = {} /\ h.stage = "idle"
        /\ h.paused = handle[c].paused
    BY <1>0 DEF Handle
  <2>3. h \in Handle
    BY <1>0, Zenon DEF Handle
  <2> HIDE DEF h
  <2>4. Sound(h, next)
    BY <1>0, <2>2 DEF Sound
  <2>5. Sound(Dropped(h), next)
    BY <1>0, <2>3, SoundAnew
  <2> QED
    BY <1>4, <2>1, <2>4, <2>5
<1>8. ASSUME NEW c \in Clients, HandleAck(c) PROVE Sound(handle[d], next)'
  <2> DEFINE ack == Head(inbox[c])
             acked == Acked(handle[c], ack)
  <2>1. ack \in Request /\ handle[c].stage = "idle" /\ next' = next
    BY <1>0, <1>8, ReceivesType DEF HandleAck, Receives
  <2>2. acked \in Handle
    BY <1>0, <2>1, AckedType
  <2>3. \/ handle' = handle
        \/ /\ Accepts(handle[c], ack)
           /\ \/ handle' = [handle EXCEPT ![c] = acked]
              \/ handle' = [handle EXCEPT ![c] = Dropped(acked)]
              \/ Flush(c, acked)
    BY <1>8 DEF HandleAck
  <2>4. Accepts(handle[c], ack) => Sound(acked, next) /\ acked.stage = "idle"
    BY <1>0, <2>1, SoundAcked
  <2>5. Sound(Dropped(acked), next)
    BY <1>0, <2>2, SoundAnew
  <2> HIDE DEF ack, acked
  <2>6. ASSUME Accepts(handle[c], ack), Flush(c, acked) PROVE Sound(handle[d], next)'
    <3>1. PICK batch \in SUBSET outs, last \in Nat :
              /\ Cardinality(batch) \in Nat
              /\ Cardinality(batch) <= High - acked.unacked
              /\ last >= acked.lastSent /\ (last = acked.lastSent \/ last \in outs)
              /\ \/ handle' = [handle EXCEPT ![c] = Dropped(acked)]
                 \/ LET sent == Counted(acked, Cardinality(batch), last)
                    IN  handle' = [handle EXCEPT ![c] =
                                     [sent EXCEPT !.paused = sent.unacked > Low]]
      BY <1>0, <2>2, <2>6, FlushShape
    <3> DEFINE sent == Counted(acked, Cardinality(batch), last)
               credited == [sent EXCEPT !.paused = sent.unacked > Low]
    <3>2. last < next
      <4>1. CASE last = acked.lastSent
        BY <2>4, <2>6, <4>1 DEF Sound
      <4>2. CASE last \in outs
        BY <1>0, <4>2 DEF TypeInv, Numbered
      <4> QED
        BY <3>1, <4>1, <4>2
    <3>3. Sound(credited, next)
      BY <1>0, <2>2, <2>4, <2>6, <3>1, <3>2, SoundFlushed
    <3>4. \/ handle' = [handle EXCEPT ![c] = Dropped(acked)]
          \/ handle' = [handle EXCEPT ![c] = credited]
      BY <3>1
    <3> HIDE DEF credited
    <3> QED
      BY <1>4, <2>1, <2>5, <3>3, <3>4
  <2> QED
    BY <1>3, <1>4, <2>1, <2>3, <2>4, <2>5, <2>6
<1>9. ASSUME NEW c \in Clients, next' = next,
             handle' = handle \/ handle' = [handle EXCEPT ![c].closed = TRUE]
      PROVE  Sound(handle[d], next)'
  <2> DEFINE h == [handle[c] EXCEPT !.closed = TRUE]
  <2>1. /\ h.unacked = handle[c].unacked /\ h.lastSent = handle[c].lastSent
        /\ h.lastAcked = handle[c].lastAcked /\ h.attaching = handle[c].attaching
        /\ h.paused = handle[c].paused /\ h.attached = handle[c].attached
        /\ h.stage = handle[c].stage
    BY <1>0 DEF Handle
  <2>2. handle' = handle \/ handle' = [handle EXCEPT ![c] = h]
    BY <1>0, <1>9
  <2> HIDE DEF h
  <2>3. Sound(h, next)
    BY <1>0, <2>1 DEF Sound
  <2> QED
    BY <1>3, <1>4, <1>9, <2>2, <2>3
<1>10. ASSUME NEW c \in Clients, HandleCheckpoint(c) \/ WriterCloses(c)
       PROVE  Sound(handle[d], next)'
  <2>1. next' = next /\ (handle' = handle \/ handle' = [handle EXCEPT ![c].closed = TRUE])
    BY <1>10 DEF HandleCheckpoint, WriterCloses
  <2> QED
    BY <1>9, <2>1
<1>11. ASSUME NEW c \in Clients, HangUp(c) \/ Break(c) \/ Restart(c)
       PROVE  Sound(handle[d], next)'
  <2>1. handle' = [handle EXCEPT ![c] = NewHandle] /\ next' = next
    BY <1>11 DEF HangUp, Break, Restart, Cut
  <2>2. Sound(NewHandle, next)
    BY <1>0, SoundAnew
  <2> QED
    BY <1>4, <2>1, <2>2
<1>12. ASSUME NEW c \in Clients, Connect(c) \/ Receive(c) \/ Render(c) \/ UploadCheckpoint(c)
       PROVE  UNCHANGED <<handle, next>>
  BY <1>12 DEF Connect, Receive, ReceiveReset, ReceiveSnapshot, ReceiveReplay, ReceiveAttached,
               ReceiveOutput, Render, UploadCheckpoint
<1>13. UNCHANGED vars => UNCHANGED <<handle, next>>
  BY DEF vars
<1>14. ASSUME NEW c \in Clients, \/ Daemon(c) \/ Connect(c) \/ HangUp(c) \/ Faults(c)
                                 \/ Receive(c) \/ Render(c) \/ UploadCheckpoint(c)
       PROVE  Sound(handle[d], next)'
  BY <1>3, <1>5, <1>6, <1>7, <1>8, <1>10, <1>11, <1>12, <1>14 DEF Daemon, Faults
<1> QED
  BY <1>1, <1>2, <1>3, <1>13, <1>14 DEF Next

LEMMA FlowInit == Init => FlowInv
<1> SUFFICES ASSUME Init PROVE \A c \in Clients : Sound(handle[c], next)
  BY TypeInit DEF FlowInv
<1>1. next = 1 /\ \A c \in Clients : handle[c] = NewHandle
  BY DEF Init
<1> QED
  BY <1>1, NewHandleType, SoundAnew

\* Whatever clients attach, acknowledge, hang up and come back to, the cursors of
\* flow control stay in order, a client over the high watermark is paused, and
\* what it has not acknowledged is bounded by the watermark and the barrier.
THEOREM FlowControlled == Spec => []FlowControl
<1>1. FlowInv => FlowControl
  BY DEF FlowInv, Sound, FlowControl
<1> QED
  BY <1>1, FlowInit, FlowStep, PTL DEF Spec

-----------------------------------------------------------------------------
(***************************************************************************)
(* Proofs about what reaches the screens in OutputDelivery, for any number *)
(* of clients, any watermarks, buffer sizes and disconnects, as long as no *)
(* client uploads snapshots.                                               *)
(*                                                                         *)
(* The parts of the invariant are predicates of one client's handle h,     *)
(* terminal t, wire w and inbox ib, and of the session's outputs O, its    *)
(* retained frames L and its next sequence number N.                       *)
(***************************************************************************)

-----------------------------------------------------------------------------
(* The replay buffer *)

\* Frames on disk are older than those in memory; with a frame every later output is
\* retained, the last output always; nothing is missing while nothing was dropped.
Retains(b, O, N) ==
    /\ b.checkpoint = NoCheckpoint
    /\ LiveFrames(b) \subseteq 1..N - 1
    /\ \A s \in b.spool : \A m \in b.mem : s < m
    /\ \A r \in LiveFrames(b) : \A n \in O : r < n => n \in LiveFrames(b)
    /\ \A n \in O : \E m \in LiveFrames(b) \cap O : n <= m
    /\ ~b.truncated => O \subseteq LiveFrames(b)

-----------------------------------------------------------------------------
(* A terminal *)

\* n lies beyond all that the terminal has committed or queued.
Beyond(t, n) == t.tpmCommitted < n /\ \A k \in Queued(t) : k < n

\* The outputs a terminal has once a queued reset is through.
Resets(t) == t.queue # <<>> /\ t.queue[1].kind = "reset"
Base(t) == IF Resets(t) THEN {} ELSE t.shown
Have(t, O) == Base(t) \cup (Queued(t) \cap O)

\* A reset comes first; a queued output lies beyond the cursor and all before it.
InOrder(t, O, N) ==
    /\ \A i \in DOMAIN t.queue :
          /\ t.queue[i].kind \in {"reset", "frame"}
          /\ t.queue[i].kind = "reset" => i = 1 /\ t.queue[i].seq = 0
          /\ t.queue[i].kind = "frame" => t.queue[i].seq \in 1..N - 1
    /\ \A j \in DOMAIN t.queue : t.queue[j].seq \in O =>
          /\ t.tpmCommitted < t.queue[j].seq
          /\ \A i \in 1..j - 1 : t.queue[i].seq < t.queue[j].seq
    /\ Resets(t) => t.tpmCommitted = 0
    /\ t.tpmCommitted < N /\ t.committed < N

\* What the terminal misses lies beyond what it has, or before it and dropped for
\* good, or a stale cursor has skipped it.
Solid(t, O, L) ==
    /\ t.shown \subseteq O
    /\ \A a \in Base(t) : a <= t.tpmCommitted
    /\ \A n \in O :
          \/ n \in Have(t, O)
          \/ Beyond(t, n)
          \/ n \notin L /\ \A a \in Have(t, O) : n < a
          \/ t.stale /\ n <= t.committed
    /\ ~t.stale => \A n \in O : (\E a, b \in t.shown : a < n /\ n < b) => n \in t.shown
    /\ ~t.garbled

TermInv(t, O, L, N) ==
    /\ t \in Terminal /\ N \in Nat \ {0} /\ O \subseteq 1..N - 1
    /\ InOrder(t, O, N) /\ Solid(t, O, L)

-----------------------------------------------------------------------------
(* What is on its way to a terminal *)

\* A reply, as far as it has not arrived, brings what is missing up to its end.
Brings(reset, frames, end, t, O, L, N) ==
    /\ frames \subseteq 1..end /\ end < N
    /\ t.tpmCommitted <= end /\ \A k \in Queued(t) : k <= end
    /\ \A n \in O :
          n <= end /\ (reset \/ Beyond(t, n)) =>
              \/ n \in frames
              \/ n \notin L /\ (\A k \in frames : n < k) /\ (reset \/ Have(t, O) = {})
              \/ ~reset /\ t.stale /\ n <= t.committed
    /\ ~reset => \A n \in frames \cap O :
          Beyond(t, n) \/ n \in Queued(t) \/ n <= t.tpmCommitted

Replying(w) == w # <<>> /\ w[1].kind = "attached"
Runs(w) == {j \in DOMAIN w : w[j].kind = "output"}
Flying(w) == UNION {w[j].frames : j \in Runs(w)}
\* Where the output runs on the wire start.
Start(w, t) == IF Replying(w) THEN w[1].latest ELSE t.received

\* Only a run of outputs follows another item, in ascending order.
RunsOK(w, O) ==
    /\ \A i \in DOMAIN w : /\ w[i].kind = "attached" => i = 1
                           /\ w[i].kind = "output" => w[i].frames # {} /\ w[i].frames \subseteq O
    /\ \A i, j \in Runs(w) : i < j => \A m \in w[i].frames, n \in w[j].frames : m < n

\* The runs follow the reply without a hole.
RunsInv(w, start, O) ==
    /\ RunsOK(w, O)
    /\ \A n \in Flying(w) : start < n
    /\ \A n \in O : \A m \in Flying(w) : start < n /\ n <= m => n \in Flying(w)

\* Where the attach of a connection is.
AskInv(h, t, w, ib) ==
    \A i \in DOMAIN ib :
        /\ ib[i].type # "checkpoint"
        /\ ib[i].type = "attach" =>
              /\ t.phase = "attaching" /\ h.stage = "idle" /\ ~h.attached /\ w = <<>>
              /\ \A j \in DOMAIN ib : ib[j].type = "attach" => i = j
              /\ ib[i].seq <= t.committed
              /\ t.committed > t.tpmCommitted => t.committed <= ib[i].seq
              /\ ~t.stale => ib[i].seq <= t.tpmCommitted

PhaseInv(h, t, w, ib, O, L, N) ==
    /\ t.phase = "offline" => w = <<>> /\ ib = <<>> /\ h.stage = "idle" /\ ~h.attached
    /\ h.stage = "snapshot" =>
          /\ t.phase = "attaching" /\ w = <<>>
          /\ h.reply.kind = "attached" /\ h.reply.snapshot = NoCheckpoint
          /\ Brings(h.reply.reset, h.reply.frames, h.reply.latest, t, O, L, N)
    /\ Replying(w) =>
          /\ t.phase = "attaching" /\ w[1].snapshot = NoCheckpoint
          /\ Brings(w[1].reset, w[1].frames, w[1].latest, t, O, L, N)
    /\ t.phase = "attaching" /\ ~Replying(w) => w = <<>>
    /\ t.phase = "attached" => Brings(FALSE, {}, t.received, t, O, L, N)

\* What the daemon still has to send to an attached client follows what it has sent.
SendInv(h, t, w, O) ==
    /\ ~h.attached => h.lastSent = 0
    /\ ~h.closed =>
          /\ h.stage = "snapshot" =>
                /\ h.attached /\ h.reply.latest <= h.lastSent
                /\ h.attaching = {n \in O : n > h.reply.latest}
          /\ h.stage = "replied" =>
                /\ h.attached /\ Start(w, t) <= h.lastSent
                /\ h.attaching = {n \in O : n > Start(w, t)} /\ Flying(w) = {}
          /\ h.stage = "idle" /\ h.attached =>
                /\ Start(w, t) <= h.lastSent /\ \A n \in Flying(w) : n <= h.lastSent
                /\ \A n \in O : Start(w, t) < n /\ n <= h.lastSent => n \in Flying(w)
          /\ h.attached /\ (h.stage # "idle" \/ ~h.paused) => \A n \in O : n <= h.lastSent
          /\ h.attached /\ h.stage # "snapshot" => t.phase = "attached" \/ Replying(w)

ClientInv(h, t, w, ib, O, L, N) ==
    /\ TermInv(t, O, L, N)
    /\ RunsInv(w, Start(w, t), O)
    /\ AskInv(h, t, w, ib)
    /\ PhaseInv(h, t, w, ib, O, L, N)
    /\ SendInv(h, t, w, O)

StreamInv ==
    /\ FlowInv /\ Retains(buf, outs, next)
    /\ \A c \in Clients :
          ClientInv(handle[c], term[c], wire[c], inbox[c], outs, LiveFrames(buf), next)

-----------------------------------------------------------------------------
(* Lemmas about a terminal *)

\* What a terminal of the right type is made of.
LEMMA TermFields ==
    ASSUME NEW t \in Terminal
    PROVE  /\ t.queue \in Seq(QueueItem) /\ t.shown \subseteq Nat
           /\ t.tpmCommitted \in Nat /\ t.committed \in Nat /\ t.received \in Nat
           /\ Queued(t) \subseteq Nat
           /\ \A i \in DOMAIN t.queue : t.queue[i] \in QueueItem /\ t.queue[i].seq \in Nat
<1>1. /\ t.queue \in Seq(QueueItem) /\ t.shown \subseteq Nat
      /\ t.tpmCommitted \in Nat /\ t.committed \in Nat /\ t.received \in Nat
  BY DEF Terminal
<1>2. \A i \in DOMAIN t.queue : t.queue[i] \in QueueItem
  BY <1>1
<1>3. \A i \in DOMAIN t.queue : t.queue[i].seq \in Nat
  BY <1>2 DEF QueueItem
<1> QED
  BY <1>1, <1>2, <1>3 DEF Queued

\* A frame that is queued goes to the end of the queue and changes nothing else.
LEMMA EnqueueFields ==
    ASSUME NEW t \in Terminal, NEW item \in QueueItem,
           ~(item.seq <= t.tpmCommitted \/ item.seq \in Queued(t))
    PROVE  LET u == Enqueued(t, item)
           IN  /\ u.queue = Append(t.queue, item) /\ u.shown = t.shown
               /\ u.tpmCommitted = t.tpmCommitted /\ u.committed = t.committed
               /\ u.received = t.received /\ u.phase = t.phase
               /\ u.stale = t.stale /\ u.garbled = t.garbled
               /\ Queued(u) = Queued(t) \cup {item.seq}
<1> DEFINE u == Enqueued(t, item)
<1>1. u = [t EXCEPT !.queue = Append(t.queue, item)]
  BY DEF Enqueued
<1>2. /\ u.queue = Append(t.queue, item) /\ u.shown = t.shown
      /\ u.tpmCommitted = t.tpmCommitted /\ u.committed = t.committed
      /\ u.received = t.received /\ u.phase = t.phase
      /\ u.stale = t.stale /\ u.garbled = t.garbled
  BY <1>1, Zenon DEF Terminal
<1> HIDE DEF u
<1>3. Queued(u) = Queued(t) \cup {item.seq}
  <2>1. t.queue \in Seq(QueueItem)
    BY TermFields
  <2>2. /\ Len(u.queue) = Len(t.queue) + 1 /\ u.queue[Len(t.queue) + 1] = item
        /\ \A i \in 1..Len(t.queue) : u.queue[i] = t.queue[i]
        /\ DOMAIN u.queue = 1..Len(t.queue) + 1 /\ DOMAIN t.queue = 1..Len(t.queue)
        /\ Len(t.queue) \in Nat
    BY <1>2, <2>1
  <2>3. \A i \in DOMAIN u.queue : i \in DOMAIN t.queue \/ i = Len(t.queue) + 1
    BY <2>2
  <2>4. Len(t.queue) + 1 \in DOMAIN u.queue /\ \A i \in DOMAIN t.queue : i \in DOMAIN u.queue
    BY <2>2
  <2> QED
    BY <2>2, <2>3, <2>4, Zenon DEF Queued
<1> QED
  BY <1>2, <1>3 DEF u

\* The frames a terminal may be handed: one it knows or one beyond all that it
\* has, behind which it misses nothing but what is gone for good.
Fitting(t, k, O, L) ==
    /\ k \in O => k <= t.tpmCommitted \/ k \in Queued(t) \/ Beyond(t, k)
    /\ \A m \in O : Beyond(t, m) /\ m < k =>
          \/ m \notin L /\ Have(t, O) = {}
          \/ t.stale /\ m <= t.committed

LEMMA EnqueueInv ==
    ASSUME NEW t, NEW N, NEW O, NEW L, TermInv(t, O, L, N),
           NEW k \in 1..N - 1, Fitting(t, k, O, L)
    PROVE  LET u == Enqueued(t, Frame(k))
           IN  /\ u \in Terminal /\ TermInv(u, O, L, N)
               /\ \A n \in Nat : Beyond(u, n) <=> Beyond(t, n) /\ k < n
               /\ Queued(t) \subseteq Queued(u) /\ Queued(u) \subseteq Queued(t) \cup {k}
               /\ k \in Queued(u) \/ k <= u.tpmCommitted
               /\ u.tpmCommitted = t.tpmCommitted /\ u.committed = t.committed
               /\ u.received = t.received /\ u.phase = t.phase /\ u.stale = t.stale
<1>a. t \in Terminal /\ N \in Nat \ {0} /\ O \subseteq 1..N - 1
  BY DEF TermInv
<1> USE <1>a
<1> DEFINE item == Frame(k)
           u == Enqueued(t, item)
<1>1. item \in QueueItem /\ item.seq = k /\ item.kind = "frame" /\ k \in Nat
  BY DEF Frame, QueueItem
<1> HIDE DEF item
<1>2. u \in Terminal
  BY <1>1, TerminalTypes
<1>3. CASE item.seq <= t.tpmCommitted \/ item.seq \in Queued(t)
  <2>1. u = t
    BY <1>3 DEF Enqueued
  <2>2. \A n \in Nat : Beyond(t, n) => k < n
    BY <1>1, <1>3, TermFields DEF Beyond
  <2> QED
    BY <1>1, <1>2, <1>3, <2>1, <2>2 DEF item
<1>4. CASE ~(item.seq <= t.tpmCommitted \/ item.seq \in Queued(t))
  <2>1. /\ u.queue = Append(t.queue, item) /\ u.shown = t.shown
        /\ u.tpmCommitted = t.tpmCommitted /\ u.committed = t.committed
        /\ u.received = t.received /\ u.phase = t.phase
        /\ u.stale = t.stale /\ u.garbled = t.garbled
        /\ Queued(u) = Queued(t) \cup {k}
    BY <1>1, <1>4, EnqueueFields
  <2> HIDE DEF u
  <2>2. /\ DOMAIN u.queue = 1..Len(t.queue) + 1 /\ DOMAIN t.queue = 1..Len(t.queue)
        /\ Len(t.queue) \in Nat /\ u.queue[Len(t.queue) + 1] = item
        /\ \A i \in 1..Len(t.queue) : u.queue[i] = t.queue[i]
    BY <2>1, TermFields
  <2>3. \A n \in Nat : Beyond(u, n) <=> Beyond(t, n) /\ k < n
    BY <2>1 DEF Beyond
  <2>4. k \in O => Beyond(t, k)
    BY <1>1, <1>4 DEF Fitting
  <2>5. InOrder(u, O, N)
    <3>1. ASSUME NEW i \in DOMAIN u.queue
          PROVE  /\ u.queue[i].kind \in {"reset", "frame"}
                 /\ u.queue[i].kind = "reset" => i = 1 /\ u.queue[i].seq = 0
                 /\ u.queue[i].kind = "frame" => u.queue[i].seq \in 1..N - 1
      <4>1. CASE i \in DOMAIN t.queue
        BY <2>2, <4>1 DEF TermInv, InOrder
      <4>2. CASE i = Len(t.queue) + 1
        BY <1>1, <2>2, <4>2
      <4> QED
        BY <2>2, <4>1, <4>2
    <3>2. ASSUME NEW j \in DOMAIN u.queue, u.queue[j].seq \in O
          PROVE  /\ u.tpmCommitted < u.queue[j].seq
                 /\ \A i \in 1..j - 1 : u.queue[i].seq < u.queue[j].seq
      <4>1. CASE j \in DOMAIN t.queue
        BY <2>1, <2>2, <3>2, <4>1 DEF TermInv, InOrder
      <4>2. CASE j = Len(t.queue) + 1
        <5>1. Beyond(t, k) /\ u.queue[j].seq = k
          BY <1>1, <2>2, <2>4, <3>2, <4>2
        <5>2. \A i \in 1..j - 1 : u.queue[i].seq \in Queued(t)
          BY <2>2, <4>2 DEF Queued
        <5> QED
          BY <2>1, <5>1, <5>2 DEF Beyond
      <4>3. j \in DOMAIN t.queue \/ j = Len(t.queue) + 1
        BY <2>2
      <4> QED
        BY <4>1, <4>2, <4>3
    <3>3. Resets(u) => u.tpmCommitted = 0
      <4>1. Resets(u) => Resets(t)
        <5>1. CASE Len(t.queue) = 0
          BY <1>1, <2>2, <5>1 DEF Resets
        <5>2. CASE Len(t.queue) # 0
          <6>1. t.queue # <<>> /\ u.queue[1] = t.queue[1]
            BY <2>2, <5>2
          <6> QED
            BY <6>1 DEF Resets
        <5> QED
          BY <5>1, <5>2
      <4> QED
        BY <2>1, <4>1 DEF TermInv, InOrder
    <3> QED
      BY <2>1, <3>1, <3>2, <3>3 DEF TermInv, InOrder
  <2>6. Base(u) = Base(t)
    <3>1. Resets(u) <=> Resets(t)
      <4>1. CASE Len(t.queue) = 0
        <5>1. ~Resets(u)
          BY <1>1, <2>2, <4>1 DEF Resets
        <5>2. t.queue = <<>>
          BY <4>1, TermFields
        <5> QED
          BY <5>1, <5>2 DEF Resets
      <4>2. CASE Len(t.queue) # 0
        <5>1. t.queue # <<>> /\ u.queue # <<>> /\ u.queue[1] = t.queue[1]
          BY <2>2, <4>2
        <5> QED
          BY <5>1 DEF Resets
      <4> QED
        BY <4>1, <4>2
    <3> QED
      BY <2>1, <3>1, Zenon DEF Base
  <2>7. Have(t, O) \subseteq Have(u, O) /\ Have(u, O) \subseteq Have(t, O) \cup ({k} \cap O)
    BY <2>1, <2>6 DEF Have
  <2>8. ASSUME NEW n \in O
        PROVE  \/ n \in Have(u, O)
               \/ Beyond(u, n)
               \/ n \notin L /\ \A a \in Have(u, O) : n < a
               \/ u.stale /\ n <= u.committed
    <3>0. n \in Nat
      OBVIOUS
    <3>1. CASE n \in Have(t, O)
      BY <2>7, <3>1
    <3>2. CASE Beyond(t, n) /\ k < n
      BY <2>3, <3>0, <3>2
    <3>3. CASE Beyond(t, n) /\ k = n
      BY <2>1, <3>3 DEF Have
    <3>4. CASE Beyond(t, n) /\ n < k
      <4>1. (n \notin L /\ Have(t, O) = {}) \/ (t.stale /\ n <= t.committed)
        BY <3>4 DEF Fitting
      <4> QED
        BY <2>1, <2>7, <3>4, <4>1
    <3>5. CASE ~Beyond(t, n) /\ n \notin L /\ \A a \in Have(t, O) : n < a
      <4>1. k \in O => n < k
        <5> SUFFICES ASSUME k \in O PROVE n < k
          OBVIOUS
        <5>1. n <= t.tpmCommitted \/ \E q \in Queued(t) : n <= q
          BY <3>0, <3>5, TermFields DEF Beyond
        <5> QED
          BY <1>1, <2>4, <3>0, <5>1, TermFields DEF Beyond
      <4> QED
        BY <2>7, <3>5, <4>1
    <3>6. CASE t.stale /\ n <= t.committed
      BY <2>1, <3>6
    <3> QED
      BY <1>1, <3>0, <3>1, <3>2, <3>3, <3>4, <3>5, <3>6 DEF TermInv, Solid
  <2>9. Solid(u, O, L)
    BY <2>1, <2>6, <2>8 DEF TermInv, Solid
  <2>10. TermInv(u, O, L, N)
    BY <1>2, <2>5, <2>9 DEF TermInv, u
  <2> QED
    BY <1>2, <2>1, <2>3, <2>10 DEF u, item
<1> QED
  BY <1>3, <1>4

\* A reset empties the terminal for the frames that follow it.
LEMMA RestartInv ==
    ASSUME NEW t, NEW N, NEW O, NEW L, TermInv(t, O, L, N)
    PROVE  LET u == Restarted(t)
           IN  /\ u \in Terminal /\ TermInv(u, O, L, N)
               /\ Have(u, O) = {} /\ Queued(u) = {0} /\ \A n \in Nat \ {0} : Beyond(u, n)
               /\ u.tpmCommitted = 0 /\ u.committed = t.committed
               /\ u.received = t.received /\ u.phase = t.phase /\ u.stale = t.stale
<1>a. t \in Terminal /\ N \in Nat \ {0} /\ O \subseteq 1..N - 1
  BY DEF TermInv
<1> USE <1>a
<1> DEFINE item == [kind |-> "reset", seq |-> 0, screen |-> {}]
           u == Restarted(t)
<1>1. item \in QueueItem /\ item.seq = 0 /\ item.kind = "reset"
  BY DEF QueueItem
<1>2. u = [t EXCEPT !.tpmCommitted = 0, !.queue = <<item>>]
  BY DEF Restarted
<1>3. u \in Terminal
  BY TerminalTypes
<1> HIDE DEF item
<1>4. /\ u.queue = <<item>> /\ u.tpmCommitted = 0 /\ u.committed = t.committed
      /\ u.received = t.received /\ u.phase = t.phase /\ u.stale = t.stale
      /\ u.shown = t.shown /\ u.garbled = t.garbled
  BY <1>2, Zenon DEF Terminal
<1> HIDE DEF u
<1>5. DOMAIN u.queue = {1} /\ u.queue[1] = item /\ u.queue # <<>>
  BY <1>4
<1>6. Queued(u) = {0}
  BY <1>1, <1>5 DEF Queued
<1>7. \A n \in Nat \ {0} : Beyond(u, n)
  BY <1>4, <1>6 DEF Beyond
<1>8. Resets(u) /\ Base(u) = {} /\ Have(u, O) = {}
  BY <1>1, <1>5, <1>6 DEF Resets, Base, Have
<1>9. t.committed < N /\ t.committed \in Nat
  BY TermFields DEF TermInv, InOrder
<1>10. InOrder(u, O, N)
  BY <1>1, <1>4, <1>5, <1>9 DEF InOrder
<1>11. Solid(u, O, L)
  <2>1. \A n \in O : Beyond(u, n)
    BY <1>7
  <2> QED
    BY <1>4, <1>8, <2>1 DEF TermInv, Solid
<1>12. TermInv(u, O, L, N)
  BY <1>3, <1>10, <1>11 DEF TermInv, u
<1> QED
  BY <1>3, <1>4, <1>6, <1>7, <1>8, <1>12 DEF u

LEMMA NewTerminalInv ==
    ASSUME NEW N \in Nat \ {0}, NEW O \in SUBSET (1..N - 1), NEW L
    PROVE  /\ TermInv(NewTerminal, O, L, N)
           /\ NewTerminal.phase = "offline" /\ NewTerminal.received = 0
<1> DEFINE u == NewTerminal
<1>1. /\ u.queue = <<>> /\ u.tpmCommitted = 0 /\ u.committed = 0
      /\ u.shown = {} /\ u.garbled = FALSE
      /\ u.phase = "offline" /\ u.received = 0
  BY DEF NewTerminal
<1> HIDE DEF u
<1>2. Queued(u) = {} /\ ~Resets(u) /\ DOMAIN u.queue = {}
  BY <1>1 DEF Queued, Resets
<1>3. Base(u) = {} /\ Have(u, O) = {} /\ \A n \in O : Beyond(u, n)
  BY <1>1, <1>2 DEF Base, Have, Beyond
<1>4. InOrder(u, O, N)
  BY <1>1, <1>2 DEF InOrder
<1>5. Solid(u, O, L)
  BY <1>1, <1>3 DEF Solid
<1>6. u \in Terminal
  <2>1. 0 \in Nat /\ <<>> \in Seq(QueueItem)
    OBVIOUS
  <2> QED
    BY <2>1, Zenon DEF NewTerminal, Terminal, u
<1> QED
  BY <1>1, <1>4, <1>5, <1>6 DEF TermInv, u

\* The session goes on: one more event, an output or not, and the buffer drops frames.
Later(O, L, N, P, K) == O \subseteq P /\ P \subseteq O \cup {N} /\ K \cap O \subseteq L

LEMMA TermLater ==
    ASSUME NEW t, NEW N, NEW O, NEW L, TermInv(t, O, L, N), NEW P, NEW K, Later(O, L, N, P, K)
    PROVE  /\ TermInv(t, P, K, N + 1)
           /\ Beyond(t, N) /\ Have(t, P) = Have(t, O) /\ \A q \in Queued(t) : q < N
<1>a. t \in Terminal /\ N \in Nat \ {0} /\ O \subseteq 1..N - 1
  BY DEF TermInv
<1> USE <1>a
<1>b. O \subseteq P /\ P \subseteq O \cup {N} /\ K \cap O \subseteq L
  BY DEF Later
<1> USE <1>b
<1>1. \A q \in Queued(t) : q < N
  <2>1. \A i \in DOMAIN t.queue : t.queue[i].seq = 0 \/ t.queue[i].seq \in 1..N - 1
    BY DEF TermInv, InOrder
  <2> QED
    BY <2>1 DEF Queued
<1>2. Beyond(t, N)
  BY <1>1 DEF Beyond, TermInv, InOrder
<1>3. N \notin Queued(t) /\ N \notin O
  BY <1>1
<1>4. Have(t, P) = Have(t, O)
  BY <1>3 DEF Have
<1>5. InOrder(t, P, N + 1)
  <2>1. ASSUME NEW i \in DOMAIN t.queue
        PROVE  t.queue[i].seq # N
    BY <1>3 DEF Queued
  <2>2. \A i \in DOMAIN t.queue : t.queue[i].seq \in P => t.queue[i].seq \in O
    BY <2>1
  <2>3. t.tpmCommitted < N + 1 /\ t.committed < N + 1
    BY TermFields DEF TermInv, InOrder
  <2>4. \A n \in 1..N - 1 : n \in 1..(N + 1) - 1
    OBVIOUS
  <2> QED
    BY <2>2, <2>3, <2>4 DEF TermInv, InOrder
<1>6. Solid(t, P, K)
  <2>1. t.shown \subseteq P /\ \A a \in Base(t) : a <= t.tpmCommitted
    BY DEF TermInv, Solid
  <2>2. \A n \in O : n \notin L => n \notin K
    OBVIOUS
  <2>3. \A n \in P :
          \/ n \in Have(t, P)
          \/ Beyond(t, n)
          \/ n \notin K /\ \A a \in Have(t, P) : n < a
          \/ t.stale /\ n <= t.committed
    BY <1>2, <1>4, <2>2 DEF TermInv, Solid
  <2>4. ASSUME ~t.stale, NEW n \in P, NEW a \in t.shown, NEW b \in t.shown, a < n, n < b
        PROVE  n \in t.shown
    <3>1. t.shown \subseteq O
      BY DEF TermInv, Solid
    <3>2. b \in 1..N - 1
      BY <3>1
    <3>3. n # N
      BY <2>4, <3>2
    <3> QED
      BY <2>4, <3>3 DEF TermInv, Solid
  <2> QED
    BY <2>1, <2>3, <2>4 DEF TermInv, Solid
<1> QED
  BY <1>1, <1>2, <1>4, <1>5, <1>6 DEF TermInv

\* What becomes of a terminal when the frame at the head of its queue is written.
LEMMA CommitFields ==
    ASSUME NEW t \in Terminal, NEW k \in Nat, t.queue # <<>>,
           t.queue[1].kind \in {"reset", "frame"}, t.queue[1].seq = k
    PROVE  LET u == Committed(t, Head(t.queue))
           IN  /\ u \in Terminal /\ u.queue = Tail(t.queue)
               /\ u.tpmCommitted = Larger(t.tpmCommitted, k)
               /\ u.committed = Larger(t.committed, k)
               /\ u.received = t.received /\ u.phase = t.phase /\ u.stale = t.stale
               /\ t.queue[1].kind = "reset" => u.shown = {} /\ u.garbled = FALSE
               /\ t.queue[1].kind = "frame" /\ k \in outs =>
                     /\ u.shown = t.shown \cup {k}
                     /\ ~t.garbled /\ (\A m \in t.shown : m < k) => ~u.garbled
               /\ t.queue[1].kind = "frame" /\ k \notin outs =>
                     u.shown = t.shown /\ u.garbled = t.garbled
<1> DEFINE item == Head(t.queue)
           drawn == Drawn(t, item)
           u == Committed(t, item)
<1>0. /\ t.shown \subseteq Nat /\ t.tpmCommitted \in Nat /\ t.committed \in Nat
      /\ item = t.queue[1] /\ item \in QueueItem /\ u \in Terminal
  <2>1. item \in QueueItem /\ u \in Terminal
    BY TerminalTypes
  <2>2. item = t.queue[1]
    BY TermFields
  <2> QED
    BY <2>1, <2>2, TermFields
<1>1. /\ drawn.queue = t.queue /\ drawn.tpmCommitted = t.tpmCommitted
      /\ drawn.committed = t.committed /\ drawn.received = t.received
      /\ drawn.phase = t.phase /\ drawn.stale = t.stale
      /\ item.kind = "reset" => drawn.shown = {} /\ drawn.garbled = FALSE
      /\ item.kind = "frame" /\ k \in outs =>
            /\ drawn.shown = t.shown \cup {k}
            /\ drawn.garbled = (t.garbled \/ \E m \in t.shown : m >= k)
      /\ item.kind = "frame" /\ k \notin outs =>
            drawn.shown = t.shown /\ drawn.garbled = t.garbled
      /\ DOMAIN drawn = DOMAIN t
  <2> DEFINE d == t.garbled \/ \E m \in t.shown : m >= k
             s == t.shown \cup {k}
  <2>1. d = (t.garbled \/ \E m \in t.shown : m >= k) /\ s = t.shown \cup {k}
    OBVIOUS
  <2>2. CASE item.kind = "reset"
    <3>1. drawn = [t EXCEPT !.shown = {}, !.garbled = FALSE]
      BY <1>0, <2>2 DEF Drawn
    <3> HIDE DEF drawn
    <3> QED
      BY <2>2, <3>1 DEF Terminal
  <2>3. CASE item.kind = "frame" /\ k \in outs
    <3>1. drawn = [t EXCEPT !.shown = s, !.garbled = d]
      BY <1>0, <2>3 DEF Drawn
    <3> HIDE DEF drawn, s, d
    <3>2. /\ drawn.queue = t.queue /\ drawn.tpmCommitted = t.tpmCommitted
          /\ drawn.committed = t.committed /\ drawn.received = t.received
          /\ drawn.phase = t.phase /\ drawn.stale = t.stale
          /\ drawn.shown = s /\ drawn.garbled = d /\ DOMAIN drawn = DOMAIN t
      BY <3>1, Zenon DEF Terminal
    <3> QED
      BY <2>1, <2>3, <3>2, Zenon
  <2>4. CASE item.kind = "frame" /\ k \notin outs
    <3>1. drawn = t
      BY <1>0, <2>4 DEF Drawn
    <3> HIDE DEF drawn
    <3> QED
      BY <2>4, <3>1
  <2> HIDE DEF drawn, item
  <2>5. item.kind \in {"reset", "frame"}
    BY <1>0
  <2> QED
    BY <2>2, <2>3, <2>4, <2>5
<1> DEFINE m == Larger(t.tpmCommitted, k)
           n == Larger(t.committed, k)
           rest == Tail(t.queue)
<1>2. u = [drawn EXCEPT !.queue = rest, !.tpmCommitted = m, !.committed = n]
  <2>1. item.seq = k
    BY <1>0
  <2> HIDE DEF drawn, item
  <2>2. u = [drawn EXCEPT !.queue = Tail(@), !.tpmCommitted = Larger(@, item.seq),
                          !.committed = Larger(@, item.seq)]
    BY DEF u, drawn, Committed
  <2> HIDE DEF u
  <2>3. DOMAIN t = {"phase", "received", "committed", "tpmCommitted", "queue", "shown",
                    "garbled", "stale"}
    BY DEF Terminal
  <2> QED
    BY <1>1, <2>1, <2>2, <2>3, Zenon
<1> HIDE DEF drawn, m, n, rest
<1>3. DOMAIN drawn = {"phase", "received", "committed", "tpmCommitted", "queue", "shown",
                      "garbled", "stale"}
  BY <1>1 DEF Terminal
<1> HIDE DEF u, item
<1>4. /\ u.queue = rest /\ u.tpmCommitted = m /\ u.committed = n
      /\ u.received = drawn.received /\ u.phase = drawn.phase /\ u.stale = drawn.stale
      /\ u.shown = drawn.shown /\ u.garbled = drawn.garbled
  BY <1>2, <1>3, Zenon
<1>5. (\E q \in t.shown : q >= k) => ~\A q \in t.shown : q < k
  BY <1>0
<1>6. ~t.garbled /\ (\A q \in t.shown : q < k) /\ k \in outs /\ item.kind = "frame" => ~u.garbled
  BY <1>1, <1>4, <1>5, Zenon
<1>7. /\ item.kind = "reset" => u.shown = {} /\ u.garbled = FALSE
      /\ item.kind = "frame" /\ k \in outs => u.shown = t.shown \cup {k}
      /\ item.kind = "frame" /\ k \notin outs => u.shown = t.shown /\ u.garbled = t.garbled
  BY <1>1, <1>4, Zenon
<1>8. /\ u.queue = Tail(t.queue) /\ u.tpmCommitted = Larger(t.tpmCommitted, k)
      /\ u.committed = Larger(t.committed, k)
      /\ u.received = t.received /\ u.phase = t.phase /\ u.stale = t.stale
  BY <1>1, <1>4 DEF m, n, rest
<1> QED
  BY <1>0, <1>6, <1>7, <1>8, Zenon DEF u, item

\* What writing a frame of the queue leaves as it is: what the terminal has.
Commits(t, u, O) ==
    /\ Have(u, O) = Have(t, O)
    /\ \A n \in Nat : Beyond(u, n) <=> Beyond(t, n)
    /\ Queued(u) \subseteq Queued(t)
    /\ \A n \in Queued(t) : n \in Queued(u) \/ n <= u.tpmCommitted
    /\ t.tpmCommitted <= u.tpmCommitted
    /\ u.tpmCommitted = t.tpmCommitted \/ u.tpmCommitted \in Queued(t)
    /\ t.committed <= u.committed
    /\ u.committed > u.tpmCommitted => u.committed = t.committed
    /\ u.received = t.received /\ u.phase = t.phase /\ u.stale = t.stale

LEMMA RenderInv ==
    ASSUME NEW t, NEW N, NEW L, TermInv(t, outs, L, N), t.queue # <<>>
    PROVE  LET u == Committed(t, Head(t.queue))
           IN  u \in Terminal /\ TermInv(u, outs, L, N) /\ Commits(t, u, outs)
<1>a. t \in Terminal /\ N \in Nat \ {0} /\ outs \subseteq 1..N - 1
  BY DEF TermInv
<1> USE <1>a
<1> DEFINE k == t.queue[1].seq
           u == Committed(t, Head(t.queue))
<1>0. /\ t.queue \in Seq(QueueItem) /\ t.shown \subseteq Nat /\ t.tpmCommitted \in Nat
      /\ t.committed \in Nat /\ Queued(t) \subseteq Nat
  BY TermFields
<1>1. /\ 1 \in DOMAIN t.queue /\ DOMAIN t.queue = 1..Len(t.queue) /\ Len(t.queue) \in Nat \ {0}
  BY <1>0
<1>2. k \in Nat /\ k \in Queued(t) /\ t.queue[1].kind \in {"reset", "frame"}
  BY <1>1, TermFields DEF Queued, TermInv, InOrder
<1> HIDE DEF k
<1>3. /\ u \in Terminal /\ u.queue = Tail(t.queue)
      /\ u.tpmCommitted = Larger(t.tpmCommitted, k)
      /\ u.committed = Larger(t.committed, k)
      /\ u.received = t.received /\ u.phase = t.phase /\ u.stale = t.stale
      /\ t.queue[1].kind = "reset" => u.shown = {} /\ u.garbled = FALSE
      /\ t.queue[1].kind = "frame" /\ k \in outs =>
            /\ u.shown = t.shown \cup {k}
            /\ ~t.garbled /\ (\A m \in t.shown : m < k) => ~u.garbled
      /\ t.queue[1].kind = "frame" /\ k \notin outs =>
            u.shown = t.shown /\ u.garbled = t.garbled
  BY <1>2, CommitFields DEF k
<1> HIDE DEF u
<1>4. /\ DOMAIN u.queue = 1..Len(t.queue) - 1
      /\ \A i \in DOMAIN u.queue : i + 1 \in DOMAIN t.queue /\ u.queue[i] = t.queue[i + 1]
      /\ \A i \in DOMAIN t.queue : i = 1 \/ i - 1 \in DOMAIN u.queue
  BY <1>0, <1>1, <1>3
<1>5. Queued(t) = Queued(u) \cup {k}
  <2>1. Queued(u) \subseteq Queued(t)
    BY <1>4 DEF Queued
  <2>2. ASSUME NEW i \in DOMAIN t.queue PROVE t.queue[i].seq \in Queued(u) \cup {k}
    <3>1. CASE i = 1
      BY <3>1 DEF k
    <3>2. CASE i # 1
      <4>1. i - 1 \in DOMAIN u.queue /\ (i - 1) + 1 = i
        BY <1>1, <1>4, <3>2
      <4>2. u.queue[i - 1] = t.queue[i]
        BY <1>4, <4>1
      <4> QED
        BY <4>1, <4>2 DEF Queued
    <3> QED
      BY <3>1, <3>2
  <2> QED
    BY <1>2, <2>1, <2>2 DEF Queued
<1>6. /\ u.tpmCommitted \in Nat /\ k <= u.tpmCommitted /\ t.tpmCommitted <= u.tpmCommitted
      /\ u.tpmCommitted = t.tpmCommitted \/ u.tpmCommitted = k
      /\ t.committed <= u.committed /\ u.committed \in Nat
      /\ u.committed > u.tpmCommitted => u.committed = t.committed
      /\ u.committed = t.committed \/ u.committed = k
  BY <1>0, <1>2, <1>3 DEF Larger
<1>7. \A n \in Nat : Beyond(u, n) <=> Beyond(t, n)
  BY <1>0, <1>2, <1>5, <1>6 DEF Beyond
<1>8. /\ \A i \in DOMAIN u.queue : u.queue[i].kind = "frame" /\ u.queue[i].seq \in 1..N - 1
      /\ ~Resets(u)
  <2>1. ASSUME NEW i \in DOMAIN u.queue
        PROVE  u.queue[i].kind = "frame" /\ u.queue[i].seq \in 1..N - 1
    <3>1. i + 1 \in DOMAIN t.queue /\ u.queue[i] = t.queue[i + 1] /\ i + 1 # 1
      BY <1>1, <1>4
    <3> QED
      BY <3>1 DEF TermInv, InOrder
  <2>2. u.queue # <<>> => 1 \in DOMAIN u.queue
    BY <1>0, <1>3
  <2> QED
    BY <2>1, <2>2 DEF Resets
<1>9. InOrder(u, outs, N)
  <2>1. k < N
    BY <1>1, <1>2 DEF TermInv, InOrder, k
  <2>2. u.tpmCommitted < N /\ u.committed < N
    BY <1>6, <2>1 DEF TermInv, InOrder
  <2>3. ASSUME NEW j \in DOMAIN u.queue, u.queue[j].seq \in outs
        PROVE  /\ u.tpmCommitted < u.queue[j].seq
               /\ \A i \in 1..j - 1 : u.queue[i].seq < u.queue[j].seq
    <3>1. /\ j + 1 \in DOMAIN t.queue /\ u.queue[j] = t.queue[j + 1]
          /\ 1 \in 1..(j + 1) - 1 /\ j \in Nat
      BY <1>1, <1>4
    <3>2. /\ t.tpmCommitted < u.queue[j].seq
          /\ \A i \in 1..(j + 1) - 1 : t.queue[i].seq < u.queue[j].seq
      BY <2>3, <3>1 DEF TermInv, InOrder
    <3>3. k < u.queue[j].seq
      BY <3>1, <3>2 DEF k
    <3>4. \A i \in 1..j - 1 : i + 1 \in 1..(j + 1) - 1 /\ i \in DOMAIN u.queue
      BY <1>1, <1>4, <3>1
    <3>5. \A i \in 1..j - 1 : u.queue[i].seq < u.queue[j].seq
      BY <1>4, <3>2, <3>4
    <3> QED
      BY <1>6, <3>2, <3>3, <3>5
  <2> QED
    BY <1>8, <2>2, <2>3 DEF InOrder
<1>10. Resets(t) <=> t.queue[1].kind = "reset"
  BY DEF Resets
<1>11. t.queue[1].kind = "reset" => k = 0 /\ k \notin outs
  <2>1. t.queue[1].kind = "reset" => k = 0
    BY <1>1 DEF TermInv, InOrder, k
  <2> QED
    BY <2>1
<1>12. t.queue[1].kind = "frame" /\ k \in outs =>
          /\ \A q \in t.shown : q < k
          /\ \A n \in Queued(u) \cap outs : k < n
  <2> SUFFICES ASSUME t.queue[1].kind = "frame", k \in outs
               PROVE  /\ \A q \in t.shown : q < k
                      /\ \A n \in Queued(u) \cap outs : k < n
    OBVIOUS
  <2>1. t.tpmCommitted < k
    BY <1>1 DEF TermInv, InOrder, k
  <2>2. \A q \in t.shown : q <= t.tpmCommitted
    BY <1>10 DEF TermInv, Solid, Base
  <2>3. ASSUME NEW j \in DOMAIN u.queue, u.queue[j].seq \in outs PROVE k < u.queue[j].seq
    <3>1. /\ j + 1 \in DOMAIN t.queue /\ u.queue[j] = t.queue[j + 1]
          /\ 1 \in 1..(j + 1) - 1
      BY <1>1, <1>4
    <3> QED
      BY <2>3, <3>1 DEF TermInv, InOrder, k
  <2> QED
    BY <1>0, <1>2, <2>1, <2>2, <2>3 DEF Queued
<1>13. /\ Base(u) = u.shown
       /\ Base(u) = IF t.queue[1].kind = "frame" /\ k \in outs THEN Base(t) \cup {k} ELSE Base(t)
  <2>1. Base(u) = u.shown
    BY <1>8 DEF Base
  <2>2. CASE t.queue[1].kind = "reset"
    BY <1>3, <1>10, <1>11, <2>1, <2>2 DEF Base
  <2>3. CASE t.queue[1].kind = "frame"
    BY <1>3, <1>10, <2>1, <2>3 DEF Base
  <2> QED
    BY <1>2, <2>1, <2>2, <2>3
<1>14. Have(u, outs) = Have(t, outs)
  <2>1. CASE t.queue[1].kind = "frame" /\ k \in outs
    BY <1>5, <1>13, <2>1 DEF Have
  <2>2. CASE k \notin outs
    BY <1>5, <1>13, <2>2 DEF Have
  <2> QED
    BY <1>2, <1>11, <2>1, <2>2
<1>15. Solid(u, outs, L)
  <2>1. u.shown \subseteq outs /\ ~u.garbled
    <3>1. t.shown \subseteq outs /\ ~t.garbled
      BY DEF TermInv, Solid
    <3>2. CASE t.queue[1].kind = "reset"
      BY <1>3, <3>2
    <3>3. CASE t.queue[1].kind = "frame" /\ k \in outs
      BY <1>3, <1>12, <3>1, <3>3
    <3>4. CASE t.queue[1].kind = "frame" /\ k \notin outs
      BY <1>3, <3>1, <3>4
    <3> QED
      BY <1>2, <3>2, <3>3, <3>4
  <2>2. \A a \in Base(u) : a <= u.tpmCommitted
    <3>1. \A a \in Base(t) : a <= t.tpmCommitted /\ a \in Nat
      BY <1>0 DEF TermInv, Solid, Base
    <3> QED
      BY <1>0, <1>6, <1>13, <3>1
  <2>3. \A n \in outs :
          \/ n \in Have(u, outs)
          \/ Beyond(u, n)
          \/ n \notin L /\ \A a \in Have(u, outs) : n < a
          \/ u.stale /\ n <= u.committed
    BY <1>0, <1>3, <1>6, <1>7, <1>14 DEF TermInv, Solid
  <2>4. ASSUME ~u.stale, NEW n \in outs, NEW a \in u.shown, NEW b \in u.shown, a < n, n < b
        PROVE  n \in u.shown
    <3>1. CASE t.queue[1].kind = "reset"
      BY <1>3, <2>4, <3>1
    <3>2. CASE t.queue[1].kind = "frame" /\ k \notin outs
      BY <1>3, <2>4, <3>2 DEF TermInv, Solid
    <3>3. CASE t.queue[1].kind = "frame" /\ k \in outs
      <4>1. u.shown = t.shown \cup {k} /\ ~t.stale
        BY <1>3, <2>4, <3>3
      <4>2. CASE a \in t.shown /\ b \in t.shown
        BY <2>4, <4>1, <4>2 DEF TermInv, Solid
      <4>3. CASE a = k
        BY <1>0, <1>2, <1>12, <2>4, <3>3, <4>1, <4>3
      <4>4. CASE a \in t.shown /\ b = k
        <5>1. ~Beyond(u, n) /\ ~(\A q \in Have(u, outs) : n < q)
          <6>1. a \in Have(u, outs) /\ ~(n < a)
            BY <1>0, <1>13, <2>4, <4>1, <4>4 DEF Have
          <6>2. ~(u.tpmCommitted < n)
            BY <1>2, <1>6, <2>4, <4>4
          <6> QED
            BY <6>1, <6>2 DEF Beyond
        <5>2. n \in Have(u, outs)
          BY <2>3, <2>4, <5>1
        <5>3. n \notin Queued(u)
          BY <1>2, <1>12, <2>4, <3>3, <4>4
        <5> QED
          BY <1>13, <5>2, <5>3 DEF Have
      <4> QED
        BY <4>1, <4>2, <4>3, <4>4
    <3> QED
      BY <1>2, <3>1, <3>2, <3>3
  <2> QED
    BY <2>1, <2>2, <2>3, <2>4 DEF Solid
<1>16. \A n \in Queued(t) : n \in Queued(u) \/ n <= u.tpmCommitted
  BY <1>5, <1>6
<1> QED
  BY <1>2, <1>3, <1>5, <1>6, <1>7, <1>9, <1>14, <1>15, <1>16 DEF u, TermInv, Commits

\* The phase and the receive cursor say nothing of what the terminal has.
SameScreen(t, u) ==
    /\ u.queue = t.queue /\ u.shown = t.shown /\ u.tpmCommitted = t.tpmCommitted
    /\ u.committed = t.committed /\ u.garbled = t.garbled /\ u.stale = t.stale

LEMMA SameScreenInv ==
    ASSUME NEW t, NEW u \in Terminal, SameScreen(t, u), NEW O, NEW L, NEW N
    PROVE  /\ TermInv(t, O, L, N) => TermInv(u, O, L, N)
           /\ Queued(u) = Queued(t) /\ Have(u, O) = Have(t, O)
           /\ \A n \in Nat : Beyond(u, n) <=> Beyond(t, n)
<1>1. Queued(u) = Queued(t)
  BY DEF SameScreen, Queued
<1>2. Resets(u) <=> Resets(t)
  BY DEF SameScreen, Resets
<1>3. Base(u) = Base(t)
  BY <1>2 DEF SameScreen, Base
<1>4. Have(u, O) = Have(t, O)
  BY <1>1, <1>3 DEF Have
<1>5. \A n : Beyond(u, n) <=> Beyond(t, n)
  BY <1>1 DEF SameScreen, Beyond
<1>6. InOrder(t, O, N) => InOrder(u, O, N)
  BY <1>2 DEF SameScreen, InOrder
<1>7. Solid(t, O, L) => Solid(u, O, L)
  BY <1>3, <1>4, <1>5 DEF SameScreen, Solid
<1> QED
  BY <1>1, <1>4, <1>5, <1>6, <1>7 DEF TermInv

-----------------------------------------------------------------------------
(* Lemmas about replies *)

LEMMA BringsSame ==
    ASSUME NEW t, NEW u \in Terminal, SameScreen(t, u), NEW N, NEW O \in SUBSET Nat, NEW L,
           NEW reset, NEW S, NEW end, Brings(reset, S, end, t, O, L, N)
    PROVE  Brings(reset, S, end, u, O, L, N)
BY SameScreenInv DEF Brings, SameScreen

LEMMA BringsRender ==
    ASSUME NEW t \in Terminal, NEW u \in Terminal, NEW N, NEW O \in SUBSET Nat, NEW L,
           Commits(t, u, O),
           NEW reset, NEW S \in SUBSET Nat, NEW end \in Nat, Brings(reset, S, end, t, O, L, N)
    PROVE  Brings(reset, S, end, u, O, L, N)
<1>1. u.tpmCommitted <= end /\ \A q \in Queued(u) : q <= end
  BY DEF Commits, Brings
<1>2. \A n \in O : n <= t.committed => n <= u.committed
  BY TermFields DEF Commits
<1>3. \A n \in O : n <= t.tpmCommitted => n <= u.tpmCommitted
  BY TermFields DEF Commits
<1> QED
  BY <1>1, <1>2, <1>3 DEF Commits, Brings

LEMMA BringsLater ==
    ASSUME NEW t, NEW N, NEW O, NEW L, TermInv(t, O, L, N), NEW P, NEW K, Later(O, L, N, P, K),
           NEW reset, NEW S \in SUBSET Nat, NEW end \in Nat, Brings(reset, S, end, t, O, L, N)
    PROVE  Brings(reset, S, end, t, P, K, N + 1)
<1>a. t \in Terminal /\ N \in Nat \ {0} /\ O \subseteq 1..N - 1
  BY DEF TermInv
<1> USE <1>a
<1>b. O \subseteq P /\ P \subseteq O \cup {N} /\ K \cap O \subseteq L
  BY DEF Later
<1>1. Have(t, P) = Have(t, O)
  BY TermLater
<1> USE <1>b
<1>2. end < N /\ end < N + 1 /\ N \notin S /\ \A n \in P : n <= end => n \in O
  BY DEF Brings
<1>3. \A n \in O : n \notin L => n \notin K
  OBVIOUS
<1> QED
  BY <1>1, <1>2, <1>3 DEF Brings

\* The reset of a reply makes room for all that the reply brings.
LEMMA BringsRestarted ==
    ASSUME NEW t, NEW N, NEW O, NEW L, TermInv(t, O, L, N),
           NEW S \in SUBSET Nat, NEW end \in Nat, Brings(TRUE, S, end, t, O, L, N)
    PROVE  Brings(FALSE, S, end, Restarted(t), O, L, N)
<1>a. t \in Terminal /\ N \in Nat \ {0} /\ O \subseteq 1..N - 1
  BY DEF TermInv
<1> USE <1>a
<1> DEFINE u == Restarted(t)
<1>1. /\ Have(u, O) = {} /\ Queued(u) = {0} /\ \A n \in Nat \ {0} : Beyond(u, n)
      /\ u.tpmCommitted = 0 /\ u.committed = t.committed /\ u.stale = t.stale
  BY RestartInv
<1> HIDE DEF u
<1>2. \A n \in O : n \in Nat \ {0}
  OBVIOUS
<1>3. Brings(FALSE, S, end, u, O, L, N)
  BY <1>1, <1>2 DEF Brings
<1> QED
  BY <1>3 DEF u

\* A reply whose reset is through hands the terminal fitting frames.
LEMMA BringsFrame ==
    ASSUME NEW t, NEW N, NEW O, NEW L, TermInv(t, O, L, N),
           NEW S \in SUBSET Nat, NEW end \in Nat, Brings(FALSE, S, end, t, O, L, N),
           NEW k \in S, First(k, S)
    PROVE  /\ k \in 1..N - 1 /\ Fitting(t, k, O, L)
           /\ Brings(FALSE, S \ {k}, end, Enqueued(t, Frame(k)), O, L, N)
<1>a. t \in Terminal /\ N \in Nat \ {0} /\ O \subseteq 1..N - 1
  BY DEF TermInv
<1> USE <1>a
<1>1. k \in 1..N - 1 /\ k <= end /\ k \in Nat
  BY DEF Brings
<1>2. \A m \in O : m < k => m \notin S /\ m <= end
  BY <1>1 DEF First
<1>3. Fitting(t, k, O, L)
  <2>1. k \in O => k <= t.tpmCommitted \/ k \in Queued(t) \/ Beyond(t, k)
    BY DEF Brings
  <2>2. ASSUME NEW m \in O, Beyond(t, m), m < k
        PROVE  (m \notin L /\ Have(t, O) = {}) \/ (t.stale /\ m <= t.committed)
    <3>1. m \notin S /\ m <= end
      BY <1>2, <2>2
    <3> QED
      BY <2>2, <3>1 DEF Brings
  <2> QED
    BY <2>1, <2>2 DEF Fitting
<1> DEFINE u == Enqueued(t, Frame(k))
<1>4. /\ TermInv(u, O, L, N)
      /\ \A n \in Nat : Beyond(u, n) <=> Beyond(t, n) /\ k < n
      /\ Queued(t) \subseteq Queued(u) /\ Queued(u) \subseteq Queued(t) \cup {k}
      /\ u.tpmCommitted = t.tpmCommitted /\ u.committed = t.committed /\ u.stale = t.stale
  BY <1>1, <1>3, EnqueueInv
<1> HIDE DEF u
<1>5. \A n \in S \ {k} : k < n
  BY <1>1 DEF First
<1>6. /\ S \ {k} \subseteq 1..end /\ end < N
      /\ u.tpmCommitted <= end /\ \A q \in Queued(u) : q <= end
  BY <1>1, <1>4 DEF Brings
<1>7. \A n \in O : n <= end /\ Beyond(u, n) =>
          n \in S \ {k} \/ (u.stale /\ n <= u.committed)
  <2> SUFFICES ASSUME NEW n \in O, n <= end, Beyond(u, n)
               PROVE  n \in S \ {k} \/ (u.stale /\ n <= u.committed)
    OBVIOUS
  <2>1. Beyond(t, n) /\ k < n
    BY <1>4
  <2>2. ~\A q \in S : n < q
    BY <1>1, <2>1
  <2>3. n # k
    BY <1>1, <2>1
  <2>4. n \in S \/ (t.stale /\ n <= t.committed)
    BY <2>1, <2>2 DEF Brings
  <2> QED
    BY <1>4, <2>3, <2>4
<1>8. \A n \in (S \ {k}) \cap O : Beyond(u, n) \/ n \in Queued(u) \/ n <= u.tpmCommitted
  BY <1>4, <1>5 DEF Brings
<1>9. Brings(FALSE, S \ {k}, end, u, O, L, N)
  BY <1>6, <1>7, <1>8 DEF Brings
<1> QED
  BY <1>1, <1>3, <1>9 DEF u

\* k is the next output after the last one received.
Upcoming(t, k, O) == k \in O /\ t.received < k /\ \A m \in O : t.received < m => k <= m

\* Nothing is missing up to the last frame received.
Level(t, O, L, N) == Brings(FALSE, {}, t.received, t, O, L, N)

\* The first output of the runs on the wire fits a terminal that is attached.
LEMMA LiveFrame ==
    ASSUME NEW t, NEW N, NEW O, NEW L, TermInv(t, O, L, N),
           Level(t, O, L, N), NEW k, Upcoming(t, k, O),
           NEW v \in Terminal, SameScreen(t, v), v.received = k, v.phase = t.phase
    PROVE  LET u == Enqueued(v, Frame(k))
           IN  /\ u \in Terminal /\ TermInv(u, O, L, N)
               /\ Level(u, O, L, N)
               /\ u.tpmCommitted = t.tpmCommitted /\ u.committed = t.committed
               /\ u.received = k /\ u.phase = t.phase /\ u.stale = t.stale
<1>a. /\ t \in Terminal /\ N \in Nat \ {0} /\ O \subseteq 1..N - 1
      /\ k \in O /\ t.received < k /\ \A m \in O : t.received < m => k <= m
  BY DEF TermInv, Upcoming
<1>b. Brings(FALSE, {}, t.received, t, O, L, N)
  BY DEF Level
<1> USE <1>a
<1> DEFINE u == Enqueued(v, Frame(k))
<1>1. k \in Nat /\ k \in 1..N - 1 /\ t.received \in Nat
  BY TermFields
<1>2. v \in Terminal
  OBVIOUS
<1>3. SameScreen(t, v) /\ v.received = k /\ v.phase = t.phase
  OBVIOUS
<1>4. TermInv(v, O, L, N) /\ Brings(FALSE, {}, t.received, v, O, L, N)
  <2>1. O \in SUBSET Nat
    OBVIOUS
  <2> QED
    BY <1>2, <1>3, <1>b, <2>1, SameScreenInv, BringsSame, Zenon
<1>5. Beyond(v, k)
  BY <1>1, <1>2, <1>4, TermFields DEF Brings, Beyond
<1>6. \A m \in O : m < k => m <= t.received
  BY <1>1
<1>7. Fitting(v, k, O, L)
  <2>1. ASSUME NEW m \in O, Beyond(v, m), m < k
        PROVE  (m \notin L /\ Have(v, O) = {}) \/ (v.stale /\ m <= v.committed)
    <3>1. m <= t.received
      BY <1>6, <2>1
    <3> QED
      BY <1>4, <2>1, <3>1 DEF Brings
  <2> QED
    BY <1>5, <2>1 DEF Fitting
<1>8. /\ u \in Terminal /\ TermInv(u, O, L, N)
      /\ \A n \in Nat : Beyond(u, n) <=> Beyond(v, n) /\ k < n
      /\ Queued(u) \subseteq Queued(v) \cup {k}
      /\ u.tpmCommitted = v.tpmCommitted /\ u.committed = v.committed
      /\ u.received = v.received /\ u.phase = v.phase /\ u.stale = v.stale
  BY <1>1, <1>2, <1>4, <1>7, EnqueueInv
<1> HIDE DEF u
<1>9. \A n \in O : ~(n <= k /\ Beyond(u, n))
  BY <1>1, <1>8
<1>10. u.tpmCommitted <= k /\ \A q \in Queued(u) : q <= k
  BY <1>1, <1>2, <1>4, <1>8, TermFields DEF Brings
<1>11. Brings(FALSE, {}, k, u, O, L, N)
  BY <1>1, <1>9, <1>10 DEF Brings
<1>12. Level(u, O, L, N)
  BY <1>3, <1>8, <1>11 DEF Level
<1> QED
  BY <1>3, <1>8, <1>12 DEF u, SameScreen

-----------------------------------------------------------------------------
(* Lemmas about the wire *)

LEMMA WireFields ==
    ASSUME NEW w \in Seq(WireItem)
    PROVE  /\ DOMAIN w = 1..Len(w) /\ Len(w) \in Nat /\ Flying(w) \subseteq Nat
           /\ \A i \in DOMAIN w : /\ w[i].frames \subseteq Nat
                                  /\ w[i].kind \in {"output", "attached"}
           /\ w # <<>> => 1 \in DOMAIN w /\ Head(w) = w[1]
           /\ w = <<>> => Flying(w) = {} /\ ~Replying(w)
<1>1. DOMAIN w = 1..Len(w) /\ Len(w) \in Nat /\ \A i \in DOMAIN w : w[i] \in WireItem
  OBVIOUS
<1>2. \A i \in DOMAIN w : w[i].frames \subseteq Nat /\ w[i].kind \in {"output", "attached"}
  BY <1>1 DEF WireItem
<1>3. w # <<>> => 1 \in DOMAIN w /\ Head(w) = w[1]
  OBVIOUS
<1>4. w = <<>> => Flying(w) = {} /\ ~Replying(w)
  BY DEF Flying, Runs, Replying
<1>5. Flying(w) \subseteq Nat
  BY <1>2 DEF Flying, Runs
<1> QED
  BY <1>1, <1>2, <1>3, <1>4, <1>5

\* A batch of later outputs is queued behind what is on the wire.
LEMMA QueueRun ==
    ASSUME NEW w \in Seq(WireItem), NEW start \in Nat, NEW O \in SUBSET Nat, RunsInv(w, start, O),
           NEW S \in SUBSET O, S # {},
           \A n \in S : start < n /\ \A m \in Flying(w) : m < n,
           \A n \in O : \A m \in S : start < n /\ n <= m => n \in Flying(w) \cup S
    PROVE  LET v == Append(w, OutputRun(S))
           IN  /\ RunsInv(v, start, O) /\ Flying(v) = Flying(w) \cup S
               /\ Replying(v) <=> Replying(w)
               /\ Replying(w) => v[1] = w[1]
               /\ v # <<>>
<1> DEFINE item == OutputRun(S)
           v == Append(w, item)
<1>1. item \in WireItem /\ item.kind = "output" /\ item.frames = S
  BY WireTypes DEF OutputRun
<1> HIDE DEF item
<1>2. /\ v \in Seq(WireItem) /\ DOMAIN v = 1..Len(w) + 1 /\ DOMAIN w = 1..Len(w)
      /\ Len(w) \in Nat /\ v[Len(w) + 1] = item /\ v # <<>>
      /\ \A i \in DOMAIN w : v[i] = w[i]
      /\ \A i \in DOMAIN v : i \in DOMAIN w \/ i = Len(w) + 1
  BY <1>1
<1> HIDE DEF v
<1>3. /\ Runs(w) \subseteq Runs(v) /\ Len(w) + 1 \in Runs(v)
      /\ \A i \in Runs(v) : i \in Runs(w) \/ i = Len(w) + 1
  BY <1>1, <1>2 DEF Runs
<1>4. Flying(v) = Flying(w) \cup S
  <2>1. \A i \in Runs(w) : w[i] = v[i]
    BY <1>2 DEF Runs
  <2> QED
    BY <1>1, <1>2, <1>3, <2>1 DEF Flying
<1>5. (Replying(v) <=> Replying(w)) /\ (Replying(w) => v[1] = w[1])
  <2>1. CASE w = <<>>
    <3>1. v[1] = item
      BY <1>2, <2>1
    <3> QED
      BY <1>1, <2>1, <3>1 DEF Replying
  <2>2. CASE w # <<>>
    BY <1>2, <2>2 DEF Replying
  <2> QED
    BY <2>1, <2>2
<1>6. RunsOK(v, O)
  <2>1. ASSUME NEW i \in DOMAIN v
        PROVE  /\ v[i].kind = "attached" => i = 1
               /\ v[i].kind = "output" => v[i].frames # {} /\ v[i].frames \subseteq O
    <3>1. CASE i \in DOMAIN w
      BY <1>2, <3>1 DEF RunsInv, RunsOK
    <3>2. CASE i = Len(w) + 1
      BY <1>1, <1>2, <3>2
    <3> QED
      BY <1>2, <3>1, <3>2
  <2>2. ASSUME NEW i \in Runs(v), NEW j \in Runs(v), i < j,
               NEW m \in v[i].frames, NEW n \in v[j].frames
        PROVE  m < n
    <3>1. i \in Runs(w)
      <4>1. i # Len(w) + 1
        BY <1>2, <2>2 DEF Runs
      <4> QED
        BY <1>3, <4>1
    <3>2. v[i] = w[i] /\ m \in Flying(w)
      BY <1>2, <2>2, <3>1 DEF Runs, Flying
    <3>3. CASE j \in Runs(w)
      <4>1. v[j] = w[j]
        BY <1>2, <3>3 DEF Runs
      <4> QED
        BY <2>2, <3>1, <3>2, <3>3, <4>1 DEF RunsInv, RunsOK
    <3>4. CASE j = Len(w) + 1
      <4>1. n \in S
        BY <1>1, <1>2, <2>2, <3>4
      <4> QED
        BY <3>2, <4>1
    <3> QED
      BY <1>3, <3>3, <3>4
  <2> QED
    BY <2>1, <2>2 DEF RunsOK
<1>7. \A n \in Flying(v) : start < n
  BY <1>4 DEF RunsInv
<1>8. \A n \in O : \A m \in Flying(v) : start < n /\ n <= m => n \in Flying(v)
  BY <1>4 DEF RunsInv
<1>9. RunsInv(v, start, O)
  BY <1>6, <1>7, <1>8 DEF RunsInv
<1> QED
  BY <1>2, <1>4, <1>5, <1>9 DEF v, item

\* A reply is queued when nothing is on the wire.
LEMMA QueueReply ==
    ASSUME NEW item \in WireItem, item.kind = "attached", NEW start, NEW O
    PROVE  LET v == Append(<<>>, item)
           IN  RunsInv(v, start, O) /\ Flying(v) = {} /\ Replying(v) /\ v[1] = item
<1> DEFINE v == Append(<<>>, item)
<1>1. v = <<item>> /\ DOMAIN v = {1} /\ v[1] = item /\ v # <<>>
  OBVIOUS
<1> HIDE DEF v
<1>2. Runs(v) = {}
  BY <1>1 DEF Runs
<1>3. Flying(v) = {} /\ Replying(v)
  BY <1>1, <1>2 DEF Flying, Replying
<1>4. RunsInv(v, start, O)
  BY <1>1, <1>2, <1>3 DEF RunsInv, RunsOK
<1> QED
  BY <1>1, <1>3, <1>4 DEF v

\* The wire without its first item, and with another reply there.
LEMMA RestOfReply ==
    ASSUME NEW w \in Seq(WireItem), NEW start, NEW O, RunsInv(w, start, O), Replying(w)
    PROVE  /\ LET v == Tail(w)
              IN  RunsInv(v, start, O) /\ Flying(v) = Flying(w) /\ ~Replying(v)
           /\ \A item \in WireItem : item.kind = "attached" =>
                 LET v == <<item>> \o Tail(w)
                 IN  /\ RunsInv(v, start, O) /\ Flying(v) = Flying(w)
                     /\ Replying(v) /\ v[1] = item
<1>0. /\ DOMAIN w = 1..Len(w) /\ Len(w) \in Nat \ {0} /\ w[1].kind = "attached"
      /\ 1 \in DOMAIN w
  BY DEF Replying
<1>1. \A i \in Runs(w) : i # 1
  BY <1>0 DEF Runs
<1>2. ASSUME NEW v, v = Tail(w)
      PROVE  RunsInv(v, start, O) /\ Flying(v) = Flying(w) /\ ~Replying(v)
  <2>1. /\ DOMAIN v = 1..Len(w) - 1
        /\ \A i \in DOMAIN v : i + 1 \in DOMAIN w /\ v[i] = w[i + 1] /\ i + 1 # 1
        /\ \A i \in DOMAIN w : i # 1 => i - 1 \in DOMAIN v /\ w[i] = v[i - 1]
        /\ v # <<>> => 1 \in DOMAIN v
    BY <1>0, <1>2
  <2>2. /\ \A i \in Runs(v) : i + 1 \in Runs(w) /\ v[i].frames = w[i + 1].frames
        /\ \A i \in Runs(w) : i - 1 \in Runs(v) /\ v[i - 1].frames = w[i].frames
    BY <1>0, <1>1, <2>1 DEF Runs
  <2>3. Flying(v) = Flying(w)
    BY <2>2 DEF Flying
  <2>4. \A i \in DOMAIN v : v[i].kind # "attached"
    BY <1>0, <2>1 DEF RunsInv, RunsOK
  <2>5. ASSUME NEW i \in Runs(v), NEW j \in Runs(v), i < j,
               NEW m \in v[i].frames, NEW n \in v[j].frames
        PROVE  m < n
    <3>1. i + 1 \in Runs(w) /\ j + 1 \in Runs(w) /\ i + 1 < j + 1
      BY <1>0, <2>1, <2>2, <2>5 DEF Runs
    <3> QED
      BY <2>2, <2>5, <3>1 DEF RunsInv, RunsOK
  <2>6. \A i \in DOMAIN v : v[i].kind = "output" => v[i].frames # {} /\ v[i].frames \subseteq O
    BY <2>1 DEF RunsInv, RunsOK
  <2>7. RunsInv(v, start, O)
    BY <2>3, <2>4, <2>5, <2>6 DEF RunsInv, RunsOK
  <2>8. ~Replying(v)
    BY <2>1, <2>4 DEF Replying
  <2> QED
    BY <2>3, <2>7, <2>8
<1>3. ASSUME NEW item \in WireItem, item.kind = "attached", NEW v, v = <<item>> \o Tail(w)
      PROVE  RunsInv(v, start, O) /\ Flying(v) = Flying(w) /\ Replying(v) /\ v[1] = item
  <2>1. /\ DOMAIN v = DOMAIN w /\ v[1] = item /\ v # <<>>
        /\ \A i \in DOMAIN w : i # 1 => v[i] = w[i]
    BY <1>0, <1>3
  <2>2. Runs(v) = Runs(w) /\ \A i \in Runs(w) : v[i] = w[i]
    BY <1>1, <1>3, <2>1 DEF Runs
  <2>3. Flying(v) = Flying(w)
    BY <2>2 DEF Flying
  <2>4. RunsOK(v, O)
    <3>1. \A i \in DOMAIN v :
             /\ v[i].kind = "attached" => i = 1
             /\ v[i].kind = "output" => v[i].frames # {} /\ v[i].frames \subseteq O
      BY <1>3, <2>1 DEF RunsInv, RunsOK
    <3>2. \A i, j \in Runs(v) : i < j => \A m \in v[i].frames, n \in v[j].frames : m < n
      BY <2>2 DEF RunsInv, RunsOK
    <3> QED
      BY <3>1, <3>2 DEF RunsOK
  <2>5. RunsInv(v, start, O)
    BY <2>3, <2>4 DEF RunsInv
  <2> QED
    BY <1>3, <2>1, <2>3, <2>5 DEF Replying
<1> QED
  BY <1>2, <1>3

\* The positions of a sequence without its head, and with another one.
LEMMA TailShape ==
    ASSUME NEW w \in Seq(WireItem), w # <<>>
    PROVE  /\ LET v == Tail(w)
              IN  /\ DOMAIN v = 1..Len(w) - 1
                  /\ \A i \in DOMAIN v : i + 1 \in DOMAIN w /\ v[i] = w[i + 1] /\ i + 1 # 1
                  /\ \A i \in DOMAIN w : i # 1 => i - 1 \in DOMAIN v /\ w[i] = v[i - 1]
                  /\ v # <<>> => 1 \in DOMAIN v
           /\ \A item \in WireItem :
                 LET v == <<item>> \o Tail(w)
                 IN  /\ DOMAIN v = DOMAIN w /\ v[1] = item /\ v # <<>>
                     /\ \A i \in DOMAIN w : i # 1 => v[i] = w[i]
  OBVIOUS

\* The first output n on the wire is taken off and leaves v.
Takes(w, n, v) ==
    \/ w[1].frames = {n} /\ v = Tail(w)
    \/ w[1].frames # {n} /\ v = <<OutputRun(w[1].frames \ {n})>> \o Tail(w)

LEMMA TakeOutput ==
    ASSUME NEW w \in Seq(WireItem), NEW start \in Nat, NEW O \in SUBSET Nat, RunsInv(w, start, O),
           w # <<>>, w[1].kind = "output", NEW n \in w[1].frames, First(n, w[1].frames),
           NEW v, Takes(w, n, v)
    PROVE  /\ RunsInv(v, n, O) /\ Flying(v) = Flying(w) \ {n} /\ ~Replying(v)
           /\ n \in O /\ start < n /\ n \in Flying(w) /\ \A m \in Flying(w) : n <= m
           /\ \A m \in O : start < m => n <= m
<1> DEFINE S == w[1].frames
<1>0. /\ DOMAIN w = 1..Len(w) /\ Len(w) \in Nat \ {0} /\ 1 \in Runs(w)
      /\ S \in SUBSET Nat /\ n \in Nat /\ S \subseteq O /\ n \in S /\ \A m \in S : n <= m
  <2>1. 1 \in DOMAIN w /\ DOMAIN w = 1..Len(w) /\ Len(w) \in Nat \ {0}
    BY WireFields
  <2>2. S \in SUBSET Nat /\ S \subseteq O
    BY <2>1 DEF RunsInv, RunsOK
  <2> QED
    BY <2>1, <2>2 DEF Runs, First
<1>1. \A j \in Runs(w) : j # 1 => \A m \in w[j].frames : n < m
  BY <1>0 DEF RunsInv, RunsOK, Runs
<1>2. n \in Flying(w) /\ \A m \in Flying(w) : n <= m
  <2>1. n \in Flying(w)
    BY <1>0, Zenon DEF Flying
  <2>2. ASSUME NEW j \in Runs(w), NEW m \in w[j].frames PROVE n <= m
    <3>1. m \in Nat
      BY <2>2, WireFields DEF Runs
    <3> QED
      BY <1>0, <1>1, <2>2, <3>1
  <2> QED
    BY <2>1, <2>2 DEF Flying
<1>3. start < n /\ \A m \in O : start < m => n <= m
  <2>1. start < n
    BY <1>2 DEF RunsInv
  <2>2. ASSUME NEW m \in O, start < m PROVE n <= m
    <3>1. m <= n => m \in Flying(w)
      BY <1>2, <2>2 DEF RunsInv
    <3> QED
      BY <1>0, <1>2, <3>1
  <2> QED
    BY <2>1, <2>2
\* The rest: the same runs, the first one without n.
<1>4. /\ \A i \in Runs(v) : v[i].frames # {} /\ v[i].frames \subseteq O
      /\ \A i \in DOMAIN v : v[i].kind # "attached"
      /\ \A i, j \in Runs(v) : i < j => \A m \in v[i].frames, q \in v[j].frames : m < q
      /\ Flying(v) = Flying(w) \ {n}
      /\ v # <<>> => 1 \in DOMAIN v
  <2>1. CASE S = {n}
    <3>1. v = Tail(w)
      BY <2>1 DEF Takes
    <3>2. /\ DOMAIN v = 1..Len(w) - 1
          /\ \A i \in DOMAIN v : i + 1 \in DOMAIN w /\ v[i] = w[i + 1] /\ i + 1 # 1
          /\ \A i \in DOMAIN w : i # 1 => i - 1 \in DOMAIN v /\ w[i] = v[i - 1]
          /\ v # <<>> => 1 \in DOMAIN v
      BY <3>1, TailShape
    <3>3. /\ \A i \in Runs(v) : i + 1 \in Runs(w) /\ v[i].frames = w[i + 1].frames /\ i + 1 # 1
          /\ \A i \in Runs(w) : i # 1 => i - 1 \in Runs(v) /\ v[i - 1].frames = w[i].frames
      BY <1>0, <3>2 DEF Runs
    <3>4. Flying(v) = Flying(w) \ {n}
      <4>1. ASSUME NEW i \in Runs(v), NEW m \in v[i].frames PROVE m \in Flying(w) /\ m # n
        <5>1. i + 1 \in Runs(w) /\ m \in w[i + 1].frames /\ i + 1 # 1
          BY <3>3, <4>1
        <5>2. n < m
          BY <1>1, <5>1
        <5>3. m \in Flying(w)
          BY <5>1, Zenon DEF Flying
        <5> QED
          BY <1>0, <5>2, <5>3
      <4>2. ASSUME NEW i \in Runs(w), NEW m \in w[i].frames, m # n PROVE m \in Flying(v)
        <5>1. i # 1
          BY <2>1, <4>2
        <5>2. i - 1 \in Runs(v) /\ m \in v[i - 1].frames
          BY <3>3, <4>2, <5>1
        <5> QED
          BY <5>2, Zenon DEF Flying
      <4> QED
        BY <4>1, <4>2, Zenon DEF Flying
    <3>5. ASSUME NEW i \in Runs(v), NEW j \in Runs(v), i < j,
                 NEW m \in v[i].frames, NEW q \in v[j].frames
          PROVE  m < q
      <4>1. i \in 1..Len(w) - 1 /\ j \in 1..Len(w) - 1
        BY <3>2 DEF Runs
      <4>2. i + 1 \in Runs(w) /\ j + 1 \in Runs(w) /\ i + 1 < j + 1
        BY <1>0, <3>3, <3>5, <4>1
      <4> QED
        BY <3>3, <3>5, <4>2 DEF RunsInv, RunsOK
    <3>6. \A i \in DOMAIN v : v[i].kind # "attached"
      BY <1>0, <3>2 DEF RunsInv, RunsOK
    <3>7. \A i \in Runs(v) : v[i].frames # {} /\ v[i].frames \subseteq O
      BY <3>3 DEF RunsInv, RunsOK, Runs
    <3> QED
      BY <3>2, <3>4, <3>5, <3>6, <3>7
  <2>2. CASE S # {n}
    <3> DEFINE item == OutputRun(S \ {n})
    <3>1. v = <<item>> \o Tail(w)
      BY <2>2 DEF Takes
    <3>2. item.kind = "output" /\ item.frames = S \ {n}
      BY DEF OutputRun
    <3> HIDE DEF item, S
    <3>3. /\ DOMAIN v = DOMAIN w /\ v[1] = item /\ v # <<>>
          /\ \A i \in DOMAIN w : i # 1 => v[i] = w[i]
      <4>1. item \in WireItem
        BY <1>0, WireTypes DEF item, S
      <4> QED
        BY <3>1, <4>1, TailShape
    <3>4. Runs(v) = Runs(w) /\ \A i \in Runs(w) : i # 1 => v[i] = w[i]
      BY <1>0, <3>2, <3>3 DEF Runs
    <3>5. Flying(v) = Flying(w) \ {n}
      <4>1. ASSUME NEW i \in Runs(v), NEW m \in v[i].frames PROVE m \in Flying(w) /\ m # n
        <5>1. CASE i = 1
          <6>1. m \in S \ {n}
            BY <3>2, <3>3, <4>1, <5>1
          <6> QED
            BY <1>0, <6>1, Zenon DEF Flying, S
        <5>2. CASE i # 1
          <6>1. i \in Runs(w) /\ m \in w[i].frames
            BY <3>4, <4>1, <5>2
          <6>2. n < m
            BY <1>1, <5>2, <6>1
          <6>3. m \in Flying(w)
            BY <6>1, Zenon DEF Flying
          <6> QED
            BY <1>0, <6>2, <6>3
        <5> QED
          BY <5>1, <5>2
      <4>2. ASSUME NEW i \in Runs(w), NEW m \in w[i].frames, m # n PROVE m \in Flying(v)
        <5>1. m \in v[i].frames /\ i \in Runs(v)
          BY <3>2, <3>3, <3>4, <4>2 DEF S
        <5> QED
          BY <5>1, Zenon DEF Flying
      <4> QED
        BY <4>1, <4>2, Zenon DEF Flying
    <3>6. \A i \in Runs(v) : v[i].frames \subseteq w[i].frames /\ v[i].frames # {}
      <4>1. S \ {n} # {}
        BY <1>0, <2>2
      <4> QED
        BY <3>2, <3>3, <3>4, <4>1 DEF RunsInv, RunsOK, Runs, S
    <3>7. \A i, j \in Runs(v) : i < j => \A m \in v[i].frames, q \in v[j].frames : m < q
      BY <3>4, <3>6 DEF RunsInv, RunsOK
    <3>8. \A i \in Runs(v) : v[i].frames \subseteq O
      BY <3>4, <3>6 DEF RunsInv, RunsOK, Runs
    <3>9. \A i \in DOMAIN v : v[i].kind # "attached"
      BY <3>2, <3>3 DEF RunsInv, RunsOK
    <3> QED
      BY <1>0, <3>3, <3>5, <3>6, <3>7, <3>8, <3>9 DEF Runs
  <2> QED
    BY <2>1, <2>2
<1>5. ~Replying(v)
  BY <1>4 DEF Replying
<1>6. RunsOK(v, O)
  BY <1>4 DEF RunsOK, Runs
<1>7. \A m \in Flying(v) : n < m
  <2>1. Flying(w) \subseteq Nat
    BY WireFields
  <2> QED
    BY <1>0, <1>2, <1>4, <2>1
<1>8. \A q \in O : \A m \in Flying(v) : n < q /\ q <= m => q \in Flying(v)
  <2> SUFFICES ASSUME NEW q \in O, NEW m \in Flying(v), n < q, q <= m PROVE q \in Flying(v)
    OBVIOUS
  <2>1. start < q /\ m \in Flying(w) /\ q # n
    BY <1>0, <1>3, <1>4
  <2> QED
    BY <1>4, <2>1 DEF RunsInv
<1>9. RunsInv(v, n, O)
  BY <1>6, <1>7, <1>8 DEF RunsInv
<1> QED
  BY <1>0, <1>2, <1>3, <1>4, <1>5, <1>9

\* An event that is numbered now does not change what is on the wire.
LEMMA RunsLater ==
    ASSUME NEW w \in Seq(WireItem), NEW start, NEW N \in Nat \ {0}, NEW O \in SUBSET (1..N - 1),
           RunsInv(w, start, O), NEW L, NEW P, NEW K, Later(O, L, N, P, K)
    PROVE  RunsInv(w, start, P) /\ \A m \in Flying(w) : m < N
<1>1. O \subseteq P /\ P \subseteq O \cup {N}
  BY DEF Later
<1>2. Flying(w) \subseteq O
  BY DEF Flying, Runs, RunsInv, RunsOK
<1>3. RunsOK(w, P)
  <2>1. RunsOK(w, O)
    BY DEF RunsInv
  <2>2. \A i \in DOMAIN w : w[i].kind = "output" => w[i].frames \subseteq P
    BY <1>1, <2>1 DEF RunsOK
  <2> QED
    BY <2>1, <2>2 DEF RunsOK
<1>4. \A m \in Flying(w) : m \in 1..N - 1
  BY <1>2
<1>5. \A n \in P : \A m \in Flying(w) : n <= m => n \in O
  BY <1>1, <1>4
<1> QED
  <2>1. \A m \in Flying(w) : m < N
    BY <1>4
  <2>2. \A n \in P : \A m \in Flying(w) : start < n /\ n <= m => n \in Flying(w)
    BY <1>5 DEF RunsInv
  <2>3. \A m \in Flying(w) : start < m
    BY DEF RunsInv
  <2> QED
    BY <1>3, <2>1, <2>2, <2>3 DEF RunsInv

-----------------------------------------------------------------------------
(* Lemmas about the replay buffer *)

\* What is kept of a finite set is its newest part.
LEMMA NewestPart ==
    ASSUME NEW N \in Nat, NEW S \in SUBSET (1..N), NEW O, NEW cap \in Nat
    PROVE  /\ Newest(S, O, cap) \subseteq S
           /\ \A m \in Newest(S, O, cap) : \A n \in S : m <= n => n \in Newest(S, O, cap)
<1>1. Newest(S, O, cap) \subseteq S
  BY DEF Newest
<1>2. ASSUME NEW m \in Newest(S, O, cap), NEW n \in S, m <= n
      PROVE  n \in Newest(S, O, cap)
  <2> DEFINE above(k) == {q \in S \cap O : q >= k}
  <2>1. above(n) \subseteq above(m)
    <3>1. m \in Nat /\ n \in Nat /\ S \subseteq Nat
      <4>1. S \subseteq Nat
        OBVIOUS
      <4>2. m \in S
        BY <1>1
      <4> QED
        BY <4>1, <4>2
    <3>2. \A q \in S : q >= n => q >= m
      BY <1>2, <3>1
    <3> QED
      BY <3>2
  <2>2. IsFiniteSet(above(m))
    <3>1. above(m) \subseteq 1..N
      OBVIOUS
    <3>2. IsFiniteSet(1..N)
      BY FS_Interval
    <3> QED
      BY <3>1, <3>2, FS_Subset
  <2>3. Cardinality(above(n)) <= Cardinality(above(m))
        /\ Cardinality(above(n)) \in Nat /\ Cardinality(above(m)) \in Nat
    BY <2>1, <2>2, FS_Subset, FS_CardinalityType
  <2>4. Cardinality(above(m)) <= cap
    BY <1>2 DEF Newest
  <2>5. Cardinality(above(n)) <= cap
    BY <1>2, <2>3, <2>4
  <2> QED
    BY <1>2, <2>5 DEF Newest
<1> QED
  BY <1>1, <1>2

\* push_output keeps the newest output and drops only the oldest frames.
LEMMA PushOutputRetains ==
    ASSUME NEW b \in Buffer, NEW N \in Nat \ {0}, NEW O \in SUBSET (1..N - 1), Retains(b, O, N)
    PROVE  LET P == O \cup {N}
               v == PushOutput(b, P, N)
           IN  Retains(v, P, N + 1) /\ Later(O, LiveFrames(b), N, P, LiveFrames(v))
<1> DEFINE P == O \cup {N}
           v == PushOutput(b, P, N)
           all == b.mem \cup {N}
           mem == Newest(all, P, MemMax)
           disk == b.spool \cup (all \ mem)
           kept == Newest(disk, P, SpoolMax)
<1>0. /\ b.mem \subseteq 1..N - 1 /\ b.spool \subseteq 1..N - 1
      /\ MemMax \in Nat \ {0} /\ SpoolMax \in Nat /\ N \in Nat
  BY BufferCaps DEF Retains, LiveFrames
<1>1. all \in SUBSET (1..N) /\ disk \in SUBSET (1..N)
  BY <1>0
<1>2. /\ v.mem = mem /\ v.spool = kept /\ v.checkpoint = b.checkpoint
      /\ ~v.truncated => ~b.truncated /\ kept = disk
  BY DEF PushOutput, Settled, Buffer
<1>3. /\ mem \subseteq all /\ kept \subseteq disk
      /\ \A m \in mem : \A n \in all : m <= n => n \in mem
      /\ \A m \in kept : \A n \in disk : m <= n => n \in kept
  <2>1. /\ mem \subseteq all
        /\ \A m \in mem : \A n \in all : m <= n => n \in mem
    <3> HIDE DEF all, P
    <3>1. MemMax \in Nat
      BY <1>0
    <3> QED
      BY <1>0, <1>1, <3>1, NewestPart
  <2>2. /\ kept \subseteq disk
        /\ \A m \in kept : \A n \in disk : m <= n => n \in kept
    <3> HIDE DEF disk
    <3> QED
      BY <1>0, <1>1, NewestPart
  <2> QED
    BY <2>1, <2>2
<1>4. N \in mem
  <2>1. {m \in all \cap P : m >= N} = {N}
    BY <1>1
  <2>2. Cardinality({m \in all \cap P : m >= N}) <= MemMax
    <3>1. Cardinality({N}) = 1
      BY FS_Singleton, Zenon
    <3>2. 1 <= MemMax
      BY <1>0
    <3> QED
      BY <2>1, <3>1, <3>2, Zenon
  <2> QED
    BY <2>2, Zenon DEF Newest
<1>5. /\ LiveFrames(v) = kept \cup mem /\ LiveFrames(b) = b.spool \cup b.mem
      /\ mem \cup disk = LiveFrames(b) \cup {N}
  BY <1>2, <1>3 DEF LiveFrames
<1> HIDE DEF v, mem, kept
<1>6. \A s \in disk : \A m \in mem : s < m
  <2> SUFFICES ASSUME NEW s \in disk, NEW m \in mem PROVE s < m
    OBVIOUS
  <2>1. m \in 1..N /\ s \in 1..N /\ m \in all
    BY <1>1, <1>3
  <2>2. CASE s \in b.spool /\ m \in b.mem
    BY <2>2 DEF Retains
  <2>3. CASE s \in b.spool /\ m = N
    BY <1>0, <2>3
  <2>4. CASE s \in all \ mem
    BY <1>3, <2>1, <2>4
  <2> QED
    BY <2>1, <2>2, <2>3, <2>4
<1>7. LiveFrames(v) \subseteq 1..(N + 1) - 1
  <2>1. LiveFrames(v) \subseteq 1..N
    BY <1>1, <1>3, <1>5
  <2> QED
    BY <2>1
<1>8. ASSUME NEW r \in LiveFrames(v), NEW n \in P, r < n PROVE n \in LiveFrames(v)
  <2>1. CASE n = N
    BY <1>4, <1>5, <2>1
  <2>2. CASE n \in O
    <3>1. n \in 1..N - 1 /\ r # N /\ r \in LiveFrames(b)
      BY <1>3, <1>5, <1>8, <2>2
    <3>2. n \in LiveFrames(b)
      BY <1>8, <2>2, <3>1 DEF Retains
    <3>3. n \in mem \/ n \in disk
      BY <1>5, <3>2
    <3>4. CASE n \in disk /\ r \in mem
      <4>1. n < r /\ r \in 1..N
        BY <1>1, <1>3, <1>6, <3>4
      <4> QED
        BY <1>8, <3>1, <4>1
    <3>5. CASE n \in disk /\ r \in kept
      <4>1. r <= n
        BY <1>1, <1>3, <1>8, <3>1, <3>5
      <4> QED
        BY <1>3, <1>5, <3>5, <4>1
    <3> QED
      BY <1>5, <1>8, <3>3, <3>4, <3>5
  <2> QED
    BY <2>1, <2>2
<1>9. \A n \in P : \E m \in LiveFrames(v) \cap P : n <= m
  <2>1. \A n \in P : n <= N
    OBVIOUS
  <2> QED
    BY <1>4, <1>5, <2>1
<1>10. ~v.truncated => P \subseteq LiveFrames(v)
  BY <1>2, <1>4, <1>5 DEF Retains
<1>11. Retains(v, P, N + 1)
  <2>1. v.checkpoint = NoCheckpoint
    BY <1>2 DEF Retains
  <2>2. \A s \in v.spool : \A m \in v.mem : s < m
    BY <1>2, <1>3, <1>6
  <2> QED
    BY <1>7, <1>8, <1>9, <1>10, <2>1, <2>2 DEF Retains
<1>12. Later(O, LiveFrames(b), N, P, LiveFrames(v))
  <2>1. N \notin O
    OBVIOUS
  <2> QED
    BY <1>3, <1>5, <2>1 DEF Later
<1> QED
  BY <1>11, <1>12 DEF v

\* push_resize overwrites no output.
LEMMA PushResizeRetains ==
    ASSUME NEW b \in Buffer, NEW N \in Nat \ {0}, NEW O \in SUBSET (1..N - 1), Retains(b, O, N)
    PROVE  LET v == PushResize(b, O, N)
           IN  Retains(v, O, N + 1) /\ Later(O, LiveFrames(b), N, O, LiveFrames(v))
<1> DEFINE v == PushResize(b, O, N)
           trailing == {m \in b.mem \ O : \A k \in b.mem : k <= m}
<1>1. /\ v.mem = (b.mem \ trailing) \cup {N} /\ v.spool = b.spool
      /\ v.checkpoint = b.checkpoint /\ v.truncated = b.truncated
  BY DEF PushResize, Buffer
<1>2. trailing \cap O = {}
  OBVIOUS
<1> HIDE DEF v, trailing
<1>3. /\ LiveFrames(v) \subseteq LiveFrames(b) \cup {N}
      /\ \A n \in O : n \in LiveFrames(b) => n \in LiveFrames(v)
  BY <1>1, <1>2 DEF LiveFrames
<1>4. LiveFrames(b) \subseteq 1..N - 1 /\ N \notin O
  BY DEF Retains
<1>5. LiveFrames(v) \subseteq 1..(N + 1) - 1
  BY <1>3, <1>4
<1>6. \A s \in v.spool : \A m \in v.mem : s < m
  BY <1>1, <1>4 DEF Retains, LiveFrames
<1>7. \A r \in LiveFrames(v) : \A n \in O : r < n => n \in LiveFrames(v)
  <2> SUFFICES ASSUME NEW r \in LiveFrames(v), NEW n \in O, r < n PROVE n \in LiveFrames(v)
    OBVIOUS
  <2>1. r # N
    OBVIOUS
  <2> QED
    BY <1>3, <2>1 DEF Retains
<1>8. \A n \in O : \E m \in LiveFrames(v) \cap O : n <= m
  BY <1>3 DEF Retains
<1>9. ~v.truncated => O \subseteq LiveFrames(v)
  BY <1>1, <1>3 DEF Retains
<1>10. Retains(v, O, N + 1)
  BY <1>1, <1>5, <1>6, <1>7, <1>8, <1>9 DEF Retains
<1>11. Later(O, LiveFrames(b), N, O, LiveFrames(v))
  BY <1>3, <1>4 DEF Later
<1> QED
  BY <1>10, <1>11 DEF v

-----------------------------------------------------------------------------
(* One client: the attach *)

LEMMA HandleFields ==
    ASSUME NEW h \in Handle
    PROVE  /\ h.lastSent \in Nat /\ h.lastAcked \in Nat /\ h.unacked \in Nat
           /\ h.attaching \subseteq Nat /\ h.reply \in WireItem
           /\ h.attached \in BOOLEAN /\ h.paused \in BOOLEAN /\ h.closed \in BOOLEAN
           /\ h.stage \in {"idle", "snapshot", "replied"}
  BY DEF Handle

LEMMA InboxFields ==
    ASSUME NEW ib \in Seq(Request)
    PROVE  /\ \A i \in DOMAIN ib : ib[i] \in Request /\ ib[i].seq \in Nat
           /\ ib # <<>> =>
                 /\ 1 \in DOMAIN ib /\ Head(ib) = ib[1]
                 /\ \A i \in DOMAIN Tail(ib) :
                       i \in Nat /\ i + 1 \in DOMAIN ib /\ Tail(ib)[i] = ib[i + 1] /\ i + 1 # 1
<1>1. \A i \in DOMAIN ib : ib[i] \in Request
  OBVIOUS
<1>2. \A i \in DOMAIN ib : ib[i].seq \in Nat
  BY <1>1 DEF Request
<1>3. ib # <<>> => 1 \in DOMAIN ib /\ Head(ib) = ib[1]
  OBVIOUS
<1>4. ib # <<>> => \A i \in DOMAIN Tail(ib) :
         i \in Nat /\ i + 1 \in DOMAIN ib /\ Tail(ib)[i] = ib[i + 1] /\ i + 1 # 1
  OBVIOUS
<1> QED
  BY <1>1, <1>2, <1>3, <1>4

\* A reply that starts with a reset: all that is retained is what is needed.
LEMMA ReplayAll ==
    ASSUME NEW b \in Buffer, NEW t, NEW N, NEW O, TermInv(t, O, LiveFrames(b), N), Retains(b, O, N)
    PROVE  Brings(TRUE, LiveFrames(b), N - 1, t, O, LiveFrames(b), N)
<1> DEFINE L == LiveFrames(b)
<1>a. t \in Terminal /\ N \in Nat \ {0} /\ O \subseteq 1..N - 1
  BY DEF TermInv
<1>1. L \subseteq 1..N - 1
  BY DEF Retains
<1>2. t.tpmCommitted <= N - 1 /\ \A q \in Queued(t) : q <= N - 1
  <2>1. \A i \in DOMAIN t.queue : t.queue[i].seq = 0 \/ t.queue[i].seq \in 1..N - 1
    BY DEF TermInv, InOrder
  <2>2. t.tpmCommitted < N
    BY DEF TermInv, InOrder
  <2> QED
    BY <1>a, <2>1, <2>2, TermFields DEF Queued
<1>3. \A n \in O : n \in L \/ (n \notin L /\ \A k \in L : n < k)
  <2> SUFFICES ASSUME NEW n \in O, n \notin L, NEW k \in L PROVE n < k
    OBVIOUS
  <2>1. n \in Nat /\ k \in Nat /\ n # k
    BY <1>a, <1>1
  <2>2. ~(k < n)
    BY DEF Retains
  <2> QED
    BY <2>1, <2>2
<1> QED
  BY <1>a, <1>1, <1>2, <1>3 DEF Brings

\* A reply that resumes after a cursor of the client.
LEMMA ReplayAfter ==
    ASSUME NEW b \in Buffer, NEW t, NEW N, NEW O, TermInv(t, O, LiveFrames(b), N), Retains(b, O, N),
           NEW after \in Nat, ~OldestAfter(b, after + 1),
           after <= t.committed,
           t.committed > t.tpmCommitted => t.committed <= after,
           ~t.stale => after <= t.tpmCommitted
    PROVE  Brings(FALSE, {n \in LiveFrames(b) : n > after}, N - 1, t, O, LiveFrames(b), N)
<1> DEFINE L == LiveFrames(b)
           S == {n \in L : n > after}
<1>a. t \in Terminal /\ N \in Nat \ {0} /\ O \subseteq 1..N - 1
  BY DEF TermInv
<1>1. L \subseteq 1..N - 1 /\ S \subseteq 1..N - 1
  BY DEF Retains
<1>2. t.tpmCommitted <= N - 1 /\ \A q \in Queued(t) : q <= N - 1
  <2>1. \A i \in DOMAIN t.queue : t.queue[i].seq = 0 \/ t.queue[i].seq \in 1..N - 1
    BY DEF TermInv, InOrder
  <2>2. t.tpmCommitted < N
    BY DEF TermInv, InOrder
  <2> QED
    BY <1>a, <2>1, <2>2, TermFields DEF Queued
<1>3. L = {} \/ \E m \in L : m <= after + 1
  <2>1. ~(L # {} /\ \A n \in L : n > after + 1)
    BY DEF OldestAfter, Retains
  <2> QED
    BY <1>1, <2>1
<1>4. ASSUME NEW n \in O, n > after PROVE n \in S
  <2>1. L # {}
    BY DEF Retains
  <2>2. PICK m \in L : m <= after + 1
    BY <1>3, <2>1
  <2>3. m < n \/ m = n
    BY <1>a, <1>1, <1>4, <2>2
  <2>4. n \in L
    BY <2>2, <2>3 DEF Retains
  <2> QED
    BY <1>4, <2>4
<1>5. ASSUME NEW n \in O, Beyond(t, n) PROVE n \in S \/ (t.stale /\ n <= t.committed)
  <2>1. CASE n > after
    BY <1>4, <2>1
  <2>2. CASE n <= after
    BY <1>a, <1>5, <2>2, TermFields DEF Beyond
  <2> QED
    BY <1>a, <2>1, <2>2
<1>6. ASSUME NEW n \in S, n \in O
      PROVE  Beyond(t, n) \/ n \in Queued(t) \/ n <= t.tpmCommitted
  <2> SUFFICES ASSUME ~Beyond(t, n), ~(n <= t.tpmCommitted) PROVE n \in Queued(t)
    OBVIOUS
  <2>1. n \in Nat /\ n \in L /\ n > after
    BY <1>1
  <2>2. ~(n <= t.committed)
    BY <1>a, <2>1, TermFields
  <2>3. n \in Have(t, O)
    BY <1>6, <2>1, <2>2 DEF TermInv, Solid
  <2>4. n \notin Base(t)
    BY DEF TermInv, Solid
  <2> QED
    BY <2>3, <2>4 DEF Have
<1> QED
  BY <1>a, <1>1, <1>2, <1>5, <1>6 DEF Brings

\* No attach and no checkpoint waits in the inbox.
Quiet(ib) == \A i \in DOMAIN ib : ib[i].type # "attach" /\ ib[i].type # "checkpoint"

LEMMA AskRest ==
    ASSUME NEW h, NEW t, NEW w, NEW ib \in Seq(Request), AskInv(h, t, w, ib)
    PROVE  /\ h.stage # "idle" \/ h.attached \/ w # <<>> => Quiet(ib)
           /\ Quiet(ib) => \A g, u, v : AskInv(g, u, v, ib)
           /\ ib # <<>> =>
                 /\ Head(ib).type # "checkpoint"
                 /\ AskInv(h, t, w, Tail(ib))
                 /\ Head(ib).type = "attach" => Quiet(Tail(ib))
                 /\ Quiet(ib) => Quiet(Tail(ib))
<1>1. h.stage # "idle" \/ h.attached \/ w # <<>> => Quiet(ib)
  BY DEF AskInv, Quiet
<1>2. Quiet(ib) => \A g, u, v : AskInv(g, u, v, ib)
  BY DEF AskInv, Quiet
<1>3. ASSUME ib # <<>>
      PROVE  /\ Head(ib).type # "checkpoint"
             /\ AskInv(h, t, w, Tail(ib))
             /\ Head(ib).type = "attach" => Quiet(Tail(ib))
             /\ Quiet(ib) => Quiet(Tail(ib))
  <2> DEFINE rest == Tail(ib)
  <2>1. /\ 1 \in DOMAIN ib /\ Head(ib) = ib[1]
        /\ \A i \in DOMAIN rest : i \in Nat /\ i + 1 \in DOMAIN ib /\ rest[i] = ib[i + 1]
                                  /\ i + 1 # 1
    BY <1>3, InboxFields
  <2> HIDE DEF rest
  <2>2. Head(ib).type # "checkpoint"
    BY <2>1 DEF AskInv
  <2>3. ASSUME NEW i \in DOMAIN rest
        PROVE  /\ rest[i].type # "checkpoint"
               /\ rest[i].type = "attach" =>
                     /\ t.phase = "attaching" /\ h.stage = "idle" /\ ~h.attached /\ w = <<>>
                     /\ \A j \in DOMAIN rest : rest[j].type = "attach" => i = j
                     /\ rest[i].seq <= t.committed
                     /\ t.committed > t.tpmCommitted => t.committed <= rest[i].seq
                     /\ ~t.stale => rest[i].seq <= t.tpmCommitted
    <3>1. i + 1 \in DOMAIN ib /\ rest[i] = ib[i + 1] /\ i \in Nat
      BY <2>1
    <3>2. ASSUME rest[i].type = "attach", NEW j \in DOMAIN rest, rest[j].type = "attach"
          PROVE  i = j
      <4>1. j + 1 \in DOMAIN ib /\ rest[j] = ib[j + 1] /\ j \in Nat
        BY <2>1
      <4>2. i + 1 = j + 1
        BY <3>1, <3>2, <4>1 DEF AskInv
      <4> QED
        BY <3>1, <4>1, <4>2
    <3> QED
      BY <3>1, <3>2 DEF AskInv
  <2>4. AskInv(h, t, w, rest)
    BY <2>3 DEF AskInv
  <2>5. Head(ib).type = "attach" => Quiet(rest)
    BY <2>1, <2>3 DEF AskInv, Quiet
  <2>6. Quiet(ib) => Quiet(rest)
    BY <2>1 DEF Quiet
  <2> QED
    BY <2>2, <2>4, <2>5, <2>6 DEF rest
<1> QED
  BY <1>1, <1>2, <1>3

\* handle_frame(Attach) takes a reply that brings what the terminal misses.
LEMMA AfterAttachSnapshot ==
    ASSUME NEW b \in Buffer, NEW h \in Handle, NEW t, NEW w \in Seq(WireItem),
           NEW ib \in Seq(Request), NEW O, NEW N,
           ClientInv(h, t, w, ib, O, LiveFrames(b), N), Retains(b, O, N),
           ib # <<>>, Head(ib).type = "attach",
           NEW g, NEW after, NEW reset \in BOOLEAN, NEW S, NEW screen,
           after = Head(ib).seq,
           reset <=> (after = 0 \/ OldestAfter(b, after + 1)),
           S = {n \in LiveFrames(b) : reset \/ n > after},
           g.attached, g.lastSent = N - 1, g.attaching = {}, g.stage = "snapshot",
           g.reply = Reply(reset, NoCheckpoint, screen, S, N - 1)
    PROVE  ClientInv(g, t, w, Tail(ib), O, LiveFrames(b), N)
<1> DEFINE L == LiveFrames(b)
<1>a. t \in Terminal /\ N \in Nat \ {0} /\ O \subseteq 1..N - 1 /\ TermInv(t, O, L, N)
  BY DEF ClientInv, TermInv
<1>1. 1 \in DOMAIN ib /\ Head(ib) = ib[1] /\ after \in Nat
  BY InboxFields
<1>2. /\ t.phase = "attaching" /\ w = <<>>
      /\ after <= t.committed
      /\ t.committed > t.tpmCommitted => t.committed <= after
      /\ ~t.stale => after <= t.tpmCommitted
  BY <1>1 DEF ClientInv, AskInv
<1>3. Quiet(Tail(ib))
  BY AskRest DEF ClientInv
<1>4. Brings(reset, S, N - 1, t, O, L, N)
  <2>1. CASE reset
    <3>1. S = L
      BY <2>1
    <3>2. Brings(TRUE, L, N - 1, t, O, L, N)
      BY <1>a, ReplayAll
    <3>3. reset = TRUE
      BY <2>1
    <3> QED
      BY <3>1, <3>2, <3>3, Zenon
  <2>2. CASE ~reset
    <3>1. S = {n \in L : n > after} /\ ~OldestAfter(b, after + 1)
      BY <2>2
    <3>2. Brings(FALSE, {n \in L : n > after}, N - 1, t, O, L, N)
      BY <1>a, <1>1, <1>2, <3>1, ReplayAfter
    <3>3. reset = FALSE
      BY <2>2
    <3> QED
      BY <3>1, <3>2, <3>3, Zenon
  <2> QED
    BY <2>1, <2>2
<1>5. /\ g.reply.kind = "attached" /\ g.reply.snapshot = NoCheckpoint
      /\ g.reply.reset = reset /\ g.reply.frames = S /\ g.reply.latest = N - 1
  BY DEF Reply
<1>6. ~Replying(w) /\ Flying(w) = {}
  BY <1>2, WireFields
<1>7. AskInv(g, t, w, Tail(ib))
  BY <1>3, AskRest DEF AskInv, Quiet
<1>8. PhaseInv(g, t, w, Tail(ib), O, L, N)
  BY <1>2, <1>4, <1>5, <1>6 DEF PhaseInv
<1>9. SendInv(g, t, w, O)
  <2>1. \A n \in O : n <= N - 1 /\ ~(n > N - 1)
    BY <1>a
  <2>2. g.attaching = {n \in O : n > g.reply.latest}
    BY <1>5, <2>1
  <2>3. g.reply.latest <= g.lastSent
    BY <1>5, <1>a
  <2> QED
    BY <2>1, <2>2, <2>3 DEF SendInv
<1>10. RunsInv(w, Start(w, t), O)
  BY DEF ClientInv
<1> QED
  BY <1>a, <1>7, <1>8, <1>9, <1>10 DEF ClientInv

\* The reply goes to a client that has nothing else on the wire.
LEMMA AfterAttachReply ==
    ASSUME NEW h \in Handle, NEW t, NEW w \in Seq(WireItem), NEW ib \in Seq(Request),
           NEW O, NEW L, NEW N, ClientInv(h, t, w, ib, O, L, N),
           h.stage = "snapshot", ~h.closed,
           NEW g, g.attached = h.attached, g.lastSent = h.lastSent,
           g.attaching = h.attaching, g.stage = "replied", g.closed = h.closed
    PROVE  ClientInv(g, t, Append(w, h.reply), ib, O, L, N)
<1>1. /\ t.phase = "attaching" /\ w = <<>>
      /\ h.reply.kind = "attached" /\ h.reply.snapshot = NoCheckpoint
      /\ Brings(h.reply.reset, h.reply.frames, h.reply.latest, t, O, L, N)
  BY DEF ClientInv, PhaseInv
<1> DEFINE v == Append(w, h.reply)
<1>2. \A start : RunsInv(v, start, O)
      /\ Flying(v) = {} /\ Replying(v) /\ v[1] = h.reply /\ v # <<>>
  BY <1>1, HandleFields, QueueReply DEF Replying
<1> HIDE DEF v
<1>3. Start(v, t) = h.reply.latest
  BY <1>2 DEF Start
<1>4. AskInv(g, t, v, ib)
  BY <1>1, AskRest DEF ClientInv
<1>5. PhaseInv(g, t, v, ib, O, L, N)
  BY <1>1, <1>2 DEF PhaseInv
<1>6. SendInv(g, t, v, O)
  BY <1>2, <1>3 DEF ClientInv, SendInv
<1>7. TermInv(t, O, L, N)
  BY DEF ClientInv
<1> QED
  BY <1>2, <1>4, <1>5, <1>6, <1>7 DEF ClientInv, v

LEMMA StartFields ==
    ASSUME NEW w \in Seq(WireItem), NEW t \in Terminal
    PROVE  Start(w, t) \in Nat
<1>1. Replying(w) => w[1] \in WireItem
  BY DEF Replying
<1>2. Replying(w) => w[1].latest \in Nat
  BY <1>1, WireTypes DEF Replying, Replies
<1> QED
  BY <1>2, TermFields DEF Start

\* A batch of outputs leaves for an attached client.
LEMMA AfterRun ==
    ASSUME NEW h, NEW t \in Terminal, NEW w \in Seq(WireItem), NEW ib \in Seq(Request),
           NEW O \in SUBSET Nat, NEW L, NEW N,
           TermInv(t, O, L, N), RunsInv(w, Start(w, t), O), PhaseInv(h, t, w, ib, O, L, N),
           Quiet(ib), t.phase = "attached" \/ Replying(w),
           NEW S \in SUBSET O, S # {},
           \A n \in S : Start(w, t) < n /\ \A m \in Flying(w) : m < n,
           \A n \in O : \A m \in S : Start(w, t) < n /\ n <= m => n \in Flying(w) \cup S,
           NEW g, g.attached, g.stage = "idle",
           Start(w, t) <= g.lastSent, \A n \in Flying(w) \cup S : n <= g.lastSent,
           \A n \in O : Start(w, t) < n /\ n <= g.lastSent => n \in Flying(w) \cup S,
           ~g.paused => \A n \in O : n <= g.lastSent
    PROVE  ClientInv(g, t, Append(w, OutputRun(S)), ib, O, L, N)
<1> DEFINE v == Append(w, OutputRun(S))
           start == Start(w, t)
<1>0. start \in Nat
  BY StartFields
<1> HIDE DEF start
<1>1. /\ RunsInv(v, start, O) /\ Flying(v) = Flying(w) \cup S
      /\ Replying(v) <=> Replying(w)
      /\ Replying(w) => v[1] = w[1]
      /\ v # <<>>
  <2>1. RunsInv(w, start, O)
    BY DEF start
  <2>2. \A n \in S : start < n /\ \A m \in Flying(w) : m < n
    BY DEF start
  <2>3. \A n \in O : \A m \in S : start < n /\ n <= m => n \in Flying(w) \cup S
    BY DEF start
  <2> QED
    BY <1>0, <2>1, <2>2, <2>3, QueueRun
<1> HIDE DEF v
<1>2. Start(v, t) = start
  BY <1>1 DEF Start, start
<1>3. AskInv(g, t, v, ib)
  BY AskRest DEF AskInv, Quiet
<1>4. PhaseInv(g, t, v, ib, O, L, N)
  BY <1>1 DEF PhaseInv
<1>5. SendInv(g, t, v, O)
  BY <1>1, <1>2 DEF SendInv, start
<1> QED
  BY <1>1, <1>2, <1>3, <1>4, <1>5 DEF ClientInv, v

\* complete_attach sends what was held back.
LEMMA AfterAttachComplete ==
    ASSUME NEW h \in Handle, NEW t, NEW w \in Seq(WireItem), NEW ib \in Seq(Request),
           NEW O, NEW L, NEW N, ClientInv(h, t, w, ib, O, L, N),
           h.stage = "replied", ~h.closed,
           NEW g, g.attached = h.attached, g.lastSent = h.lastSent, g.paused = h.paused,
           g.stage = "idle",
           NEW v, v = IF h.attaching = {} THEN w ELSE Append(w, OutputRun(h.attaching))
    PROVE  ClientInv(g, t, v, ib, O, L, N)
<1>a. t \in Terminal /\ N \in Nat \ {0} /\ O \subseteq 1..N - 1 /\ TermInv(t, O, L, N)
  BY DEF ClientInv, TermInv
<1>1. /\ h.attached /\ Start(w, t) <= h.lastSent
      /\ h.attaching = {n \in O : n > Start(w, t)} /\ Flying(w) = {}
      /\ \A n \in O : n <= h.lastSent
      /\ t.phase = "attached" \/ Replying(w)
  BY DEF ClientInv, SendInv
<1>2. Quiet(ib) /\ RunsInv(w, Start(w, t), O) /\ PhaseInv(h, t, w, ib, O, L, N)
  BY AskRest DEF ClientInv
<1>3. Start(w, t) \in Nat /\ O \subseteq Nat
  BY <1>a, StartFields
<1>4. CASE h.attaching = {}
  <2>1. \A n \in O : ~(n > Start(w, t))
    BY <1>1, <1>4
  <2>2. \A n \in O : ~(Start(w, t) < n)
    BY <1>3, <2>1
  <2>3. SendInv(g, t, w, O)
    BY <1>1, <2>2 DEF SendInv
  <2>4. PhaseInv(g, t, w, ib, O, L, N)
    BY <1>1, <1>2 DEF PhaseInv, Replying
  <2>5. AskInv(g, t, w, ib)
    BY <1>2 DEF AskInv, Quiet
  <2> QED
    BY <1>a, <1>2, <1>4, <2>3, <2>4, <2>5 DEF ClientInv
<1>5. CASE h.attaching # {}
  <2> DEFINE S == h.attaching
  <2>1. S \subseteq O /\ S # {} /\ \A n \in O : Start(w, t) < n => n \in S
    BY <1>1, <1>3, <1>5
  <2>2. \A n \in S : Start(w, t) < n /\ n <= g.lastSent
    BY <1>1, <1>3
  <2> HIDE DEF S
  <2>3. ClientInv(g, t, Append(w, OutputRun(S)), ib, O, L, N)
    <3>1. \A n \in S : Start(w, t) < n /\ \A m \in Flying(w) : m < n
      BY <1>1, <2>2
    <3>2. \A n \in O : \A m \in S : Start(w, t) < n /\ n <= m => n \in Flying(w) \cup S
      BY <2>1
    <3>3. g.attached /\ Start(w, t) <= g.lastSent
      BY <1>1
    <3>4. \A n \in Flying(w) \cup S : n <= g.lastSent
      BY <1>1, <2>2
    <3>5. \A n \in O : Start(w, t) < n /\ n <= g.lastSent => n \in Flying(w) \cup S
      BY <2>1
    <3>6. \A n \in O : n <= g.lastSent
      BY <1>1
    <3> QED
      BY <1>a, <1>1, <1>2, <1>3, <2>1, <3>1, <3>2, <3>3, <3>4, <3>5, <3>6, AfterRun
  <2> QED
    BY <1>5, <2>3 DEF S
<1> QED
  BY <1>4, <1>5

\* The writer is found closed, or closes.
LEMMA AfterClosing ==
    ASSUME NEW h \in Handle, NEW t, NEW w \in Seq(WireItem), NEW ib \in Seq(Request),
           NEW O, NEW L, NEW N, ClientInv(h, t, w, ib, O, L, N),
           NEW g, g.closed, g.stage \in {h.stage, "idle"}, g.reply = h.reply,
           g.attached => h.attached, ~g.attached => g.lastSent = 0
    PROVE  ClientInv(g, t, w, ib, O, L, N)
<1>1. AskInv(g, t, w, ib)
  BY DEF ClientInv, AskInv
<1>2. PhaseInv(g, t, w, ib, O, L, N)
  BY DEF ClientInv, PhaseInv
<1>3. SendInv(g, t, w, O)
  BY DEF SendInv
<1> QED
  BY <1>1, <1>2, <1>3 DEF ClientInv

\* A request other than an attach is taken off the inbox.
LEMMA AfterRequest ==
    ASSUME NEW h, NEW t, NEW w, NEW ib \in Seq(Request), NEW O, NEW L, NEW N,
           ClientInv(h, t, w, ib, O, L, N), ib # <<>>
    PROVE  ClientInv(h, t, w, Tail(ib), O, L, N)
<1>1. AskInv(h, t, w, Tail(ib))
  BY AskRest DEF ClientInv
<1>2. PhaseInv(h, t, w, Tail(ib), O, L, N)
  BY DEF ClientInv, PhaseInv
<1> QED
  BY <1>1, <1>2 DEF ClientInv

-----------------------------------------------------------------------------
(* One client: acknowledgements *)

\* Only the count and the ACK cursor of a handle change.
LEMMA AfterAck ==
    ASSUME NEW h, NEW t, NEW w, NEW ib, NEW O, NEW L, NEW N, ClientInv(h, t, w, ib, O, L, N),
           NEW g, g.attached = h.attached, g.lastSent = h.lastSent, g.paused = h.paused,
           g.stage = h.stage, g.closed = h.closed, g.attaching = h.attaching, g.reply = h.reply
    PROVE  ClientInv(g, t, w, ib, O, L, N)
<1>1. AskInv(g, t, w, ib)
  BY DEF ClientInv, AskInv
<1>2. PhaseInv(g, t, w, ib, O, L, N)
  BY DEF ClientInv, PhaseInv
<1>3. SendInv(g, t, w, O)
  BY DEF ClientInv, SendInv
<1> QED
  BY <1>1, <1>2, <1>3 DEF ClientInv

\* flush_buffered_output_locked without a gap: the retained outputs go on where
\* the last one sent left off.
Flushes(h, w, O, L, missed, last, batch, g, v) ==
    /\ h.attached /\ h.stage = "idle" /\ ~h.closed
    /\ (\E n \in L : n > h.lastSent) => h.lastSent + 1 \in L
    /\ missed = {n \in L \cap O : n > h.lastSent}
    /\ last \in missed \cup {h.lastSent}
    /\ batch = {n \in missed : n <= last}
    /\ g.attached /\ g.stage = "idle" /\ g.lastSent = last
    /\ ~g.paused => batch = missed
    /\ v = IF batch = {} THEN w ELSE Append(w, OutputRun(batch))

LEMMA AfterFlush ==
    ASSUME NEW b \in Buffer, NEW h \in Handle, NEW t, NEW w \in Seq(WireItem),
           NEW ib \in Seq(Request), NEW O, NEW N,
           ClientInv(h, t, w, ib, O, LiveFrames(b), N), Retains(b, O, N),
           NEW missed, NEW last, NEW batch, NEW g, NEW v,
           Flushes(h, w, O, LiveFrames(b), missed, last, batch, g, v)
    PROVE  ClientInv(g, t, v, ib, O, LiveFrames(b), N)
<1> DEFINE L == LiveFrames(b)
           start == Start(w, t)
<1>f. /\ h.attached /\ h.stage = "idle" /\ ~h.closed
      /\ (\E n \in L : n > h.lastSent) => h.lastSent + 1 \in L
      /\ missed = {n \in L \cap O : n > h.lastSent}
      /\ last \in missed \cup {h.lastSent}
      /\ batch = {n \in missed : n <= last}
      /\ g.attached /\ g.stage = "idle" /\ g.lastSent = last
      /\ ~g.paused => batch = missed
      /\ v = IF batch = {} THEN w ELSE Append(w, OutputRun(batch))
  BY Zenon DEF Flushes
<1> USE <1>f
<1>a. /\ t \in Terminal /\ N \in Nat \ {0} /\ O \subseteq 1..N - 1 /\ O \subseteq Nat
      /\ TermInv(t, O, L, N) /\ h.lastSent \in Nat /\ L \subseteq Nat
  BY HandleFields DEF ClientInv, TermInv, Retains
<1>1. /\ start <= h.lastSent /\ start \in Nat
      /\ \A n \in Flying(w) : n <= h.lastSent
      /\ \A n \in O : start < n /\ n <= h.lastSent => n \in Flying(w)
      /\ t.phase = "attached" \/ Replying(w)
      /\ Flying(w) \subseteq Nat
  BY <1>a, StartFields, WireFields DEF ClientInv, SendInv
<1>2. Quiet(ib) /\ RunsInv(w, start, O) /\ PhaseInv(h, t, w, ib, O, L, N)
  BY AskRest DEF ClientInv
<1>3. ASSUME NEW n \in O, n > h.lastSent PROVE n \in missed
  <2>1. PICK m \in L \cap O : n <= m
    BY DEF Retains
  <2>2. m \in Nat /\ n \in Nat /\ m > h.lastSent
    BY <1>a, <1>3, <2>1
  <2>3. h.lastSent + 1 \in L
    BY <2>1, <2>2
  <2>4. n = h.lastSent + 1 \/ h.lastSent + 1 < n
    BY <1>a, <1>3, <2>2
  <2>5. n \in L
    BY <2>3, <2>4 DEF Retains
  <2> QED
    BY <1>3, <2>5
<1>4. last \in Nat /\ h.lastSent <= last /\ missed \subseteq O /\ batch \subseteq missed
  BY <1>a
<1>5. \A n \in O : h.lastSent < n /\ n <= last => n \in batch
  BY <1>a, <1>3
<1>6. \A n \in O : start < n /\ n <= last => n \in Flying(w) \cup batch
  <2> SUFFICES ASSUME NEW n \in O, start < n, n <= last PROVE n \in Flying(w) \cup batch
    OBVIOUS
  <2>1. n \in Nat
    BY <1>a
  <2>2. n <= h.lastSent \/ h.lastSent < n
    BY <1>a, <2>1
  <2> QED
    BY <1>1, <1>5, <2>2
<1>7. ~g.paused => \A n \in O : n <= last
  <2> SUFFICES ASSUME ~g.paused, NEW n \in O PROVE n <= last
    OBVIOUS
  <2>1. CASE n > h.lastSent
    BY <1>3, <2>1
  <2>2. CASE n <= h.lastSent
    BY <1>a, <1>4, <2>2
  <2> QED
    BY <1>a, <2>1, <2>2
<1>8. start <= last /\ \A n \in Flying(w) \cup batch : n <= last
  BY <1>a, <1>1, <1>4
<1> HIDE DEF L, start
<1>9. CASE batch = {}
  <2>1. SendInv(g, t, w, O)
    BY <1>1, <1>6, <1>7, <1>8, <1>9 DEF SendInv, start
  <2>2. PhaseInv(g, t, w, ib, O, L, N)
    BY <1>1, <1>2 DEF PhaseInv, Replying
  <2>3. AskInv(g, t, w, ib)
    BY <1>2 DEF AskInv, Quiet
  <2>4. v = w
    BY <1>9
  <2> QED
    BY <1>a, <1>2, <2>1, <2>2, <2>3, <2>4 DEF ClientInv, L, start
<1>10. CASE batch # {}
  <2>1. \A n \in batch : start < n /\ \A m \in Flying(w) : m < n
    <3>1. \A n \in batch : h.lastSent < n /\ n \in Nat
      BY <1>a DEF L
    <3> QED
      BY <1>a, <1>1, <3>1
  <2>2. \A n \in O : \A m \in batch : start < n /\ n <= m => n \in Flying(w) \cup batch
    BY <1>a, <1>4, <1>6
  <2>3. batch \in SUBSET O
    BY <1>4
  <2>4. ClientInv(g, t, Append(w, OutputRun(batch)), ib, O, L, N)
    BY <1>a, <1>1, <1>2, <1>6, <1>7, <1>8, <1>10, <2>1, <2>2, <2>3, AfterRun DEF start
  <2> QED
    BY <1>10, <2>4 DEF L
<1> QED
  BY <1>9, <1>10

-----------------------------------------------------------------------------
(* One client: new events *)

\* What does not depend on the handle when the session numbers another event.
LEMMA PartsLater ==
    ASSUME NEW h \in Handle, NEW t, NEW w \in Seq(WireItem), NEW ib \in Seq(Request),
           NEW O, NEW L, NEW N, ClientInv(h, t, w, ib, O, L, N),
           NEW P, NEW K, Later(O, L, N, P, K)
    PROVE  /\ TermInv(t, P, K, N + 1) /\ RunsInv(w, Start(w, t), P)
           /\ PhaseInv(h, t, w, ib, P, K, N + 1)
           /\ \A m \in Flying(w) : m < N
           /\ t.phase = "attached" \/ Replying(w) => Start(w, t) < N
           /\ h.stage = "snapshot" => h.reply.latest < N
<1>a. t \in Terminal /\ N \in Nat \ {0} /\ O \in SUBSET (1..N - 1) /\ TermInv(t, O, L, N)
  BY DEF ClientInv, TermInv
<1>b. PhaseInv(h, t, w, ib, O, L, N)
  BY DEF ClientInv
<1>1. TermInv(t, P, K, N + 1)
  BY <1>a, TermLater
<1>2. RunsInv(w, Start(w, t), P) /\ \A m \in Flying(w) : m < N
  BY <1>a, RunsLater DEF ClientInv
<1>3. \A item \in WireItem : item.kind = "attached" =>
         /\ item.frames \in SUBSET Nat /\ item.latest \in Nat
         /\ Brings(item.reset, item.frames, item.latest, t, O, L, N) =>
               Brings(item.reset, item.frames, item.latest, t, P, K, N + 1)
  <2> SUFFICES ASSUME NEW item \in WireItem, item.kind = "attached"
               PROVE  /\ item.frames \in SUBSET Nat /\ item.latest \in Nat
                      /\ Brings(item.reset, item.frames, item.latest, t, O, L, N) =>
                            Brings(item.reset, item.frames, item.latest, t, P, K, N + 1)
    OBVIOUS
  <2>1. item.frames \in SUBSET Nat /\ item.latest \in Nat
    BY WireTypes DEF Replies
  <2> QED
    BY <1>a, <2>1, BringsLater
<1>4. t.phase = "attached" => Brings(FALSE, {}, t.received, t, P, K, N + 1) /\ t.received < N
  <2> SUFFICES ASSUME t.phase = "attached"
               PROVE  Brings(FALSE, {}, t.received, t, P, K, N + 1) /\ t.received < N
    OBVIOUS
  <2>1. Brings(FALSE, {}, t.received, t, O, L, N) /\ t.received \in Nat /\ {} \in SUBSET Nat
    BY <1>a, <1>b, TermFields DEF PhaseInv
  <2>2. Brings(FALSE, {}, t.received, t, P, K, N + 1)
    BY <1>a, <2>1, BringsLater
  <2>3. t.received < N
    BY <2>1 DEF Brings
  <2> QED
    BY <2>2, <2>3
<1>5. Replying(w) => /\ w[1] \in WireItem /\ w[1].kind = "attached"
                     /\ Brings(w[1].reset, w[1].frames, w[1].latest, t, O, L, N)
  BY <1>b DEF PhaseInv, Replying
<1>6. h.stage = "snapshot" => /\ h.reply \in WireItem /\ h.reply.kind = "attached"
                              /\ Brings(h.reply.reset, h.reply.frames, h.reply.latest, t, O, L, N)
  BY <1>b, HandleFields DEF PhaseInv
<1>7. PhaseInv(h, t, w, ib, P, K, N + 1)
  BY <1>b, <1>3, <1>4, <1>5, <1>6 DEF PhaseInv
<1>8. t.phase = "attached" \/ Replying(w) => Start(w, t) < N
  <2>1. Replying(w) => Start(w, t) < N
    BY <1>5 DEF Brings, Start
  <2>2. ~Replying(w) => Start(w, t) = t.received
    BY DEF Start
  <2> QED
    BY <1>4, <2>1, <2>2
<1>9. h.stage = "snapshot" => h.reply.latest < N
  BY <1>6 DEF Brings
<1> QED
  BY <1>1, <1>2, <1>7, <1>8, <1>9

\* A resize is no output: nothing is owed to a client.
LEMMA AfterResize ==
    ASSUME NEW h \in Handle, NEW t, NEW w \in Seq(WireItem), NEW ib \in Seq(Request),
           NEW O, NEW L, NEW N, ClientInv(h, t, w, ib, O, L, N),
           NEW K, Later(O, L, N, O, K)
    PROVE  ClientInv(h, t, w, ib, O, K, N + 1)
<1>1. /\ TermInv(t, O, K, N + 1) /\ RunsInv(w, Start(w, t), O)
      /\ PhaseInv(h, t, w, ib, O, K, N + 1)
  BY PartsLater
<1> QED
  BY <1>1 DEF ClientInv

\* push_output_to_attached: the output is held back, sent, or left to a later flush.
LEMMA AfterPush ==
    ASSUME NEW h \in Handle, NEW t, NEW w \in Seq(WireItem), NEW ib \in Seq(Request),
           NEW O, NEW L, NEW N, ClientInv(h, t, w, ib, O, L, N), Sound(h, N),
           NEW K, Later(O, L, N, O \cup {N}, K),
           NEW v, v = IF SendsLive(h) THEN Append(w, OutputRun({N})) ELSE w
    PROVE  ClientInv(Pushed(h, N), t, v, ib, O \cup {N}, K, N + 1)
<1> DEFINE P == O \cup {N}
           g == Pushed(h, N)
<1>a. t \in Terminal /\ N \in Nat \ {0} /\ O \in SUBSET (1..N - 1) /\ P \in SUBSET Nat
  BY DEF ClientInv, TermInv
<1>b. /\ TermInv(t, P, K, N + 1) /\ RunsInv(w, Start(w, t), P)
      /\ PhaseInv(h, t, w, ib, P, K, N + 1)
      /\ \A m \in Flying(w) : m < N
      /\ t.phase = "attached" \/ Replying(w) => Start(w, t) < N
      /\ h.stage = "snapshot" => h.reply.latest < N
  BY PartsLater
<1>c. /\ h.lastSent \in Nat /\ h.lastSent < N /\ h.unacked \in Nat /\ h.stage \in {"idle", "snapshot", "replied"}
      /\ \A n \in P : n <= N
      /\ Start(w, t) \in Nat
  BY <1>a, HandleFields, StartFields DEF Sound
<1>d. AskInv(h, t, w, ib) /\ SendInv(h, t, w, O)
  BY DEF ClientInv
<1> HIDE DEF P
\* A client that loses its connection.
<1>1. ASSUME NEW d, d.closed, ~d.attached, d.lastSent = 0, d.stage = h.stage, d.reply = h.reply
      PROVE  ClientInv(d, t, w, ib, P, K, N + 1)
  <2>1. AskInv(d, t, w, ib)
    BY <1>1, <1>d DEF AskInv
  <2>2. PhaseInv(d, t, w, ib, P, K, N + 1)
    BY <1>1, <1>b DEF PhaseInv
  <2>3. SendInv(d, t, w, P)
    BY <1>1 DEF SendInv
  <2> QED
    BY <1>b, <2>1, <2>2, <2>3 DEF ClientInv
<1>2. \A d \in Handle : /\ Dropped(d).closed /\ ~Dropped(d).attached /\ Dropped(d).lastSent = 0
                        /\ Dropped(d).stage = d.stage /\ Dropped(d).reply = d.reply
  BY DEF Dropped, Cleared, Handle
<1>3. CASE ~h.attached
  <2>1. g = h /\ v = w
    BY <1>3 DEF Pushed, SendsLive
  <2>2. SendInv(h, t, w, P)
    BY <1>3, <1>d DEF SendInv
  <2> QED
    BY <1>b, <1>d, <2>1, <2>2 DEF ClientInv, P
<1>4. CASE h.attached /\ h.stage # "idle"
  <2> DEFINE held == [Counted(h, 1, N) EXCEPT !.attaching = @ \cup {N}]
  <2>0. held \in Handle /\ Counted(h, 1, N) \in Handle
    <3>1. Counted(h, 1, N) \in Handle
      BY <1>a, CountedType
    <3> QED
      BY <1>a, <3>1, Zenon DEF Handle
  <2>1. /\ held.attached = h.attached /\ held.stage = h.stage /\ held.reply = h.reply
        /\ held.lastSent = N /\ held.attaching = h.attaching \cup {N} /\ held.closed = h.closed
    BY DEF Counted, Handle
  <2>2. v = w /\ g \in {held, Dropped(held)}
    BY <1>4 DEF Pushed, SendsLive
  <2> HIDE DEF held
  <2>3. ClientInv(Dropped(held), t, w, ib, P, K, N + 1)
    BY <1>1, <1>2, <2>0, <2>1
  <2>4. ClientInv(held, t, w, ib, P, K, N + 1)
    <3>1. AskInv(held, t, w, ib)
      BY <1>4, <1>d, <2>1 DEF AskInv
    <3>2. PhaseInv(held, t, w, ib, P, K, N + 1)
      BY <1>b, <2>1 DEF PhaseInv
    <3>3. SendInv(held, t, w, P)
      <4> SUFFICES ASSUME ~h.closed PROVE SendInv(held, t, w, P)
        BY <1>4, <2>1 DEF SendInv
      <4>1. CASE h.stage = "snapshot"
        <5>1. h.attaching = {n \in O : n > h.reply.latest} /\ h.reply.latest < N
          BY <1>b, <1>d, <4>1 DEF SendInv
        <5>2. h.reply.latest <= h.lastSent
          BY <1>d, <4>1 DEF SendInv
        <5>3. h.reply.latest \in Nat
          <6>1. h.reply.kind = "attached"
            BY <1>b, <4>1 DEF PhaseInv
          <6> QED
            BY <6>1, HandleFields, WireTypes DEF Replies
        <5>4. held.attaching = {n \in P : n > held.reply.latest} /\ held.reply.latest <= held.lastSent
          BY <1>a, <2>1, <5>1, <5>3 DEF P
        <5> QED
          BY <1>4, <1>c, <2>1, <4>1, <5>4 DEF SendInv
      <4>2. CASE h.stage = "replied"
        <5>1. /\ h.attaching = {n \in O : n > Start(w, t)} /\ Flying(w) = {}
              /\ t.phase = "attached" \/ Replying(w)
          BY <1>4, <1>d, <4>2 DEF SendInv
        <5>2. Start(w, t) < N
          BY <1>b, <5>1
        <5>3. held.attaching = {n \in P : n > Start(w, t)} /\ Start(w, t) <= held.lastSent
          BY <1>a, <1>c, <2>1, <5>1, <5>2 DEF P
        <5> QED
          BY <1>4, <1>c, <2>1, <4>2, <5>1, <5>3 DEF SendInv
      <4> QED
        BY <1>4, <1>c, <4>1, <4>2
    <3> QED
      BY <1>b, <3>1, <3>2, <3>3 DEF ClientInv
  <2> QED
    BY <2>2, <2>3, <2>4 DEF P
<1>5. CASE h.attached /\ h.stage = "idle" /\ (h.paused \/ h.unacked >= High)
  <2> DEFINE waits == [h EXCEPT !.paused = TRUE]
  <2>1. /\ waits.attached = h.attached /\ waits.stage = h.stage /\ waits.reply = h.reply
        /\ waits.lastSent = h.lastSent /\ waits.attaching = h.attaching
        /\ waits.closed = h.closed /\ waits.paused
    BY DEF Handle
  <2>2. v = w /\ g = waits
    <3>1. ~(~h.paused /\ h.unacked < High)
      BY <1>5, <1>c, Limits
    <3> QED
      BY <1>5, <3>1 DEF Pushed, SendsLive
  <2> HIDE DEF waits
  <2>3. AskInv(waits, t, w, ib)
    BY <1>d, <2>1 DEF AskInv
  <2>4. PhaseInv(waits, t, w, ib, P, K, N + 1)
    BY <1>b, <2>1 DEF PhaseInv
  <2>5. SendInv(waits, t, w, P)
    <3> SUFFICES ASSUME ~h.closed PROVE SendInv(waits, t, w, P)
      BY <1>5, <2>1 DEF SendInv
    <3>1. \A n \in P : n <= h.lastSent => n \in O
      BY <1>a, <1>c DEF P
    <3>2. /\ Start(w, t) <= h.lastSent /\ \A n \in Flying(w) : n <= h.lastSent
          /\ \A n \in O : Start(w, t) < n /\ n <= h.lastSent => n \in Flying(w)
          /\ t.phase = "attached" \/ Replying(w)
      BY <1>5, <1>d DEF SendInv
    <3> QED
      BY <1>5, <2>1, <3>1, <3>2 DEF SendInv
  <2>6. ClientInv(waits, t, w, ib, P, K, N + 1)
    BY <1>b, <2>3, <2>4, <2>5 DEF ClientInv
  <2> QED
    BY <2>2, <2>6 DEF P
<1>6. CASE h.attached /\ h.stage = "idle" /\ ~h.paused /\ h.unacked < High /\ h.closed
  <2>1. v = w /\ g = Dropped(h)
    BY <1>6, <1>c, Limits DEF Pushed, SendsLive
  <2>2. ClientInv(Dropped(h), t, w, ib, P, K, N + 1)
    BY <1>1, <1>2
  <2> QED
    BY <2>1, <2>2 DEF P
<1>7. CASE h.attached /\ h.stage = "idle" /\ ~h.paused /\ h.unacked < High /\ ~h.closed
  <2> DEFINE sent == Counted(h, 1, N)
  <2>1. /\ sent.attached = h.attached /\ sent.stage = h.stage /\ sent.lastSent = N
    BY DEF Counted, Handle
  <2>2. v = Append(w, OutputRun({N})) /\ g = sent
    BY <1>7, <1>c, Limits DEF Pushed, SendsLive
  <2> HIDE DEF sent
  <2>3. /\ Start(w, t) <= h.lastSent /\ \A n \in Flying(w) : n <= h.lastSent
        /\ \A n \in O : Start(w, t) < n /\ n <= h.lastSent => n \in Flying(w)
        /\ \A n \in O : n <= h.lastSent
        /\ t.phase = "attached" \/ Replying(w)
    BY <1>7, <1>d DEF SendInv
  <2>4. Quiet(ib)
    BY <1>7, <1>d, AskRest
  <2>5. \A n \in P : Start(w, t) < n => n \in Flying(w) \cup {N}
    BY <2>3 DEF P
  <2>6. ClientInv(sent, t, Append(w, OutputRun({N})), ib, P, K, N + 1)
    <3>1. {N} \in SUBSET P /\ {N} # {}
      BY DEF P
    <3>2. Start(w, t) < N /\ Start(w, t) <= N
      <4>1. Start(w, t) < N
        BY <1>b, <2>3
      <4> QED
        BY <1>a, <1>c, <4>1
    <3>3. \A n \in {N} : Start(w, t) < n /\ \A m \in Flying(w) : m < n
      BY <1>b, <3>2
    <3>4. \A n \in Flying(w) \cup {N} : n <= N
      BY <1>a, <1>b, WireFields
    <3>5. sent.attached /\ sent.stage = "idle" /\ Start(w, t) <= sent.lastSent
      BY <1>7, <2>1, <3>2
    <3>6. \A n \in Flying(w) \cup {N} : n <= sent.lastSent
      BY <2>1, <3>4
    <3>7. \A n \in P : n <= sent.lastSent
      BY <1>c, <2>1
    <3> QED
      BY <1>a, <1>b, <2>3, <2>4, <2>5, <3>1, <3>3, <3>5, <3>6, <3>7, AfterRun
  <2> QED
    BY <2>2, <2>6 DEF P
<1> QED
  BY <1>c, <1>3, <1>4, <1>5, <1>6, <1>7, Limits

-----------------------------------------------------------------------------
(* One client: the connection and the terminal *)

\* The connection is gone, and what was queued with it.
LEMMA AfterCut ==
    ASSUME NEW t \in Terminal, NEW O, NEW L, NEW N, TermInv(t, O, L, N), t.phase = "offline"
    PROVE  ClientInv(NewHandle, t, <<>>, <<>>, O, L, N)
<1>1. NewHandle.stage = "idle" /\ ~NewHandle.attached /\ NewHandle.lastSent = 0
  BY DEF NewHandle
<1>2. <<>> \in Seq(WireItem) /\ <<>> \in Seq(Request)
  OBVIOUS
<1>3. Flying(<<>>) = {} /\ ~Replying(<<>>) /\ DOMAIN <<>> = {}
  BY DEF Flying, Runs, Replying
<1>4. RunsInv(<<>>, Start(<<>>, t), O)
  BY <1>3 DEF RunsInv, RunsOK, Runs
<1>5. AskInv(NewHandle, t, <<>>, <<>>)
  BY <1>3 DEF AskInv
<1>6. PhaseInv(NewHandle, t, <<>>, <<>>, O, L, N)
  BY <1>1, <1>3 DEF PhaseInv
<1>7. SendInv(NewHandle, t, <<>>, O)
  BY <1>1 DEF SendInv
<1> QED
  BY <1>4, <1>5, <1>6, <1>7 DEF ClientInv

\* The client asks for what follows the cursor of its socket.
LEMMA AfterConnect ==
    ASSUME NEW h, NEW t, NEW w, NEW ib, NEW O, NEW L, NEW N, ClientInv(h, t, w, ib, O, L, N),
           t.phase = "offline",
           NEW u \in Terminal, u.phase = "attaching", u.received = t.committed,
           u.committed = t.committed, u.tpmCommitted = t.tpmCommitted, u.queue = t.queue,
           u.shown = t.shown, u.garbled = t.garbled,
           u.stale <=> (t.stale \/ t.committed # t.tpmCommitted)
    PROVE  ClientInv(h, u, w, Append(ib, Attach(t.committed)), O, L, N)
<1>a. t \in Terminal /\ N \in Nat \ {0} /\ O \subseteq 1..N - 1 /\ TermInv(t, O, L, N)
  BY DEF ClientInv, TermInv
<1>1. w = <<>> /\ ib = <<>> /\ h.stage = "idle" /\ ~h.attached
  BY DEF ClientInv, PhaseInv
<1> DEFINE ask == Append(ib, Attach(t.committed))
<1>2. /\ DOMAIN ask = {1} /\ ask[1].type = "attach" /\ ask[1].seq = t.committed
  BY <1>1 DEF Attach
<1> HIDE DEF ask
<1>3. w \in Seq(WireItem)
  BY <1>1
<1>4. Flying(w) = {} /\ ~Replying(w) /\ DOMAIN w = {}
  BY <1>1 DEF Flying, Runs, Replying
<1>5. TermInv(u, O, L, N)
  <2>1. Queued(u) = Queued(t) /\ (Resets(u) <=> Resets(t))
    BY DEF Queued, Resets
  <2>2. Base(u) = Base(t)
    BY <2>1 DEF Base
  <2>3. Have(u, O) = Have(t, O)
    BY <2>1, <2>2 DEF Have
  <2>4. \A n : Beyond(u, n) <=> Beyond(t, n)
    BY <2>1 DEF Beyond
  <2>5. InOrder(u, O, N)
    BY <1>a, <2>1 DEF TermInv, InOrder
  <2>6. Solid(u, O, L)
    BY <1>a, <2>2, <2>3, <2>4 DEF TermInv, Solid
  <2> QED
    BY <1>a, <2>5, <2>6 DEF TermInv
<1>6. RunsInv(w, Start(w, u), O)
  BY <1>4 DEF RunsInv, RunsOK, Runs
<1>7. AskInv(h, u, w, ask)
  <2>1. u.committed <= ask[1].seq /\ ask[1].seq <= u.committed
    BY <1>2, TermFields
  <2>2. ~u.stale => ask[1].seq <= u.tpmCommitted
    BY <1>2, TermFields
  <2> QED
    BY <1>1, <1>2, <2>1, <2>2 DEF AskInv
<1>8. PhaseInv(h, u, w, ask, O, L, N)
  BY <1>1, <1>4 DEF PhaseInv
<1>9. SendInv(h, u, w, O)
  BY <1>1 DEF ClientInv, SendInv
<1> QED
  BY <1>5, <1>6, <1>7, <1>8, <1>9 DEF ClientInv, ask

\* The head of a reply is replaced while its frames arrive.
LEMMA AfterReplyPart ==
    ASSUME NEW h, NEW t, NEW w \in Seq(WireItem), NEW ib \in Seq(Request),
           NEW O, NEW L, NEW N, ClientInv(h, t, w, ib, O, L, N), Replying(w),
           NEW u \in Terminal, TermInv(u, O, L, N), u.phase = t.phase,
           NEW item \in WireItem, item.kind = "attached", item.snapshot = NoCheckpoint,
           item.latest = w[1].latest, Brings(item.reset, item.frames, item.latest, u, O, L, N)
    PROVE  ClientInv(h, u, <<item>> \o Tail(w), ib, O, L, N)
<1> DEFINE v == <<item>> \o Tail(w)
           start == w[1].latest
<1>1. start = Start(w, t) /\ RunsInv(w, start, O)
  BY DEF ClientInv, Start
<1>2. RunsInv(v, start, O) /\ Flying(v) = Flying(w) /\ Replying(v) /\ v[1] = item
  BY <1>1, RestOfReply
<1> HIDE DEF v
<1>3. Start(v, u) = start
  BY <1>2 DEF Start
<1>4. w # <<>> /\ v # <<>> /\ Quiet(ib)
  BY <1>2, AskRest DEF Replying, ClientInv
<1>5. AskInv(h, u, v, ib)
  BY <1>4 DEF AskInv, Quiet
<1>6. PhaseInv(h, u, v, ib, O, L, N)
  <2>1. t.phase = "attaching" /\ h.stage # "snapshot"
    BY <1>4 DEF ClientInv, PhaseInv
  <2> QED
    BY <1>2, <2>1 DEF PhaseInv
<1>7. SendInv(h, u, v, O)
  BY <1>1, <1>2, <1>3 DEF ClientInv, SendInv
<1> QED
  BY <1>2, <1>3, <1>5, <1>6, <1>7 DEF ClientInv, v

\* Attached ends the reply.
LEMMA AfterReply ==
    ASSUME NEW h, NEW t, NEW w \in Seq(WireItem), NEW ib \in Seq(Request),
           NEW O \in SUBSET Nat, NEW L, NEW N, ClientInv(h, t, w, ib, O, L, N), Replying(w),
           w[1].reset = FALSE, w[1].frames = {},
           NEW u \in Terminal, SameScreen(t, u), u.phase = "attached", u.received = w[1].latest
    PROVE  ClientInv(h, u, Tail(w), ib, O, L, N)
<1> DEFINE v == Tail(w)
           start == w[1].latest
<1>1. start = Start(w, t) /\ RunsInv(w, start, O)
  BY DEF ClientInv, Start
<1>2. RunsInv(v, start, O) /\ Flying(v) = Flying(w) /\ ~Replying(v)
  BY <1>1, RestOfReply
<1> HIDE DEF v
<1>3. Start(v, u) = start
  BY <1>2 DEF Start
<1>4. w # <<>> /\ Quiet(ib)
  <2>1. w # <<>> /\ AskInv(h, t, w, ib)
    BY DEF Replying, ClientInv
  <2> QED
    BY <2>1 DEF AskInv, Quiet
<1>5. AskInv(h, u, v, ib)
  BY <1>4 DEF AskInv, Quiet
<1>6. TermInv(u, O, L, N)
  BY SameScreenInv DEF ClientInv
<1>7. PhaseInv(h, u, v, ib, O, L, N)
  <2>1. /\ h.stage # "snapshot"
        /\ Brings(w[1].reset, w[1].frames, w[1].latest, t, O, L, N)
    BY <1>4 DEF ClientInv, PhaseInv
  <2>2. Brings(FALSE, {}, start, t, O, L, N)
    BY <2>1, Zenon DEF start
  <2>3. Brings(FALSE, {}, start, u, O, L, N)
    BY <2>2, BringsSame
  <2> QED
    BY <1>2, <2>1, <2>3 DEF PhaseInv, start
<1>8. SendInv(h, u, v, O)
  BY <1>1, <1>2, <1>3 DEF ClientInv, SendInv
<1> QED
  BY <1>2, <1>3, <1>5, <1>6, <1>7, <1>8 DEF ClientInv, v

\* A live output arrives.
LEMMA AfterOutput ==
    ASSUME NEW h, NEW t, NEW w \in Seq(WireItem), NEW ib \in Seq(Request),
           NEW O, NEW L, NEW N, ClientInv(h, t, w, ib, O, L, N),
           w # <<>>, w[1].kind = "output", NEW n \in w[1].frames, First(n, w[1].frames),
           NEW v, Takes(w, n, v)
    PROVE  /\ ~(n <= t.received)
           /\ ClientInv(h, Enqueued([t EXCEPT !.received = n], Frame(n)), v, ib, O, L, N)
<1>a. /\ t \in Terminal /\ N \in Nat \ {0} /\ O \in SUBSET (1..N - 1) /\ TermInv(t, O, L, N)
      /\ O \in SUBSET Nat
  BY DEF ClientInv, TermInv
<1>1. ~Replying(w) /\ Start(w, t) = t.received /\ t.received \in Nat
  BY <1>a, TermFields DEF Replying, Start
<1>2. t.phase = "attached" /\ h.stage # "snapshot"
  <2>1. t.phase \in {"offline", "attaching", "attached"}
    BY <1>a DEF Terminal
  <2> QED
    BY <1>1, <2>1 DEF ClientInv, PhaseInv
<1>3. RunsInv(w, t.received, O) /\ Brings(FALSE, {}, t.received, t, O, L, N)
  BY <1>1, <1>2 DEF ClientInv, PhaseInv
<1>4. /\ RunsInv(v, n, O) /\ Flying(v) = Flying(w) \ {n} /\ ~Replying(v)
      /\ n \in O /\ t.received < n /\ n \in Flying(w) /\ \A m \in Flying(w) : n <= m
      /\ \A m \in O : t.received < m => n <= m
  BY <1>a, <1>1, <1>3, TakeOutput
<1> DEFINE u == Enqueued([t EXCEPT !.received = n], Frame(n))
<1>5. /\ u \in Terminal /\ TermInv(u, O, L, N)
      /\ Brings(FALSE, {}, n, u, O, L, N)
      /\ u.received = n /\ u.phase = t.phase
  <2>1. Upcoming(t, n, O)
    BY <1>4 DEF Upcoming
  <2>2. TermInv(t, O, L, N)
    BY <1>a
  <2>3. Level(t, O, L, N)
    BY <1>3 DEF Level
  <2> DEFINE got == [t EXCEPT !.received = n]
  <2>4. got \in Terminal /\ SameScreen(t, got) /\ got.received = n /\ got.phase = t.phase
    <3>1. n \in Nat
      BY <1>a, <1>4
    <3>2. got \in Terminal
      BY <1>a, <3>1, Zenon DEF Terminal
    <3> QED
      BY <1>a, <3>2, Zenon DEF Terminal, SameScreen
  <2> HIDE DEF got
  <2>5. LET r == Enqueued(got, Frame(n))
        IN  /\ r \in Terminal /\ TermInv(r, O, L, N)
            /\ Level(r, O, L, N) /\ r.received = n /\ r.phase = t.phase
    BY <2>1, <2>2, <2>3, <2>4, LiveFrame
  <2> QED
    BY <2>5 DEF got, Level
<1> HIDE DEF u
<1>6. Start(v, u) = n
  BY <1>4, <1>5 DEF Start
<1>7. Quiet(ib)
  <2>1. AskInv(h, t, w, ib)
    BY DEF ClientInv
  <2> QED
    BY <2>1 DEF AskInv, Quiet
<1>8. AskInv(h, u, v, ib)
  BY <1>7 DEF AskInv, Quiet
<1>9. PhaseInv(h, u, v, ib, O, L, N)
  BY <1>2, <1>4, <1>5 DEF PhaseInv
<1>10. SendInv(h, u, v, O)
  <2>1. SendInv(h, t, w, O)
    BY DEF ClientInv
  <2>2. \A m \in O : n < m => t.received < m /\ m # n
    BY <1>a, <1>1, <1>4
  <2>3. ~h.closed => h.stage # "replied"
    BY <1>4, <2>1 DEF SendInv
  <2> QED
    BY <1>1, <1>2, <1>4, <1>5, <1>6, <2>1, <2>2, <2>3 DEF SendInv
<1>11. ~(n <= t.received)
  BY <1>a, <1>1, <1>4
<1> QED
  BY <1>4, <1>5, <1>6, <1>8, <1>9, <1>10, <1>11 DEF ClientInv, u

\* A queued frame is written, and an ACK may go out.
LEMMA AfterRender ==
    ASSUME NEW h \in Handle, NEW t, NEW w \in Seq(WireItem), NEW ib \in Seq(Request),
           NEW L, NEW N, ClientInv(h, t, w, ib, outs, L, N), t.queue # <<>>,
           NEW a, NEW n \in Nat, a \in {ib, Append(ib, Ack(n, 1))}, t.phase = "offline" => a = ib
    PROVE  ClientInv(h, Committed(t, Head(t.queue)), w, a, outs, L, N)
<1> DEFINE O == outs
           u == Committed(t, Head(t.queue))
<1>a. t \in Terminal /\ N \in Nat \ {0} /\ O \in SUBSET (1..N - 1) /\ TermInv(t, O, L, N)
  BY DEF ClientInv, TermInv
<1>1. u \in Terminal /\ TermInv(u, O, L, N) /\ Commits(t, u, O)
  BY <1>a, RenderInv
<1> HIDE DEF u, O
<1>2. u.received = t.received /\ u.phase = t.phase /\ u.stale = t.stale
  BY <1>1 DEF Commits
<1>3. Start(w, u) = Start(w, t)
  BY <1>2 DEF Start
<1>4. \A reset : \A S \in SUBSET Nat : \A end \in Nat :
         Brings(reset, S, end, t, O, L, N) => Brings(reset, S, end, u, O, L, N)
  <2>1. O \in SUBSET Nat
    BY <1>a
  <2> QED
    BY <1>a, <1>1, <2>1, BringsRender
<1>5. \A item \in WireItem : item.kind = "attached" =>
         item.frames \in SUBSET Nat /\ item.latest \in Nat
  BY WireTypes DEF Replies
<1>6. PhaseInv(h, u, w, a, O, L, N)
  <2>0. PhaseInv(h, t, w, ib, O, L, N)
    BY DEF ClientInv, O
  <2>1. h.stage = "snapshot" => Brings(h.reply.reset, h.reply.frames, h.reply.latest, u, O, L, N)
    BY <1>4, <1>5, <2>0, HandleFields DEF PhaseInv
  <2>2. Replying(w) => Brings(w[1].reset, w[1].frames, w[1].latest, u, O, L, N)
    <3>1. Replying(w) => w[1] \in WireItem /\ w[1].kind = "attached"
      BY DEF Replying
    <3> QED
      BY <1>4, <1>5, <2>0, <3>1 DEF PhaseInv
  <2>3. t.phase = "attached" => Brings(FALSE, {}, t.received, u, O, L, N)
    <3>1. {} \in SUBSET Nat /\ t.received \in Nat
      BY <1>a, TermFields
    <3> QED
      BY <1>4, <2>0, <3>1 DEF PhaseInv
  <2> QED
    BY <1>2, <2>0, <2>1, <2>2, <2>3 DEF PhaseInv
<1>7. AskInv(h, u, w, a)
  <2>0. AskInv(h, t, w, ib)
    BY DEF ClientInv
  <2>1. /\ t.tpmCommitted <= u.tpmCommitted /\ t.committed <= u.committed
        /\ u.committed > u.tpmCommitted => u.committed = t.committed
        /\ u.tpmCommitted \in Nat /\ u.committed \in Nat
        /\ t.tpmCommitted \in Nat /\ t.committed \in Nat
    BY <1>a, <1>1, TermFields DEF Commits
  <2>2. \A i \in DOMAIN a : a[i].type # "ack" => i \in DOMAIN ib /\ a[i] = ib[i]
    <3>1. CASE a = ib
      BY <3>1
    <3>2. CASE a = Append(ib, Ack(n, 1))
      <4>1. Ack(n, 1).type = "ack"
        BY DEF Ack
      <4>2. \A i \in DOMAIN a : (i \in DOMAIN ib /\ a[i] = ib[i]) \/ a[i] = Ack(n, 1)
        BY <3>2
      <4> QED
        BY <4>1, <4>2
    <3> QED
      BY <3>1, <3>2
  <2>3. ASSUME NEW i \in DOMAIN ib, ib[i].type = "attach"
        PROVE  /\ u.phase = "attaching" /\ h.stage = "idle" /\ ~h.attached /\ w = <<>>
               /\ \A j \in DOMAIN ib : ib[j].type = "attach" => i = j
               /\ ib[i].seq <= u.committed
               /\ u.committed > u.tpmCommitted => u.committed <= ib[i].seq
               /\ ~u.stale => ib[i].seq <= u.tpmCommitted
    <3>1. ib[i].seq \in Nat
      BY InboxFields
    <3>2. /\ t.phase = "attaching" /\ h.stage = "idle" /\ ~h.attached /\ w = <<>>
          /\ \A j \in DOMAIN ib : ib[j].type = "attach" => i = j
          /\ ib[i].seq <= t.committed
          /\ t.committed > t.tpmCommitted => t.committed <= ib[i].seq
          /\ ~t.stale => ib[i].seq <= t.tpmCommitted
      BY <2>0, <2>3 DEF AskInv
    <3>3. u.committed > u.tpmCommitted => u.committed <= ib[i].seq
      BY <2>1, <3>1, <3>2
    <3> QED
      BY <1>2, <2>1, <3>1, <3>2, <3>3
  <2>4. \A i \in DOMAIN ib : ib[i].type # "checkpoint"
    BY <2>0 DEF AskInv
  <2> QED
    BY <2>2, <2>3, <2>4 DEF AskInv
<1>8. SendInv(h, u, w, O)
  BY <1>2, <1>3 DEF ClientInv, SendInv, O
<1>9. RunsInv(w, Start(w, u), O)
  BY <1>3 DEF ClientInv, O
<1> QED
  BY <1>1, <1>6, <1>7, <1>8, <1>9 DEF ClientInv, u, O

-----------------------------------------------------------------------------
(* The actions *)

\* What the invariant says of one client.
LEMMA Client ==
    ASSUME StreamInv, NEW c \in Clients
    PROVE  /\ handle \in [Clients -> Handle] /\ term \in [Clients -> Terminal]
           /\ wire \in [Clients -> Seq(WireItem)] /\ inbox \in [Clients -> Seq(Request)]
           /\ handle[c] \in Handle /\ term[c] \in Terminal
           /\ wire[c] \in Seq(WireItem) /\ inbox[c] \in Seq(Request)
           /\ buf \in Buffer /\ next \in Nat \ {0} /\ outs \in SUBSET (1..next - 1)
           /\ Retains(buf, outs, next) /\ buf.checkpoint = NoCheckpoint
           /\ Sound(handle[c], next)
           /\ ClientInv(handle[c], term[c], wire[c], inbox[c], outs, LiveFrames(buf), next)
           /\ TermInv(term[c], outs, LiveFrames(buf), next)
BY DEF StreamInv, FlowInv, TypeInv, TypeOK, Numbered, ClientInv, Retains

\* A step of one client's session, terminal, wire or inbox.
Others(c) ==
    \A d \in Clients \ {c} : /\ handle'[d] = handle[d] /\ term'[d] = term[d]
                             /\ wire'[d] = wire[d] /\ inbox'[d] = inbox[d]
Steps(c) ==
    /\ UNCHANGED <<next, outs, buf>> /\ Others(c)
    /\ ClientInv(handle'[c], term'[c], wire'[c], inbox'[c], outs, LiveFrames(buf), next)

LEMMA StepInv ==
    ASSUME StreamInv, FlowInv', NEW c \in Clients, Steps(c)
    PROVE  StreamInv'
<1>1. next' = next /\ outs' = outs /\ buf' = buf
  BY DEF Steps
<1>2. ASSUME NEW d \in Clients
      PROVE  ClientInv(handle'[d], term'[d], wire'[d], inbox'[d], outs, LiveFrames(buf), next)
  <2>1. CASE d = c
    BY <2>1 DEF Steps
  <2>2. CASE d # c
    <3>1. /\ handle'[d] = handle[d] /\ term'[d] = term[d]
          /\ wire'[d] = wire[d] /\ inbox'[d] = inbox[d]
      BY <2>2 DEF Steps, Others
    <3> QED
      BY <3>1, Client
  <2> QED
    BY <2>1, <2>2
<1>3. LiveFrames(buf') = LiveFrames(buf) /\ Retains(buf', outs', next')
  BY <1>1 DEF StreamInv
<1> QED
  BY <1>1, <1>2, <1>3 DEF StreamInv

LEMMA AttachSnapshotInv ==
    ASSUME StreamInv, NEW c \in Clients, AttachSnapshot(c)
    PROVE  Steps(c)
<1> USE Client
<1> DEFINE after  == Head(inbox[c]).seq
           reset  == after = 0 \/ OldestAfter(buf, after + 1)
           frames == {n \in LiveFrames(buf) : reset \/ n > after}
           snapshot == IF reset \/ buf.checkpoint > after THEN buf.checkpoint ELSE NoCheckpoint
           g == [handle[c] EXCEPT !.attached = TRUE, !.unacked = 0, !.paused = FALSE,
                        !.lastSent = next - 1, !.lastAcked = next - 1, !.attaching = {},
                        !.stage = "snapshot",
                        !.reply = Reply(reset, snapshot, buf.screen, frames, next - 1)]
<1>1. /\ inbox[c] # <<>> /\ Head(inbox[c]).type = "attach"
      /\ inbox' = [inbox EXCEPT ![c] = Tail(@)] /\ handle' = [handle EXCEPT ![c] = g]
      /\ UNCHANGED <<next, outs, buf, wire, term>>
  BY DEF AttachSnapshot, Receives
<1>2. reset \in BOOLEAN /\ snapshot = NoCheckpoint
  OBVIOUS
<1>3. /\ g.attached /\ g.lastSent = next - 1 /\ g.attaching = {} /\ g.stage = "snapshot"
      /\ g.reply = Reply(reset, NoCheckpoint, buf.screen, frames, next - 1)
  BY <1>2, Zenon DEF Handle
<1>4. inbox'[c] = Tail(inbox[c]) /\ handle'[c] = g /\ wire'[c] = wire[c] /\ term'[c] = term[c]
  BY <1>1
<1>5. Others(c)
  BY <1>1 DEF Others
<1> HIDE DEF g
<1>6. ClientInv(g, term[c], wire[c], Tail(inbox[c]), outs, LiveFrames(buf), next)
  BY <1>1, <1>2, <1>3, AfterAttachSnapshot
<1> QED
  BY <1>1, <1>4, <1>5, <1>6 DEF Steps

LEMMA AttachReplyInv ==
    ASSUME StreamInv, NEW c \in Clients, AttachReply(c)
    PROVE  Steps(c)
<1> USE Client
<1> DEFINE g == [handle[c] EXCEPT !.stage = "replied", !.reply = NoReply]
<1>1. /\ handle[c].stage = "snapshot" /\ ~handle[c].closed
      /\ wire' = [wire EXCEPT ![c] = Append(@, handle[c].reply)]
      /\ handle' = [handle EXCEPT ![c] = g]
      /\ UNCHANGED <<next, outs, buf, inbox, term>>
  BY DEF AttachReply
<1>2. /\ g.attached = handle[c].attached /\ g.lastSent = handle[c].lastSent
      /\ g.attaching = handle[c].attaching /\ g.stage = "replied"
      /\ g.closed = handle[c].closed
  BY Zenon DEF Handle
<1>3. /\ inbox'[c] = inbox[c] /\ handle'[c] = g /\ term'[c] = term[c]
      /\ wire'[c] = Append(wire[c], handle[c].reply)
  BY <1>1
<1>4. Others(c)
  BY <1>1 DEF Others
<1> HIDE DEF g
<1>5. ClientInv(g, term[c], wire'[c], inbox[c], outs, LiveFrames(buf), next)
  BY <1>1, <1>2, <1>3, AfterAttachReply
<1> QED
  BY <1>1, <1>3, <1>4, <1>5 DEF Steps

\* What is left of a handle that is dropped.
LEMMA DroppedFields ==
    ASSUME NEW h \in Handle
    PROVE  LET g == Dropped(h)
           IN  /\ g.closed /\ ~g.attached /\ g.lastSent = 0
               /\ g.stage = h.stage /\ g.reply = h.reply
<1>1. Dropped(h) = [h EXCEPT !.attached = FALSE, !.unacked = 0, !.paused = FALSE, !.lastSent = 0,
                             !.lastAcked = 0, !.attaching = {}, !.closed = TRUE]
  BY DEF Dropped, Cleared, Handle
<1> QED
  BY <1>1, Zenon DEF Handle

LEMMA AttachCompleteInv ==
    ASSUME StreamInv, NEW c \in Clients, AttachComplete(c)
    PROVE  Steps(c)
<1> USE Client
<1> DEFINE h == [handle[c] EXCEPT !.stage = "idle", !.attaching = {}]
           held == handle[c].attaching
<1>1. /\ handle[c].stage = "replied"
      /\ handle' = [handle EXCEPT ![c] = IF held # {} /\ h.closed THEN Dropped(h) ELSE h]
      /\ wire' = IF held # {} /\ ~h.closed
                 THEN [wire EXCEPT ![c] = Append(@, OutputRun(held))] ELSE wire
      /\ UNCHANGED <<next, outs, buf, inbox, term>>
  BY DEF AttachComplete
<1>2. /\ h.attached = handle[c].attached /\ h.lastSent = handle[c].lastSent
      /\ h.paused = handle[c].paused /\ h.stage = "idle"
      /\ h.closed = handle[c].closed /\ h.reply = handle[c].reply
  BY Zenon DEF Handle
<1>3. h \in Handle
  BY Zenon DEF Handle
<1>4. inbox'[c] = inbox[c] /\ term'[c] = term[c]
  BY <1>1
<1>5. Others(c)
  BY <1>1 DEF Others
<1> HIDE DEF h
<1>6. CASE handle[c].closed
  <2>1. handle'[c] \in {h, Dropped(h)} /\ wire'[c] = wire[c]
    BY <1>1, <1>2, <1>6
  <2>2. \A g \in {h, Dropped(h)} :
           /\ g.closed /\ g.stage \in {handle[c].stage, "idle"} /\ g.reply = handle[c].reply
           /\ g.attached => handle[c].attached
           /\ ~g.attached => g.lastSent = 0
    <3>1. ~handle[c].attached => handle[c].lastSent = 0
      BY DEF ClientInv, SendInv
    <3> QED
      BY <1>2, <1>3, <1>6, <3>1, DroppedFields
  <2>3. ClientInv(handle'[c], term[c], wire[c], inbox[c], outs, LiveFrames(buf), next)
    BY <2>1, <2>2, AfterClosing
  <2> QED
    BY <1>1, <1>4, <1>5, <2>1, <2>3 DEF Steps
<1>7. CASE ~handle[c].closed
  <2>1. /\ handle'[c] = h
        /\ wire'[c] = IF held = {} THEN wire[c] ELSE Append(wire[c], OutputRun(held))
    BY <1>1, <1>2, <1>7
  <2>2. ClientInv(h, term[c], wire'[c], inbox[c], outs, LiveFrames(buf), next)
    BY <1>1, <1>2, <1>7, <2>1, AfterAttachComplete
  <2> QED
    BY <1>1, <1>4, <1>5, <2>1, <2>2 DEF Steps
<1> QED
  BY <1>6, <1>7

\* An ACK changes the credit of a handle and nothing the stream depends on.
LEMMA AckedFields ==
    ASSUME NEW h \in Handle, NEW ack \in Request
    PROVE  LET g == Acked(h, ack)
           IN  /\ g.attached = h.attached /\ g.lastSent = h.lastSent /\ g.paused = h.paused
               /\ g.stage = h.stage /\ g.closed = h.closed /\ g.attaching = h.attaching
               /\ g.reply = h.reply /\ g.unacked \in Nat
BY DEF Acked, Handle, Monus, Request

LEMMA HandleAckInv ==
    ASSUME StreamInv, NEW c \in Clients, HandleAck(c)
    PROVE  Steps(c)
<1> USE Client
<1> DEFINE ack == Head(inbox[c])
           h == Acked(handle[c], ack)
           missed == {n \in LiveFrames(buf) \cap outs : n > h.lastSent}
           batch(last) == {n \in missed : n <= last}
           sent(last) == Counted(h, Cardinality(batch(last)), last)
           credited(last) == [sent(last) EXCEPT !.paused = sent(last).unacked > Low]
<1>1. /\ handle[c].stage = "idle" /\ inbox[c] # <<>> /\ ack \in Request
      /\ inbox' = [inbox EXCEPT ![c] = Tail(@)]
      /\ UNCHANGED <<next, outs, buf, term>>
  BY ReceivesType DEF HandleAck, Receives, StreamInv, FlowInv, TypeInv
<1>2. /\ h.attached = handle[c].attached /\ h.lastSent = handle[c].lastSent
      /\ h.paused = handle[c].paused /\ h.stage = "idle" /\ h.closed = handle[c].closed
      /\ h.attaching = handle[c].attaching /\ h.reply = handle[c].reply
      /\ h.unacked \in Nat
  BY <1>1, AckedFields
<1>3. h \in Handle
  BY <1>1, AckedType
<1>4. ClientInv(handle[c], term[c], wire[c], Tail(inbox[c]), outs, LiveFrames(buf), next)
  BY <1>1, AfterRequest
<1>5. ClientInv(h, term[c], wire[c], Tail(inbox[c]), outs, LiveFrames(buf), next)
  BY <1>1, <1>2, <1>4, AfterAck
<1>6. inbox'[c] = Tail(inbox[c]) /\ term'[c] = term[c] /\ Tail(inbox[c]) \in Seq(Request)
  BY <1>1
<1>7. ASSUME NEW g, handle' = [handle EXCEPT ![c] = g], wire' = wire,
             ClientInv(g, term[c], wire[c], Tail(inbox[c]), outs, LiveFrames(buf), next)
      PROVE  Steps(c)
  <2>1. handle'[c] = g /\ wire'[c] = wire[c] /\ Others(c)
    BY <1>1, <1>7 DEF Others
  <2> QED
    BY <1>1, <1>6, <1>7, <2>1 DEF Steps
<1>8. ASSUME handle' = [handle EXCEPT ![c] = Dropped(h)], wire' = wire
      PROVE  Steps(c)
  <2>1. ClientInv(Dropped(h), term[c], wire[c], Tail(inbox[c]), outs, LiveFrames(buf), next)
    BY <1>2, <1>3, <1>5, <1>6, AfterClosing, DroppedFields
  <2> QED
    BY <1>7, <1>8, <2>1
<1>9. ASSUME UNCHANGED <<handle, wire>> PROVE Steps(c)
  <2>1. handle' = [handle EXCEPT ![c] = handle[c]]
    BY <1>9
  <2> QED
    BY <1>4, <1>7, <1>9, <2>1
<1>10. ASSUME Accepts(handle[c], ack), Resumes(h), ~Gap(h), Flush(c, h)
       PROVE  Steps(c)
  <2>1. PICK last \in missed \cup {h.lastSent} :
           /\ Cardinality(batch(last)) <= High - h.unacked
           /\ batch(last) = missed \/ Cardinality(batch(last)) = High - h.unacked
           /\ IF batch(last) # {} /\ h.closed
              THEN handle' = [handle EXCEPT ![c] = Dropped(h)] /\ UNCHANGED wire
              ELSE /\ handle' = [handle EXCEPT ![c] = credited(last)]
                   /\ wire' = IF batch(last) = {} THEN wire
                              ELSE [wire EXCEPT ![c] = Append(@, OutputRun(batch(last)))]
    BY <1>10, Zenon DEF Flush
  <2>2. CASE batch(last) # {} /\ h.closed
    BY <1>8, <2>1, <2>2
  <2>3. h.attached
    <3>1. ack.seq \in Nat /\ handle[c].lastAcked \in Nat
      BY <1>1 DEF Request, Handle
    <3>2. handle[c].lastSent # 0
      BY <1>10, <3>1 DEF Accepts
    <3> QED
      BY <1>2, <3>2 DEF ClientInv, SendInv
  <2>4. /\ last \in Nat /\ h.lastSent <= last /\ Cardinality(batch(last)) \in Nat
    <3>1. batch(last) \in SUBSET (1..next - 1)
      OBVIOUS
    <3>2. Cardinality(batch(last)) \in Nat
      <4> HIDE DEF batch
      <4> QED
        BY <3>1, HeldFinite
    <3> QED
      BY <1>2, <3>2, HandleFields
  <2> HIDE DEF h, batch
  <2>5. LET g == credited(last)
        IN  /\ g.attached = h.attached /\ g.stage = h.stage /\ g.lastSent = last
            /\ g.closed = h.closed /\ g.reply = h.reply
            /\ ~g.paused => h.unacked + Cardinality(batch(last)) <= Low
    <3> DEFINE s == sent(last)
               g == credited(last)
               size == Cardinality(batch(last))
    <3>1. /\ s = [h EXCEPT !.unacked = @ + size, !.lastSent = last,
                           !.paused = @ \/ h.unacked + size >= High]
          /\ size \in Nat /\ h.unacked \in Nat /\ last \in Nat
      BY <1>2, <2>4 DEF Counted
    <3>2. /\ s.attached = h.attached /\ s.stage = h.stage /\ s.lastSent = last
          /\ s.closed = h.closed /\ s.reply = h.reply /\ s.unacked = h.unacked + size
      BY <1>3, <3>1 DEF Handle
    <3>3. s \in Handle
      BY <1>3, <2>4, CountedType
    <3>4. g = [s EXCEPT !.paused = s.unacked > Low]
      OBVIOUS
    <3> HIDE DEF s, g
    <3>5. /\ g.attached = s.attached /\ g.stage = s.stage /\ g.lastSent = s.lastSent
          /\ g.closed = s.closed /\ g.reply = s.reply /\ g.paused = (s.unacked > Low)
      BY <3>3, <3>4, Zenon DEF Handle
    <3>6. h.unacked + size \in Nat /\ Low \in Nat
      BY <3>1, Limits
    <3>7. ~g.paused => ~(s.unacked > Low)
      BY <3>5, Zenon
    <3>8. ~g.paused => h.unacked + size <= Low
      BY <3>2, <3>6, <3>7
    <3> QED
      BY <3>2, <3>5, <3>8, Zenon DEF g, size
  <2> HIDE DEF credited
  <2>6. CASE batch(last) = {} /\ h.closed
    <3>1. /\ handle' = [handle EXCEPT ![c] = credited(last)] /\ wire' = wire
      BY <2>1, <2>6
    <3>2. ClientInv(credited(last), term[c], wire[c], Tail(inbox[c]), outs, LiveFrames(buf), next)
      BY <1>2, <1>3, <1>5, <1>6, <2>3, <2>5, <2>6, AfterClosing
    <3> QED
      BY <1>7, <3>1, <3>2
  <2>7. CASE ~h.closed
    <3> DEFINE v == IF batch(last) = {} THEN wire[c]
                    ELSE Append(wire[c], OutputRun(batch(last)))
               g == credited(last)
    <3>1. handle'[c] = g /\ wire'[c] = v /\ Others(c)
      BY <1>1, <2>1, <2>7 DEF Others
    <3>2. ~g.paused => batch(last) = missed
      BY <1>2, <2>1, <2>4, <2>5, Limits
    <3>3. (\E n \in LiveFrames(buf) : n > h.lastSent) => h.lastSent + 1 \in LiveFrames(buf)
      BY <1>10 DEF Gap
    <3>4. batch(last) = {n \in missed : n <= last}
      BY DEF batch
    <3>5. g.attached /\ g.stage = "idle" /\ g.lastSent = last
      BY <1>2, <2>3, <2>5
    <3> HIDE DEF g, v
    <3>6. Flushes(h, wire[c], outs, LiveFrames(buf), missed, last, batch(last), g, v)
      BY <1>2, <2>1, <2>3, <2>7, <3>2, <3>3, <3>4, <3>5, Zenon DEF Flushes, v
    <3>11. ClientInv(g, term[c], v, Tail(inbox[c]), outs, LiveFrames(buf), next)
      BY <1>3, <1>5, <1>6, <3>6, AfterFlush
    <3> QED
      BY <1>1, <1>6, <3>1, <3>11 DEF Steps
  <2> QED
    BY <2>2, <2>6, <2>7
<1>11. \/ UNCHANGED <<handle, wire>>
       \/ handle' = [handle EXCEPT ![c] = h] /\ UNCHANGED wire
       \/ handle' = [handle EXCEPT ![c] = Dropped(h)] /\ UNCHANGED wire
       \/ Accepts(handle[c], ack) /\ Resumes(h) /\ ~Gap(h) /\ Flush(c, h)
  BY Zenon DEF HandleAck
<1> HIDE DEF h, ack
<1> QED
  BY <1>5, <1>7, <1>8, <1>9, <1>10, <1>11

LEMMA WriterClosesInv ==
    ASSUME StreamInv, NEW c \in Clients, WriterCloses(c)
    PROVE  Steps(c)
<1> USE Client
<1> DEFINE g == [handle[c] EXCEPT !.closed = TRUE]
<1>1. /\ handle' = [handle EXCEPT ![c] = g]
      /\ UNCHANGED <<next, outs, buf, wire, inbox, term>>
  BY DEF WriterCloses
<1>2. /\ g.closed /\ g.stage = handle[c].stage /\ g.reply = handle[c].reply
      /\ g.attached = handle[c].attached /\ g.lastSent = handle[c].lastSent
  BY Zenon DEF Handle
<1>3. /\ handle'[c] = g /\ wire'[c] = wire[c] /\ inbox'[c] = inbox[c] /\ term'[c] = term[c]
      /\ Others(c)
  BY <1>1 DEF Others
<1> HIDE DEF g
<1>4. ~handle[c].attached => handle[c].lastSent = 0
  BY DEF ClientInv, SendInv
<1>5. ClientInv(g, term[c], wire[c], inbox[c], outs, LiveFrames(buf), next)
  BY <1>2, <1>4, AfterClosing
<1> QED
  BY <1>1, <1>3, <1>5 DEF Steps

\* A connection ends, and the terminal u is what is left of the client's.
LEMMA CutInv ==
    ASSUME StreamInv, NEW c \in Clients, Cut(c),
           NEW u \in Terminal, term' = [term EXCEPT ![c] = u],
           TermInv(u, outs, LiveFrames(buf), next), u.phase = "offline"
    PROVE  Steps(c)
<1> USE Client
<1>1. /\ handle'[c] = NewHandle /\ wire'[c] = <<>> /\ inbox'[c] = <<>> /\ term'[c] = u
      /\ UNCHANGED <<next, outs, buf>> /\ Others(c)
  BY DEF Cut, Others
<1>2. ClientInv(NewHandle, u, <<>>, <<>>, outs, LiveFrames(buf), next)
  BY AfterCut
<1> QED
  BY <1>1, <1>2 DEF Steps

LEMMA BreaksInv ==
    ASSUME StreamInv, NEW c \in Clients, HangUp(c) \/ Break(c) \/ Restart(c)
    PROVE  Steps(c)
<1> USE Client
<1>1. CASE HangUp(c) \/ Break(c)
  <2> DEFINE u == [term[c] EXCEPT !.phase = "offline"]
  <2>1. Cut(c) /\ term' = [term EXCEPT ![c] = u]
    BY <1>1 DEF HangUp, Break, GoOffline
  <2>2. u \in Terminal
    BY Zenon DEF Terminal
  <2>3. SameScreen(term[c], u) /\ u.phase = "offline"
    BY Zenon DEF Terminal, SameScreen
  <2> HIDE DEF u
  <2>4. TermInv(u, outs, LiveFrames(buf), next)
    BY <2>2, <2>3, SameScreenInv
  <2> QED
    BY <2>1, <2>2, <2>3, <2>4, CutInv
<1>2. CASE Restart(c)
  <2>1. Cut(c) /\ term' = [term EXCEPT ![c] = NewTerminal]
    BY <1>2 DEF Restart
  <2>2. NewTerminal \in Terminal
    BY TerminalTypes
  <2>3. TermInv(NewTerminal, outs, LiveFrames(buf), next) /\ NewTerminal.phase = "offline"
    BY NewTerminalInv
  <2> QED
    BY <2>1, <2>2, <2>3, CutInv
<1> QED
  BY <1>1, <1>2

LEMMA ConnectInv ==
    ASSUME StreamInv, NEW c \in Clients, Connect(c)
    PROVE  Steps(c)
<1> USE Client
<1> DEFINE t == term[c]
           u == [t EXCEPT !.phase = "attaching", !.received = t.committed,
                          !.stale = @ \/ t.committed # t.tpmCommitted]
<1>1. /\ t.phase = "offline" /\ term' = [term EXCEPT ![c] = u]
      /\ inbox' = [inbox EXCEPT ![c] = Append(@, Attach(t.committed))]
      /\ UNCHANGED <<next, outs, buf, handle, wire>>
  BY DEF Connect
<1>2. u \in Terminal
  <2>1. t \in Terminal /\ t.committed \in Nat
    BY TermFields
  <2>2. "attaching" \in {"offline", "attaching", "attached"}
    OBVIOUS
  <2>3. (t.stale \/ t.committed # t.tpmCommitted) \in BOOLEAN
    OBVIOUS
  <2> QED
    BY <2>1, <2>2, <2>3, Zenon DEF Terminal
<1>3. /\ u.phase = "attaching" /\ u.received = t.committed
      /\ u.committed = t.committed /\ u.tpmCommitted = t.tpmCommitted /\ u.queue = t.queue
      /\ u.shown = t.shown /\ u.garbled = t.garbled
      /\ u.stale <=> (t.stale \/ t.committed # t.tpmCommitted)
  BY Zenon DEF Terminal
<1>4. /\ term'[c] = u /\ inbox'[c] = Append(inbox[c], Attach(t.committed))
      /\ handle'[c] = handle[c] /\ wire'[c] = wire[c] /\ Others(c)
  BY <1>1 DEF Others
<1> HIDE DEF u
<1>5. ClientInv(handle[c], u, wire[c], Append(inbox[c], Attach(t.committed)),
                outs, LiveFrames(buf), next)
  BY <1>1, <1>2, <1>3, AfterConnect
<1> QED
  BY <1>1, <1>4, <1>5 DEF Steps

\* A part of the reply at the head of the wire arrives: u is what it makes of the
\* terminal, item what remains of the reply.
LEMMA ReplyPartInv ==
    ASSUME StreamInv, NEW c \in Clients, Replying(wire[c]), NEW u \in Terminal,
           TermInv(u, outs, LiveFrames(buf), next), u.phase = term[c].phase,
           NEW item \in WireItem, item.kind = "attached", item.snapshot = NoCheckpoint,
           item.latest = wire[c][1].latest,
           Brings(item.reset, item.frames, item.latest, u, outs, LiveFrames(buf), next),
           term' = [term EXCEPT ![c] = u], wire' = Remaining(c, item),
           UNCHANGED <<next, outs, buf, handle, inbox>>
    PROVE  Steps(c)
<1> USE Client
<1>1. wire' = [wire EXCEPT ![c] = <<item>> \o Tail(wire[c])]
  BY DEF Remaining
<1>2. /\ term'[c] = u /\ wire'[c] = <<item>> \o Tail(wire[c])
      /\ handle'[c] = handle[c] /\ inbox'[c] = inbox[c] /\ Others(c)
  BY <1>1 DEF Others
<1>3. ClientInv(handle[c], u, <<item>> \o Tail(wire[c]), inbox[c], outs, LiveFrames(buf), next)
  BY AfterReplyPart
<1> QED
  BY <1>2, <1>3 DEF Steps

\* What the invariant says of the reply at the head of a wire.
LEMMA HeadReply ==
    ASSUME StreamInv, NEW c \in Clients, Arriving(c, "attached")
    PROVE  LET reply == Head(wire[c])
           IN  /\ Replying(wire[c]) /\ reply = wire[c][1] /\ reply \in WireItem
               /\ reply.kind = "attached" /\ reply.snapshot = NoCheckpoint
               /\ reply.reset \in BOOLEAN /\ reply.frames \in SUBSET Nat /\ reply.latest \in Nat
               /\ Brings(reply.reset, reply.frames, reply.latest, term[c],
                         outs, LiveFrames(buf), next)
<1> USE Client
<1>1. /\ wire[c] # <<>> /\ Head(wire[c]) = wire[c][1] /\ wire[c][1].kind = "attached"
      /\ wire[c][1] \in WireItem
  BY WireFields DEF Arriving
<1>2. Replying(wire[c])
  BY <1>1 DEF Replying
<1>3. wire[c][1] \in Replies
  BY <1>1, WireTypes
<1>4. PhaseInv(handle[c], term[c], wire[c], inbox[c], outs, LiveFrames(buf), next)
  BY DEF ClientInv
<1> QED
  BY <1>1, <1>2, <1>3, <1>4 DEF PhaseInv, Replies

LEMMA ReceiveReplyInv ==
    ASSUME StreamInv, NEW c \in Clients, ReceiveReset(c) \/ ReceiveReplay(c)
    PROVE  Steps(c)
<1> USE Client
<1> DEFINE reply == Head(wire[c])
           t == term[c]
<1>1. /\ Replying(wire[c]) /\ reply = wire[c][1] /\ reply \in WireItem
      /\ reply.kind = "attached" /\ reply.snapshot = NoCheckpoint
      /\ reply.reset \in BOOLEAN /\ reply.frames \in SUBSET Nat /\ reply.latest \in Nat
      /\ Brings(reply.reset, reply.frames, reply.latest, t, outs, LiveFrames(buf), next)
  BY HeadReply DEF ReceiveReset, ReceiveReplay
<1>2. UNCHANGED <<next, outs, buf, handle, inbox>>
  BY DEF ReceiveReset, ReceiveReplay
<1>3. reply \in Replies
  BY <1>1, WireTypes
<1>4. CASE ReceiveReset(c)
  <2> DEFINE item == [reply EXCEPT !.reset = FALSE]
             u == Restarted(t)
  <2>1. reply.reset /\ term' = [term EXCEPT ![c] = u] /\ wire' = Remaining(c, item)
    BY <1>4 DEF ReceiveReset
  <2>2. item \in Replies
    BY <1>3, Zenon DEF Replies
  <2>3. /\ item \in WireItem /\ item.kind = "attached" /\ item.snapshot = NoCheckpoint
        /\ item.reset = FALSE /\ item.frames = reply.frames /\ item.latest = reply.latest
    BY <1>1, <1>3, <2>2, WireTypes DEF Replies
  <2> HIDE DEF item
  <2>4. u \in Terminal /\ TermInv(u, outs, LiveFrames(buf), next) /\ u.phase = t.phase
    BY RestartInv
  <2>5. Brings(FALSE, reply.frames, reply.latest, u, outs, LiveFrames(buf), next)
    <3>1. reply.reset = TRUE
      BY <1>1, <2>1
    <3>2. Brings(TRUE, reply.frames, reply.latest, t, outs, LiveFrames(buf), next)
      BY <1>1, <3>1, Zenon
    <3> HIDE DEF reply, t
    <3> QED
      BY <1>1, <3>2, BringsRestarted DEF t
  <2>6. Brings(item.reset, item.frames, item.latest, u, outs, LiveFrames(buf), next)
    BY <2>3, <2>5, Zenon
  <2> HIDE DEF u
  <2> QED
    BY <1>1, <1>2, <2>1, <2>3, <2>4, <2>6, ReplyPartInv
<1>5. CASE ReceiveReplay(c)
  <2>1. PICK n \in reply.frames :
           /\ First(n, reply.frames)
           /\ term' = [term EXCEPT ![c] = Enqueued(t, Frame(n))]
           /\ wire' = Remaining(c, [reply EXCEPT !.frames = @ \ {n}])
           /\ ~reply.reset
    BY <1>5 DEF ReceiveReplay
  <2> DEFINE item == [reply EXCEPT !.frames = @ \ {n}]
             u == Enqueued(t, Frame(n))
  <2>2. item \in Replies
    <3>1. reply.frames \ {n} \in SUBSET Nat
      BY <1>1
    <3> QED
      BY <1>3, <3>1, Zenon DEF Replies
  <2>3. /\ item \in WireItem /\ item.kind = "attached" /\ item.snapshot = NoCheckpoint
        /\ item.reset = reply.reset /\ item.frames = reply.frames \ {n}
        /\ item.latest = reply.latest
    BY <1>1, <1>3, <2>2, WireTypes DEF Replies
  <2> HIDE DEF item
  <2>4. reply.reset = FALSE
    BY <1>1, <2>1
  <2>5. Brings(FALSE, reply.frames, reply.latest, t, outs, LiveFrames(buf), next)
    BY <1>1, <2>4, Zenon
  <2>6. TermInv(t, outs, LiveFrames(buf), next)
    OBVIOUS
  <2> HIDE DEF reply, t
  <2>7. /\ n \in 1..next - 1 /\ Fitting(t, n, outs, LiveFrames(buf))
        /\ Brings(FALSE, reply.frames \ {n}, reply.latest, u, outs, LiveFrames(buf), next)
    BY <1>1, <2>1, <2>5, <2>6, BringsFrame
  <2>8. u \in Terminal /\ TermInv(u, outs, LiveFrames(buf), next) /\ u.phase = t.phase
    BY <2>6, <2>7, EnqueueInv
  <2>9. Brings(item.reset, item.frames, item.latest, u, outs, LiveFrames(buf), next)
    BY <2>3, <2>4, <2>7, Zenon
  <2>10. term' = [term EXCEPT ![c] = u] /\ wire' = Remaining(c, item)
    BY <2>1 DEF item
  <2>11. u.phase = term[c].phase /\ item.latest = wire[c][1].latest
    BY <1>1, <2>3, <2>8 DEF t
  <2> HIDE DEF u
  <2> QED
    BY <1>1, <1>2, <2>3, <2>8, <2>9, <2>10, <2>11, ReplyPartInv
<1> QED
  BY <1>4, <1>5

LEMMA ReceiveAttachedInv ==
    ASSUME StreamInv, NEW c \in Clients, ReceiveAttached(c)
    PROVE  Steps(c)
<1> USE Client
<1> DEFINE t == term[c]
           u == [t EXCEPT !.phase = "attached", !.received = Head(wire[c]).latest]
<1>1. /\ Replying(wire[c]) /\ Head(wire[c]) = wire[c][1]
      /\ wire[c][1].reset \in BOOLEAN /\ wire[c][1].latest \in Nat
  BY HeadReply DEF ReceiveAttached
<1>2. /\ wire[c][1].reset = FALSE /\ wire[c][1].frames = {}
      /\ term' = [term EXCEPT ![c] = u] /\ wire' = [wire EXCEPT ![c] = Tail(@)]
      /\ UNCHANGED <<next, outs, buf, handle, inbox>>
  BY <1>1 DEF ReceiveAttached
<1>3. u \in Terminal
  <2>1. t \in Terminal /\ Head(wire[c]).latest \in Nat
    BY <1>1
  <2> HIDE DEF t
  <2> QED
    BY <2>1, Zenon DEF Terminal
<1>4. SameScreen(t, u) /\ u.phase = "attached" /\ u.received = wire[c][1].latest
  BY <1>1 DEF Terminal, SameScreen
<1>5. /\ term'[c] = u /\ wire'[c] = Tail(wire[c])
      /\ handle'[c] = handle[c] /\ inbox'[c] = inbox[c] /\ Others(c)
  BY <1>2 DEF Others
<1> HIDE DEF u
<1>6. outs \in SUBSET Nat
  OBVIOUS
<1>7. ClientInv(handle[c], u, Tail(wire[c]), inbox[c], outs, LiveFrames(buf), next)
  BY <1>1, <1>2, <1>3, <1>4, <1>6, AfterReply
<1> QED
  BY <1>2, <1>5, <1>7 DEF Steps

LEMMA ReceiveOutputInv ==
    ASSUME StreamInv, NEW c \in Clients, ReceiveOutput(c)
    PROVE  Steps(c)
<1> USE Client
<1> DEFINE t == term[c]
<1>1. wire[c] # <<>> /\ Head(wire[c]) = wire[c][1] /\ wire[c][1].kind = "output"
  BY WireFields DEF ReceiveOutput, Arriving
<1>2. PICK n \in wire[c][1].frames :
         /\ First(n, wire[c][1].frames)
         /\ term' = [term EXCEPT ![c] =
               IF n <= @.received THEN @ ELSE Enqueued([@ EXCEPT !.received = n], Frame(n))]
         /\ wire' = IF wire[c][1].frames = {n} THEN [wire EXCEPT ![c] = Tail(@)]
                    ELSE Remaining(c, OutputRun(wire[c][1].frames \ {n}))
         /\ UNCHANGED <<next, outs, buf, handle, inbox>>
  BY <1>1 DEF ReceiveOutput
<1>3. Takes(wire[c], n, wire'[c]) /\ handle'[c] = handle[c] /\ inbox'[c] = inbox[c] /\ Others(c)
  BY <1>2 DEF Takes, Others, Remaining
<1> DEFINE u == Enqueued([t EXCEPT !.received = n], Frame(n))
<1>4. /\ ~(n <= t.received)
      /\ ClientInv(handle[c], u, wire'[c], inbox[c], outs, LiveFrames(buf), next)
  BY <1>1, <1>2, <1>3, AfterOutput
<1>5. term'[c] = u
  BY <1>2, <1>4
<1> HIDE DEF u
<1> QED
  BY <1>2, <1>3, <1>4, <1>5 DEF Steps

LEMMA RenderStepInv ==
    ASSUME StreamInv, NEW c \in Clients, Render(c)
    PROVE  Steps(c)
<1> USE Client
<1> DEFINE t == term[c]
           item == Head(t.queue)
           u == Committed(t, item)
<1>1. /\ t.queue # <<>> /\ term' = [term EXCEPT ![c] = u]
      /\ UNCHANGED <<next, outs, buf, handle, wire>>
      /\ \/ inbox' = inbox
         \/ t.phase # "offline" /\ inbox' = [inbox EXCEPT ![c] = Append(@, Ack(item.seq, 1))]
  BY DEF Render, Acknowledges
<1>2. item.seq \in Nat
  BY <1>1, TerminalTypes DEF QueueItem
<1>3. /\ term'[c] = u /\ handle'[c] = handle[c] /\ wire'[c] = wire[c] /\ Others(c)
      /\ inbox'[c] \in {inbox[c], Append(inbox[c], Ack(item.seq, 1))}
      /\ t.phase = "offline" => inbox'[c] = inbox[c]
  BY <1>1 DEF Others
<1>4. ClientInv(handle[c], u, wire[c], inbox'[c], outs, LiveFrames(buf), next)
  BY <1>1, <1>2, <1>3, AfterRender
<1> HIDE DEF u
<1> QED
  BY <1>1, <1>3, <1>4 DEF Steps

\* The session's output goes to the buffer and to every client at once.
LEMMA EmitInv ==
    ASSUME StreamInv, FlowInv', Emit
    PROVE  StreamInv'
<1> DEFINE O == outs \cup {next}
           v == PushOutput(buf, O, next)
<1>1. /\ next' = next + 1 /\ outs' = O /\ buf' = v
      /\ handle' = [c \in Clients |-> Pushed(handle[c], next)]
      /\ wire' = [c \in Clients |-> IF SendsLive(handle[c])
                                    THEN Append(wire[c], OutputRun({next})) ELSE wire[c]]
      /\ UNCHANGED <<inbox, term>>
  BY DEF Emit
<1>2. /\ buf \in Buffer /\ next \in Nat \ {0} /\ outs \in SUBSET (1..next - 1)
      /\ Retains(buf, outs, next)
  BY DEF StreamInv, FlowInv, TypeInv, TypeOK, Numbered
<1>3. Retains(v, O, next + 1) /\ Later(outs, LiveFrames(buf), next, O, LiveFrames(v))
  BY <1>2, PushOutputRetains
<1> HIDE DEF v
<1>4. ASSUME NEW c \in Clients
      PROVE  ClientInv(handle'[c], term'[c], wire'[c], inbox'[c], O, LiveFrames(v), next + 1)
  <2> DEFINE w == IF SendsLive(handle[c])
                  THEN Append(wire[c], OutputRun({next})) ELSE wire[c]
  <2>1. /\ handle'[c] = Pushed(handle[c], next) /\ wire'[c] = w
        /\ term'[c] = term[c] /\ inbox'[c] = inbox[c]
    BY <1>1
  <2>2. ClientInv(Pushed(handle[c], next), term[c], w, inbox[c], O, LiveFrames(v), next + 1)
    BY <1>3, Client, AfterPush
  <2> QED
    BY <2>1, <2>2
<1> HIDE DEF O
<1>5. Retains(buf', outs', next')
  BY <1>1, <1>3
<1>6. \A c \in Clients : ClientInv(handle'[c], term'[c], wire'[c], inbox'[c],
                                   outs', LiveFrames(buf'), next')
  BY <1>1, <1>4
<1> QED
  BY <1>5, <1>6 DEF StreamInv

\* A resize takes a number and a place in the buffer.
LEMMA ResizeInv ==
    ASSUME StreamInv, FlowInv', Resize
    PROVE  StreamInv'
<1> DEFINE v == PushResize(buf, outs, next)
<1>1. next' = next + 1 /\ buf' = v /\ UNCHANGED <<outs, handle, wire, inbox, term>>
  BY DEF Resize
<1>2. /\ buf \in Buffer /\ next \in Nat \ {0} /\ outs \in SUBSET (1..next - 1)
      /\ Retains(buf, outs, next)
  BY DEF StreamInv, FlowInv, TypeInv, TypeOK, Numbered
<1>3. Retains(v, outs, next + 1) /\ Later(outs, LiveFrames(buf), next, outs, LiveFrames(v))
  BY <1>2, PushResizeRetains
<1> HIDE DEF v
<1>4. \A c \in Clients : ClientInv(handle[c], term[c], wire[c], inbox[c],
                                   outs, LiveFrames(v), next + 1)
  BY <1>3, Client, AfterResize
<1>5. Retains(buf', outs', next')
  BY <1>1, <1>3
<1>6. \A c \in Clients : ClientInv(handle'[c], term'[c], wire'[c], inbox'[c],
                                   outs', LiveFrames(buf'), next')
  BY <1>1, <1>4
<1> QED
  BY <1>5, <1>6 DEF StreamInv

LEMMA StreamStep ==
    ASSUME Checkpointers = {}, StreamInv, [Next]_vars
    PROVE  StreamInv'
<1>1. FlowInv'
  BY FlowStep DEF StreamInv
<1>2. CASE Emit
  BY <1>1, <1>2, EmitInv
<1>3. CASE Resize
  BY <1>1, <1>3, ResizeInv
<1>4. CASE UNCHANGED vars
  <2>1. \A c \in Clients : ClientInv(handle'[c], term'[c], wire'[c], inbox'[c],
                                     outs', LiveFrames(buf'), next')
    BY <1>4 DEF StreamInv, vars
  <2>2. Retains(buf', outs', next')
    BY <1>4 DEF StreamInv, vars
  <2> QED
    BY <1>1, <2>1, <2>2 DEF StreamInv
<1>5. ASSUME NEW c \in Clients,
             \/ Daemon(c) \/ Connect(c) \/ HangUp(c) \/ Faults(c)
             \/ Receive(c) \/ Render(c) \/ UploadCheckpoint(c)
      PROVE  StreamInv'
  <2>1. ~HandleCheckpoint(c)
    <3>1. AskInv(handle[c], term[c], wire[c], inbox[c]) /\ inbox[c] \in Seq(Request)
      BY Client DEF ClientInv
    <3>2. inbox[c] # <<>> => Head(inbox[c]).type # "checkpoint"
      BY <3>1, AskRest
    <3> QED
      BY <3>2 DEF HandleCheckpoint, Receives
  <2>2. ~ReceiveSnapshot(c)
    BY HeadReply DEF ReceiveSnapshot
  <2>3. ~UploadCheckpoint(c)
    BY DEF UploadCheckpoint
  <2>4. Steps(c)
    BY <1>5, <2>1, <2>2, <2>3, AttachSnapshotInv, AttachReplyInv, AttachCompleteInv, HandleAckInv,
       WriterClosesInv, BreaksInv, ConnectInv, ReceiveReplyInv, ReceiveAttachedInv,
       ReceiveOutputInv, RenderStepInv DEF Daemon, Faults, Receive
  <2> QED
    BY <1>1, <2>4, StepInv
<1> QED
  BY <1>2, <1>3, <1>4, <1>5 DEF Next

LEMMA StreamInit == Init => StreamInv
<1> SUFFICES ASSUME Init PROVE StreamInv
  OBVIOUS
<1>1. next = 1 /\ outs = {} /\ buf = EmptyBuffer
  BY DEF Init
<1>2. Retains(buf, outs, next)
  BY <1>1 DEF Retains, EmptyBuffer, LiveFrames
<1>3. ASSUME NEW c \in Clients
      PROVE  ClientInv(handle[c], term[c], wire[c], inbox[c], outs, LiveFrames(buf), next)
  <2>1. /\ handle[c] = NewHandle /\ term[c] = NewTerminal /\ wire[c] = <<>> /\ inbox[c] = <<>>
    BY <1>3 DEF Init
  <2>2. TermInv(NewTerminal, outs, LiveFrames(buf), next) /\ NewTerminal.phase = "offline"
    BY <1>1, NewTerminalInv
  <2>3. NewTerminal \in Terminal
    BY <2>2 DEF TermInv
  <2>4. ClientInv(NewHandle, NewTerminal, <<>>, <<>>, outs, LiveFrames(buf), next)
    BY <2>2, <2>3, AfterCut
  <2> QED
    BY <2>1, <2>4
<1> QED
  BY <1>2, <1>3, FlowInit DEF StreamInv

-----------------------------------------------------------------------------
(* The theorems *)

LEMMA StreamAlways ==
    ASSUME Checkpointers = {}
    PROVE  Spec => []StreamInv
<1>1. StreamInv /\ [Next]_vars => StreamInv'
  BY StreamStep
<1> QED
  BY <1>1, StreamInit, PTL DEF Spec

\* The screens have no hole: whatever is acknowledged late, paused, flushed, cut
\* off, attached again, reset and replayed, an output between two outputs on a
\* screen is on it too, unless a reconnect went by a cursor a reset had taken back.
THEOREM NoHoleEver ==
    ASSUME Checkpointers = {}
    PROVE  Spec => []NoHole
<1>1. StreamInv => NoHole
  <2> SUFFICES ASSUME StreamInv, NEW c \in Clients, ~term[c].stale
               PROVE  \A n \in outs : (\E a, b \in term[c].shown : a < n /\ n < b)
                                      => n \in term[c].shown
    BY DEF NoHole
  <2>1. Solid(term[c], outs, LiveFrames(buf))
    BY Client DEF TermInv
  <2> QED
    BY <2>1 DEF Solid
<1> QED
  BY <1>1, StreamAlways, PTL

\* No output is on a screen twice or out of order: what an attach replays, what the
\* barrier holds back and what is flushed or sent live never overlap.
THEOREM NoGarbleEver ==
    ASSUME Checkpointers = {}
    PROVE  Spec => []NoGarble
<1>1. StreamInv => NoGarble
  <2> SUFFICES ASSUME StreamInv, NEW c \in Clients PROVE ~term[c].garbled
    BY DEF NoGarble
  <2>1. Solid(term[c], outs, LiveFrames(buf))
    BY Client DEF TermInv
  <2> QED
    BY <2>1 DEF Solid
<1> QED
  BY <1>1, StreamAlways, PTL

\* While the buffer has dropped nothing, a screen shows all that the terminal's
\* cursor covers, unless a reconnect went by a stale cursor.
THEOREM NothingLostEver ==
    ASSUME Checkpointers = {}
    PROVE  Spec => []NothingLost
<1>1. StreamInv => NothingLost
  <2> SUFFICES ASSUME StreamInv, ~buf.truncated, NEW c \in Clients, ~term[c].stale,
                      NEW n \in outs, n <= term[c].tpmCommitted
               PROVE  n \in term[c].shown
    BY DEF NothingLost
  <2> DEFINE t == term[c]
  <2>1. /\ t \in Terminal /\ Solid(t, outs, LiveFrames(buf)) /\ InOrder(t, outs, next)
        /\ n \in LiveFrames(buf) /\ n \in Nat /\ t.tpmCommitted \in Nat
    BY Client, TermFields DEF TermInv, Retains
  <2>2. ~Beyond(t, n)
    BY <2>1 DEF Beyond
  <2>3. n \in Have(t, outs)
    BY <2>1, <2>2 DEF Solid
  <2>4. n \notin Queued(t)
    BY <2>1 DEF InOrder, Queued
  <2> QED
    BY <2>3, <2>4 DEF Have, Base
<1> QED
  BY <1>1, StreamAlways, PTL

\* Flow control withholds nothing that no ACK would release: a client that is
\* attached and not paused has been sent every output of the session.
THEOREM NothingWithheldEver ==
    ASSUME Checkpointers = {}
    PROVE  Spec => []NothingWithheld
<1>1. StreamInv => NothingWithheld
  <2> SUFFICES ASSUME StreamInv, NEW c \in Clients,
                      handle[c].attached, ~handle[c].paused, ~handle[c].closed
               PROVE  \A n \in outs : n <= handle[c].lastSent
    BY DEF NothingWithheld
  <2>1. SendInv(handle[c], term[c], wire[c], outs)
    BY Client DEF ClientInv
  <2> QED
    BY <2>1 DEF SendInv
<1> QED
  BY <1>1, StreamAlways, PTL

-----------------------------------------------------------------------------
(* The refinement *)

\* The buffer has dropped nothing, and every reconnect resumed after what was shown.
Unspoilt == ~buf.truncated /\ ResumesAfterShown

Screens == [c \in Clients |-> term[c].shown]

\* A step that touches no screen and adds no output does nothing to the stream.
LEMMA Stutters ==
    ASSUME outs' = outs, \A c \in Clients : term'[c].shown = term[c].shown
    PROVE  UNCHANGED Stream!vars
  BY DEF Stream!vars

\* A cleared screen.
LEMMA Clears ==
    ASSUME outs' = outs, NEW c \in Clients, term'[c].shown = {},
           \A d \in Clients \ {c} : term'[d].shown = term[d].shown
    PROVE  Stream!Next
<1>1. Screens' = [Screens EXCEPT ![c] = {}]
  BY DEF Screens
<1>2. Stream!Clear(c)
  BY <1>1 DEF Stream!Clear, Screens
<1> QED
  BY <1>2 DEF Stream!Next

\* The write of an output extends the screen by the first output it lacks: what lies
\* before it is shown, for nothing is missing, queued or on its way before it.
LEMMA Extends ==
    ASSUME StreamInv, Unspoilt, NEW c \in Clients, term[c].queue # <<>>,
           term[c].queue[1].kind = "frame", term[c].queue[1].seq \in outs
    PROVE  LET n == term[c].queue[1].seq
           IN  /\ n \notin term[c].shown
               /\ Stream!Prefix(term[c].shown \cup {n})
<1> DEFINE t == term[c]
           n == t.queue[1].seq
<1>1. /\ t \in Terminal /\ Solid(t, outs, LiveFrames(buf)) /\ InOrder(t, outs, next)
      /\ outs \subseteq LiveFrames(buf) /\ outs \subseteq Nat /\ ~t.stale
  <2>1. t \in Terminal /\ Solid(t, outs, LiveFrames(buf)) /\ InOrder(t, outs, next)
    BY Client DEF TermInv
  <2>2. outs \subseteq LiveFrames(buf)
    BY DEF StreamInv, Retains, Unspoilt
  <2>3. outs \subseteq Nat
    BY DEF StreamInv, FlowInv, TypeInv, TypeOK
  <2>4. ~t.stale
    BY DEF Unspoilt, ResumesAfterShown
  <2> QED
    BY <2>1, <2>2, <2>3, <2>4
<1>2. /\ 1 \in DOMAIN t.queue /\ DOMAIN t.queue \subseteq Nat \ {0}
      /\ t.tpmCommitted \in Nat /\ t.shown \subseteq outs
  BY <1>1, TermFields DEF Solid
<1>3. t.tpmCommitted < n /\ n \in Nat
  BY <1>1, <1>2 DEF InOrder
<1>4. Base(t) = t.shown
  BY DEF Base, Resets
<1>5. \A a \in t.shown : a < n
  <2>1. \A a \in t.shown : a <= t.tpmCommitted /\ a \in Nat
    BY <1>1, <1>2, <1>4 DEF Solid
  <2> HIDE DEF t
  <2> QED
    BY <1>2, <1>3, <2>1
<1>6. ASSUME NEW k \in outs, k < n PROVE k \in t.shown
  <2>1. k \in Nat /\ n \in Queued(t)
    BY <1>1, <1>2 DEF Queued
  <2>2. ~Beyond(t, k)
    BY <1>3, <1>6, <2>1 DEF Beyond
  <2>3. k \in Have(t, outs)
    BY <1>1, <2>2 DEF Solid
  <2>4. k \notin Queued(t)
    <3> SUFFICES ASSUME NEW j \in DOMAIN t.queue, t.queue[j].seq = k PROVE FALSE
      BY DEF Queued
    <3>1. j # 1 /\ 1 \in 1..j - 1
      BY <1>2, <1>3, <1>6, <2>1
    <3> QED
      BY <1>1, <1>3, <1>6, <2>1, <3>1 DEF InOrder
  <2> QED
    BY <1>4, <2>3, <2>4 DEF Have
<1>7. Stream!Prefix(t.shown \cup {n})
  <2> SUFFICES ASSUME NEW k \in outs, NEW m \in t.shown \cup {n}, k <= m
               PROVE  k \in t.shown \cup {n}
    BY <1>2 DEF Stream!Prefix
  <2>1. k <= n /\ k \in Nat
    BY <1>1, <1>2, <1>3, <1>5
  <2> QED
    BY <1>3, <1>6, <2>1
<1> QED
  BY <1>3, <1>5, <1>7

\* xterm's callback clears, extends or leaves its screen.
LEMMA RenderStep ==
    ASSUME StreamInv, Unspoilt, NEW c \in Clients, Render(c)
    PROVE  [Stream!Next]_(Stream!vars)
<1> DEFINE t == term[c]
           n == t.queue[1].seq
<1>1. /\ t \in Terminal /\ InOrder(t, outs, next) /\ t.queue # <<>>
      /\ term' = [term EXCEPT ![c] = Committed(t, Head(t.queue))] /\ outs' = outs
  BY Client DEF TermInv, Render
<1>2. 1 \in DOMAIN t.queue /\ t.queue[1].kind \in {"reset", "frame"} /\ n \in Nat
  BY <1>1, TermFields DEF InOrder
<1>3. /\ t.queue[1].kind = "reset" => term'[c].shown = {}
      /\ t.queue[1].kind = "frame" /\ n \in outs => term'[c].shown = t.shown \cup {n}
      /\ t.queue[1].kind = "frame" /\ n \notin outs => term'[c].shown = t.shown
      /\ \A d \in Clients \ {c} : term'[d] = term[d]
  <2>1. term \in [Clients -> Terminal]
    BY DEF StreamInv, FlowInv, TypeInv, TypeOK
  <2> QED
    BY <1>1, <1>2, <2>1, CommitFields
<1>4. CASE t.queue[1].kind = "reset"
  BY <1>1, <1>3, <1>4, Clears
<1>5. CASE t.queue[1].kind = "frame" /\ n \in outs
  <2>1. n \notin t.shown /\ Stream!Prefix(t.shown \cup {n})
    BY <1>1, <1>5, Extends
  <2>2. Screens' = [Screens EXCEPT ![c] = @ \cup {n}]
    BY <1>3, <1>5 DEF Screens
  <2>3. Stream!Extend(c)
    BY <1>1, <1>5, <2>1, <2>2 DEF Stream!Extend, Screens
  <2> QED
    BY <2>3 DEF Stream!Next
<1>6. CASE t.queue[1].kind = "frame" /\ n \notin outs
  BY <1>1, <1>3, <1>6, Stutters
<1> QED
  BY <1>2, <1>4, <1>5, <1>6

\* Every step of the session is a step of the stream, or does nothing to it.
LEMMA StreamSimulates ==
    ASSUME StreamInv, Unspoilt, [Next]_vars
    PROVE  [Stream!Next]_(Stream!vars)
<1>1. TypeInv /\ term \in [Clients -> Terminal]
  BY DEF StreamInv, FlowInv, TypeInv, TypeOK
<1>2. CASE Emit
  <2>1. /\ outs' = outs \cup {next} /\ outs \subseteq 1..next - 1 /\ next \in Nat
        /\ UNCHANGED term
    BY <1>1, <1>2 DEF Emit, TypeInv, TypeOK, Numbered
  <2>2. Stream!Produce
    BY <2>1 DEF Stream!Produce
  <2> QED
    BY <2>2 DEF Stream!Next
<1>3. CASE Resize
  BY <1>3, Stutters DEF Resize
<1>4. ASSUME NEW c \in Clients, Daemon(c) \/ WriterCloses(c) \/ UploadCheckpoint(c)
      PROVE  UNCHANGED Stream!vars
  <2>1. outs' = outs /\ term' = term
    BY <1>4 DEF Daemon, AttachSnapshot, AttachReply, AttachComplete, HandleAck, HandleCheckpoint,
                WriterCloses, UploadCheckpoint
  <2> QED
    BY <2>1, Stutters
<1>5. ASSUME NEW c \in Clients, HangUp(c) \/ Break(c) \/ Connect(c) PROVE UNCHANGED Stream!vars
  <2>1. outs' = outs /\ \A d \in Clients : term'[d].shown = term[d].shown
    <3>1. CASE HangUp(c) \/ Break(c)
      <4>1. Cut(c) /\ GoOffline(c)
        BY <3>1 DEF HangUp, Break
      <4>2. outs' = outs
        BY <4>1 DEF Cut
      <4>3. term' = [term EXCEPT ![c] = [term[c] EXCEPT !.phase = "offline"]]
        BY <4>1 DEF GoOffline
      <4> QED
        BY <1>1, <4>2, <4>3 DEF Terminal
    <3>2. CASE Connect(c)
      BY <1>1, <3>2 DEF Connect, Terminal
    <3> QED
      BY <1>5, <3>1, <3>2
  <2> QED
    BY <2>1, Stutters
<1>6. ASSUME NEW c \in Clients, Restart(c) PROVE Stream!Next
  <2>1. /\ outs' = outs /\ term'[c].shown = {}
        /\ \A d \in Clients \ {c} : term'[d].shown = term[d].shown
    BY <1>1, <1>6 DEF Restart, Cut, NewTerminal
  <2> QED
    BY <2>1, Clears
<1>7. ASSUME NEW c \in Clients, Receive(c) PROVE UNCHANGED Stream!vars
  <2>1. outs' = outs /\ \A d \in Clients : term'[d].shown = term[d].shown
    <3>1. ASSUME NEW item PROVE Enqueued(term[c], item).shown = term[c].shown
      BY <1>1 DEF Enqueued, Terminal
    <3>2. CASE ReceiveReset(c)
      BY <1>1, <3>2 DEF ReceiveReset, Restarted, Terminal
    <3>3. CASE ReceiveSnapshot(c)
      BY <1>1, <3>1, <3>3 DEF ReceiveSnapshot
    <3>4. CASE ReceiveReplay(c)
      BY <1>1, <3>1, <3>4 DEF ReceiveReplay
    <3>5. CASE ReceiveAttached(c)
      BY <1>1, <3>5 DEF ReceiveAttached, Terminal
    <3>6. CASE ReceiveOutput(c)
      <4>1. ASSUME NEW n
            PROVE  Enqueued([term[c] EXCEPT !.received = n], Frame(n)).shown = term[c].shown
        BY <1>1 DEF Enqueued, Terminal
      <4> QED
        BY <1>1, <3>6, <4>1 DEF ReceiveOutput
    <3> QED
      BY <1>7, <3>2, <3>3, <3>4, <3>5, <3>6 DEF Receive
  <2> QED
    BY <2>1, Stutters
<1>8. CASE UNCHANGED vars
  BY <1>8, Stutters DEF vars
<1> QED
  BY <1>2, <1>3, <1>4, <1>5, <1>6, <1>7, <1>8, RenderStep DEF Next, Faults

\* The session with its daemon, wires and terminals implements the stream of
\* PrefixStream, as long as the buffer drops nothing and every reconnect resumes after
\* what is shown: each screen is a prefix of the output that grows by the next one.
THEOREM StreamImplemented ==
    ASSUME Checkpointers = {}
    PROVE  Spec /\ []Unspoilt => ImplementsStream
<1>1. Init => Stream!Init
  BY DEF Init, Stream!Init, NewTerminal
<1>2. StreamInv /\ Unspoilt /\ [Next]_vars => [Stream!Next]_(Stream!vars)
  BY StreamSimulates
<1> QED
  BY <1>1, <1>2, StreamAlways, PTL DEF Spec, ImplementsStream, Stream!Spec

-----------------------------------------------------------------------------
(* The spool file *)

Rising(frames) == \A i, j \in DOMAIN frames : i < j => frames[i].seq < frames[j].seq

\* The whole records, then the frames: in ascending order, none newer than e.
Chain(records, frames, e) ==
    /\ Rising(frames)
    /\ \A i, j \in DOMAIN records :
         i < j /\ records[i].whole /\ records[j].whole => records[i].seq < records[j].seq
    /\ \A i \in DOMAIN records, j \in DOMAIN frames :
         records[i].whole => records[i].seq < frames[j].seq
    /\ \A i \in DOMAIN records : records[i].whole => records[i].seq <= e
    /\ \A i \in DOMAIN frames : frames[i].seq <= e

SpoolInv ==
    /\ SpoolTypeOK
    /\ Chain(file, memory, events)
    /\ spilling => memory # <<>>

-----------------------------------------------------------------------------
(* Sequences of frames *)

\* Every set of naturals has a least element.
LEMMA LeastNumber ==
    ASSUME NEW T, T \subseteq Nat, T # {}
    PROVE  \E x \in T : \A y \in T : x <= y
<1>1. PICK x \in T : \A y \in T : ~(<<y, x>> \in OpToRel(<, Nat))
  BY NatLessThanWellFounded, WFMin
<1>2. \A x1, y1 \in Nat : <<y1, x1>> \in OpToRel(<, Nat) <=> y1 < x1
  BY DEF OpToRel
<1>3. \A y \in T : ~(y < x) /\ x \in Nat /\ y \in Nat
  BY <1>1, <1>2
<1> QED
  BY <1>3

LEMMA EndOf ==
    ASSUME NEW S, NEW q \in Seq(S), NEW k \in 0..Len(q)
    PROVE  /\ FromFrame(q, k) \in Seq(S)
           /\ Len(FromFrame(q, k)) = Len(q) - k
           /\ DOMAIN FromFrame(q, k) = 1..Len(q) - k
           /\ \A i \in 1..Len(q) - k : FromFrame(q, k)[i] = q[k + i]
<1>1. /\ Len(SubSeq(q, k + 1, Len(q))) = Len(q) - k
      /\ \A i \in 1..Len(q) - k : SubSeq(q, k + 1, Len(q))[i] = q[k + i]
      /\ SubSeq(q, k + 1, Len(q)) \in Seq(S)
  OBVIOUS
<1> QED
  BY <1>1 DEF FromFrame

\* Reading gives the records before the first one that is not whole.
LEMMA Reads ==
    ASSUME NEW q \in Seq(Record)
    PROVE  \E m \in 0..Len(q) :
             /\ Readable(q) \in Seq(ReplayFrame)
             /\ Len(Readable(q)) = m /\ DOMAIN Readable(q) = 1..m
             /\ \A i \in 1..m : /\ q[i].whole
                                /\ Readable(q)[i].seq = q[i].seq
                                /\ Readable(q)[i].data = q[i].data
             /\ (\A i \in DOMAIN q : q[i].whole) => m = Len(q)
<1> DEFINE torn == {i \in DOMAIN q : ~q[i].whole}
           read == {i \in DOMAIN q : \A j \in 1..i : q[j].whole}
<1>0. DOMAIN q = 1..Len(q) /\ Len(q) \in Nat /\ \A i \in 1..Len(q) : q[i] \in Record
  OBVIOUS
<1>1. \E m \in 0..Len(q) : read = 1..m /\ (torn = {} => m = Len(q))
  <2>1. CASE torn = {}
    <3>1. read = 1..Len(q)
      BY <1>0, <2>1
    <3>2. Len(q) \in 0..Len(q)
      BY <1>0
    <3> HIDE DEF read, torn
    <3> QED
      BY <3>1, <3>2
  <2>2. CASE torn # {}
    <3>1. PICK e \in torn : \A i \in torn : e <= i
      <4>1. torn \subseteq Nat
        BY <1>0
      <4> QED
        BY <2>2, <4>1, LeastNumber
    <3>2. e \in 1..Len(q) /\ ~q[e].whole /\ \A i \in 1..e - 1 : q[i].whole
      BY <1>0, <3>1
    <3>3. read = 1..e - 1
      BY <1>0, <3>2
    <3>4. e - 1 \in 0..Len(q)
      BY <1>0, <3>2
    <3> HIDE DEF read, torn
    <3> QED
      BY <2>2, <3>3, <3>4
  <2> QED
    BY <2>1, <2>2
<1>2. PICK m \in 0..Len(q) : read = 1..m /\ (torn = {} => m = Len(q))
  BY <1>1
<1>3. Cardinality(read) = m
  <2>1. m \in Int /\ 1 \in Int /\ m \in Nat
    BY <1>0
  <2>2. Cardinality(1..m) = IF 1 > m THEN 0 ELSE m - 1 + 1
    BY <2>1, FS_Interval
  <2> HIDE DEF read
  <2> QED
    BY <1>2, <2>1, <2>2
<1>4. Readable(q) = [i \in 1..m |-> ToFrame(q[i])]
  BY <1>3 DEF Readable
<1>5. \A i \in 1..m : ToFrame(q[i]) \in ReplayFrame /\ i \in DOMAIN q /\ i \in read
  BY <1>0, <1>2 DEF ToFrame, ReplayFrame, Record
<1>6. Readable(q) \in Seq(ReplayFrame) /\ Len(Readable(q)) = m /\ DOMAIN Readable(q) = 1..m
  BY <1>0, <1>4, <1>5
<1>7. \A i \in 1..m : q[i].whole /\ Readable(q)[i].seq = q[i].seq /\ Readable(q)[i].data = q[i].data
  BY <1>0, <1>4, <1>5 DEF ToFrame
<1>8. (\A i \in DOMAIN q : q[i].whole) => m = Len(q)
  BY <1>2
<1> QED
  BY <1>6, <1>7, <1>8

\* In a rising sequence the frames after s are an end of it.
LEMMA FramesAfter ==
    ASSUME NEW q \in Seq(ReplayFrame), Rising(q), NEW s \in Nat
    PROVE  \E k \in 0..Len(q) :
             /\ \A i \in 1..k : q[i].seq <= s
             /\ \A i \in k + 1..Len(q) : q[i].seq > s
             /\ After(q, s) = FromFrame(q, k)
<1> DEFINE later == {i \in DOMAIN q : q[i].seq > s}
           before(i) == {j \in later : j <= i}
           place(i) == Cardinality(before(i))
<1>0. DOMAIN q = 1..Len(q) /\ Len(q) \in Nat /\ \A i \in 1..Len(q) : q[i].seq \in Nat
  <2>1. DOMAIN q = 1..Len(q) /\ Len(q) \in Nat /\ \A i \in 1..Len(q) : q[i] \in ReplayFrame
    OBVIOUS
  <2> QED
    BY <2>1, SpoolConstants DEF ReplayFrame
<1>1. \E k \in 0..Len(q) : later = k + 1..Len(q)
  <2>1. CASE later = {}
    <3>1. later = Len(q) + 1..Len(q)
      BY <1>0, <2>1
    <3> QED
      BY <1>0, <3>1
  <2>2. CASE later # {}
    <3>1. PICK e \in later : \A i \in later : e <= i
      <4>1. later \subseteq Nat
        BY <1>0
      <4> QED
        BY <2>2, <4>1, LeastNumber
    <3>2. e \in 1..Len(q) /\ q[e].seq > s
      BY <1>0, <3>1
    <3>3. \A i \in e..Len(q) : i \in later
      <4> SUFFICES ASSUME NEW i \in e..Len(q), i # e PROVE i \in later
        BY <3>1
      <4>1. e < i /\ i \in 1..Len(q)
        BY <1>0, <3>2
      <4>2. q[e].seq < q[i].seq
        BY <1>0, <3>2, <4>1 DEF Rising
      <4> QED
        BY <1>0, <3>2, <4>1, <4>2
    <3>4. later = e..Len(q)
      BY <1>0, <3>1, <3>3
    <3>5. e - 1 \in 0..Len(q) /\ e - 1 + 1 = e
      BY <1>0, <3>2
    <3> QED
      BY <3>4, <3>5
  <2> QED
    BY <2>1, <2>2
<1>2. PICK k \in 0..Len(q) : later = k + 1..Len(q)
  BY <1>1
<1>3. Cardinality(later) = Len(q) - k
  <2>1. k + 1 \in Int /\ Len(q) \in Int
    BY <1>0
  <2>2. Cardinality(k + 1..Len(q)) = IF k + 1 > Len(q) THEN 0 ELSE Len(q) - (k + 1) + 1
    BY <2>1, FS_Interval
  <2> HIDE DEF later
  <2> QED
    BY <1>0, <1>2, <2>2
<1>4. ASSUME NEW i \in later PROVE place(i) = i - k
  <2>0. i \in Nat /\ i >= k + 1 /\ i <= Len(q)
    BY <1>0, <1>2
  <2>1. before(i) = k + 1..i
    BY <1>0, <1>2, <2>0
  <2>2. k + 1 \in Int /\ i \in Int
    BY <1>0, <2>0
  <2>3. Cardinality(k + 1..i) = IF k + 1 > i THEN 0 ELSE i - (k + 1) + 1
    BY <2>2, FS_Interval
  <2> HIDE DEF later, before
  <2> QED
    BY <2>0, <2>1, <2>3
<1>5. ASSUME NEW j \in 1..Len(q) - k PROVE (CHOOSE i \in later : place(i) = j) = k + j
  <2>1. k + j \in later /\ place(k + j) = j
    <3>1. k + j \in later
      BY <1>0, <1>2
    <3> HIDE DEF later, place
    <3>2. place(k + j) = k + j - k
      BY <1>4, <3>1
    <3> QED
      BY <1>0, <3>1, <3>2
  <2>2. \A i \in later : place(i) = j => i = k + j
    <3> SUFFICES ASSUME NEW i \in later, place(i) = j PROVE i = k + j
      OBVIOUS
    <3>1. place(i) = i - k /\ i \in Nat
      BY <1>0, <1>2, <1>4
    <3> HIDE DEF place
    <3> QED
      BY <1>0, <3>1
  <2> HIDE DEF later, place
  <2> QED
    BY <2>1, <2>2
<1>6. After(q, s) = [j \in 1..Len(q) - k |-> q[k + j]]
  <2>1. After(q, s) = [j \in 1..Cardinality(later) |-> q[CHOOSE i \in later : place(i) = j]]
    BY DEF After
  <2> HIDE DEF later, place
  <2> QED
    BY <1>3, <1>5, <2>1
<1>7. FromFrame(q, k) = [j \in 1..Len(q) - k |-> q[k + j]]
  <2> DEFINE f == FromFrame(q, k)
  <2>1. /\ f \in Seq(ReplayFrame) /\ DOMAIN f = 1..Len(q) - k
        /\ \A i \in 1..Len(q) - k : f[i] = q[k + i]
    BY EndOf
  <2> HIDE DEF f
  <2>2. f = [i \in DOMAIN f |-> f[i]]
    BY <2>1
  <2>3. f = [i \in 1..Len(q) - k |-> q[k + i]]
    BY <2>1, <2>2
  <2> QED
    BY <2>3 DEF f
<1>8. (\A i \in 1..k : q[i].seq <= s) /\ (\A i \in k + 1..Len(q) : q[i].seq > s)
  <2>1. \A i \in 1..k : i \in DOMAIN q /\ i \notin later
    BY <1>0, <1>2
  <2>2. \A i \in k + 1..Len(q) : i \in later
    BY <1>2
  <2> QED
    BY <1>0, <2>1, <2>2
<1> QED
  BY <1>6, <1>7, <1>8

\* enforce_spool_cap always finds how many frames must go.
LEMMA OverflowFound ==
    ASSUME NEW q \in Seq(ReplayFrame), SpoolMax \in Nat
    PROVE  /\ Overflow(q) \in 0..Len(q)
           /\ Weight(FromFrame(q, Overflow(q))) <= SpoolMax
           /\ \A j \in 0..Overflow(q) - 1 : Weight(FromFrame(q, j)) > SpoolMax
<1> DEFINE fits(k) == Weight(FromFrame(q, k)) <= SpoolMax
           T == {k \in 0..Len(q) : fits(k)}
<1>0. Len(q) \in Nat
  OBVIOUS
<1>1. \A k \in 0..Len(q) : Weight(FromFrame(q, k)) \in Nat
  <2> SUFFICES ASSUME NEW k \in 0..Len(q) PROVE Weight(FromFrame(q, k)) \in Nat
    OBVIOUS
  <2> DEFINE f == FromFrame(q, k)
             at == {i \in DOMAIN f : f[i].data}
  <2>1. DOMAIN f = 1..Len(q) - k /\ at \in SUBSET (DOMAIN f)
    BY EndOf
  <2>2. IsFiniteSet(1..Len(q) - k)
    BY <1>0, FS_Interval
  <2>3. IsFiniteSet(at)
    BY <2>1, <2>2, FS_Subset
  <2> QED
    BY <2>3, FS_CardinalityType DEF Weight
<1>2. fits(Len(q))
  <2> DEFINE f == FromFrame(q, Len(q))
  <2>1. DOMAIN f = 1..Len(q) - Len(q) /\ Len(q) \in 0..Len(q)
    BY <1>0, EndOf
  <2>2. {i \in DOMAIN f : f[i].data} = {}
    BY <1>0, <2>1
  <2>3. Weight(f) = 0
    BY <2>2, FS_EmptySet DEF Weight
  <2> QED
    BY <2>3
<1> HIDE DEF fits
<1>3. PICK k \in T : \A j \in T : k <= j
  <2>1. T \subseteq Nat /\ Len(q) \in T
    BY <1>0, <1>2
  <2> QED
    BY <2>1, LeastNumber
<1>4. k \in 0..Len(q) /\ fits(k) /\ \A j \in 0..k - 1 : ~fits(j)
  BY <1>0, <1>3
<1>5. \A j \in 0..k - 1 : Weight(FromFrame(q, j)) > SpoolMax
  BY <1>0, <1>1, <1>4 DEF fits
<1> QED
  BY <1>4, <1>5 DEF Overflow, fits

-----------------------------------------------------------------------------
(* What the operations leave of a chain *)

\* The records of new are records of old that were read, in a row.
PartOf(new, old) ==
    /\ new \in Seq(Record)
    /\ \E k \in Nat : \A i \in DOMAIN new :
         /\ k + i \in DOMAIN old
         /\ old[k + i].whole /\ new[i].whole
         /\ new[i].seq = old[k + i].seq /\ new[i].data = old[k + i].data

LEMMA ChainPart ==
    ASSUME NEW old \in Seq(Record), NEW new, PartOf(new, old),
           NEW q \in Seq(ReplayFrame), NEW e \in Nat, Chain(old, q, e)
    PROVE  Chain(new, q, e)
<1>1. PICK k \in Nat : \A i \in DOMAIN new :
         /\ k + i \in DOMAIN old
         /\ old[k + i].whole /\ new[i].seq = old[k + i].seq
  BY DEF PartOf
<1>2. \A i \in DOMAIN new : i \in Nat
  BY DEF PartOf
<1>3. ASSUME NEW i \in DOMAIN new, NEW j \in DOMAIN new, i < j PROVE new[i].seq < new[j].seq
  <2>1. k + i < k + j
    BY <1>2, <1>3
  <2> QED
    BY <1>1, <2>1 DEF Chain
<1>4. ASSUME NEW i \in DOMAIN new PROVE new[i].seq <= e /\ \A j \in DOMAIN q : new[i].seq < q[j].seq
  BY <1>1 DEF Chain
<1> QED
  BY <1>3, <1>4 DEF Chain

LEMMA ChainEnd ==
    ASSUME NEW r \in Seq(Record), NEW q \in Seq(ReplayFrame), NEW e \in Nat, Chain(r, q, e),
           NEW k \in 0..Len(q)
    PROVE  Chain(r, FromFrame(q, k), e)
<1> DEFINE f == FromFrame(q, k)
<1>1. \A i \in DOMAIN f : k + i \in DOMAIN q /\ f[i] = q[k + i] /\ i \in Nat
  <2>1. DOMAIN f = 1..Len(q) - k /\ \A i \in 1..Len(q) - k : f[i] = q[k + i]
    BY EndOf
  <2>2. Len(q) \in Nat /\ DOMAIN q = 1..Len(q)
    OBVIOUS
  <2> HIDE DEF f
  <2> QED
    BY <2>1, <2>2
<1> HIDE DEF f
<1>2. ASSUME NEW i \in DOMAIN f, NEW j \in DOMAIN f, i < j PROVE f[i].seq < f[j].seq
  <2>1. k + i < k + j
    BY <1>1, <1>2
  <2> QED
    BY <1>1, <2>1 DEF Chain, Rising
<1>3. Chain(r, f, e)
  BY <1>1, <1>2 DEF Chain, Rising
<1> QED
  BY <1>3 DEF f

LEMMA ChainPush ==
    ASSUME NEW r \in Seq(Record), NEW q \in Seq(ReplayFrame), NEW e \in Nat, Chain(r, q, e),
           NEW d \in BOOLEAN, e + 1 <= MaxEvents
    PROVE  /\ Append(q, [seq |-> e + 1, data |-> d]) \in Seq(ReplayFrame)
           /\ Chain(r, Append(q, [seq |-> e + 1, data |-> d]), e + 1)
<1> DEFINE f == [seq |-> e + 1, data |-> d]
           p == Append(q, f)
<1>0. f \in ReplayFrame
  BY SpoolConstants DEF ReplayFrame
<1>1. p \in Seq(ReplayFrame)
  BY <1>0
<1>2. DOMAIN q = 1..Len(q) /\ DOMAIN p = 1..Len(q) + 1 /\ Len(q) \in Nat
  OBVIOUS
<1>3. (\A i \in DOMAIN q : p[i] = q[i]) /\ p[Len(q) + 1] = f
  OBVIOUS
<1>4. \A i \in DOMAIN q : q[i].seq <= e /\ q[i].seq \in Nat
  <2>1. \A i \in DOMAIN q : q[i] \in ReplayFrame
    OBVIOUS
  <2> QED
    BY <2>1, SpoolConstants DEF Chain, ReplayFrame
<1>5. \A i \in DOMAIN r : r[i].whole => r[i].seq <= e /\ r[i].seq \in Nat
  <2>1. \A i \in DOMAIN r : r[i] \in Record
    OBVIOUS
  <2> QED
    BY <2>1, SpoolConstants DEF Chain, Record
<1> HIDE DEF p
<1>6. Rising(p)
  <2> SUFFICES ASSUME NEW i \in DOMAIN p, NEW j \in DOMAIN p, i < j PROVE p[i].seq < p[j].seq
    BY DEF Rising
  <2>1. i \in DOMAIN q
    BY <1>2
  <2>2. CASE j \in DOMAIN q
    BY <1>3, <2>1, <2>2 DEF Chain, Rising
  <2>3. CASE j = Len(q) + 1
    BY <1>3, <1>4, <2>1, <2>3
  <2> QED
    BY <1>2, <2>2, <2>3
<1>7. \A j \in DOMAIN p : p[j].seq <= e + 1 /\ \A i \in DOMAIN r : r[i].whole => r[i].seq < p[j].seq
  <2> SUFFICES ASSUME NEW j \in DOMAIN p
               PROVE p[j].seq <= e + 1 /\ \A i \in DOMAIN r : r[i].whole => r[i].seq < p[j].seq
    OBVIOUS
  <2>1. CASE j \in DOMAIN q
    BY <1>3, <1>4, <2>1 DEF Chain
  <2>2. CASE j = Len(q) + 1
    BY <1>3, <1>5, <2>2
  <2> QED
    BY <1>2, <2>1, <2>2
<1>8. Chain(r, p, e + 1)
  BY <1>5, <1>6, <1>7 DEF Chain
<1> QED
  BY <1>1, <1>8 DEF p

\* An empty frame at the end takes over the next number.
LEMMA ChainLast ==
    ASSUME NEW r \in Seq(Record), NEW q \in Seq(ReplayFrame), NEW e \in Nat, Chain(r, q, e),
           NEW d \in BOOLEAN, e + 1 <= MaxEvents, q # <<>>
    PROVE  /\ [q EXCEPT ![Len(q)] = [seq |-> e + 1, data |-> d]] \in Seq(ReplayFrame)
           /\ Chain(r, [q EXCEPT ![Len(q)] = [seq |-> e + 1, data |-> d]], e + 1)
<1> DEFINE f == [seq |-> e + 1, data |-> d]
           p == [q EXCEPT ![Len(q)] = f]
<1>0. f \in ReplayFrame
  BY SpoolConstants DEF ReplayFrame
<1>2. DOMAIN q = 1..Len(q) /\ DOMAIN p = DOMAIN q /\ Len(q) \in Nat /\ Len(q) \in DOMAIN q
  OBVIOUS
<1>3. (\A i \in DOMAIN q : i # Len(q) => p[i] = q[i]) /\ p[Len(q)] = f
  BY <1>2
<1>1. p \in Seq(ReplayFrame)
  BY <1>0, <1>2
<1>4. \A i \in DOMAIN q : q[i].seq <= e /\ q[i].seq \in Nat
  <2>1. \A i \in DOMAIN q : q[i] \in ReplayFrame
    OBVIOUS
  <2> QED
    BY <2>1, SpoolConstants DEF Chain, ReplayFrame
<1>5. \A i \in DOMAIN r : r[i].whole => r[i].seq <= e /\ r[i].seq \in Nat
  <2>1. \A i \in DOMAIN r : r[i] \in Record
    OBVIOUS
  <2> QED
    BY <2>1, SpoolConstants DEF Chain, Record
<1> HIDE DEF p
<1>6. Rising(p)
  <2> SUFFICES ASSUME NEW i \in DOMAIN p, NEW j \in DOMAIN p, i < j PROVE p[i].seq < p[j].seq
    BY DEF Rising
  <2>1. i \in DOMAIN q /\ i # Len(q) /\ j \in DOMAIN q
    BY <1>2
  <2>2. CASE j # Len(q)
    BY <1>3, <2>1, <2>2 DEF Chain, Rising
  <2>3. CASE j = Len(q)
    BY <1>3, <1>4, <2>1, <2>3
  <2> QED
    BY <2>2, <2>3
<1>7. \A j \in DOMAIN p : p[j].seq <= e + 1 /\ \A i \in DOMAIN r : r[i].whole => r[i].seq < p[j].seq
  <2> SUFFICES ASSUME NEW j \in DOMAIN p
               PROVE p[j].seq <= e + 1 /\ \A i \in DOMAIN r : r[i].whole => r[i].seq < p[j].seq
    OBVIOUS
  <2>1. CASE j # Len(q)
    BY <1>2, <1>3, <1>4, <2>1 DEF Chain
  <2>2. CASE j = Len(q)
    BY <1>3, <1>5, <2>2
  <2> QED
    BY <2>1, <2>2
<1>8. Chain(r, p, e + 1)
  BY <1>5, <1>6, <1>7 DEF Chain
<1> QED
  BY <1>1, <1>8 DEF p

LEMMA ChainMoves ==
    ASSUME NEW r \in Seq(Record), NEW q \in Seq(ReplayFrame), NEW e \in Nat, Chain(r, q, e), q # <<>>,
           NEW h \in Record, h.whole, h.seq = Head(q).seq
    PROVE  Tail(q) \in Seq(ReplayFrame) /\ Chain(Append(r, h), Tail(q), e)
<1> DEFINE t == Tail(q)
           p == Append(r, h)
<1>0. h.seq = q[1].seq /\ 1 \in DOMAIN q
  OBVIOUS
<1>2. t \in Seq(ReplayFrame)
  OBVIOUS
<1>3. /\ DOMAIN r = 1..Len(r) /\ DOMAIN p = 1..Len(r) + 1 /\ Len(r) \in Nat
      /\ (\A i \in DOMAIN r : p[i] = r[i]) /\ p[Len(r) + 1] = h
  OBVIOUS
<1>4. \A i \in DOMAIN t : i + 1 \in DOMAIN q /\ t[i] = q[i + 1] /\ i \in Nat /\ i + 1 > 1
  OBVIOUS
<1> HIDE DEF t, p
<1>5. Rising(t)
  <2> SUFFICES ASSUME NEW i \in DOMAIN t, NEW j \in DOMAIN t, i < j PROVE t[i].seq < t[j].seq
    BY DEF Rising
  <2>1. i + 1 < j + 1
    BY <1>4
  <2> QED
    BY <1>4, <2>1 DEF Chain, Rising
<1>6. \A j \in DOMAIN t : q[1].seq < t[j].seq /\ t[j].seq <= e
  BY <1>0, <1>4 DEF Chain, Rising
<1>7. ASSUME NEW i \in DOMAIN p, p[i].whole
      PROVE p[i].seq <= e /\ \A j \in DOMAIN t : p[i].seq < t[j].seq
  <2>1. CASE i \in DOMAIN r
    BY <1>3, <1>4, <1>7, <2>1 DEF Chain
  <2>2. CASE i = Len(r) + 1
    BY <1>0, <1>3, <1>6, <2>2 DEF Chain
  <2> QED
    BY <1>3, <2>1, <2>2
<1>8. ASSUME NEW i \in DOMAIN p, NEW j \in DOMAIN p, i < j, p[i].whole, p[j].whole
      PROVE p[i].seq < p[j].seq
  <2>1. i \in DOMAIN r
    BY <1>3, <1>8
  <2>2. CASE j \in DOMAIN r
    BY <1>3, <1>8, <2>1, <2>2 DEF Chain
  <2>3. CASE j = Len(r) + 1
    BY <1>0, <1>3, <1>8, <2>1, <2>3 DEF Chain
  <2> QED
    BY <1>3, <2>2, <2>3
<1>9. Chain(p, t, e)
  BY <1>5, <1>6, <1>7, <1>8 DEF Chain
<1> QED
  BY <1>2, <1>9 DEF t, p

LEMMA ChainTorn ==
    ASSUME NEW r \in Seq(Record), NEW q \in Seq(ReplayFrame), NEW e \in Nat, Chain(r, q, e), q # <<>>,
           NEW h \in Record, ~h.whole
    PROVE  Chain(Append(r, h), q, e)
<1> DEFINE p == Append(r, h)
<1>3. \A i \in DOMAIN p : p[i].whole => i \in DOMAIN r /\ p[i] = r[i]
  <2>1. DOMAIN r = 1..Len(r) /\ DOMAIN p = 1..Len(r) + 1 /\ Len(r) \in Nat
    OBVIOUS
  <2>2. (\A i \in DOMAIN r : p[i] = r[i]) /\ p[Len(r) + 1] = h
    OBVIOUS
  <2> HIDE DEF p
  <2> QED
    BY <2>1, <2>2
<1> HIDE DEF p
<1>4. Chain(p, q, e)
  BY <1>3 DEF Chain
<1> QED
  BY <1>4 DEF p

-----------------------------------------------------------------------------
(* The file after a rewrite *)

LEMMA Recorded ==
    ASSUME NEW f \in ReplayFrame
    PROVE  /\ \E h \in Record : /\ h = ToRecord(f, TRUE)
                                /\ h.whole /\ h.seq = f.seq /\ h.data = f.data
           /\ \E h \in Record : h = ToRecord(f, FALSE) /\ ~h.whole
           /\ ToRecord(f, TRUE) \in Record /\ ToRecord(f, TRUE).whole
           /\ ToRecord(f, TRUE).seq = f.seq /\ ToRecord(f, TRUE).data = f.data
<1>1. \A w \in BOOLEAN : ToRecord(f, w) \in Record
  BY DEF ToRecord, ReplayFrame, Record
<1>2. ToRecord(f, TRUE).whole /\ ~ToRecord(f, FALSE).whole
  BY DEF ToRecord
<1>3. ToRecord(f, TRUE).seq = f.seq /\ ToRecord(f, TRUE).data = f.data
  BY DEF ToRecord
<1>4. ToRecord(f, TRUE) \in Record /\ ToRecord(f, FALSE) \in Record
  BY <1>1, Zenon
<1> QED
  BY <1>2, <1>3, <1>4, Zenon

\* A rewrite writes these frames, or meets a fault.
LEMMA Rewritten ==
    ASSUME NEW old, NEW q \in Seq(ReplayFrame), Rewrite(old, q)
    PROVE  \/ /\ faults' = faults
              /\ file' \in Seq(Record) /\ Len(file') = Len(q)
              /\ \A i \in 1..Len(q) : /\ file'[i].whole
                                      /\ file'[i].seq = q[i].seq /\ file'[i].data = q[i].data
           \/ /\ faults < MaxFaults /\ faults' = faults + 1
              /\ \/ "refused" \in DiskFaults /\ file' = old
                 \/ "lost" \in DiskFaults /\ file' = <<>>
<1> DEFINE p == [i \in DOMAIN q |-> ToRecord(q[i], TRUE)]
<1>1. (file' = p /\ faults' = faults) \/
      (/\ faults < MaxFaults /\ faults' = faults + 1
       /\ ("refused" \in DiskFaults /\ file' = old) \/ ("lost" \in DiskFaults /\ file' = <<>>))
  BY DEF Rewrite
<1>2. p \in Seq(Record) /\ Len(p) = Len(q)
      /\ \A i \in 1..Len(q) : p[i].whole /\ p[i].seq = q[i].seq /\ p[i].data = q[i].data
  <2>1. DOMAIN q = 1..Len(q) /\ Len(q) \in Nat /\ \A i \in DOMAIN q : q[i] \in ReplayFrame
    OBVIOUS
  <2>2. \A i \in DOMAIN q : /\ ToRecord(q[i], TRUE) \in Record /\ ToRecord(q[i], TRUE).whole
                            /\ ToRecord(q[i], TRUE).seq = q[i].seq
                            /\ ToRecord(q[i], TRUE).data = q[i].data
    BY <2>1, Recorded, Zenon
  <2>3. \E g \in [1..Len(q) -> Record] :
          /\ p = g
          /\ \A i \in 1..Len(q) : g[i].whole /\ g[i].seq = q[i].seq /\ g[i].data = q[i].data
    <3>1. p \in [1..Len(q) -> Record]
      BY <2>1, <2>2, Zenon
    <3>2. \A i \in 1..Len(q) : p[i] = ToRecord(q[i], TRUE)
      BY <2>1, Zenon
    <3>3. \A i \in 1..Len(q) : p[i].whole /\ p[i].seq = q[i].seq /\ p[i].data = q[i].data
      BY <2>1, <2>2, <3>2, Zenon
    <3> HIDE DEF p
    <3> QED
      BY <3>1, <3>3, Zenon
  <2> HIDE DEF p
  <2>4. PICK g \in [1..Len(q) -> Record] :
          /\ p = g
          /\ \A i \in 1..Len(q) : g[i].whole /\ g[i].seq = q[i].seq /\ g[i].data = q[i].data
    BY <2>3
  <2>5. g \in Seq(Record) /\ Len(g) = Len(q)
    BY <2>1, <2>4
  <2> QED
    BY <2>4, <2>5
<1> HIDE DEF p
<1> QED
  BY <1>1, <1>2

LEMMA Capped ==
    ASSUME SpoolTypeOK, NEW r \in Seq(Record), Cap(r)
    PROVE  /\ cut' \in BOOLEAN /\ (cut => cut')
           /\ \/ file' = r /\ faults' = faults /\ cut' = cut /\ Weight(r) <= SpoolMax
              \/ /\ faults < MaxFaults /\ faults' = faults + 1
                 /\ \/ "refused" \in DiskFaults /\ file' = r
                    \/ "lost" \in DiskFaults /\ file' = <<>>
              \/ \E m \in 0..Len(r) : \E k \in 0..m :
                   /\ faults' = faults
                   /\ k = Overflow(Readable(r))
                   /\ file' \in Seq(Record) /\ Len(file') = m - k
                   /\ \A i \in 1..m - k :
                        /\ file'[i].whole /\ r[k + i].whole
                        /\ file'[i].seq = r[k + i].seq /\ file'[i].data = r[k + i].data
                   /\ cut' <=> cut \/ k > 0
                   /\ (\A i \in DOMAIN r : r[i].whole) => m = Len(r)
<1>1. CASE Weight(r) <= SpoolMax
  BY <1>1 DEF Cap, SpoolTypeOK
<1>2. CASE ~(Weight(r) <= SpoolMax)
  <2> DEFINE q == Readable(r)
             k == Overflow(q)
             f == FromFrame(q, k)
  <2>1. Rewrite(r, f) /\ cut' = (cut \/ k > 0)
    BY <1>2 DEF Cap
  <2>2. PICK m \in 0..Len(r) :
             /\ q \in Seq(ReplayFrame)
             /\ Len(q) = m /\ DOMAIN q = 1..m
             /\ \A i \in 1..m : r[i].whole /\ q[i].seq = r[i].seq /\ q[i].data = r[i].data
             /\ (\A i \in DOMAIN r : r[i].whole) => m = Len(r)
    BY Reads
  <2>3. k \in 0..m
    BY <2>2, BufferCaps, OverflowFound
  <2>4. f \in Seq(ReplayFrame) /\ Len(f) = m - k /\ \A i \in 1..m - k : f[i] = q[k + i]
    BY <2>2, <2>3, EndOf
  <2>5. cut' \in BOOLEAN /\ (cut => cut') /\ (cut' <=> cut \/ k > 0)
    BY <2>1 DEF SpoolTypeOK
  <2>6. \/ /\ faults' = faults
           /\ file' \in Seq(Record) /\ Len(file') = Len(f)
           /\ \A i \in 1..Len(f) : /\ file'[i].whole
                                   /\ file'[i].seq = f[i].seq /\ file'[i].data = f[i].data
        \/ /\ faults < MaxFaults /\ faults' = faults + 1
           /\ \/ "refused" \in DiskFaults /\ file' = r
              \/ "lost" \in DiskFaults /\ file' = <<>>
    <3> HIDE DEF f
    <3> QED
      BY <2>1, <2>4, Rewritten
  <2> HIDE DEF f, k, q
  <2>7. \A i \in 1..m - k : /\ k + i \in 1..m /\ r[k + i].whole
                            /\ f[i].seq = r[k + i].seq /\ f[i].data = r[k + i].data
    <3>1. Len(r) \in Nat
      OBVIOUS
    <3>2. m \in Nat /\ k \in Nat /\ k <= m
      BY <2>3, <3>1
    <3>3. \A i \in 1..m - k : k + i \in 1..m
      BY <3>2
    <3> QED
      BY <2>2, <2>4, <3>3
  <2>8. CASE /\ faults' = faults
             /\ file' \in Seq(Record) /\ Len(file') = Len(f)
             /\ \A i \in 1..Len(f) : /\ file'[i].whole
                                     /\ file'[i].seq = f[i].seq /\ file'[i].data = f[i].data
    <3>1. k = Overflow(Readable(r))
      BY DEF k, q
    <3>2. \A i \in 1..m - k : /\ file'[i].whole /\ r[k + i].whole
                              /\ file'[i].seq = r[k + i].seq /\ file'[i].data = r[k + i].data
      BY <2>4, <2>7, <2>8
    <3> QED
      BY <2>2, <2>3, <2>4, <2>5, <2>8, <3>1, <3>2
  <2> QED
    BY <2>5, <2>6, <2>8
<1> QED
  BY <1>1, <1>2

-----------------------------------------------------------------------------
(* Order *)

LEMMA WeightNone == \A q : q = <<>> => Weight(q) = 0
<1> SUFFICES ASSUME NEW q, q = <<>> PROVE Weight(q) = 0
  OBVIOUS
<1>1. {i \in DOMAIN q : q[i].data} = {}
  OBVIOUS
<1> QED
  BY <1>1, FS_EmptySet DEF Weight

\* Whatever the disk does, capping leaves records in a row that were there.
LEMMA CappedPart ==
    ASSUME SpoolTypeOK, NEW r \in Seq(Record), Cap(r),
           NEW q \in Seq(ReplayFrame), NEW e \in Nat, Chain(r, q, e)
    PROVE  /\ file' \in Seq(Record) /\ Chain(file', q, e)
           /\ cut' \in BOOLEAN /\ faults' \in 0..MaxFaults
<1>0. faults \in Nat /\ MaxFaults \in Nat /\ faults <= MaxFaults
  BY SpoolConstants DEF SpoolTypeOK
<1>1. CASE file' = r /\ faults' \in {faults, faults + 1} /\ faults' <= MaxFaults
  <2>1. faults' \in 0..MaxFaults
    BY <1>0, <1>1
  <2> QED
    BY <1>1, <2>1, Capped
<1>2. CASE file' = <<>> /\ faults < MaxFaults /\ faults' = faults + 1
  <2>1. faults' \in 0..MaxFaults
    BY <1>0, <1>2
  <2>2. Chain(<<>>, q, e)
    BY DEF Chain
  <2> QED
    BY <1>2, <2>1, <2>2, Capped
<1>3. CASE \E m \in 0..Len(r) : \E k \in 0..m :
             /\ faults' = faults
             /\ file' \in Seq(Record) /\ Len(file') = m - k
             /\ \A i \in 1..m - k :
                  /\ file'[i].whole /\ r[k + i].whole
                  /\ file'[i].seq = r[k + i].seq /\ file'[i].data = r[k + i].data
  <2>0. PICK m \in 0..Len(r) : \E k \in 0..m :
             /\ faults' = faults
             /\ file' \in Seq(Record) /\ Len(file') = m - k
             /\ \A i \in 1..m - k :
                  /\ file'[i].whole /\ r[k + i].whole
                  /\ file'[i].seq = r[k + i].seq /\ file'[i].data = r[k + i].data
    BY <1>3
  <2>1. PICK k \in 0..m :
             /\ faults' = faults
             /\ file' \in Seq(Record) /\ Len(file') = m - k
             /\ \A i \in 1..m - k :
                  /\ file'[i].whole /\ r[k + i].whole
                  /\ file'[i].seq = r[k + i].seq /\ file'[i].data = r[k + i].data
    BY <2>0
  <2>2. Len(r) \in Nat /\ DOMAIN r = 1..Len(r)
    OBVIOUS
  <2>3. k \in Nat /\ DOMAIN file' = 1..m - k /\ \A i \in 1..m - k : k + i \in DOMAIN r
    BY <2>1, <2>2
  <2>4. PartOf(file', r)
    BY <2>1, <2>3 DEF PartOf
  <2>5. Chain(file', q, e)
    BY <2>4, ChainPart
  <2> QED
    BY <1>0, <2>1, <2>5, Capped
<1>4. \/ file' = r /\ faults' = faults
      \/ faults < MaxFaults /\ faults' = faults + 1 /\ (file' = r \/ file' = <<>>)
      \/ \E m \in 0..Len(r) : \E k \in 0..m :
             /\ faults' = faults
             /\ file' \in Seq(Record) /\ Len(file') = m - k
             /\ \A i \in 1..m - k :
                  /\ file'[i].whole /\ r[k + i].whole
                  /\ file'[i].seq = r[k + i].seq /\ file'[i].data = r[k + i].data
  BY Capped, Zenon
<1>5. faults <= MaxFaults /\ (faults < MaxFaults => faults + 1 <= MaxFaults)
  BY <1>0
<1> QED
  BY <1>1, <1>2, <1>3, <1>4, <1>5, Zenon

LEMMA ReadsInOrder ==
    ASSUME NEW r \in Seq(Record), NEW q \in Seq(ReplayFrame), NEW e \in Nat, Chain(r, q, e)
    PROVE  Readable(r) \in Seq(ReplayFrame) /\ Rising(Readable(r))
<1>1. PICK m \in 0..Len(r) :
             /\ Readable(r) \in Seq(ReplayFrame)
             /\ DOMAIN Readable(r) = 1..m
             /\ \A i \in 1..m : r[i].whole /\ Readable(r)[i].seq = r[i].seq
  BY Reads
<1>2. 1..m \subseteq DOMAIN r
  <2>1. Len(r) \in Nat /\ DOMAIN r = 1..Len(r)
    OBVIOUS
  <2> QED
    BY <2>1
<1> QED
  BY <1>1, <1>2 DEF Rising, Chain

\* What a checkpoint at s leaves of the file: an end of what is read.
LEMMA FileAfter ==
    ASSUME SpoolTypeOK, NEW q \in Seq(ReplayFrame), NEW e \in Nat, Chain(file, q, e),
           NEW s \in Nat, Rewrite(file, After(Readable(file), s))
    PROVE  \/ /\ faults < MaxFaults /\ faults' = faults + 1
              /\ \/ "refused" \in DiskFaults /\ file' = file
                 \/ "lost" \in DiskFaults /\ file' = <<>>
           \/ \E m \in 0..Len(file) : \E k \in 0..m :
                /\ faults' = faults
                /\ file' \in Seq(Record) /\ Len(file') = m - k
                /\ \A i \in 1..k : file[i].seq <= s
                /\ \A i \in k + 1..m : file[i].seq > s
                /\ \A i \in 1..m - k :
                     /\ file'[i].whole /\ file[k + i].whole
                     /\ file'[i].seq = file[k + i].seq /\ file'[i].data = file[k + i].data
                /\ (\A i \in DOMAIN file : file[i].whole) => m = Len(file)
<1> DEFINE f == Readable(file)
<1>0. file \in Seq(Record) /\ Len(file) \in Nat
  BY DEF SpoolTypeOK
<1>1. PICK m \in 0..Len(file) :
             /\ f \in Seq(ReplayFrame) /\ Len(f) = m
             /\ \A i \in 1..m : /\ file[i].whole
                                /\ f[i].seq = file[i].seq /\ f[i].data = file[i].data
             /\ (\A i \in DOMAIN file : file[i].whole) => m = Len(file)
  BY <1>0, Reads
<1>2. Rising(f)
  BY <1>0, ReadsInOrder
<1>3. PICK k \in 0..m : /\ \A i \in 1..k : f[i].seq <= s
                        /\ \A i \in k + 1..m : f[i].seq > s
                        /\ After(f, s) = FromFrame(f, k)
  BY <1>1, <1>2, FramesAfter
<1>4. PICK g : g = FromFrame(f, k)
  OBVIOUS
<1>5. g \in Seq(ReplayFrame) /\ Len(g) = m - k /\ \A i \in 1..m - k : g[i] = f[k + i]
  <2> HIDE DEF f
  <2> QED
    BY <1>1, <1>3, <1>4, EndOf
<1>6. Rewrite(file, g)
  BY <1>3, <1>4, Zenon
<1>7. \/ /\ faults' = faults
         /\ file' \in Seq(Record) /\ Len(file') = m - k
         /\ \A i \in 1..m - k : /\ file'[i].whole
                                 /\ file'[i].seq = g[i].seq /\ file'[i].data = g[i].data
      \/ /\ faults < MaxFaults /\ faults' = faults + 1
         /\ \/ "refused" \in DiskFaults /\ file' = file
            \/ "lost" \in DiskFaults /\ file' = <<>>
  BY <1>5, <1>6, Rewritten
<1>8. m \in Nat /\ k \in Nat /\ k <= m
  BY <1>0, <1>1, <1>3
<1> HIDE DEF f
<1>9. \A i \in 1..m - k : /\ file[k + i].whole
                          /\ g[i].seq = file[k + i].seq /\ g[i].data = file[k + i].data
  <2>1. \A i \in 1..m - k : k + i \in 1..m
    BY <1>8
  <2> QED
    BY <1>1, <1>5, <2>1
<1>10. (\A i \in 1..k : file[i].seq <= s) /\ \A i \in k + 1..m : file[i].seq > s
  <2>1. (\A i \in 1..k : i \in 1..m) /\ \A i \in k + 1..m : i \in 1..m
    BY <1>8
  <2> QED
    BY <1>1, <1>3, <2>1
<1>11. CASE /\ faults' = faults
            /\ file' \in Seq(Record) /\ Len(file') = m - k
            /\ \A i \in 1..m - k : /\ file'[i].whole
                                   /\ file'[i].seq = g[i].seq /\ file'[i].data = g[i].data
  <2>1. \A i \in 1..m - k : /\ file'[i].whole /\ file[k + i].whole
                            /\ file'[i].seq = file[k + i].seq /\ file'[i].data = file[k + i].data
    BY <1>9, <1>11
  <2> QED
    BY <1>1, <1>3, <1>10, <1>11, <2>1
<1> QED
  BY <1>7, <1>11

LEMMA SpoolInvInit == SpoolInit => SpoolInv
<1> SUFFICES ASSUME SpoolInit PROVE SpoolInv
  OBVIOUS
<1>1. memory = <<>> /\ file = <<>> /\ ~spilling
  BY DEF SpoolInit
<1>2. Chain(file, memory, events)
  BY <1>1 DEF Chain, Rising
<1>3. SpoolTypeOK
  <2>1. 0 \in 0..MaxEvents /\ 0 \in 0..MaxFaults /\ <<>> \in Seq(ReplayFrame) /\ <<>> \in Seq(Record)
    BY SpoolConstants
  <2> QED
    BY <2>1 DEF SpoolInit, SpoolTypeOK
<1> QED
  BY <1>1, <1>2, <1>3 DEF SpoolInv

LEMMA SpoolInvStep == SpoolInv /\ [SpoolNext]_spoolVars => SpoolInv'
<1> SUFFICES ASSUME SpoolInv, [SpoolNext]_spoolVars PROVE SpoolInv'
  OBVIOUS
<1> USE SpoolConstants
<1>0. /\ SpoolTypeOK /\ Chain(file, memory, events) /\ (spilling => memory # <<>>)
      /\ memory \in Seq(ReplayFrame) /\ file \in Seq(Record)
      /\ spilling \in BOOLEAN /\ cut \in BOOLEAN
      /\ covered \in 0..MaxEvents /\ events \in 0..MaxEvents /\ events \in Nat
      /\ written \in SUBSET (1..MaxEvents)
      /\ faults \in 0..MaxFaults
  BY DEF SpoolInv, SpoolTypeOK
<1>w. ASSUME spilling' = (Weight(memory') > MemMax)
      PROVE  spilling' \in BOOLEAN /\ (spilling' => memory' # <<>>)
  <2>1. memory' = <<>> => ~(Weight(memory') > MemMax)
    BY WeightNone, BufferCaps
  <2>2. (Weight(memory') > MemMax) \in BOOLEAN
    OBVIOUS
  <2> QED
    BY <1>w, <2>1, <2>2, Zenon
<1>1. CASE SpoolPush
  <2>1. /\ events' = events + 1 /\ events < MaxEvents
        /\ memory' = Append(memory, [seq |-> events + 1, data |-> TRUE])
        /\ written' = written \cup {events + 1}
        /\ file' = file /\ covered' = covered /\ cut' = cut /\ faults' = faults
        /\ spilling' = (Weight(memory') > MemMax)
    BY <1>1 DEF SpoolPush
  <2>2. memory' \in Seq(ReplayFrame) /\ Chain(file', memory', events')
    <3>1. events + 1 <= MaxEvents /\ file' = file /\ TRUE \in BOOLEAN
      BY <1>0, <2>1
    <3>2. /\ Append(memory, [seq |-> events + 1, data |-> TRUE]) \in Seq(ReplayFrame)
          /\ Chain(file, Append(memory, [seq |-> events + 1, data |-> TRUE]), events + 1)
      BY <1>0, <3>1, ChainPush
    <3> QED
      BY <2>1, <3>1, <3>2, Zenon
  <2>3. events' \in 0..MaxEvents /\ written' \in SUBSET (1..MaxEvents)
    BY <1>0, <2>1
  <2> QED
    BY <1>0, <1>w, <2>1, <2>2, <2>3 DEF SpoolInv, SpoolTypeOK
<1>2. CASE SpoolSpill
  <2>1. /\ spilling
        /\ Cap(Append(file, ToRecord(Head(memory), TRUE)))
        /\ memory' = Tail(memory)
        /\ spilling' = (Weight(memory') > MemMax)
        /\ covered' = covered /\ written' = written /\ events' = events
    BY <1>2 DEF SpoolSpill
  <2>2. Head(memory) \in ReplayFrame
    BY <1>0, <2>1
  <2>3. PICK h \in Record : /\ h = ToRecord(Head(memory), TRUE)
                            /\ h.whole /\ h.seq = Head(memory).seq
    BY <2>2, Recorded, Zenon
  <2>4. PICK r : r = Append(file, h)
    OBVIOUS
  <2>5. Cap(r)
    BY <2>1, <2>3, <2>4, Zenon
  <2>6. r \in Seq(Record) /\ Tail(memory) \in Seq(ReplayFrame) /\ Chain(r, Tail(memory), events)
    <3>1. Append(file, h) \in Seq(Record)
      BY <1>0
    <3> QED
      BY <1>0, <2>1, <2>3, <2>4, <3>1, ChainMoves
  <2>7. /\ file' \in Seq(Record) /\ Chain(file', Tail(memory), events)
        /\ cut' \in BOOLEAN /\ faults' \in 0..MaxFaults
    BY <1>0, <2>5, <2>6, CappedPart
  <2>8. memory' \in Seq(ReplayFrame) /\ Chain(file', memory', events')
    BY <2>1, <2>6, <2>7
  <2> QED
    BY <1>0, <1>w, <2>1, <2>7, <2>8 DEF SpoolInv, SpoolTypeOK
<1>3. CASE SpoolRefused
  <2>1. /\ spilling /\ spilling' = FALSE
        /\ faults < MaxFaults /\ faults' = faults + 1
        /\ file' = file \/ file' = Append(file, ToRecord(Head(memory), FALSE))
        /\ memory' = memory /\ covered' = covered /\ cut' = cut /\ written' = written
        /\ events' = events
    BY <1>3 DEF SpoolRefused
  <2>2. Head(memory) \in ReplayFrame
    BY <1>0, <2>1
  <2>3. PICK h \in Record : h = ToRecord(Head(memory), FALSE) /\ ~h.whole
    BY <2>2, Recorded, Zenon
  <2>4. file' = file \/ file' = Append(file, h)
    BY <2>1, <2>3, Zenon
  <2>5. Append(file, h) \in Seq(Record) /\ Chain(Append(file, h), memory, events)
    <3>1. Append(file, h) \in Seq(Record)
      BY <1>0
    <3> QED
      BY <1>0, <2>1, <2>3, <3>1, ChainTorn
  <2>6. file' \in Seq(Record) /\ Chain(file', memory', events')
    <3>1. memory' = memory /\ events' = events
      BY <2>1
    <3> QED
      BY <1>0, <2>4, <2>5, <3>1
  <2>7. faults' \in 0..MaxFaults
    BY <1>0, <2>1
  <2> QED
    BY <1>0, <2>1, <2>6, <2>7 DEF SpoolInv, SpoolTypeOK
<1>4. CASE SpoolResize
  <2> DEFINE f == [seq |-> events + 1, data |-> FALSE]
  <2>1. /\ events' = events + 1 /\ events < MaxEvents /\ ~spilling
        /\ \/ memory # <<>> /\ memory' = [memory EXCEPT ![Len(memory)] = f]
           \/ memory' = Append(memory, f)
        /\ written' = written /\ file' = file /\ covered' = covered /\ cut' = cut
        /\ faults' = faults /\ spilling' = spilling
    BY <1>4 DEF SpoolResize
  <2>2. memory' \in Seq(ReplayFrame) /\ Chain(file', memory', events')
    <3>0. events + 1 <= MaxEvents
      BY <1>0, <2>1
    <3>1. CASE memory' = Append(memory, f)
      BY <1>0, <2>1, <3>0, <3>1, ChainPush
    <3>2. CASE memory # <<>> /\ memory' = [memory EXCEPT ![Len(memory)] = f]
      BY <1>0, <2>1, <3>0, <3>2, ChainLast
    <3> QED
      BY <2>1, <3>1, <3>2
  <2>3. events' \in 0..MaxEvents
    BY <1>0, <2>1
  <2> QED
    BY <1>0, <2>1, <2>2, <2>3 DEF SpoolInv, SpoolTypeOK
<1>5. CASE SpoolCheckpoint
  <2>1. /\ ~spilling /\ spilling' = spilling /\ cut' = cut /\ written' = written
        /\ events' = events
    BY <1>5 DEF SpoolCheckpoint
  <2>2. PICK s \in covered + 1..events : \E k \in 0..Len(memory) :
           /\ covered' = s /\ memory' = FromFrame(memory, k)
           /\ Rewrite(file, After(Readable(file), s))
    BY <1>5 DEF SpoolCheckpoint
  <2>3. PICK k \in 0..Len(memory) : memory' = FromFrame(memory, k)
    BY <2>2
  <2>4. s \in Nat /\ s \in 0..MaxEvents
    BY <1>0, <2>2
  <2>5. memory' \in Seq(ReplayFrame)
    BY <1>0, <2>3, EndOf
  <2>6. Chain(file, memory', events)
    BY <1>0, <2>3, ChainEnd
  <2>7. file' \in Seq(Record) /\ Chain(file', memory', events) /\ faults' \in 0..MaxFaults
    <3>1. CASE /\ faults < MaxFaults /\ faults' = faults + 1
               /\ file' = file \/ file' = <<>>
      <4>1. Chain(<<>>, memory', events)
        BY <2>6 DEF Chain
      <4>2. faults' \in 0..MaxFaults
        BY <1>0, <3>1
      <4>3. <<>> \in Seq(Record)
        OBVIOUS
      <4> QED
        BY <1>0, <2>6, <3>1, <4>1, <4>2, <4>3, Zenon
    <3>2. CASE \E m \in 0..Len(file) : \E d \in 0..m :
                /\ faults' = faults
                /\ file' \in Seq(Record) /\ Len(file') = m - d
                /\ \A i \in 1..m - d :
                     /\ file'[i].whole /\ file[d + i].whole
                     /\ file'[i].seq = file[d + i].seq /\ file'[i].data = file[d + i].data
      <4>0. PICK m \in 0..Len(file) : \E d \in 0..m :
                /\ faults' = faults
                /\ file' \in Seq(Record) /\ Len(file') = m - d
                /\ \A i \in 1..m - d :
                     /\ file'[i].whole /\ file[d + i].whole
                     /\ file'[i].seq = file[d + i].seq /\ file'[i].data = file[d + i].data
        BY <3>2
      <4>1. PICK d \in 0..m :
                /\ faults' = faults
                /\ file' \in Seq(Record) /\ Len(file') = m - d
                /\ \A i \in 1..m - d :
                     /\ file'[i].whole /\ file[d + i].whole
                     /\ file'[i].seq = file[d + i].seq /\ file'[i].data = file[d + i].data
        BY <4>0
      <4>2. Len(file) \in Nat /\ DOMAIN file = 1..Len(file)
        BY <1>0
      <4>3. d \in Nat /\ DOMAIN file' = 1..m - d /\ \A i \in 1..m - d : d + i \in DOMAIN file
        BY <4>1, <4>2
      <4>4. PartOf(file', file)
        BY <4>1, <4>3 DEF PartOf
      <4>5. Chain(file', memory', events)
        BY <1>0, <2>5, <2>6, <4>4, ChainPart
      <4> QED
        BY <1>0, <4>1, <4>5
    <3> QED
      BY <1>0, <2>2, <2>4, <3>1, <3>2, FileAfter
  <2>8. Chain(file', memory', events')
    BY <2>1, <2>7
  <2> QED
    BY <1>0, <2>1, <2>2, <2>4, <2>5, <2>7, <2>8 DEF SpoolInv, SpoolTypeOK
<1>6. CASE UNCHANGED spoolVars
  BY <1>0, <1>6 DEF spoolVars, SpoolInv, SpoolTypeOK
<1> QED
  BY <1>1, <1>2, <1>3, <1>4, <1>5, <1>6 DEF SpoolNext

LEMMA SpoolInvAlways == SpoolSpec => []SpoolInv
<1> QED
  BY SpoolInvInit, SpoolInvStep, PTL DEF SpoolSpec

LEMMA OrderedNow == SpoolInv => Ordered
<1> SUFFICES ASSUME SpoolInv, NEW i \in DOMAIN Live, NEW j \in DOMAIN Live, i < j
             PROVE  Live[i].seq < Live[j].seq
  BY DEF Ordered
<1> DEFINE f == Readable(file)
<1>0. /\ Chain(file, memory, events) /\ memory \in Seq(ReplayFrame) /\ file \in Seq(Record)
      /\ events \in Nat
  BY SpoolConstants DEF SpoolInv, SpoolTypeOK
<1>1. PICK m \in 0..Len(file) :
             /\ f \in Seq(ReplayFrame) /\ Len(f) = m
             /\ \A k \in 1..m : file[k].whole /\ f[k].seq = file[k].seq
  BY <1>0, Reads
<1>2. Rising(f)
  BY <1>0, ReadsInOrder
<1>3. Live = f \o memory
  BY DEF Live
<1> HIDE DEF f
<1>4. Len(file) \in Nat /\ DOMAIN file = 1..Len(file) /\ m \in Nat /\ DOMAIN f = 1..m
      /\ Len(memory) \in Nat /\ DOMAIN memory = 1..Len(memory)
  BY <1>0, <1>1
<1>5. /\ DOMAIN Live = 1..m + Len(memory)
      /\ \A k \in 1..m : Live[k] = f[k]
      /\ \A k \in m + 1..m + Len(memory) : Live[k] = memory[k - m]
  <2>1. DOMAIN (f \o memory) = 1..Len(f) + Len(memory)
    BY <1>0, <1>1
  <2>2. \A k \in 1..Len(f) + Len(memory) :
          (f \o memory)[k] = IF k <= Len(f) THEN f[k] ELSE memory[k - Len(f)]
    BY <1>0, <1>1
  <2> QED
    BY <1>1, <1>3, <1>4, <2>1, <2>2
<1>6. CASE j <= m
  <2>1. i \in 1..m /\ j \in 1..m
    BY <1>4, <1>5, <1>6
  <2> QED
    BY <1>2, <1>4, <1>5, <2>1 DEF Rising
<1>7. CASE i <= m /\ j > m
  <2>1. i \in 1..m /\ i \in DOMAIN file /\ j \in m + 1..m + Len(memory) /\ j - m \in DOMAIN memory
    BY <1>1, <1>4, <1>5, <1>7
  <2>2. file[i].seq < memory[j - m].seq
    BY <1>0, <1>1, <2>1 DEF Chain
  <2> QED
    BY <1>1, <1>5, <2>1, <2>2
<1>8. CASE i > m /\ j > m
  <2>1. /\ i \in m + 1..m + Len(memory) /\ j \in m + 1..m + Len(memory)
        /\ i - m \in DOMAIN memory /\ j - m \in DOMAIN memory /\ i - m < j - m
    BY <1>4, <1>5, <1>8
  <2> QED
    BY <1>0, <1>5, <2>1 DEF Chain, Rising
<1>9. i \in Nat /\ j \in Nat
  BY <1>4, <1>5
<1> QED
  BY <1>4, <1>6, <1>7, <1>8, <1>9

\* On any disk, whatever fails.
THEOREM OrderedEver == SpoolSpec => []Ordered
  BY SpoolInvAlways, OrderedNow, PTL

-----------------------------------------------------------------------------
(* What is kept *)

\* A frame carries output exactly when its number is one of an output.
Marked(frames, W) == \A i \in DOMAIN frames : frames[i].data <=> frames[i].seq \in W
AllWhole(records) == \A i \in DOMAIN records : records[i].whole

MarkedInv ==
    /\ AllWhole(file)
    /\ Marked(file, written) /\ Marked(memory, written)
    /\ written \subseteq 1..events

\* r is the spool after the append of a round of push_output.
Appended(r) ==
    /\ r \in Seq(Record) /\ memory # <<>> /\ Tail(memory) \in Seq(ReplayFrame)
    /\ Chain(r, Tail(memory), events)
    /\ AllWhole(r) /\ Marked(r, written) /\ Marked(Tail(memory), written)
    /\ Seqs(r) = Seqs(file) \cup {Head(memory).seq}
    /\ Seqs(memory) = {Head(memory).seq} \cup Seqs(Tail(memory))

LEMMA SeqsPushed ==
    ASSUME NEW S, NEW q \in Seq(S), NEW f
    PROVE  Seqs(Append(q, f)) = Seqs(q) \cup {f.seq}
<1> DEFINE p == Append(q, f)
<1>1. DOMAIN q = 1..Len(q) /\ DOMAIN p = 1..Len(q) + 1 /\ Len(q) \in Nat
      /\ (\A i \in DOMAIN q : p[i] = q[i]) /\ p[Len(q) + 1] = f
  <2>1. q \in Seq(S \cup {f}) /\ f \in S \cup {f}
    OBVIOUS
  <2> QED
    BY <2>1
<1> HIDE DEF p
<1>2. Seqs(p) = Seqs(q) \cup {f.seq}
  <2>1. ASSUME NEW n1 \in Seqs(p) PROVE n1 \in Seqs(q) \cup {f.seq}
    <3>1. PICK i \in DOMAIN p : n1 = p[i].seq
      BY <2>1 DEF Seqs
    <3> QED
      BY <1>1, <3>1 DEF Seqs
  <2>2. ASSUME NEW n1 \in Seqs(q) \cup {f.seq} PROVE n1 \in Seqs(p)
    <3>1. Len(q) + 1 \in DOMAIN p /\ \A i \in DOMAIN q : i \in DOMAIN p
      BY <1>1
    <3> QED
      BY <1>1, <2>2, <3>1 DEF Seqs
  <2> QED
    BY <2>1, <2>2
<1> QED
  BY <1>2 DEF p

LEMMA SeqsHead ==
    ASSUME NEW S, NEW q \in Seq(S), q # <<>>
    PROVE  Seqs(q) = {Head(q).seq} \cup Seqs(Tail(q))
<1> DEFINE t == Tail(q)
<1>1. /\ DOMAIN q = 1..Len(q) /\ Len(q) \in Nat \ {0} /\ DOMAIN t = 1..Len(q) - 1
      /\ Head(q) = q[1] /\ \A i \in 1..Len(q) - 1 : t[i] = q[i + 1]
  OBVIOUS
<1> HIDE DEF t
<1>2. ASSUME NEW n1 \in Seqs(q) PROVE n1 \in {Head(q).seq} \cup Seqs(t)
  <2>1. PICK i \in DOMAIN q : n1 = q[i].seq
    BY <1>2 DEF Seqs
  <2>2. CASE i = 1
    BY <1>1, <2>1, <2>2
  <2>3. CASE i # 1
    <3>1. i - 1 \in DOMAIN t /\ t[i - 1] = q[i - 1 + 1] /\ i - 1 + 1 = i
      BY <1>1, <2>3
    <3> QED
      BY <2>1, <3>1 DEF Seqs
  <2> QED
    BY <2>2, <2>3
<1>3. ASSUME NEW n1 \in {Head(q).seq} \cup Seqs(t) PROVE n1 \in Seqs(q)
  <2>1. 1 \in DOMAIN q /\ \A i \in DOMAIN t : i + 1 \in DOMAIN q /\ t[i] = q[i + 1]
    BY <1>1
  <2> QED
    BY <1>1, <1>3, <2>1 DEF Seqs
<1>4. Seqs(q) = {Head(q).seq} \cup Seqs(t)
  BY <1>2, <1>3
<1> QED
  BY <1>4 DEF t

LEMMA AppendedShape ==
    ASSUME SpoolInv, MarkedInv, spilling,
           NEW r, r = Append(file, ToRecord(Head(memory), TRUE))
    PROVE  Appended(r)
<1>0. /\ Chain(file, memory, events) /\ memory # <<>>
      /\ memory \in Seq(ReplayFrame) /\ file \in Seq(Record) /\ events \in Nat
      /\ AllWhole(file) /\ Marked(file, written) /\ Marked(memory, written)
  BY SpoolConstants DEF SpoolInv, SpoolTypeOK, MarkedInv
<1>1. Head(memory) \in ReplayFrame
  BY <1>0
<1>2. PICK h \in Record : /\ h = ToRecord(Head(memory), TRUE) /\ h.whole
                          /\ h.seq = Head(memory).seq /\ h.data = Head(memory).data
  BY <1>1, Recorded, Zenon
<1>3. r = Append(file, h)
  BY <1>2, Zenon
<1>4. Append(file, h) \in Seq(Record)
  BY <1>0
<1>5. Tail(memory) \in Seq(ReplayFrame) /\ Chain(Append(file, h), Tail(memory), events)
  BY <1>0, <1>2, ChainMoves
<1>6. DOMAIN Append(file, h) = 1..Len(file) + 1 /\ DOMAIN file = 1..Len(file) /\ Len(file) \in Nat
      /\ (\A i \in DOMAIN file : Append(file, h)[i] = file[i]) /\ Append(file, h)[Len(file) + 1] = h
  BY <1>0
<1>7. Head(memory) = memory[1] /\ 1 \in DOMAIN memory
      /\ \A i \in DOMAIN Tail(memory) : i + 1 \in DOMAIN memory /\ Tail(memory)[i] = memory[i + 1]
  BY <1>0
<1>8. PICK p : p = Append(file, h)
  OBVIOUS
<1>9. DOMAIN p = 1..Len(file) + 1 /\ (\A i \in DOMAIN file : p[i] = file[i]) /\ p[Len(file) + 1] = h
  BY <1>6, <1>8, Zenon
<1>10. \A i \in DOMAIN p : i \in DOMAIN file \/ i = Len(file) + 1
  BY <1>6, <1>9
<1>11. AllWhole(p) /\ Marked(p, written)
  <2>1. h.data <=> h.seq \in written
    BY <1>0, <1>2, <1>7 DEF Marked
  <2>2. ASSUME NEW i \in DOMAIN p PROVE p[i].whole /\ (p[i].data <=> p[i].seq \in written)
    BY <1>0, <1>2, <1>9, <1>10, <2>1 DEF AllWhole, Marked
  <2> QED
    BY <2>2 DEF AllWhole, Marked
<1>12. Marked(Tail(memory), written)
  BY <1>0, <1>7 DEF Marked
<1>13. Seqs(Append(file, h)) = Seqs(file) \cup {Head(memory).seq}
  BY <1>0, <1>2, SeqsPushed
<1>14. Seqs(memory) = {Head(memory).seq} \cup Seqs(Tail(memory))
  BY <1>0, SeqsHead
<1> QED
  BY <1>0, <1>3, <1>4, <1>5, <1>8, <1>11, <1>12, <1>13, <1>14, Zenon DEF Appended

\* What a cap that meets no loss leaves of such a spool: an end of it.
LEMMA CappedShape ==
    ASSUME SpoolInv, NEW r, Appended(r), Cap(r), "lost" \notin DiskFaults \/ faults' = faults
    PROVE  /\ cut' \in BOOLEAN /\ (cut => cut')
           /\ \/ file' = r /\ (faults' = faults => cut' = cut /\ Weight(r) <= SpoolMax)
              \/ \E k \in 0..Len(r) :
                   /\ faults' = faults /\ k = Overflow(Readable(r))
                   /\ file' \in Seq(Record) /\ Len(file') = Len(r) - k
                   /\ \A i \in 1..Len(r) - k :
                        /\ file'[i].whole
                        /\ file'[i].seq = r[k + i].seq /\ file'[i].data = r[k + i].data
                   /\ cut' <=> cut \/ k > 0
<1>0. SpoolTypeOK /\ r \in Seq(Record) /\ (\A i \in DOMAIN r : r[i].whole)
  BY DEF SpoolInv, Appended, AllWhole
<1>1. faults + 1 # faults
  BY <1>0, SpoolConstants DEF SpoolTypeOK
<1>2. CASE \E m \in 0..Len(r) : \E k \in 0..m :
                   /\ faults' = faults
                   /\ k = Overflow(Readable(r))
                   /\ file' \in Seq(Record) /\ Len(file') = m - k
                   /\ \A i \in 1..m - k :
                        /\ file'[i].whole /\ r[k + i].whole
                        /\ file'[i].seq = r[k + i].seq /\ file'[i].data = r[k + i].data
                   /\ cut' <=> cut \/ k > 0
                   /\ (\A i \in DOMAIN r : r[i].whole) => m = Len(r)
  <2>1. PICK m \in 0..Len(r) : \E k \in 0..m :
                   /\ faults' = faults
                   /\ k = Overflow(Readable(r))
                   /\ file' \in Seq(Record) /\ Len(file') = m - k
                   /\ \A i \in 1..m - k :
                        /\ file'[i].whole /\ r[k + i].whole
                        /\ file'[i].seq = r[k + i].seq /\ file'[i].data = r[k + i].data
                   /\ cut' <=> cut \/ k > 0
                   /\ m = Len(r)
    BY <1>0, <1>2, Zenon
  <2>2. \E k \in 0..Len(r) :
                   /\ faults' = faults /\ k = Overflow(Readable(r))
                   /\ file' \in Seq(Record) /\ Len(file') = Len(r) - k
                   /\ \A i \in 1..Len(r) - k :
                        /\ file'[i].whole
                        /\ file'[i].seq = r[k + i].seq /\ file'[i].data = r[k + i].data
                   /\ cut' <=> cut \/ k > 0
    BY <2>1, Zenon
  <2> QED
    BY <1>0, <2>2, Capped, Zenon
<1>3. CASE ~\E m \in 0..Len(r) : \E k \in 0..m :
                   /\ faults' = faults
                   /\ k = Overflow(Readable(r))
                   /\ file' \in Seq(Record) /\ Len(file') = m - k
                   /\ \A i \in 1..m - k :
                        /\ file'[i].whole /\ r[k + i].whole
                        /\ file'[i].seq = r[k + i].seq /\ file'[i].data = r[k + i].data
                   /\ cut' <=> cut \/ k > 0
                   /\ (\A i \in DOMAIN r : r[i].whole) => m = Len(r)
  BY <1>0, <1>1, <1>3, Capped, Zenon
<1> QED
  BY <1>2, <1>3

\* No append is torn and no rewrite loses the file.
Kind == DiskFaults \subseteq {"refused"} \/ faults' = faults

LEMMA MarkedPart ==
    ASSUME NEW r \in Seq(Record), NEW W, AllWhole(r), Marked(r, W), NEW m \in Nat, m = Len(r),
           NEW k \in 0..m, NEW p \in Seq(Record), Len(p) = m - k,
           \A i \in 1..m - k : /\ p[i].whole
                               /\ p[i].seq = r[k + i].seq /\ p[i].data = r[k + i].data
    PROVE  AllWhole(p) /\ Marked(p, W)
<1>1. DOMAIN p = 1..m - k /\ DOMAIN r = 1..m /\ \A i \in 1..m - k : k + i \in 1..m
  OBVIOUS
<1> QED
  BY <1>1 DEF AllWhole, Marked

LEMMA MarkedLater ==
    ASSUME NEW r, NEW W, NEW e \in Nat, Marked(r, W),
           \A i \in DOMAIN r : r[i].seq \in Nat /\ r[i].seq <= e
    PROVE  Marked(r, W \cup {e + 1})
  BY DEF Marked

LEMMA NumbersBelow ==
    ASSUME SpoolInv, AllWhole(file)
    PROVE  /\ \A i \in DOMAIN file : file[i].seq \in Nat /\ file[i].seq <= events
           /\ \A i \in DOMAIN memory : memory[i].seq \in Nat /\ memory[i].seq <= events
<1>1. /\ \A i \in DOMAIN file : file[i] \in Record
      /\ \A i \in DOMAIN memory : memory[i] \in ReplayFrame
  BY DEF SpoolInv, SpoolTypeOK
<1> QED
  BY <1>1, SpoolConstants DEF SpoolInv, Chain, AllWhole, Record, ReplayFrame

LEMMA MarkedStep ==
    SpoolInv /\ MarkedInv /\ [SpoolNext]_spoolVars /\ Kind => MarkedInv'
<1> SUFFICES ASSUME SpoolInv, MarkedInv, [SpoolNext]_spoolVars, Kind PROVE MarkedInv'
  OBVIOUS
<1>0. /\ SpoolTypeOK /\ Chain(file, memory, events)
      /\ memory \in Seq(ReplayFrame) /\ file \in Seq(Record) /\ events \in Nat
      /\ covered \in Nat /\ faults \in Nat
      /\ AllWhole(file) /\ Marked(file, written) /\ Marked(memory, written)
      /\ written \subseteq 1..events
  BY SpoolConstants DEF SpoolInv, SpoolTypeOK, MarkedInv
<1>e. events + 1 \in Nat /\ events + 1 \notin written /\ 1..events \subseteq 1..events + 1
      /\ events + 1 \in 1..events + 1
  BY <1>0
<1>1. CASE SpoolPush
  <2> DEFINE f == [seq |-> events + 1, data |-> TRUE]
             W == written \cup {events + 1}
  <2>1. /\ events' = events + 1 /\ memory' = Append(memory, f)
        /\ written' = W /\ file' = file
    BY <1>1 DEF SpoolPush
  <2>2. Marked(file, W) /\ Marked(memory, W)
    BY <1>0, MarkedLater, NumbersBelow
  <2>3. f.data /\ f.seq = events + 1 /\ f.seq \in W
    OBVIOUS
  <2> HIDE DEF f, W
  <2>4. DOMAIN Append(memory, f) = 1..Len(memory) + 1 /\ DOMAIN memory = 1..Len(memory)
        /\ Len(memory) \in Nat
        /\ (\A i \in DOMAIN memory : Append(memory, f)[i] = memory[i])
        /\ Append(memory, f)[Len(memory) + 1] = f
    <3>1. memory \in Seq(ReplayFrame \cup {f}) /\ f \in ReplayFrame \cup {f}
      BY <1>0
    <3> QED
      BY <3>1
  <2>5. ASSUME NEW i \in DOMAIN memory' PROVE memory'[i].data <=> memory'[i].seq \in W
    <3>1. CASE i \in DOMAIN memory
      BY <2>1, <2>2, <2>4, <3>1 DEF Marked
    <3>2. CASE i = Len(memory) + 1
      BY <2>1, <2>3, <2>4, <3>2
    <3> QED
      BY <2>1, <2>4, <3>1, <3>2
  <2>6. Marked(memory', W)
    BY <2>5 DEF Marked
  <2>7. W \subseteq 1..events + 1
    BY <1>0, <1>e DEF W
  <2> QED
    BY <1>0, <2>1, <2>2, <2>6, <2>7 DEF MarkedInv
<1>2. CASE SpoolSpill
  <2>1. /\ spilling
        /\ Cap(Append(file, ToRecord(Head(memory), TRUE)))
        /\ memory' = Tail(memory) /\ written' = written /\ events' = events
    BY <1>2 DEF SpoolSpill
  <2>2. PICK r : r = Append(file, ToRecord(Head(memory), TRUE))
    OBVIOUS
  <2>3. Appended(r) /\ Cap(r)
    BY <2>1, <2>2, AppendedShape, Zenon
  <2>4. "lost" \notin DiskFaults \/ faults' = faults
    BY DEF Kind
  <2>5. r \in Seq(Record) /\ AllWhole(r) /\ Marked(r, written) /\ Marked(Tail(memory), written)
    BY <2>3 DEF Appended
  <2>6. AllWhole(file') /\ Marked(file', written)
    <3>1. CASE file' = r
      BY <2>5, <3>1
    <3>2. CASE \E k \in 0..Len(r) :
                   /\ file' \in Seq(Record) /\ Len(file') = Len(r) - k
                   /\ \A i \in 1..Len(r) - k :
                        /\ file'[i].whole
                        /\ file'[i].seq = r[k + i].seq /\ file'[i].data = r[k + i].data
      <4>1. Len(r) \in Nat
        BY <2>5
      <4> QED
        BY <2>5, <3>2, <4>1, MarkedPart
    <3> QED
      BY <2>3, <2>4, <3>1, <3>2, CappedShape, Zenon
  <2> QED
    BY <1>0, <2>1, <2>5, <2>6 DEF MarkedInv
<1>3. CASE SpoolRefused
  <2>1. /\ faults' = faults + 1
        /\ file' = file \/ "torn" \in DiskFaults
        /\ memory' = memory /\ written' = written /\ events' = events
    BY <1>3 DEF SpoolRefused
  <2>2. file' = file
    BY <1>0, <2>1 DEF Kind
  <2> QED
    BY <1>0, <2>1, <2>2 DEF MarkedInv
<1>4. CASE SpoolResize
  <2> DEFINE f == [seq |-> events + 1, data |-> FALSE]
  <2>1. /\ events' = events + 1 /\ written' = written /\ file' = file
        /\ \/ memory # <<>> /\ memory' = [memory EXCEPT ![Len(memory)] = f]
           \/ memory' = Append(memory, f)
    BY <1>4 DEF SpoolResize
  <2>2. ~f.data /\ f.seq = events + 1
    OBVIOUS
  <2> HIDE DEF f
  <2>3. \A i \in DOMAIN memory' : (i \in DOMAIN memory /\ memory'[i] = memory[i]) \/ memory'[i] = f
    <3>1. CASE memory' = Append(memory, f)
      <4>1. memory \in Seq(ReplayFrame \cup {f}) /\ f \in ReplayFrame \cup {f}
        BY <1>0
      <4> QED
        BY <3>1, <4>1
    <3>2. CASE memory # <<>> /\ memory' = [memory EXCEPT ![Len(memory)] = f]
      BY <1>0, <3>2
    <3> QED
      BY <2>1, <3>1, <3>2
  <2>4. Marked(memory', written)
    <3>1. ASSUME NEW i \in DOMAIN memory' PROVE memory'[i].data <=> memory'[i].seq \in written
      BY <1>0, <1>e, <2>2, <2>3 DEF Marked
    <3> QED
      BY <3>1 DEF Marked
  <2> QED
    BY <1>0, <1>e, <2>1, <2>4 DEF MarkedInv
<1>5. CASE SpoolCheckpoint
  <2>1. written' = written /\ events' = events
    BY <1>5 DEF SpoolCheckpoint
  <2>2. PICK s \in covered + 1..events : \E k \in 0..Len(memory) :
           memory' = FromFrame(memory, k) /\ Rewrite(file, After(Readable(file), s))
    BY <1>5 DEF SpoolCheckpoint
  <2>3. PICK k \in 0..Len(memory) : memory' = FromFrame(memory, k)
    BY <2>2
  <2>4. s \in Nat
    BY <1>0, <2>2
  <2>5. Marked(memory', written)
    <3>1. DOMAIN memory' = 1..Len(memory) - k
          /\ \A i \in 1..Len(memory) - k : memory'[i] = memory[k + i]
      BY <1>0, <2>3, EndOf
    <3>2. Len(memory) \in Nat /\ DOMAIN memory = 1..Len(memory)
      BY <1>0
    <3>3. \A i \in 1..Len(memory) - k : k + i \in DOMAIN memory
      BY <2>3, <3>2
    <3> QED
      BY <1>0, <3>1, <3>3 DEF Marked
  <2>6. AllWhole(file') /\ Marked(file', written)
    <3>1. CASE file' = file
      BY <1>0, <3>1
    <3>2. CASE \E m \in 0..Len(file) : \E d \in 0..m :
                   /\ file' \in Seq(Record) /\ Len(file') = m - d
                   /\ \A i \in 1..m - d :
                        /\ file'[i].whole
                        /\ file'[i].seq = file[d + i].seq /\ file'[i].data = file[d + i].data
                   /\ m = Len(file)
      <4>1. Len(file) \in Nat
        BY <1>0
      <4> QED
        BY <1>0, <3>2, <4>1, MarkedPart
    <3>3. "lost" \in DiskFaults => faults' = faults
      BY DEF Kind
    <3>4. faults' = faults + 1 => faults' # faults
      BY <1>0
    <3>5. \A i \in DOMAIN file : file[i].whole
      BY <1>0 DEF AllWhole
    <3>6. \/ faults' = faults + 1 /\ (("refused" \in DiskFaults /\ file' = file) \/ "lost" \in DiskFaults)
          \/ \E m \in 0..Len(file) : \E d \in 0..m :
                   /\ file' \in Seq(Record) /\ Len(file') = m - d
                   /\ \A i \in 1..m - d :
                        /\ file'[i].whole
                        /\ file'[i].seq = file[d + i].seq /\ file'[i].data = file[d + i].data
                   /\ (\A i \in DOMAIN file : file[i].whole) => m = Len(file)
      <4>1. Rewrite(file, After(Readable(file), s))
        BY <2>2
      <4> QED
        BY <1>0, <2>4, <4>1, FileAfter, Zenon
    <3> QED
      BY <3>1, <3>2, <3>3, <3>4, <3>5, <3>6, Zenon
  <2> QED
    BY <1>0, <2>1, <2>5, <2>6 DEF MarkedInv
<1>6. CASE UNCHANGED spoolVars
  BY <1>6 DEF spoolVars, MarkedInv
<1> QED
  BY <1>1, <1>2, <1>3, <1>4, <1>5, <1>6 DEF SpoolNext

-----------------------------------------------------------------------------
(* Completeness *)

KeptSeqs == Seqs(file) \cup Seqs(memory)

\* What of the outputs W after c is not in K is older than all of K.
OldestLost(K, W, c) ==
    \A q \in W : q > c /\ q \notin K => \A p \in K \cap W : p > c => p > q
NoneLost(K, W, c) == \A q \in W : q > c => q \in K

CompleteInv ==
    /\ OldestLost(KeptSeqs, written, covered)
    /\ cut \/ NoneLost(KeptSeqs, written, covered)

LEMMA LiveSeqs == SpoolInv /\ AllWhole(file) => Seqs(Live) = KeptSeqs
<1> SUFFICES ASSUME SpoolInv, AllWhole(file) PROVE Seqs(Live) = KeptSeqs
  OBVIOUS
<1> DEFINE f == Readable(file)
<1>0. memory \in Seq(ReplayFrame) /\ file \in Seq(Record)
  BY DEF SpoolInv, SpoolTypeOK
<1>1. /\ f \in Seq(ReplayFrame) /\ Len(f) = Len(file)
      /\ \A k \in 1..Len(file) : f[k].seq = file[k].seq
  BY <1>0, Reads DEF AllWhole
<1>3. Live = f \o memory
  BY DEF Live
<1> HIDE DEF f
<1>4. /\ DOMAIN file = 1..Len(file) /\ Len(file) \in Nat
      /\ DOMAIN memory = 1..Len(memory) /\ Len(memory) \in Nat
      /\ DOMAIN Live = 1..Len(file) + Len(memory)
      /\ \A k \in 1..Len(file) + Len(memory) :
           Live[k] = IF k <= Len(file) THEN f[k] ELSE memory[k - Len(file)]
  <2>1. DOMAIN (f \o memory) = 1..Len(f) + Len(memory)
    BY <1>0, <1>1
  <2>2. \A k \in 1..Len(f) + Len(memory) :
          (f \o memory)[k] = IF k <= Len(f) THEN f[k] ELSE memory[k - Len(f)]
    BY <1>0, <1>1
  <2>3. /\ DOMAIN file = 1..Len(file) /\ Len(file) \in Nat
        /\ DOMAIN memory = 1..Len(memory) /\ Len(memory) \in Nat
    BY <1>0
  <2> QED
    BY <1>1, <1>3, <2>1, <2>2, <2>3
<1>5. ASSUME NEW q \in Seqs(Live) PROVE q \in KeptSeqs
  <2>1. PICK k \in DOMAIN Live : q = Live[k].seq
    BY <1>5 DEF Seqs
  <2>2. CASE k <= Len(file)
    <3>1. k \in DOMAIN file /\ q = file[k].seq
      BY <1>1, <1>4, <2>1, <2>2
    <3> QED
      BY <3>1 DEF KeptSeqs, Seqs
  <2>3. CASE k > Len(file)
    <3>1. k - Len(file) \in DOMAIN memory /\ q = memory[k - Len(file)].seq
      BY <1>4, <2>1, <2>3
    <3> QED
      BY <3>1 DEF KeptSeqs, Seqs
  <2> QED
    BY <1>4, <2>1, <2>2, <2>3
<1>6. ASSUME NEW q \in KeptSeqs PROVE q \in Seqs(Live)
  <2>1. CASE q \in Seqs(file)
    <3>1. PICK k \in DOMAIN file : q = file[k].seq
      BY <2>1 DEF Seqs
    <3>2. k \in DOMAIN Live /\ Live[k].seq = q
      BY <1>1, <1>4, <3>1
    <3> QED
      BY <3>2 DEF Seqs
  <2>2. CASE q \in Seqs(memory)
    <3>1. PICK k \in DOMAIN memory : q = memory[k].seq
      BY <2>2 DEF Seqs
    <3>2. Len(file) + k \in DOMAIN Live /\ Live[Len(file) + k].seq = q
      BY <1>4, <3>1
    <3> QED
      BY <3>2 DEF Seqs
  <2> QED
    BY <1>6, <2>1, <2>2 DEF KeptSeqs
<1> QED
  BY <1>5, <1>6

\* The same outputs after the checkpoint are kept: nothing more is lost.
LEMMA LostAlike ==
    ASSUME NEW K, NEW L, NEW W \in SUBSET Nat, NEW c \in Nat, NEW d \in Nat, c <= d,
           \A q \in W : q > d => (q \in K <=> q \in L)
    PROVE  /\ OldestLost(K, W, c) => OldestLost(L, W, d)
           /\ NoneLost(K, W, c) => NoneLost(L, W, d)
<1>1. \A q \in W : q > d => q > c
  OBVIOUS
<1>2. ASSUME OldestLost(K, W, c), NEW q \in W, q > d, q \notin L, NEW p \in L \cap W, p > d
      PROVE  p > q
  <2>1. q > c /\ p > c /\ q \notin K /\ p \in K
    BY <1>1, <1>2
  <2> QED
    BY <1>2, <2>1 DEF OldestLost
<1>3. OldestLost(K, W, c) => OldestLost(L, W, d)
  BY <1>2 DEF OldestLost
<1>4. NoneLost(K, W, c) => NoneLost(L, W, d)
  BY <1>1 DEF NoneLost
<1> QED
  BY <1>3, <1>4

\* The newest output is kept: nothing more is lost.
LEMMA LostPushed ==
    ASSUME NEW K, NEW e \in Nat, NEW W \in SUBSET (1..e), NEW c \in Nat
    PROVE  /\ OldestLost(K, W, c) => OldestLost(K \cup {e + 1}, W \cup {e + 1}, c)
           /\ NoneLost(K, W, c) => NoneLost(K \cup {e + 1}, W \cup {e + 1}, c)
  BY DEF OldestLost, NoneLost

\* What a cut leaves is newer than what it takes.
LEMMA LostCut ==
    ASSUME NEW K \in SUBSET Nat, NEW L \in SUBSET K, NEW W \in SUBSET Nat, NEW c \in Nat,
           \A q \in K \ L, p \in L : p > q, OldestLost(K, W, c)
    PROVE  OldestLost(L, W, c)
  BY DEF OldestLost

\* The numbers of an end of the records, and of the frames.
LEMMA EndRecords ==
    ASSUME NEW r \in Seq(Record), NEW n1 \in Nat, n1 = Len(r), NEW k \in 0..n1,
           NEW p \in Seq(Record), Len(p) = n1 - k, \A i \in 1..n1 - k : p[i].seq = r[k + i].seq
    PROVE  Seqs(p) = {r[i].seq : i \in k + 1..n1}
<1>1. DOMAIN p = 1..n1 - k
  OBVIOUS
<1>2. ASSUME NEW q \in Seqs(p) PROVE q \in {r[i].seq : i \in k + 1..n1}
  <2>1. PICK i \in 1..n1 - k : q = r[k + i].seq
    BY <1>1, <1>2 DEF Seqs
  <2>2. k + i \in k + 1..n1
    OBVIOUS
  <2> QED
    BY <2>1, <2>2
<1>3. ASSUME NEW i \in k + 1..n1 PROVE r[i].seq \in Seqs(p)
  <2>1. i - k \in 1..n1 - k /\ k + (i - k) = i
    OBVIOUS
  <2>2. p[i - k].seq = r[i].seq
    BY <2>1
  <2> QED
    BY <1>1, <2>1, <2>2 DEF Seqs
<1> QED
  BY <1>2, <1>3

LEMMA EndFrames ==
    ASSUME NEW r \in Seq(ReplayFrame), NEW n1 \in Nat, n1 = Len(r), NEW k \in 0..n1,
           NEW p \in Seq(ReplayFrame), Len(p) = n1 - k, \A i \in 1..n1 - k : p[i].seq = r[k + i].seq
    PROVE  Seqs(p) = {r[i].seq : i \in k + 1..n1}
<1>1. DOMAIN p = 1..n1 - k
  OBVIOUS
<1>2. ASSUME NEW q \in Seqs(p) PROVE q \in {r[i].seq : i \in k + 1..n1}
  <2>1. PICK i \in 1..n1 - k : q = r[k + i].seq
    BY <1>1, <1>2 DEF Seqs
  <2>2. k + i \in k + 1..n1
    OBVIOUS
  <2> QED
    BY <2>1, <2>2
<1>3. ASSUME NEW i \in k + 1..n1 PROVE r[i].seq \in Seqs(p)
  <2>1. i - k \in 1..n1 - k /\ k + (i - k) = i
    OBVIOUS
  <2>2. p[i - k].seq = r[i].seq
    BY <2>1
  <2> QED
    BY <1>1, <2>1, <2>2 DEF Seqs
<1> QED
  BY <1>2, <1>3

LEMMA CompleteStep ==
    /\ DiskFaults \subseteq {"refused"}
    /\ SpoolInv /\ MarkedInv /\ CompleteInv /\ [SpoolNext]_spoolVars
    => CompleteInv'
<1> SUFFICES ASSUME DiskFaults \subseteq {"refused"}, SpoolInv, MarkedInv, CompleteInv,
                    [SpoolNext]_spoolVars
             PROVE  CompleteInv'
  OBVIOUS
<1>0. /\ SpoolTypeOK /\ Chain(file, memory, events)
      /\ memory \in Seq(ReplayFrame) /\ file \in Seq(Record) /\ events \in Nat
      /\ covered \in Nat /\ faults \in Nat /\ cut \in BOOLEAN
      /\ AllWhole(file) /\ Marked(file, written) /\ Marked(memory, written)
      /\ written \in SUBSET (1..events) /\ written \in SUBSET Nat
      /\ "torn" \notin DiskFaults /\ "lost" \notin DiskFaults
      /\ OldestLost(KeptSeqs, written, covered)
      /\ cut \/ NoneLost(KeptSeqs, written, covered)
  BY SpoolConstants DEF SpoolInv, SpoolTypeOK, MarkedInv, CompleteInv
<1>f. SUFFICES ASSUME NEW K1, K1 = Seqs(file') \cup Seqs(memory')
               PROVE  /\ OldestLost(K1, written', covered')
                      /\ cut' \/ NoneLost(K1, written', covered')
  BY DEF CompleteInv, KeptSeqs
<1>g. ASSUME written' = written, covered' \in Nat, covered <= covered', cut' = cut,
             \A q \in written : q > covered' => (q \in KeptSeqs <=> q \in K1)
      PROVE  /\ OldestLost(K1, written', covered')
             /\ cut' \/ NoneLost(K1, written', covered')
  <2>1. PICK c1 : c1 = covered'
    OBVIOUS
  <2>2. /\ OldestLost(KeptSeqs, written, covered) => OldestLost(K1, written, c1)
        /\ NoneLost(KeptSeqs, written, covered) => NoneLost(K1, written, c1)
    BY <1>0, <1>g, <2>1, LostAlike
  <2> QED
    BY <1>0, <1>g, <2>1, <2>2, Zenon
<1>1. CASE SpoolPush
  <2>1. /\ memory' = Append(memory, [seq |-> events + 1, data |-> TRUE])
        /\ written' = written \cup {events + 1} /\ file' = file /\ covered' = covered /\ cut' = cut
    BY <1>1 DEF SpoolPush
  <2>2. Seqs(Append(memory, [seq |-> events + 1, data |-> TRUE])) = Seqs(memory) \cup {events + 1}
    <3>1. PICK f : f = [seq |-> events + 1, data |-> TRUE]
      OBVIOUS
    <3>2. f.seq = events + 1
      BY <3>1
    <3>3. Seqs(Append(memory, f)) = Seqs(memory) \cup {f.seq}
      BY <1>0, SeqsPushed
    <3> QED
      BY <3>1, <3>2, <3>3, Zenon
  <2>3. K1 = KeptSeqs \cup {events + 1}
    BY <1>f, <2>1, <2>2, Zenon DEF KeptSeqs
  <2>4. /\ OldestLost(KeptSeqs, written, covered) =>
             OldestLost(KeptSeqs \cup {events + 1}, written \cup {events + 1}, covered)
        /\ NoneLost(KeptSeqs, written, covered) =>
             NoneLost(KeptSeqs \cup {events + 1}, written \cup {events + 1}, covered)
    BY <1>0, LostPushed
  <2> QED
    BY <1>0, <2>1, <2>3, <2>4, Zenon
<1>2. CASE SpoolSpill
  <2>1. /\ spilling
        /\ Cap(Append(file, ToRecord(Head(memory), TRUE)))
        /\ memory' = Tail(memory) /\ written' = written /\ covered' = covered
    BY <1>2 DEF SpoolSpill
  <2>2. PICK r : r = Append(file, ToRecord(Head(memory), TRUE))
    OBVIOUS
  <2>3. Appended(r) /\ Cap(r)
    BY <2>1, <2>2, AppendedShape, Zenon
  <2>4. /\ r \in Seq(Record) /\ Len(r) \in Nat /\ DOMAIN r = 1..Len(r)
        /\ Chain(r, Tail(memory), events) /\ AllWhole(r) /\ Tail(memory) \in Seq(ReplayFrame)
        /\ Seqs(r) = Seqs(file) \cup {Head(memory).seq}
        /\ Seqs(memory) = {Head(memory).seq} \cup Seqs(Tail(memory))
    BY <2>3 DEF Appended
  <2>5. KeptSeqs = Seqs(r) \cup Seqs(Tail(memory))
    BY <2>4, Zenon DEF KeptSeqs
  <2>6. /\ cut' \in BOOLEAN /\ (cut => cut')
        /\ \/ file' = r
           \/ \E k \in 0..Len(r) :
                   /\ file' \in Seq(Record) /\ Len(file') = Len(r) - k
                   /\ \A i \in 1..Len(r) - k : file'[i].seq = r[k + i].seq
                   /\ cut' <=> cut \/ k > 0
    BY <1>0, <2>3, CappedShape, Zenon
  <2>7. CASE file' = r
    <3>1. K1 = KeptSeqs
      BY <1>f, <2>1, <2>5, <2>7, Zenon
    <3> QED
      BY <1>0, <2>1, <2>6, <3>1, Zenon
  <2>8. CASE \E k \in 0..Len(r) :
                   /\ file' \in Seq(Record) /\ Len(file') = Len(r) - k
                   /\ \A i \in 1..Len(r) - k : file'[i].seq = r[k + i].seq
                   /\ cut' <=> cut \/ k > 0
    <3>1. PICK k \in 0..Len(r) :
                   /\ file' \in Seq(Record) /\ Len(file') = Len(r) - k
                   /\ \A i \in 1..Len(r) - k : file'[i].seq = r[k + i].seq
                   /\ cut' <=> cut \/ k > 0
      BY <2>8
    <3> DEFINE A == {r[i].seq : i \in k + 1..Len(r)}
               T == Seqs(Tail(memory))
    <3>2. Seqs(file') = A
      BY <2>4, <3>1, EndRecords
    <3>3. K1 = A \cup T
      BY <1>f, <2>1, <3>2
    <3>4. \A i \in 1..Len(r) : r[i].seq \in Nat /\ \A x \in T : x > r[i].seq /\ x \in Nat
      <4>1. \A i \in 1..Len(r) : r[i] \in Record /\ r[i].whole
        BY <2>4 DEF AllWhole
      <4>2. \A j \in DOMAIN Tail(memory) : Tail(memory)[j] \in ReplayFrame
        BY <2>4
      <4>3. \A i \in 1..Len(r), j \in DOMAIN Tail(memory) : r[i].seq < Tail(memory)[j].seq
        BY <2>4, <4>1 DEF Chain
      <4> QED
        BY <4>1, <4>2, <4>3, SpoolConstants DEF Seqs, Record, ReplayFrame
    <3>5. \A i, j \in 1..Len(r) : i < j => r[i].seq < r[j].seq
      BY <2>4 DEF Chain, AllWhole
    <3>t. T \in SUBSET Nat
      <4>1. \A j \in DOMAIN Tail(memory) : Tail(memory)[j] \in ReplayFrame
        BY <2>4
      <4> QED
        BY <4>1, SpoolConstants DEF Seqs, ReplayFrame
    <3>6. Seqs(r) = {r[i].seq : i \in 1..Len(r)}
      BY <2>4 DEF Seqs
    <3>7. KeptSeqs \in SUBSET Nat /\ K1 \in SUBSET KeptSeqs
      <4>1. k + 1..Len(r) \subseteq 1..Len(r)
        BY <2>4
      <4>2. A \subseteq Seqs(r) /\ Seqs(r) \subseteq Nat
        BY <3>4, <3>6, <4>1
      <4> HIDE DEF A, T
      <4>3. KeptSeqs = Seqs(r) \cup T
        BY <2>5 DEF T
      <4> QED
        BY <3>3, <3>t, <4>2, <4>3
    <3>8. ASSUME NEW q \in KeptSeqs \ K1, NEW p \in K1 PROVE p > q
      <4>1. q \in Seqs(r) /\ q \notin A
        BY <2>5, <3>3, <3>8
      <4>2. PICK i \in 1..Len(r) : q = r[i].seq /\ i <= k
        BY <2>4, <3>6, <4>1
      <4>3. CASE p \in T
        BY <3>4, <4>2, <4>3
      <4>4. CASE p \in A
        <5>1. PICK j \in k + 1..Len(r) : p = r[j].seq
          BY <4>4
        <5>2. i < j /\ j \in 1..Len(r)
          BY <2>4, <4>2, <5>1
        <5> QED
          BY <3>4, <3>5, <4>2, <5>1, <5>2
      <4> QED
        BY <3>3, <4>3, <4>4
    <3>9. k = 0 => K1 = KeptSeqs
      BY <2>4, <2>5, <3>3, <3>6
    <3> HIDE DEF A, T
    <3>10. OldestLost(K1, written, covered)
      BY <1>0, <3>7, <3>8, LostCut
    <3>11. k > 0 \/ k = 0
      BY <2>4
    <3> QED
      BY <1>0, <2>1, <2>6, <3>1, <3>9, <3>10, <3>11, Zenon
  <2> QED
    BY <2>6, <2>7, <2>8
<1>3. CASE SpoolRefused
  <2>1. /\ file' = file /\ memory' = memory /\ covered' = covered /\ cut' = cut
        /\ written' = written
    BY <1>0, <1>3 DEF SpoolRefused
  <2>2. K1 = KeptSeqs
    BY <1>f, <2>1 DEF KeptSeqs
  <2> QED
    BY <1>0, <2>1, <2>2, Zenon
<1>4. CASE SpoolResize
  <2> DEFINE f == [seq |-> events + 1, data |-> FALSE]
  <2>1. /\ file' = file /\ covered' = covered /\ cut' = cut /\ written' = written
        /\ \/ memory # <<>> /\ ~memory[Len(memory)].data
              /\ memory' = [memory EXCEPT ![Len(memory)] = f]
           \/ memory' = Append(memory, f)
    BY <1>4 DEF SpoolResize
  <2>2. f.seq = events + 1
    OBVIOUS
  <2>3. f.seq \notin written
    BY <1>0, <2>2
  <2> HIDE DEF f
  <2>4. ASSUME NEW q \in written PROVE q \in Seqs(memory) <=> q \in Seqs(memory')
    <3>1. CASE memory' = Append(memory, f)
      <4>1. Seqs(memory') = Seqs(memory) \cup {f.seq}
        BY <1>0, <3>1, SeqsPushed
      <4> QED
        BY <2>3, <4>1
    <3>2. CASE memory # <<>> /\ ~memory[Len(memory)].data
               /\ memory' = [memory EXCEPT ![Len(memory)] = f]
      <4>1. DOMAIN memory' = DOMAIN memory /\ Len(memory) \in DOMAIN memory
            /\ memory'[Len(memory)] = f
            /\ \A i \in DOMAIN memory : i # Len(memory) => memory'[i] = memory[i]
        BY <1>0, <3>2
      <4>2. memory[Len(memory)].seq \notin written
        BY <1>0, <3>2, <4>1 DEF Marked
      <4>3. q \in Seqs(memory) => q \in Seqs(memory')
        BY <4>1, <4>2 DEF Seqs
      <4>4. q \in Seqs(memory') => q \in Seqs(memory)
        BY <2>3, <4>1 DEF Seqs
      <4> QED
        BY <4>3, <4>4
    <3> QED
      BY <2>1, <3>1, <3>2
  <2>5. \A q \in written : q > covered' => (q \in KeptSeqs <=> q \in K1)
    BY <1>f, <2>1, <2>4 DEF KeptSeqs
  <2>6. covered' \in Nat /\ covered <= covered'
    BY <1>0, <2>1
  <2> QED
    BY <1>g, <2>1, <2>5, <2>6
<1>5. CASE SpoolCheckpoint
  <2>1. written' = written /\ events' = events /\ cut' = cut
    BY <1>5 DEF SpoolCheckpoint
  <2>2. PICK s \in covered + 1..events : \E k \in 0..Len(memory) :
           /\ covered' = s
           /\ \A i \in 1..k : memory[i].seq <= s
           /\ memory' = FromFrame(memory, k) /\ Rewrite(file, After(Readable(file), s))
    BY <1>5 DEF SpoolCheckpoint
  <2>3. PICK k \in 0..Len(memory) : /\ memory' = FromFrame(memory, k)
                                    /\ \A i \in 1..k : memory[i].seq <= s
    BY <2>2
  <2>4. s \in Nat /\ covered' = s /\ covered <= s
    BY <1>0, <2>2
  <2>5. \A q \in written : q > s => (q \in Seqs(memory) <=> q \in Seqs(memory'))
    <3>1. DOMAIN memory' = 1..Len(memory) - k
          /\ \A i \in 1..Len(memory) - k : memory'[i] = memory[k + i]
      BY <1>0, <2>3, EndOf
    <3>2. Len(memory) \in Nat /\ DOMAIN memory = 1..Len(memory)
      BY <1>0
    <3>3. ASSUME NEW q \in Seqs(memory') PROVE q \in Seqs(memory)
      <4>1. PICK i \in 1..Len(memory) - k : q = memory[k + i].seq
        BY <3>1, <3>3 DEF Seqs
      <4>2. k + i \in DOMAIN memory
        BY <2>3, <3>2
      <4> QED
        BY <4>1, <4>2 DEF Seqs
    <3>4. ASSUME NEW q \in Seqs(memory), q \in Nat, q > s PROVE q \in Seqs(memory')
      <4>1. PICK i \in 1..Len(memory) : q = memory[i].seq
        BY <3>2, <3>4 DEF Seqs
      <4>2. ~(i <= k)
        BY <2>3, <2>4, <3>2, <3>4, <4>1
      <4>3. i - k \in 1..Len(memory) - k /\ k + (i - k) = i
        BY <2>3, <3>2, <4>2
      <4>4. i - k \in DOMAIN memory' /\ memory'[i - k] = memory[i]
        BY <3>1, <4>3
      <4> QED
        BY <4>1, <4>4 DEF Seqs
    <3> QED
      BY <1>0, <3>3, <3>4
  <2>6. \A q \in written : q > s => (q \in Seqs(file) <=> q \in Seqs(file'))
    <3>1. CASE file' = file
      BY <3>1
    <3>2. CASE \E m \in 0..Len(file) : \E d \in 0..m :
                   /\ file' \in Seq(Record) /\ Len(file') = m - d
                   /\ \A i \in 1..d : file[i].seq <= s
                   /\ \A i \in 1..m - d : file'[i].seq = file[d + i].seq
                   /\ m = Len(file)
      <4>0. Len(file) \in Nat /\ DOMAIN file = 1..Len(file)
        BY <1>0
      <4>1. PICK d \in 0..Len(file) :
                   /\ file' \in Seq(Record) /\ Len(file') = Len(file) - d
                   /\ \A i \in 1..d : file[i].seq <= s
                   /\ \A i \in 1..Len(file) - d : file'[i].seq = file[d + i].seq
        BY <3>2
      <4>2. Seqs(file') = {file[i].seq : i \in d + 1..Len(file)}
        BY <1>0, <4>0, <4>1, EndRecords
      <4>3. ASSUME NEW q \in Seqs(file') PROVE q \in Seqs(file)
        <5>1. d + 1..Len(file) \subseteq DOMAIN file
          BY <4>0, <4>1
        <5> QED
          BY <4>2, <4>3, <5>1 DEF Seqs
      <4>4. ASSUME NEW q \in Seqs(file), q \in Nat, q > s PROVE q \in Seqs(file')
        <5>1. PICK i \in 1..Len(file) : q = file[i].seq
          BY <4>0, <4>4 DEF Seqs
        <5>2. i \in d + 1..Len(file)
          BY <2>4, <4>0, <4>1, <4>4, <5>1
        <5> QED
          BY <4>2, <5>1, <5>2
      <4> QED
        BY <1>0, <4>3, <4>4
    <3>5. \A i \in DOMAIN file : file[i].whole
      BY <1>0 DEF AllWhole
    <3>6. \/ file' = file
          \/ \E m \in 0..Len(file) : \E d \in 0..m :
                   /\ file' \in Seq(Record) /\ Len(file') = m - d
                   /\ \A i \in 1..d : file[i].seq <= s
                   /\ \A i \in 1..m - d : file'[i].seq = file[d + i].seq
                   /\ (\A i \in DOMAIN file : file[i].whole) => m = Len(file)
      <4>1. Rewrite(file, After(Readable(file), s))
        BY <2>2
      <4> QED
        BY <1>0, <2>4, <4>1, FileAfter, Zenon
    <3> QED
      BY <3>1, <3>2, <3>5, <3>6, Zenon
  <2>7. \A q \in written : q > covered' => (q \in KeptSeqs <=> q \in K1)
    BY <1>f, <2>4, <2>5, <2>6 DEF KeptSeqs
  <2> QED
    BY <1>g, <2>1, <2>4, <2>7
<1>6. CASE UNCHANGED spoolVars
  <2>1. /\ file' = file /\ memory' = memory /\ covered' = covered /\ cut' = cut
        /\ written' = written
    BY <1>6 DEF spoolVars
  <2>2. K1 = KeptSeqs
    BY <1>f, <2>1 DEF KeptSeqs
  <2> QED
    BY <1>0, <2>1, <2>2, Zenon
<1> QED
  BY <1>1, <1>2, <1>3, <1>4, <1>5, <1>6 DEF SpoolNext

LEMMA MarkedInit == SpoolInit => MarkedInv
  BY DEF SpoolInit, MarkedInv, AllWhole, Marked

\* On a disk that only refuses; a record that stays torn, or a file that is lost
\* in a rewrite, breaks it.
THEOREM CompleteEver ==
    ASSUME DiskFaults \subseteq {"refused"}
    PROVE  SpoolSpec => []Complete
<1>1. SpoolInit => CompleteInv
  BY DEF SpoolInit, CompleteInv, OldestLost, NoneLost
<1>2. SpoolInv /\ MarkedInv /\ CompleteInv /\ [SpoolNext]_spoolVars => MarkedInv' /\ CompleteInv'
  BY MarkedStep, CompleteStep DEF Kind
<1>3. SpoolInv /\ MarkedInv /\ CompleteInv => Complete
  BY LiveSeqs DEF MarkedInv, CompleteInv, Complete, OldestLost, NoneLost
<1> QED
  BY SpoolInvAlways, MarkedInit, <1>1, <1>2, <1>3, PTL DEF SpoolSpec

-----------------------------------------------------------------------------
(* The newest frames within a budget *)

\* Every number of S is before every number of T.
Before(S, T) == \A x \in S, y \in T : x < y
\* The budget cuts something off S.
Cuts(S, W, cap) == Newest(S, W, cap) # S
CountFrom(S, W, x) == Cardinality({m \in S \cap W : m >= x})

LEMMA CountNat ==
    ASSUME NEW S \in SUBSET Nat, IsFiniteSet(S), NEW W, NEW x
    PROVE  /\ IsFiniteSet({m \in S \cap W : m >= x}) /\ CountFrom(S, W, x) \in Nat
           /\ IsFiniteSet(S \cap W) /\ Cardinality(S \cap W) \in Nat
           /\ CountFrom(S, W, x) <= Cardinality(S \cap W)
<1>1. IsFiniteSet(S \cap W)
  BY FS_Subset
<1>2. {m \in S \cap W : m >= x} \in SUBSET (S \cap W)
  OBVIOUS
<1> QED
  BY <1>1, <1>2, FS_Subset, FS_CardinalityType DEF CountFrom

LEMMA CountPart ==
    ASSUME NEW S \in SUBSET Nat, IsFiniteSet(S), NEW R \in SUBSET S, NEW W, NEW x
    PROVE  IsFiniteSet(R) /\ CountFrom(R, W, x) \in Nat /\ CountFrom(R, W, x) <= CountFrom(S, W, x)
<1> DEFINE A == {m \in S \cap W : m >= x}
           B == {m \in R \cap W : m >= x}
<1>1. B \in SUBSET A /\ R \in SUBSET Nat
  OBVIOUS
<1>2. IsFiniteSet(R)
  BY FS_Subset
<1>3. IsFiniteSet(A)
  BY CountNat
<1>4. Cardinality(B) <= Cardinality(A)
  <2> HIDE DEF A, B
  <2> QED
    BY <1>1, <1>3, FS_Subset
<1>5. CountFrom(R, W, x) \in Nat
  BY <1>1, <1>2, CountNat
<1> QED
  BY <1>2, <1>4, <1>5 DEF CountFrom

LEMMA CountLater ==
    ASSUME NEW S \in SUBSET Nat, IsFiniteSet(S), NEW W, NEW x \in S, NEW m \in S, m >= x
    PROVE  /\ CountFrom(S, W, m) <= CountFrom(S, W, x)
           /\ CountFrom(S, W, m) \in Nat /\ CountFrom(S, W, x) \in Nat
<1> DEFINE C == {y \in S \cap W : y >= m}
           D == {y \in S \cap W : y >= x}
<1>0. \A y \in S : y >= m => y >= x
  <2>1. x \in Nat /\ m \in Nat /\ m >= x /\ \A y \in S : y \in Nat
    OBVIOUS
  <2> HIDE DEF C, D
  <2> QED
    BY <2>1
<1>1. C \in SUBSET D
  BY <1>0, Zenon
<1>2. IsFiniteSet(D)
  BY CountNat
<1>3. Cardinality(C) <= Cardinality(D)
  <2> HIDE DEF C, D
  <2> QED
    BY <1>1, <1>2, FS_Subset
<1> QED
  BY <1>3, CountNat DEF CountFrom

LEMMA NewestOf == \A S, W, cap : Newest(S, W, cap) = {x \in S : CountFrom(S, W, x) <= cap}
  BY DEF Newest, CountFrom

\* Everything stays within a budget that is large enough.
LEMMA NewestAll ==
    ASSUME NEW S \in SUBSET Nat, IsFiniteSet(S), NEW W, NEW cap \in Nat, Cardinality(S \cap W) <= cap
    PROVE  Newest(S, W, cap) = S
<1>1. ASSUME NEW x \in S PROVE CountFrom(S, W, x) <= cap
  <2>1. /\ CountFrom(S, W, x) \in Nat /\ Cardinality(S \cap W) \in Nat
        /\ CountFrom(S, W, x) <= Cardinality(S \cap W)
    BY CountNat
  <2> QED
    BY <2>1
<1> QED
  BY <1>1, NewestOf

\* Newer frames that come later make no difference to what an earlier cut has taken.
LEMMA NewestMore ==
    ASSUME NEW S \in SUBSET Nat, IsFiniteSet(S), NEW X \in SUBSET Nat, IsFiniteSet(X),
           Before(S, X), NEW W, NEW cap \in Nat
    PROVE  /\ Newest(Newest(S, W, cap) \cup X, W, cap) = Newest(S \cup X, W, cap)
           /\ Cuts(S, W, cap) => Cuts(S \cup X, W, cap)
<1> DEFINE N == Newest(S, W, cap)
           A == S \cup X
           B == N \cup X
<1>1. N \in SUBSET S
  BY DEF Newest
<1>2. IsFiniteSet(A) /\ A \in SUBSET Nat /\ B \in SUBSET A /\ IsFiniteSet(B)
  <2>1. IsFiniteSet(S \cup X)
    BY FS_Union
  <2>2. A \in SUBSET Nat /\ B \in SUBSET A
    BY <1>1
  <2>3. IsFiniteSet(A)
    BY <2>1
  <2> HIDE DEF A, B
  <2> QED
    BY <2>2, <2>3, FS_Subset
<1>3. \A x \in S : x \in N <=> CountFrom(S, W, x) <= cap
  BY NewestOf
<1>4. ASSUME NEW x \in S, x \notin N PROVE ~(CountFrom(A, W, x) <= cap)
  <2>1. S \in SUBSET A
    OBVIOUS
  <2>2. CountFrom(S, W, x) <= CountFrom(A, W, x) /\ CountFrom(S, W, x) \in Nat
        /\ CountFrom(A, W, x) \in Nat
    BY <1>2, <2>1, CountPart, CountNat
  <2> QED
    BY <1>3, <1>4, <2>2
<1>5. ASSUME NEW x \in N PROVE CountFrom(A, W, x) = CountFrom(B, W, x)
  <2>1. ASSUME NEW m \in S, m >= x PROVE m \in N
    <3>4. CountFrom(S, W, m) <= CountFrom(S, W, x) /\ CountFrom(S, W, m) \in Nat
          /\ CountFrom(S, W, x) \in Nat
      BY <1>1, <2>1, CountLater
    <3>5. CountFrom(S, W, x) <= cap
      BY <1>1, <1>3
    <3> HIDE DEF N
    <3> QED
      BY <1>3, <2>1, <3>4, <3>5
  <2>2. {m \in A \cap W : m >= x} = {m \in B \cap W : m >= x}
    <3> HIDE DEF N
    <3> QED
      BY <1>1, <2>1
  <2> QED
    BY <2>2 DEF CountFrom
<1>6. ASSUME NEW x \in X PROVE CountFrom(A, W, x) = CountFrom(B, W, x)
  <2>1. {m \in A \cap W : m >= x} = {m \in B \cap W : m >= x}
    <3> HIDE DEF N
    <3>1. \A m \in S : ~(m >= x)
      BY DEF Before
    <3> QED
      BY <1>1, <3>1
  <2> QED
    BY <2>1 DEF CountFrom
<1>7. Newest(A, W, cap) = Newest(B, W, cap)
  <2>1. /\ Newest(A, W, cap) = {x \in A : CountFrom(A, W, x) <= cap}
        /\ Newest(B, W, cap) = {x \in B : CountFrom(B, W, x) <= cap}
    BY NewestOf
  <2>2. ASSUME NEW x \in A PROVE CountFrom(A, W, x) <= cap <=> x \in B /\ CountFrom(B, W, x) <= cap
    <3>1. CASE x \in X
      BY <1>6, <3>1
    <3>2. CASE x \in N
      BY <1>5, <3>2
    <3>3. CASE x \in S /\ x \notin N /\ x \notin X
      BY <1>4, <3>3
    <3> QED
      BY <3>1, <3>2, <3>3
  <2> HIDE DEF A, B
  <2> QED
    BY <1>2, <2>1, <2>2
<1>8. ASSUME N # S PROVE Newest(A, W, cap) # A
  <2>1. PICK x \in S : x \notin N
    BY <1>1, <1>8
  <2>2. x \in A /\ ~(CountFrom(A, W, x) <= cap)
    BY <1>4, <2>1
  <2> HIDE DEF A
  <2> QED
    BY <2>2, NewestOf
<1> QED
  BY <1>7, <1>8 DEF Cuts

\* A frame before all others, over the budget, is not among the newest.
LEMMA NewestDrop ==
    ASSUME NEW T \in SUBSET Nat, IsFiniteSet(T), NEW h \in Nat, \A y \in T : h < y,
           NEW W, NEW cap \in Nat, Cardinality(({h} \cup T) \cap W) > cap
    PROVE  Newest({h} \cup T, W, cap) = Newest(T, W, cap)
<1> DEFINE M == {h} \cup T
<1>1. IsFiniteSet(M) /\ M \in SUBSET Nat
  BY FS_AddElement, FS_Singleton, FS_Union
<1>2. CountFrom(M, W, h) > cap
  <2>0. \A m \in M : m >= h
    OBVIOUS
  <2>1. {m \in M \cap W : m >= h} = M \cap W
    BY <2>0, Zenon
  <2> QED
    BY <2>1 DEF CountFrom
<1>3. \A x \in T : CountFrom(M, W, x) = CountFrom(T, W, x)
  <2> SUFFICES ASSUME NEW x \in T PROVE CountFrom(M, W, x) = CountFrom(T, W, x)
    OBVIOUS
  <2>1. {m \in M \cap W : m >= x} = {m \in T \cap W : m >= x}
    OBVIOUS
  <2> QED
    BY <2>1 DEF CountFrom
<1>4. h \notin T
  OBVIOUS
<1>5. /\ Newest(M, W, cap) = {x \in M : CountFrom(M, W, x) <= cap}
      /\ Newest(T, W, cap) = {x \in T : CountFrom(T, W, x) <= cap}
  BY NewestOf
<1>6. ~(CountFrom(M, W, h) <= cap)
  <2>1. CountFrom(M, W, h) \in Nat
    BY <1>1, CountNat
  <2> QED
    BY <1>2, <2>1
<1>7. \A x \in M : CountFrom(M, W, x) <= cap <=> x \in T /\ CountFrom(T, W, x) <= cap
  BY <1>3, <1>6
<1>8. T \subseteq M
  OBVIOUS
<1> HIDE DEF M
<1>9. Newest(M, W, cap) = Newest(T, W, cap)
  BY <1>5, <1>7, <1>8
<1> QED
  BY <1>9 DEF M

\* One round of the loop: memory M, over its limit, gives its oldest frame h to the
\* spool F, of which N is kept; D and E is what goes to the spool when the whole
\* loop is taken at once, from before the round and from after it.
Round(F, T, h, W, N, M, D, E) ==
    /\ F \in SUBSET Nat /\ IsFiniteSet(F) /\ T \in SUBSET Nat /\ IsFiniteSet(T) /\ h \in Nat
    /\ \A x \in F : x < h
    /\ \A y \in T : h < y
    /\ Cardinality(({h} \cup T) \cap W) > MemMax
    /\ N = Newest(F \cup {h}, W, SpoolMax)
    /\ M = {h} \cup T
    /\ D = F \cup (M \ Newest(M, W, MemMax))
    /\ E = N \cup (T \ Newest(T, W, MemMax))

\* A round does not change what the loop will leave.
LEMMA RoundSettles ==
    ASSUME NEW F, NEW T, NEW h, NEW W, NEW N, NEW M, NEW D, NEW E, Round(F, T, h, W, N, M, D, E)
    PROVE  /\ Newest(M, W, MemMax) = Newest(T, W, MemMax)
           /\ Newest(D, W, SpoolMax) = Newest(E, W, SpoolMax)
           /\ Cuts(D, W, SpoolMax) <=> Cuts(F \cup {h}, W, SpoolMax) \/ Cuts(E, W, SpoolMax)
<1>0. /\ F \in SUBSET Nat /\ IsFiniteSet(F) /\ T \in SUBSET Nat /\ IsFiniteSet(T) /\ h \in Nat
      /\ \A x \in F : x < h
      /\ \A y \in T : h < y
      /\ Cardinality(({h} \cup T) \cap W) > MemMax
      /\ N = Newest(F \cup {h}, W, SpoolMax)
      /\ M = {h} \cup T
      /\ D = F \cup (M \ Newest(M, W, MemMax))
      /\ E = N \cup (T \ Newest(T, W, MemMax))
  BY Zenon DEF Round
<1> USE <1>0
<1> USE BufferCaps
<1>1. Newest(M, W, MemMax) = Newest(T, W, MemMax)
  BY NewestDrop
<1> DEFINE X == T \ Newest(T, W, MemMax)
           S == F \cup {h}
<1>2. h \notin Newest(T, W, MemMax)
  BY DEF Newest
<1>3. D = S \cup X /\ E = N \cup X
  BY <1>1, <1>2
<1>4. IsFiniteSet(S) /\ S \in SUBSET Nat /\ IsFiniteSet(X) /\ X \in SUBSET Nat
  <2>1. IsFiniteSet(F \cup {h})
    BY FS_Singleton, FS_Union
  <2>2. X \in SUBSET T
    OBVIOUS
  <2>3. IsFiniteSet(X)
    BY <2>2, FS_Subset
  <2> QED
    BY <2>1, <2>2, <2>3
<1>5. Before(S, X)
  BY DEF Before
<1> HIDE DEF X, S
<1>6. N = Newest(S, W, SpoolMax)
  BY DEF S
<1>7. /\ Newest(Newest(S, W, SpoolMax) \cup X, W, SpoolMax) = Newest(S \cup X, W, SpoolMax)
      /\ Cuts(S, W, SpoolMax) => Cuts(S \cup X, W, SpoolMax)
  <2>1. SpoolMax \in Nat
    OBVIOUS
  <2> QED
    BY <1>4, <1>5, <2>1, NewestMore
<1>8. Newest(D, W, SpoolMax) = Newest(E, W, SpoolMax)
  BY <1>3, <1>6, <1>7, Zenon
<1>9. Cuts(D, W, SpoolMax) <=> Cuts(S, W, SpoolMax) \/ Cuts(E, W, SpoolMax)
  <2>1. CASE N = S
    BY <1>3, <1>6, <2>1, Zenon DEF Cuts
  <2>2. CASE N # S
    BY <1>3, <1>6, <1>7, <2>2, Zenon DEF Cuts
  <2> QED
    BY <2>1, <2>2
<1> QED
  BY <1>1, <1>8, <1>9 DEF S

-----------------------------------------------------------------------------
(* The weight of marked frames in order *)

LEMMA Weighs ==
    ASSUME NEW S, NEW q \in Seq(S), Rising(q), \A i \in DOMAIN q : q[i].seq \in Nat,
           NEW W, Marked(q, W)
    PROVE  /\ Seqs(q) \in SUBSET Nat /\ IsFiniteSet(Seqs(q))
           /\ Weight(q) = Cardinality(Seqs(q) \cap W) /\ Weight(q) \in Nat
<1> DEFINE at == {i \in DOMAIN q : q[i].data}
           g == [i \in DOMAIN q |-> q[i].seq]
           h == [i \in at |-> q[i].seq]
<1>0. DOMAIN q = 1..Len(q) /\ Len(q) \in Nat
  OBVIOUS
<1>1. IsFiniteSet(DOMAIN q)
  BY <1>0, FS_Interval
<1>2. IsFiniteSet(at)
  <2>1. at \in SUBSET (DOMAIN q)
    OBVIOUS
  <2> QED
    BY <1>1, <2>1, FS_Subset
<1>3. \A i, j \in DOMAIN q : q[i].seq = q[j].seq => i = j
  <2> SUFFICES ASSUME NEW i \in DOMAIN q, NEW j \in DOMAIN q, q[i].seq = q[j].seq, i # j PROVE FALSE
    OBVIOUS
  <2>1. i < j \/ j < i
    BY <1>0
  <2>2. q[i].seq < q[j].seq \/ q[j].seq < q[i].seq
    BY <2>1 DEF Rising
  <2> QED
    BY <2>2
<1>4. g \in Surjection(DOMAIN q, Seqs(q))
  BY DEF Surjection, Seqs
<1>5. h \in Bijection(at, Seqs(q) \cap W)
  <2>1. h \in [at -> Seqs(q) \cap W]
    BY DEF Seqs, Marked
  <2>2. \A i, j \in at : h[i] = h[j] => i = j
    BY <1>3
  <2>3. \A x \in Seqs(q) \cap W : \E i \in at : h[i] = x
    BY DEF Seqs, Marked
  <2> QED
    BY <2>1, <2>2, <2>3 DEF Bijection, Injection, Surjection, IsInjective
<1> HIDE DEF at, g, h
<1>6. IsFiniteSet(Seqs(q))
  BY <1>1, <1>4, FS_Surjection
<1>7. Cardinality(at) = Cardinality(Seqs(q) \cap W)
  <2>1. ExistsBijection(at, Seqs(q) \cap W)
    BY <1>5 DEF ExistsBijection
  <2> QED
    BY <1>2, <2>1, FS_Bijection
<1>8. Cardinality(at) \in Nat
  BY <1>2, FS_CardinalityType
<1>9. Seqs(q) \in SUBSET Nat
  BY DEF Seqs
<1> QED
  BY <1>6, <1>7, <1>8, <1>9 DEF Weight, at

LEMMA Shifted == \A n1, d \in Nat : \A j \in 1..n1 - d : d + j \in 1..n1 /\ j \in Nat
  OBVIOUS

\* What enforce_spool_cap keeps is the newest that fits.
LEMMA OverflowNewest ==
    ASSUME NEW q \in Seq(ReplayFrame), Rising(q), NEW W, Marked(q, W),
           NEW k, k = Overflow(q), NEW f, f = FromFrame(q, k)
    PROVE  /\ Seqs(f) = Newest(Seqs(q), W, SpoolMax)
           /\ Weight(f) <= SpoolMax
           /\ k > 0 <=> Cuts(Seqs(q), W, SpoolMax)
<1> USE BufferCaps
<1>0. /\ DOMAIN q = 1..Len(q) /\ Len(q) \in Nat
      /\ \A i \in DOMAIN q : q[i].seq \in Nat
  <2>1. DOMAIN q = 1..Len(q) /\ Len(q) \in Nat /\ \A i \in DOMAIN q : q[i] \in ReplayFrame
    OBVIOUS
  <2> QED
    BY <2>1, SpoolConstants DEF ReplayFrame
<1>1. /\ k \in 0..Len(q) /\ Weight(f) <= SpoolMax
      /\ \A j \in 0..k - 1 : Weight(FromFrame(q, j)) > SpoolMax
  BY OverflowFound
<1>2. Seqs(q) \in SUBSET Nat /\ IsFiniteSet(Seqs(q))
  BY <1>0, Weighs
<1>3. ASSUME NEW i \in 1..Len(q)
      PROVE  /\ Weight(FromFrame(q, i - 1)) = CountFrom(Seqs(q), W, q[i].seq)
             /\ Weight(FromFrame(q, i - 1)) \in Nat
  <2>1. PICK p : p = FromFrame(q, i - 1)
    OBVIOUS
  <2>2. i - 1 \in 0..Len(q) /\ i - 1 + 1 = i
    BY <1>0
  <2>3. /\ p \in Seq(ReplayFrame) /\ DOMAIN p = 1..Len(q) - (i - 1) /\ Len(p) = Len(q) - (i - 1)
        /\ \A j \in 1..Len(q) - (i - 1) : p[j] = q[i - 1 + j]
    <3>1. PICK d \in 0..Len(q) : d = i - 1
      BY <2>2
    <3>2. /\ FromFrame(q, d) \in Seq(ReplayFrame) /\ Len(FromFrame(q, d)) = Len(q) - d
          /\ DOMAIN FromFrame(q, d) = 1..Len(q) - d
          /\ \A j \in 1..Len(q) - d : FromFrame(q, d)[j] = q[d + j]
      BY EndOf
    <3> QED
      BY <2>1, <3>1, <3>2, Zenon
  <2>4. \A j \in DOMAIN p : i - 1 + j \in DOMAIN q /\ p[j] = q[i - 1 + j] /\ j \in Nat
    <3>1. \A j \in 1..Len(q) - (i - 1) : i - 1 + j \in 1..Len(q) /\ j \in Nat
      <4>0. Len(q) \in Nat /\ i - 1 \in Nat
        BY <1>0
      <4>1. PICK n1 \in Nat, d \in Nat : n1 = Len(q) /\ d = i - 1
        BY <4>0, Zenon
      <4>2. \A j \in 1..n1 - d : d + j \in 1..n1 /\ j \in Nat
        BY Shifted, Zenon
      <4> QED
        BY <4>1, <4>2, Zenon
    <3> QED
      BY <1>0, <2>3, <3>1, Zenon
  <2>5. Rising(p)
    <3> SUFFICES ASSUME NEW a \in DOMAIN p, NEW b \in DOMAIN p, a < b PROVE p[a].seq < p[b].seq
      BY DEF Rising
    <3>1. i - 1 + a < i - 1 + b
      BY <2>2, <2>4
    <3> QED
      BY <2>4, <3>1 DEF Rising
  <2>6. Marked(p, W) /\ \A j \in DOMAIN p : p[j].seq \in Nat
    BY <1>0, <2>4 DEF Marked
  <2>7. Weight(p) = Cardinality(Seqs(p) \cap W) /\ Weight(p) \in Nat
    BY <2>3, <2>5, <2>6, Weighs
  <2>8. Seqs(p) = {q[j].seq : j \in i..Len(q)}
    <3>1. \A j \in 1..Len(q) - (i - 1) : p[j].seq = q[i - 1 + j].seq
      BY <2>3
    <3>2. Seqs(p) = {q[j].seq : j \in i - 1 + 1..Len(q)}
      BY <1>0, <2>2, <2>3, <3>1, EndFrames
    <3> QED
      BY <2>2, <3>2
  <2>9. Seqs(p) = {m \in Seqs(q) : m >= q[i].seq}
    <3>1. ASSUME NEW j \in 1..Len(q) PROVE q[j].seq >= q[i].seq <=> j >= i
      <4>1. CASE j < i
        BY <1>0, <4>1 DEF Rising
      <4>2. CASE i < j
        BY <1>0, <4>2 DEF Rising
      <4>3. CASE i = j
        BY <1>0, <4>3
      <4> QED
        BY <4>1, <4>2, <4>3
    <3>2. Seqs(q) = {q[j].seq : j \in 1..Len(q)}
      BY <1>0 DEF Seqs
    <3>3. \A j \in 1..Len(q) : j >= i <=> j \in i..Len(q)
      BY <1>0
    <3>4. i..Len(q) \subseteq 1..Len(q)
      BY <1>0
    <3> QED
      BY <2>8, <3>1, <3>2, <3>3, <3>4
  <2>10. {m \in Seqs(q) \cap W : m >= q[i].seq} = Seqs(p) \cap W
    BY <2>9
  <2> QED
    BY <2>1, <2>7, <2>10 DEF CountFrom
<1>4. \A i \in 1..Len(q) : i <= k => ~(CountFrom(Seqs(q), W, q[i].seq) <= SpoolMax)
  <2> SUFFICES ASSUME NEW i \in 1..Len(q), i <= k
               PROVE  ~(CountFrom(Seqs(q), W, q[i].seq) <= SpoolMax)
    OBVIOUS
  <2>1. i - 1 \in 0..k - 1
    BY <1>0, <1>1
  <2>2. Weight(FromFrame(q, i - 1)) > SpoolMax
    BY <1>1, <2>1
  <2> QED
    BY <1>3, <2>2
<1>5. \A i \in 1..Len(q) : i > k => CountFrom(Seqs(q), W, q[i].seq) <= SpoolMax
  <2> SUFFICES ASSUME NEW i \in 1..Len(q), i > k
               PROVE  CountFrom(Seqs(q), W, q[i].seq) <= SpoolMax
    OBVIOUS
  <2>1. k + 1 \in 1..Len(q) /\ k + 1 - 1 = k /\ (k + 1 < i \/ k + 1 = i)
    BY <1>0, <1>1
  <2>2. CountFrom(Seqs(q), W, q[k + 1].seq) <= SpoolMax
    BY <1>1, <1>3, <2>1
  <2>3. q[i].seq >= q[k + 1].seq
    BY <1>0, <2>1 DEF Rising
  <2>4. q[i].seq \in Seqs(q) /\ q[k + 1].seq \in Seqs(q)
    BY <1>0, <2>1 DEF Seqs
  <2>5. PICK x \in Seqs(q), y \in Seqs(q) : x = q[k + 1].seq /\ y = q[i].seq
    BY <2>4
  <2>6. /\ CountFrom(Seqs(q), W, y) <= CountFrom(Seqs(q), W, x)
        /\ CountFrom(Seqs(q), W, y) \in Nat /\ CountFrom(Seqs(q), W, x) \in Nat
    BY <1>2, <2>3, <2>5, CountLater
  <2> QED
    BY <2>2, <2>5, <2>6
<1>6. Seqs(f) = {q[i].seq : i \in k + 1..Len(q)}
  <2>1. f \in Seq(ReplayFrame) /\ Len(f) = Len(q) - k /\ \A j \in 1..Len(q) - k : f[j] = q[k + j]
    BY <1>1, EndOf
  <2>2. \A j \in 1..Len(q) - k : f[j].seq = q[k + j].seq
    BY <2>1
  <2> QED
    BY <1>0, <1>1, <2>1, <2>2, EndFrames
<1>7. Newest(Seqs(q), W, SpoolMax) = {x \in Seqs(q) : CountFrom(Seqs(q), W, x) <= SpoolMax}
  BY NewestOf
<1>8. ASSUME NEW i \in 1..Len(q) PROVE CountFrom(Seqs(q), W, q[i].seq) <= SpoolMax <=> i \in k + 1..Len(q)
  BY <1>0, <1>1, <1>4, <1>5
<1>9. Seqs(f) = Newest(Seqs(q), W, SpoolMax)
  <2>1. Seqs(q) = {q[j].seq : j \in 1..Len(q)} /\ k + 1..Len(q) \subseteq 1..Len(q)
    BY <1>0, <1>1 DEF Seqs
  <2> QED
    BY <1>6, <1>7, <1>8, <2>1
<1>10. CASE k > 0
  <2>1. 1 \in 1..Len(q) /\ 1 <= k
    BY <1>0, <1>1, <1>10
  <2>2. q[1].seq \in Seqs(q) /\ q[1].seq \notin Newest(Seqs(q), W, SpoolMax)
    BY <1>0, <1>4, <1>7, <2>1 DEF Seqs
  <2> QED
    BY <1>1, <1>9, <1>10, <2>2 DEF Cuts
<1>11. CASE k = 0
  <2>1. Seqs(q) = {q[j].seq : j \in 0 + 1..Len(q)}
    BY <1>0 DEF Seqs
  <2>2. Newest(Seqs(q), W, SpoolMax) = Seqs(q)
    BY <1>6, <1>9, <1>11, <2>1, Zenon
  <2>3. ~(k > 0)
    BY <1>11
  <2> QED
    BY <1>1, <1>9, <2>2, <2>3 DEF Cuts
<1> QED
  BY <1>1, <1>10, <1>11

-----------------------------------------------------------------------------
(* A healthy disk *)

\* The buffer of ReplayBuffer with these parts.
BufferOf(M, F, c, t) == [mem |-> M, spool |-> F, checkpoint |-> c, screen |-> {}, truncated |-> t]

LEMMA BufferParts ==
    \A M, F, c, t : /\ BufferOf(M, F, c, t).mem = M /\ BufferOf(M, F, c, t).spool = F
                    /\ BufferOf(M, F, c, t).checkpoint = c
                    /\ BufferOf(M, F, c, t).truncated = t
  BY DEF BufferOf

LEMMA SettledParts ==
    ASSUME NEW M, NEW F, NEW c, NEW t, NEW W, NEW b, b = BufferOf(M, F, c, t),
           NEW N, N = Newest(M, W, MemMax), NEW D, D = F \cup (M \ N),
           NEW K, K = Newest(D, W, SpoolMax), NEW u, u = (t \/ Cuts(D, W, SpoolMax))
    PROVE  Settled(b, W) = BufferOf(N, K, c, u)
<1>1. b.mem = M /\ b.spool = F /\ b.truncated = t
  BY BufferParts
<1> DEFINE mem == Newest(b.mem, W, MemMax)
           disk == b.spool \cup (b.mem \ mem)
           kept == Newest(disk, W, SpoolMax)
           less == b.truncated \/ kept # disk
<1>2. Settled(b, W) = [b EXCEPT !.mem = mem, !.spool = kept, !.truncated = less]
  BY Zenon DEF Settled
<1>3. mem = N /\ disk = D
  BY <1>1, Zenon
<1> HIDE DEF mem, disk
<1>4. kept = K
  BY <1>3, Zenon
<1>5. PICK v : v = less
  OBVIOUS
<1>6. v = u
  BY <1>1, <1>3, <1>4, <1>5 DEF Cuts
<1>7. Settled(b, W) = [b EXCEPT !.mem = mem, !.spool = kept, !.truncated = v]
  BY <1>2, <1>5, Zenon
<1> HIDE DEF kept, less
<1>8. PICK n1, k1 : n1 = mem /\ k1 = kept
  OBVIOUS
<1>9. [b EXCEPT !.mem = n1, !.spool = k1, !.truncated = v] = BufferOf(n1, k1, c, v)
  <2>1. PICK b1 : b1 = [b EXCEPT !.mem = n1]
    OBVIOUS
  <2>2. PICK b2 : b2 = [b1 EXCEPT !.spool = k1]
    OBVIOUS
  <2>3. PICK b3 : b3 = [b2 EXCEPT !.truncated = v]
    OBVIOUS
  <2>4. b1 = [mem |-> n1, spool |-> F, checkpoint |-> c, screen |-> {}, truncated |-> t]
    BY <2>1 DEF BufferOf
  <2>5. b2 = [mem |-> n1, spool |-> k1, checkpoint |-> c, screen |-> {}, truncated |-> t]
    BY <2>2, <2>4
  <2>6. b3 = [mem |-> n1, spool |-> k1, checkpoint |-> c, screen |-> {}, truncated |-> v]
    BY <2>3, <2>5
  <2>7. [b EXCEPT !.mem = n1, !.spool = k1, !.truncated = v] = b3
    BY <2>1, <2>2, <2>3, Zenon
  <2> QED
    BY <2>6, <2>7 DEF BufferOf
<1> QED
  BY <1>3, <1>4, <1>6, <1>7, <1>8, <1>9, Zenon

\* Within its limits a buffer is what it stands for.
LEMMA SettledSame ==
    ASSUME NEW M \in SUBSET Nat, IsFiniteSet(M), NEW F \in SUBSET Nat, IsFiniteSet(F),
           NEW c, NEW t \in BOOLEAN, NEW W,
           Cardinality(M \cap W) <= MemMax, Cardinality(F \cap W) <= SpoolMax,
           NEW b, b = BufferOf(M, F, c, t)
    PROVE  Settled(b, W) = b
<1>1. MemMax \in Nat /\ SpoolMax \in Nat
  BY BufferCaps
<1>2. Newest(M, W, MemMax) = M /\ Newest(F, W, SpoolMax) = F
  BY <1>1, NewestAll
<1>3. PICK D : D = F \cup (M \ M)
  OBVIOUS
<1>4. D = F /\ Newest(D, W, SpoolMax) = F /\ ~Cuts(D, W, SpoolMax)
  BY <1>2, <1>3 DEF Cuts
<1>5. PICK u : u = (t \/ Cuts(D, W, SpoolMax))
  OBVIOUS
<1>6. u = t
  BY <1>4, <1>5
<1>7. Settled(b, W) = BufferOf(M, F, c, u)
  BY <1>2, <1>3, <1>4, <1>5, SettledParts
<1> QED
  BY <1>6, <1>7

\* The last frame is the newest.
LEMMA RisingLast ==
    ASSUME NEW q, Rising(q), NEW n1 \in Nat, DOMAIN q = 1..n1, NEW i \in 1..n1, i # n1
    PROVE  q[i].seq < q[n1].seq
<1>1. i \in DOMAIN q /\ n1 \in DOMAIN q /\ i < n1
  OBVIOUS
<1> QED
  BY <1>1 DEF Rising

\* The weight of frames is that of the set of their numbers.
Weighed(frames, W) ==
    /\ Seqs(frames) \in SUBSET Nat /\ IsFiniteSet(Seqs(frames))
    /\ Weight(frames) = Cardinality(Seqs(frames) \cap W) /\ Weight(frames) \in Nat

LEMMA ChainSets ==
    ASSUME NEW q \in Seq(ReplayFrame), NEW r \in Seq(Record), NEW e \in Nat, Chain(r, q, e),
           AllWhole(r), NEW W, Marked(q, W), Marked(r, W)
    PROVE  Weighed(q, W) /\ Weighed(r, W) /\ Before(Seqs(r), Seqs(q))
<1>1. (\A i \in DOMAIN q : q[i] \in ReplayFrame) /\ \A i \in DOMAIN r : r[i] \in Record
  OBVIOUS
<1>2. (\A i \in DOMAIN q : q[i].seq \in Nat) /\ \A i \in DOMAIN r : r[i].seq \in Nat
  BY <1>1, SpoolConstants DEF ReplayFrame, Record
<1>3. Rising(q) /\ Rising(r)
  BY DEF Chain, Rising, AllWhole
<1>4. Before(Seqs(r), Seqs(q))
  BY DEF Before, Chain, Seqs, AllWhole
<1>5. Weighed(q, W)
  BY <1>2, <1>3, Weighs DEF Weighed
<1>6. Weighed(r, W)
  BY <1>2, <1>3, Weighs DEF Weighed
<1> QED
  BY <1>4, <1>5, <1>6

LEMMA ResizeSeqs ==
    ASSUME SpoolInv, MarkedInv, SpoolResize
    PROVE  /\ Seqs(memory') =
                (Seqs(memory) \ {m \in Seqs(memory) \ written : \A k \in Seqs(memory) : k <= m})
                  \cup {events + 1}
           /\ Seqs(memory') \cap written = Seqs(memory) \cap written
<1> DEFINE f == [seq |-> events + 1, data |-> FALSE]
           M == Seqs(memory)
           last == {m \in M \ written : \A k \in M : k <= m}
<1>0. /\ memory \in Seq(ReplayFrame) /\ events \in Nat /\ Chain(file, memory, events)
      /\ Marked(memory, written) /\ written \subseteq 1..events /\ AllWhole(file)
      /\ DOMAIN memory = 1..Len(memory) /\ Len(memory) \in Nat
      /\ Rising(memory)
  BY SpoolConstants DEF SpoolInv, SpoolTypeOK, MarkedInv, Chain
<1>1. \/ memory # <<>> /\ ~memory[Len(memory)].data /\ memory' = [memory EXCEPT ![Len(memory)] = f]
      \/ (memory = <<>> \/ memory[Len(memory)].data) /\ memory' = Append(memory, f)
  BY DEF SpoolResize
<1>2. f.seq = events + 1 /\ events + 1 \notin written
  BY <1>0
<1>3. \A i \in DOMAIN memory : memory[i].seq \in Nat /\ memory[i].seq <= events
  BY <1>0, NumbersBelow
<1>4. M = {memory[i].seq : i \in 1..Len(memory)}
  BY <1>0 DEF Seqs
<1>5. \A i \in 1..Len(memory) : i # Len(memory) => memory[i].seq < memory[Len(memory)].seq
  BY <1>0, RisingLast
<1>8. Len(memory) \in 1..Len(memory) =>
        \A k \in M : k \in Nat /\ k <= memory[Len(memory)].seq /\ memory[Len(memory)].seq \in Nat
  <2> SUFFICES ASSUME Len(memory) \in 1..Len(memory), NEW i \in 1..Len(memory)
               PROVE  /\ memory[i].seq \in Nat /\ memory[Len(memory)].seq \in Nat
                      /\ memory[i].seq <= memory[Len(memory)].seq
    BY <1>4
  <2>1. memory[i].seq \in Nat /\ memory[Len(memory)].seq \in Nat
    BY <1>0, <1>3
  <2>2. i = Len(memory) \/ memory[i].seq < memory[Len(memory)].seq
    BY <1>5
  <2> QED
    BY <2>1, <2>2
<1> HIDE DEF f
<1>6. CASE memory # <<>> /\ ~memory[Len(memory)].data
           /\ memory' = [memory EXCEPT ![Len(memory)] = f]
  <2>1. /\ Len(memory) \in 1..Len(memory) /\ DOMAIN memory' = 1..Len(memory)
        /\ memory'[Len(memory)] = f
        /\ \A i \in 1..Len(memory) : i # Len(memory) => memory'[i] = memory[i]
    BY <1>0, <1>6
  <2>2. memory[Len(memory)].seq \in M \ written
    BY <1>0, <1>4, <1>6, <2>1 DEF Marked
  <2>3. last = {memory[Len(memory)].seq}
    <3>1. \A k \in M : k <= memory[Len(memory)].seq
      BY <1>8, <2>1
    <3>2. \A m \in M : (\A k \in M : k <= m) => m = memory[Len(memory)].seq
      <4> HIDE DEF M
      <4> QED
        BY <1>8, <2>1, <2>2
    <3> HIDE DEF M
    <3> QED
      BY <2>2, <3>1, <3>2
  <2>4. Seqs(memory') = (M \ {memory[Len(memory)].seq}) \cup {events + 1}
    <3>0. \A i \in 1..Len(memory) : memory'[i].seq = IF i = Len(memory) THEN events + 1 ELSE memory[i].seq
      BY <1>2, <2>1
    <3>1. Seqs(memory') = {memory'[i].seq : i \in 1..Len(memory)}
      BY <2>1 DEF Seqs
    <3>2. ASSUME NEW x \in Seqs(memory') PROVE x \in (M \ {memory[Len(memory)].seq}) \cup {events + 1}
      <4>1. PICK i \in 1..Len(memory) : x = memory'[i].seq
        BY <3>1, <3>2
      <4>2. CASE i = Len(memory)
        BY <3>0, <4>1, <4>2
      <4>3. CASE i # Len(memory)
        <5>1. x = memory[i].seq /\ x \in M /\ x < memory[Len(memory)].seq /\ x \in Nat
          BY <1>0, <1>3, <1>4, <1>5, <3>0, <4>1, <4>3
        <5>2. memory[Len(memory)].seq \in Nat
          BY <1>0, <1>3, <2>1
        <5> QED
          BY <5>1, <5>2
      <4> QED
        BY <4>2, <4>3
    <3>3. ASSUME NEW x \in (M \ {memory[Len(memory)].seq}) \cup {events + 1} PROVE x \in Seqs(memory')
      <4>1. CASE x = events + 1
        BY <2>1, <3>0, <3>1, <4>1
      <4>2. CASE x \in M \ {memory[Len(memory)].seq}
        <5>1. PICK i \in 1..Len(memory) : x = memory[i].seq
          BY <1>4, <4>2
        <5>2. i # Len(memory)
          BY <4>2, <5>1
        <5> QED
          BY <3>0, <3>1, <5>1, <5>2
      <4> QED
        BY <3>3, <4>1, <4>2
    <3> QED
      BY <3>2, <3>3
  <2> HIDE DEF M, last
  <2>5. Seqs(memory') \cap written = M \cap written
    BY <1>2, <2>2, <2>4
  <2> QED
    BY <2>3, <2>4, <2>5 DEF M, last
<1>7. CASE (memory = <<>> \/ memory[Len(memory)].data) /\ memory' = Append(memory, f)
  <2>1. Seqs(memory') = M \cup {events + 1}
    <3>1. Seqs(Append(memory, f)) = Seqs(memory) \cup {f.seq}
      BY <1>0, SeqsPushed
    <3> QED
      BY <1>2, <1>7, <3>1
  <2>2. last = {}
    <3>1. CASE memory = <<>>
      <4>1. M = {}
        BY <1>0, <1>4, <3>1
      <4> QED
        BY <4>1
    <3>2. CASE memory # <<>> /\ memory[Len(memory)].data
      <4>1. Len(memory) \in 1..Len(memory)
        BY <1>0, <3>2
      <4>2. memory[Len(memory)].seq \in M /\ memory[Len(memory)].seq \in written
        BY <1>0, <1>4, <3>2, <4>1 DEF Marked
      <4>3. \A m \in M : (\A k \in M : k <= m) => m = memory[Len(memory)].seq
        <5> HIDE DEF M
        <5> QED
          BY <1>8, <4>1, <4>2
      <4> HIDE DEF M
      <4> QED
        BY <4>2, <4>3
    <3> QED
      BY <1>7, <3>1, <3>2
  <2> HIDE DEF M, last
  <2>3. Seqs(memory') \cap written = M \cap written
    BY <1>2, <2>1
  <2>4. M \ {} = M
    OBVIOUS
  <2> QED
    BY <2>1, <2>2, <2>3, <2>4, Zenon DEF M, last
<1> QED
  BY <1>1, <1>6, <1>7

LEMMA SameFrames ==
    ASSUME NEW p, NEW q, DOMAIN p = DOMAIN q,
           \A i \in DOMAIN q : p[i].seq = q[i].seq /\ p[i].data = q[i].data
    PROVE  Seqs(p) = Seqs(q) /\ Weight(p) = Weight(q)
<1>1. {i \in DOMAIN p : p[i].data} = {i \in DOMAIN q : q[i].data}
  OBVIOUS
<1> QED
  BY <1>1 DEF Seqs, Weight

LEMMA CheckpointSeqs ==
    ASSUME SpoolInv, MarkedInv, SpoolCheckpoint, faults' = faults
    PROVE  \E s \in covered + 1..events :
             /\ covered' = s
             /\ Seqs(memory') = {m \in Seqs(memory) : m > s}
             /\ Seqs(file') = {m \in Seqs(file) : m > s}
<1>0. /\ SpoolTypeOK /\ Chain(file, memory, events)
      /\ memory \in Seq(ReplayFrame) /\ file \in Seq(Record) /\ events \in Nat
      /\ covered \in Nat /\ faults \in Nat /\ Rising(memory)
      /\ (\A i \in DOMAIN file : file[i].whole)
      /\ DOMAIN memory = 1..Len(memory) /\ Len(memory) \in Nat
      /\ DOMAIN file = 1..Len(file) /\ Len(file) \in Nat
  BY SpoolConstants DEF SpoolInv, SpoolTypeOK, MarkedInv, AllWhole, Chain
<1>n. /\ \A i \in DOMAIN file : file[i].seq \in Nat
      /\ \A i \in DOMAIN memory : memory[i].seq \in Nat
  BY NumbersBelow DEF MarkedInv
<1>1. PICK s \in covered + 1..events : \E k \in 0..Len(memory) :
         /\ covered' = s
         /\ \A i \in 1..k : memory[i].seq <= s
         /\ k < Len(memory) => memory[k + 1].seq > s
         /\ memory' = FromFrame(memory, k) /\ Rewrite(file, After(Readable(file), s))
  BY DEF SpoolCheckpoint
<1>2. PICK k \in 0..Len(memory) :
         /\ \A i \in 1..k : memory[i].seq <= s
         /\ k < Len(memory) => memory[k + 1].seq > s
         /\ memory' = FromFrame(memory, k)
  BY <1>1
<1>3. s \in Nat
  BY <1>0, <1>1
<1>4. Seqs(memory') = {m \in Seqs(memory) : m > s}
  <2>1. /\ memory' \in Seq(ReplayFrame) /\ Len(memory') = Len(memory) - k
        /\ \A i \in 1..Len(memory) - k : memory'[i] = memory[k + i]
    BY <1>0, <1>2, EndOf
  <2>2. Seqs(memory') = {memory[i].seq : i \in k + 1..Len(memory)}
    <3>1. \A i \in 1..Len(memory) - k : memory'[i].seq = memory[k + i].seq
      BY <2>1
    <3> QED
      BY <1>0, <1>2, <2>1, <3>1, EndFrames
  <2>3. ASSUME NEW i \in 1..Len(memory) PROVE memory[i].seq > s <=> i \in k + 1..Len(memory)
    <3>1. CASE i <= k
      BY <1>0, <1>2, <1>3, <1>n, <3>1
    <3>2. CASE i = k + 1
      BY <1>0, <1>2, <3>2
    <3>3. CASE i > k + 1
      <4>1. k + 1 \in DOMAIN memory /\ memory[k + 1].seq < memory[i].seq /\ memory[k + 1].seq > s
        BY <1>0, <1>2, <3>3 DEF Rising
      <4> QED
        BY <1>0, <1>2, <1>3, <1>n, <3>3, <4>1
    <3> QED
      BY <1>0, <1>2, <3>1, <3>2, <3>3
  <2>4. Seqs(memory) = {memory[i].seq : i \in 1..Len(memory)} /\ k + 1..Len(memory) \subseteq 1..Len(memory)
    BY <1>0, <1>2 DEF Seqs
  <2> QED
    BY <2>2, <2>3, <2>4
<1>5. Seqs(file') = {m \in Seqs(file) : m > s}
  <2>1. \E m \in 0..Len(file) : \E d \in 0..m :
                   /\ file' \in Seq(Record) /\ Len(file') = m - d
                   /\ \A i \in 1..d : file[i].seq <= s
                   /\ \A i \in d + 1..m : file[i].seq > s
                   /\ \A i \in 1..m - d : file'[i].seq = file[d + i].seq
                   /\ (\A i \in DOMAIN file : file[i].whole) => m = Len(file)
    <3>1. Rewrite(file, After(Readable(file), s))
      BY <1>1
    <3>2. ~(faults' = faults + 1)
      BY <1>0
    <3> QED
      BY <1>0, <1>3, <3>1, <3>2, FileAfter, Zenon
  <2>2. PICK d \in 0..Len(file) :
                   /\ file' \in Seq(Record) /\ Len(file') = Len(file) - d
                   /\ \A i \in 1..d : file[i].seq <= s
                   /\ \A i \in d + 1..Len(file) : file[i].seq > s
                   /\ \A i \in 1..Len(file) - d : file'[i].seq = file[d + i].seq
    BY <1>0, <2>1
  <2>3. Seqs(file') = {file[i].seq : i \in d + 1..Len(file)}
    BY <1>0, <2>2, EndRecords
  <2>4. ASSUME NEW i \in 1..Len(file) PROVE file[i].seq > s <=> i \in d + 1..Len(file)
    BY <1>0, <1>3, <1>n, <2>2
  <2>5. Seqs(file) = {file[i].seq : i \in 1..Len(file)} /\ d + 1..Len(file) \subseteq 1..Len(file)
    BY <1>0, <2>2 DEF Seqs
  <2> QED
    BY <2>3, <2>4, <2>5
<1> QED
  BY <1>1, <1>4, <1>5

LEMMA SpillSets ==
    ASSUME SpoolInv, MarkedInv, SpoolSpill, faults' = faults,
           NEW h, h = Head(memory).seq,
           NEW N, N = Newest(Seqs(file) \cup {h}, written, SpoolMax)
    PROVE  /\ Seqs(file') = N /\ Weight(file') <= SpoolMax
           /\ memory' = Tail(memory) /\ Seqs(memory) = {h} \cup Seqs(memory')
           /\ h \in Nat /\ \A y \in Seqs(memory') : h < y
           /\ cut \in BOOLEAN /\ cut' \in BOOLEAN
           /\ cut' <=> cut \/ Cuts(Seqs(file) \cup {h}, written, SpoolMax)
           /\ written' = written /\ covered' = covered
<1>0. /\ SpoolTypeOK /\ SpoolInv /\ events \in Nat /\ cut \in BOOLEAN /\ spilling /\ SpoolMax \in Nat
      /\ Cap(Append(file, ToRecord(Head(memory), TRUE)))
      /\ memory' = Tail(memory) /\ written' = written /\ covered' = covered
      /\ memory \in Seq(ReplayFrame) /\ Rising(memory) /\ memory # <<>>
  <2>1. /\ spilling /\ Cap(Append(file, ToRecord(Head(memory), TRUE)))
        /\ memory' = Tail(memory) /\ written' = written /\ covered' = covered
    BY Zenon DEF SpoolSpill
  <2>2. /\ SpoolTypeOK /\ events \in Nat /\ cut \in BOOLEAN /\ SpoolMax \in Nat
        /\ memory \in Seq(ReplayFrame) /\ Rising(memory) /\ (spilling => memory # <<>>)
    BY SpoolConstants, BufferCaps DEF SpoolInv, SpoolTypeOK, Chain
  <2> QED
    BY <2>1, <2>2, Zenon
<1>1. PICK r : r = Append(file, ToRecord(Head(memory), TRUE))
  OBVIOUS
<1>2. Appended(r) /\ Cap(r)
  BY <1>0, <1>1, AppendedShape, Zenon
<1>3. /\ r \in Seq(Record) /\ Len(r) \in Nat /\ DOMAIN r = 1..Len(r)
      /\ Chain(r, Tail(memory), events) /\ AllWhole(r) /\ Marked(r, written)
      /\ Seqs(r) = Seqs(file) \cup {h}
      /\ Seqs(memory) = {h} \cup Seqs(Tail(memory))
  BY <1>2 DEF Appended
<1>4. /\ cut' \in BOOLEAN
      /\ \/ file' = r /\ cut' = cut /\ Weight(r) <= SpoolMax
         \/ \E k \in 0..Len(r) :
              /\ k = Overflow(Readable(r))
              /\ file' \in Seq(Record) /\ Len(file') = Len(r) - k
              /\ \A i \in 1..Len(r) - k : file'[i].seq = r[k + i].seq /\ file'[i].data = r[k + i].data
              /\ cut' <=> cut \/ k > 0
  BY <1>0, <1>2, CappedShape, Zenon
<1>5. (\A i \in DOMAIN r : r[i] \in Record) /\ \A i \in DOMAIN r : r[i].seq \in Nat
  <2>1. \A i \in DOMAIN r : r[i] \in Record
    BY <1>3
  <2> QED
    BY <2>1, SpoolConstants DEF Record
<1>6. Rising(r)
  BY <1>3 DEF Chain, Rising, AllWhole
<1>7. /\ Seqs(r) \in SUBSET Nat /\ IsFiniteSet(Seqs(r))
      /\ Weight(r) = Cardinality(Seqs(r) \cap written)
  BY <1>3, <1>5, <1>6, Weighs
<1>8. N = Newest(Seqs(r), written, SpoolMax) /\ (Cuts(Seqs(r), written, SpoolMax) <=> Cuts(Seqs(file) \cup {h}, written, SpoolMax))
  BY <1>3, Zenon
<1>9. Seqs(file') = N /\ Weight(file') <= SpoolMax /\ (cut' <=> cut \/ Cuts(Seqs(r), written, SpoolMax))
  <2>1. CASE file' = r /\ cut' = cut /\ Weight(r) <= SpoolMax
    <3>1. Newest(Seqs(r), written, SpoolMax) = Seqs(r)
      BY <1>0, <1>7, <2>1, NewestAll
    <3> QED
      BY <1>8, <2>1, <3>1, Zenon DEF Cuts
  <2>2. CASE \E k \in 0..Len(r) :
              /\ k = Overflow(Readable(r))
              /\ file' \in Seq(Record) /\ Len(file') = Len(r) - k
              /\ \A i \in 1..Len(r) - k : file'[i].seq = r[k + i].seq /\ file'[i].data = r[k + i].data
              /\ cut' <=> cut \/ k > 0
    <3>1. PICK k \in 0..Len(r) :
              /\ k = Overflow(Readable(r))
              /\ file' \in Seq(Record) /\ Len(file') = Len(r) - k
              /\ \A i \in 1..Len(r) - k : file'[i].seq = r[k + i].seq /\ file'[i].data = r[k + i].data
              /\ cut' <=> cut \/ k > 0
      BY <2>2
    <3>2. PICK q \in Seq(ReplayFrame) : /\ q = Readable(r) /\ Len(q) = Len(r) /\ DOMAIN q = 1..Len(r)
                                  /\ \A i \in 1..Len(r) : q[i].seq = r[i].seq /\ q[i].data = r[i].data
      <4>1. \A i \in DOMAIN r : r[i].whole
        BY <1>3 DEF AllWhole
      <4> QED
        BY <1>3, <4>1, Reads
    <3>3. Seqs(q) = Seqs(r)
      BY <1>3, <3>2, SameFrames
    <3>4. Rising(q) /\ Marked(q, written)
      BY <1>3, <1>6, <3>2 DEF Rising, Marked
    <3>5. PICK f : f = FromFrame(q, k)
      OBVIOUS
    <3>6. /\ Seqs(f) = Newest(Seqs(q), written, SpoolMax) /\ Weight(f) <= SpoolMax
          /\ k > 0 <=> Cuts(Seqs(q), written, SpoolMax)
      BY <3>1, <3>2, <3>4, <3>5, OverflowNewest
    <3>7. DOMAIN f = 1..Len(r) - k /\ \A i \in 1..Len(r) - k : f[i] = q[k + i] /\ k + i \in 1..Len(r)
      <4>1. k \in 0..Len(q)
        BY <3>2
      <4>2. DOMAIN f = 1..Len(q) - k /\ \A i \in 1..Len(q) - k : f[i] = q[k + i]
        BY <3>2, <3>5, <4>1, EndOf
      <4>3. \A i \in 1..Len(r) - k : k + i \in 1..Len(r)
        BY <1>3
      <4> QED
        BY <3>2, <4>2, <4>3
    <3>8. DOMAIN file' = 1..Len(r) - k
      BY <3>1
    <3>9. \A i \in DOMAIN f : file'[i].seq = f[i].seq /\ file'[i].data = f[i].data
      BY <3>1, <3>2, <3>7
    <3>10. PICK g : g = file'
      OBVIOUS
    <3>11. Seqs(g) = Seqs(f) /\ Weight(g) = Weight(f)
      BY <3>7, <3>8, <3>9, <3>10, SameFrames
    <3> QED
      BY <1>8, <3>1, <3>3, <3>6, <3>10, <3>11, Zenon
  <2> QED
    BY <1>4, <2>1, <2>2, Zenon
<1>10. h \in Nat /\ \A y \in Seqs(memory') : h < y
  <2>1. h = memory[1].seq /\ 1 \in DOMAIN memory
    BY <1>0
  <2>2. \A i \in DOMAIN Tail(memory) : i + 1 \in DOMAIN memory /\ Tail(memory)[i] = memory[i + 1] /\ 1 < i + 1
    BY <1>0
  <2>3. h \in Nat
    BY <2>1, NumbersBelow DEF MarkedInv
  <2> QED
    BY <1>0, <2>1, <2>2, <2>3 DEF Rising, Seqs
<1> QED
  BY <1>0, <1>3, <1>4, <1>8, <1>9, <1>10, Zenon

SettledInv ==
    /\ MarkedInv
    /\ spilling <=> Weight(memory) > MemMax
    /\ Weight(file) <= SpoolMax

\* While the disk has not failed, the loop ends where it should, and the spool
\* is within its cap.
HealthyInv == faults = 0 => SettledInv

LEMMA FaultsGrow ==
    ASSUME SpoolInv, [SpoolNext]_spoolVars
    PROVE  faults \in Nat /\ (faults' = faults \/ faults' = faults + 1)
<1>1. SpoolTypeOK /\ faults \in Nat
  BY DEF SpoolInv, SpoolTypeOK
<1>2. CASE SpoolPush
  BY <1>1, <1>2 DEF SpoolPush
<1>3. CASE SpoolSpill
  <2>1. Cap(Append(file, ToRecord(Head(memory), TRUE)))
    BY <1>3, Zenon DEF SpoolSpill
  <2>2. PICK r : Cap(r)
    BY <2>1, Zenon
  <2> QED
    BY <1>1, <2>2 DEF Cap, Rewrite
<1>4. CASE SpoolRefused
  BY <1>1, <1>4 DEF SpoolRefused
<1>5. CASE SpoolResize
  BY <1>1, <1>5 DEF SpoolResize
<1>6. CASE SpoolCheckpoint
  BY <1>1, <1>6 DEF SpoolCheckpoint, Rewrite
<1>7. CASE UNCHANGED spoolVars
  BY <1>1, <1>7 DEF spoolVars
<1> QED
  BY <1>2, <1>3, <1>4, <1>5, <1>6, <1>7 DEF SpoolNext

LEMMA Smaller ==
    ASSUME NEW S, IsFiniteSet(S), NEW T, T \subseteq S, NEW W
    PROVE  Cardinality(T \cap W) <= Cardinality(S \cap W)
<1>1. IsFiniteSet(S \cap W)
  BY FS_Subset
<1>2. T \cap W \in SUBSET (S \cap W)
  OBVIOUS
<1> QED
  BY <1>1, <1>2, FS_Subset

LEMMA SettledStep ==
    ASSUME SpoolInv, SettledInv, SpoolInv', SpoolNext, faults' = faults
    PROVE  SettledInv'
<1>0. /\ MarkedInv /\ MemMax \in Nat /\ SpoolMax \in Nat
      /\ memory \in Seq(ReplayFrame) /\ file \in Seq(Record) /\ events \in Nat
      /\ Chain(file, memory, events) /\ AllWhole(file)
      /\ Marked(file, written) /\ Marked(memory, written)
      /\ memory' \in Seq(ReplayFrame) /\ file' \in Seq(Record) /\ events' \in Nat
      /\ Chain(file', memory', events') /\ faults \in Nat
  BY SpoolConstants, BufferCaps DEF SpoolInv, SpoolTypeOK, MarkedInv, SettledInv
<1>1. MarkedInv'
  BY <1>0, MarkedStep DEF Kind
<1>2. AllWhole(file') /\ Marked(file', written') /\ Marked(memory', written')
  BY <1>1 DEF MarkedInv
<1>w. Weighed(memory, written) /\ Weighed(file, written)
  BY <1>0, ChainSets, Zenon
<1>3. /\ IsFiniteSet(Seqs(memory)) /\ IsFiniteSet(Seqs(file))
      /\ Weight(memory) = Cardinality(Seqs(memory) \cap written) /\ Weight(memory) \in Nat
      /\ Weight(file) = Cardinality(Seqs(file) \cap written) /\ Weight(file) \in Nat
  BY <1>w DEF Weighed
<1>4. /\ Weight(memory') = Cardinality(Seqs(memory') \cap written') /\ Weight(memory') \in Nat
      /\ Weight(file') = Cardinality(Seqs(file') \cap written') /\ Weight(file') \in Nat
  <2>0. PICK W : W = written'
    OBVIOUS
  <2>1. PICK q \in Seq(ReplayFrame), r \in Seq(Record), e \in Nat :
           q = memory' /\ r = file' /\ e = events' /\ W = written'
    BY <1>0, <2>0
  <2>2. Chain(r, q, e) /\ AllWhole(r) /\ Marked(q, W) /\ Marked(r, W)
    BY <1>0, <1>2, <2>1, Zenon
  <2>3. Weighed(q, W) /\ Weighed(r, W)
    BY <2>2, ChainSets, Zenon
  <2>4. /\ Weight(q) = Cardinality(Seqs(q) \cap W) /\ Weight(q) \in Nat
        /\ Weight(r) = Cardinality(Seqs(r) \cap W) /\ Weight(r) \in Nat
    BY <2>3 DEF Weighed
  <2> QED
    BY <2>1, <2>4, Zenon
<1>5. (spilling <=> Weight(memory) > MemMax) /\ Weight(file) <= SpoolMax
  BY DEF SettledInv
<1>6. (spilling' <=> Weight(memory') > MemMax) /\ Weight(file') <= SpoolMax
  <2>1. CASE SpoolPush
    BY <1>5, <2>1 DEF SpoolPush
  <2>2. CASE SpoolSpill
    <3>1. spilling' = (Weight(memory') > MemMax)
      BY <2>2, Zenon DEF SpoolSpill
    <3>2. PICK h, N : h = Head(memory).seq /\ N = Newest(Seqs(file) \cup {h}, written, SpoolMax)
      OBVIOUS
    <3>3. Weight(file') <= SpoolMax
      BY <1>0, <2>2, <3>2, SpillSets
    <3> QED
      BY <3>1, <3>3
  <2>3. CASE SpoolRefused
    BY <1>0, <2>3 DEF SpoolRefused
  <2>4. CASE SpoolResize
    <3>1. spilling' = spilling /\ file' = file /\ written' = written
      BY <2>4 DEF SpoolResize
    <3>2. Seqs(memory') \cap written = Seqs(memory) \cap written
      BY <1>0, <2>4, ResizeSeqs
    <3>3. Weight(memory') = Weight(memory)
      BY <1>3, <1>4, <3>1, <3>2, Zenon
    <3> QED
      BY <1>5, <3>1, <3>3, Zenon
  <2>5. CASE SpoolCheckpoint
    <3>1. ~spilling /\ spilling' = spilling /\ written' = written
      BY <2>5 DEF SpoolCheckpoint
    <3>2. PICK s : /\ Seqs(memory') = {m \in Seqs(memory) : m > s}
                   /\ Seqs(file') = {m \in Seqs(file) : m > s}
      BY <1>0, <2>5, CheckpointSeqs
    <3>3. Seqs(memory') \subseteq Seqs(memory) /\ Seqs(file') \subseteq Seqs(file)
      BY <3>2
    <3>4. /\ Cardinality(Seqs(memory') \cap written) <= Cardinality(Seqs(memory) \cap written)
          /\ Cardinality(Seqs(file') \cap written) <= Cardinality(Seqs(file) \cap written)
      BY <1>3, <3>3, Smaller
    <3>5. Weight(memory') <= Weight(memory) /\ Weight(file') <= Weight(file)
      BY <1>3, <1>4, <3>1, <3>4
    <3> QED
      BY <1>0, <1>3, <1>4, <1>5, <3>1, <3>5
  <2> QED
    BY <2>1, <2>2, <2>3, <2>4, <2>5 DEF SpoolNext
<1> QED
  BY <1>1, <1>6 DEF SettledInv

LEMMA HealthyStep ==
    SpoolInv /\ HealthyInv /\ SpoolInv' /\ [SpoolNext]_spoolVars => HealthyInv'
<1> SUFFICES ASSUME SpoolInv, HealthyInv, SpoolInv', [SpoolNext]_spoolVars, faults' = 0
             PROVE  SettledInv'
  BY DEF HealthyInv
<1>1. faults = 0 /\ faults' = faults /\ SettledInv
  BY FaultsGrow DEF HealthyInv
<1>2. CASE UNCHANGED spoolVars
  BY <1>1, <1>2 DEF spoolVars, SettledInv, MarkedInv
<1> QED
  BY <1>1, <1>2, SettledStep

LEMMA HealthyInit == SpoolInit => HealthyInv
<1> SUFFICES ASSUME SpoolInit PROVE SettledInv
  BY DEF HealthyInv
<1>1. memory = <<>> /\ file = <<>> /\ ~spilling
  BY DEF SpoolInit
<1>2. Weight(memory) = 0 /\ Weight(file) = 0
  BY <1>1, WeightNone
<1> QED
  BY <1>1, <1>2, MarkedInit, BufferCaps DEF SettledInv

-----------------------------------------------------------------------------
(* The buffer on a healthy disk is that of ReplayBuffer *)

LEMMA SetsParts ==
    /\ Sets = BufferOf(Seqs(memory), Seqs(file),
                       IF covered = 0 THEN NoCheckpoint ELSE covered, cut)
    /\ Sets' = BufferOf(Seqs(memory'), Seqs(file'),
                        IF covered' = 0 THEN NoCheckpoint ELSE covered', cut')
  BY DEF Sets, BufferOf

LEMMA SettledNow ==
    ASSUME NEW q \in Seq(ReplayFrame), NEW r \in Seq(Record), NEW e \in Nat, Chain(r, q, e),
           AllWhole(r), NEW W, Marked(q, W), Marked(r, W),
           ~(Weight(q) > MemMax), Weight(r) <= SpoolMax,
           NEW M, M = Seqs(q), NEW F, F = Seqs(r),
           NEW c, NEW t \in BOOLEAN, NEW b, b = BufferOf(M, F, c, t)
    PROVE  Settled(b, W) = b
<1>1. Weighed(q, W) /\ Weighed(r, W)
  BY ChainSets, Zenon
<1>3. /\ M \in SUBSET Nat /\ IsFiniteSet(M) /\ F \in SUBSET Nat /\ IsFiniteSet(F)
      /\ Cardinality(M \cap W) <= MemMax /\ Cardinality(F \cap W) <= SpoolMax
  BY <1>1, BufferCaps DEF Weighed
<1> QED
  BY <1>3, SettledSame

\* Outside the loop of push_output the buffer is what it stands for.
LEMMA IdleSettled ==
    /\ SpoolInv /\ SettledInv /\ ~spilling => AsSets = Sets
    /\ SpoolInv' /\ SettledInv' /\ ~spilling' => AsSets' = Sets'
<1>1. ASSUME SpoolInv, SettledInv, ~spilling PROVE AsSets = Sets
  <2>1. /\ memory \in Seq(ReplayFrame) /\ file \in Seq(Record) /\ events \in Nat
        /\ Chain(file, memory, events) /\ AllWhole(file)
        /\ Marked(memory, written) /\ Marked(file, written) /\ cut \in BOOLEAN
        /\ ~(Weight(memory) > MemMax) /\ Weight(file) <= SpoolMax
    BY <1>1, SpoolConstants DEF SpoolInv, SpoolTypeOK, SettledInv, MarkedInv
  <2>2. PICK c : c = IF covered = 0 THEN NoCheckpoint ELSE covered
    OBVIOUS
  <2>3. PICK t \in BOOLEAN : t = cut
    BY <2>1
  <2>7. PICK b, M, F : b = Sets /\ M = Seqs(memory) /\ F = Seqs(file)
    OBVIOUS
  <2>5. b = BufferOf(M, F, c, t)
    BY <2>2, <2>3, <2>7, SetsParts
  <2>6. PICK q \in Seq(ReplayFrame), r \in Seq(Record), e \in Nat :
           q = memory /\ r = file /\ e = events
    BY <2>1
  <2>8. /\ Chain(r, q, e) /\ AllWhole(r) /\ Marked(q, written) /\ Marked(r, written)
        /\ ~(Weight(q) > MemMax) /\ Weight(r) <= SpoolMax /\ M = Seqs(q) /\ F = Seqs(r)
    BY <2>1, <2>6, <2>7, Zenon
  <2>9. Settled(b, written) = b
    BY <2>5, <2>8, SettledNow
  <2>4. Settled(Sets, written) = Sets
    BY <2>7, <2>9, Zenon
  <2> QED
    BY <2>4 DEF AsSets
<1>2. ASSUME SpoolInv', SettledInv', ~spilling' PROVE AsSets' = Sets'
  <2>1. /\ memory' \in Seq(ReplayFrame) /\ file' \in Seq(Record) /\ events' \in Nat
        /\ Chain(file', memory', events') /\ AllWhole(file')
        /\ Marked(memory', written') /\ Marked(file', written') /\ cut' \in BOOLEAN
        /\ ~(Weight(memory') > MemMax) /\ Weight(file') <= SpoolMax
    BY <1>2, SpoolConstants DEF SpoolInv, SpoolTypeOK, SettledInv, MarkedInv
  <2>2. PICK c : c = IF covered' = 0 THEN NoCheckpoint ELSE covered'
    OBVIOUS
  <2>3. PICK q \in Seq(ReplayFrame), r \in Seq(Record), e \in Nat :
           q = memory' /\ r = file' /\ e = events'
    BY <2>1
  <2>4. PICK W : W = written'
    OBVIOUS
  <2>5. PICK t \in BOOLEAN : t = cut'
    BY <2>1
  <2>6. PICK b : b = Sets'
    OBVIOUS
  <2>m. PICK M, F : M = Seqs(q) /\ F = Seqs(r)
    OBVIOUS
  <2>7. b = BufferOf(M, F, c, t)
    BY <2>2, <2>3, <2>5, <2>6, <2>m, SetsParts
  <2>8. /\ Chain(r, q, e) /\ AllWhole(r) /\ Marked(q, W) /\ Marked(r, W)
        /\ ~(Weight(q) > MemMax) /\ Weight(r) <= SpoolMax
    BY <2>1, <2>3, <2>4, Zenon
  <2>9. Settled(b, W) = b
    BY <2>7, <2>8, <2>m, SettledNow
  <2>10. AsSets' = Settled(Sets', written')
    BY DEF AsSets
  <2> QED
    BY <2>4, <2>6, <2>9, <2>10, Zenon
<1> QED
  BY <1>1, <1>2

LEMMA PushRefines ==
    ASSUME SpoolInv, SettledInv, SpoolPush
    PROVE  AsSets' = PushOutput(AsSets, written', events')
<1>1. /\ ~spilling /\ memory \in Seq(ReplayFrame) /\ events' = events + 1
      /\ memory' = Append(memory, [seq |-> events + 1, data |-> TRUE])
      /\ file' = file /\ covered' = covered /\ cut' = cut
  BY DEF SpoolInv, SpoolTypeOK, SpoolPush
<1>2. AsSets = Sets
  BY <1>1, IdleSettled
<1>3. Seqs(memory') = Seqs(memory) \cup {events'}
  <2>1. Seqs(Append(memory, [seq |-> events + 1, data |-> TRUE]))
          = Seqs(memory) \cup {[seq |-> events + 1, data |-> TRUE].seq}
    BY <1>1, SeqsPushed
  <2> QED
    BY <1>1, <2>1
<1>4. PICK M, F, c : M = Seqs(memory) /\ F = Seqs(file) /\ c = IF covered = 0 THEN NoCheckpoint ELSE covered
  OBVIOUS
<1>5. PICK b, b1 : b = Sets /\ b1 = Sets'
  OBVIOUS
<1>6. b = BufferOf(M, F, c, cut) /\ b1 = BufferOf(M \cup {events'}, F, c, cut)
  BY <1>1, <1>3, <1>4, <1>5, SetsParts
<1>7. b1 = [b EXCEPT !.mem = b.mem \cup {events'}]
  BY <1>6 DEF BufferOf
<1>8. PushOutput(b, written', events') = Settled([b EXCEPT !.mem = b.mem \cup {events'}], written')
  BY Zenon DEF PushOutput
<1>9. AsSets' = Settled(Sets', written')
  BY DEF AsSets
<1> QED
  BY <1>2, <1>5, <1>7, <1>8, <1>9, Zenon

LEMMA ResizeRefines ==
    ASSUME SpoolInv, SettledInv, SpoolResize, SpoolInv', SettledInv'
    PROVE  AsSets' = PushResize(AsSets, written', events')
<1>1. /\ ~spilling /\ spilling' = spilling /\ written' = written /\ events' = events + 1
      /\ file' = file /\ covered' = covered /\ cut' = cut
  BY DEF SpoolResize
<1>2. AsSets = Sets /\ AsSets' = Sets'
  BY <1>1, IdleSettled
<1>3. PICK M, F, c : M = Seqs(memory) /\ F = Seqs(file) /\ c = IF covered = 0 THEN NoCheckpoint ELSE covered
  OBVIOUS
<1>4. Seqs(memory') = (M \ {m \in M \ written : \A k \in M : k <= m}) \cup {events'}
  BY <1>1, <1>3, ResizeSeqs DEF SettledInv
<1>5. PICK L : L = {m \in M \ written : \A k \in M : k <= m}
  OBVIOUS
<1>6. PICK b, b1 : b = Sets /\ b1 = Sets'
  OBVIOUS
<1>7. b = BufferOf(M, F, c, cut) /\ b1 = BufferOf((M \ L) \cup {events'}, F, c, cut)
  <2>1. Seqs(memory') = (M \ L) \cup {events'}
    BY <1>4, <1>5, Zenon
  <2> QED
    BY <1>1, <1>3, <1>6, <2>1, SetsParts
<1>8. b.mem = M
  BY <1>7, BufferParts
<1>9. b1 = [b EXCEPT !.mem = (b.mem \ L) \cup {events'}]
  BY <1>7 DEF BufferOf
<1>10. PushResize(b, written, events') = [b EXCEPT !.mem = (b.mem \ L) \cup {events'}]
  <2>1. L = {m \in b.mem \ written : \A k \in b.mem : k <= m}
    BY <1>5, <1>8, Zenon
  <2> QED
    BY <2>1, Zenon DEF PushResize
<1> QED
  BY <1>1, <1>2, <1>6, <1>9, <1>10, Zenon

LEMMA CheckpointRefines ==
    ASSUME SpoolInv, SettledInv, SpoolCheckpoint, faults' = faults, SpoolInv', SettledInv'
    PROVE  AsSets' = AcceptCheckpoint(AsSets, covered', {})
<1>1. /\ ~spilling /\ spilling' = spilling /\ cut' = cut /\ covered \in Nat /\ events \in Nat
  BY SpoolConstants DEF SpoolInv, SpoolTypeOK, SpoolCheckpoint
<1>2. AsSets = Sets /\ AsSets' = Sets'
  BY <1>1, IdleSettled
<1>3. PICK M, F, c : M = Seqs(memory) /\ F = Seqs(file) /\ c = IF covered = 0 THEN NoCheckpoint ELSE covered
  OBVIOUS
<1>4. PICK s \in covered + 1..events : /\ covered' = s
                                       /\ Seqs(memory') = {m \in M : m > s}
                                       /\ Seqs(file') = {m \in F : m > s}
  BY <1>3, CheckpointSeqs DEF SettledInv
<1>5. PICK M1, F1 : M1 = {m \in M : m > s} /\ F1 = {m \in F : m > s}
  OBVIOUS
<1>6. PICK b, b1 : b = Sets /\ b1 = Sets'
  OBVIOUS
<1>7. s \in Nat /\ s # 0 /\ ~(c >= s)
  BY <1>1, <1>3, <1>4 DEF NoCheckpoint
<1>8. b = BufferOf(M, F, c, cut) /\ b1 = BufferOf(M1, F1, s, cut)
  BY <1>1, <1>3, <1>4, <1>5, <1>6, <1>7, SetsParts
<1>9. b.checkpoint = c /\ b.mem = M /\ b.spool = F
  BY <1>8, BufferParts
<1>10. AcceptCheckpoint(b, s, {}) = [b EXCEPT !.checkpoint = s, !.screen = {}, !.mem = M1, !.spool = F1]
  <2>1. M1 = {m \in b.mem : m > s} /\ F1 = {m \in b.spool : m > s} /\ ~(b.checkpoint >= s)
    BY <1>5, <1>7, <1>9, Zenon
  <2> QED
    BY <2>1, Zenon DEF AcceptCheckpoint
<1>11. [b EXCEPT !.checkpoint = s, !.screen = {}, !.mem = M1, !.spool = F1] = b1
  <2>1. PICK a1 : a1 = [b EXCEPT !.checkpoint = s]
    OBVIOUS
  <2>2. PICK a2 : a2 = [a1 EXCEPT !.screen = {}]
    OBVIOUS
  <2>3. PICK a3 : a3 = [a2 EXCEPT !.mem = M1]
    OBVIOUS
  <2>4. PICK a4 : a4 = [a3 EXCEPT !.spool = F1]
    OBVIOUS
  <2>5. a1 = [mem |-> M, spool |-> F, checkpoint |-> s, screen |-> {}, truncated |-> cut]
    BY <1>8, <2>1 DEF BufferOf
  <2>6. a2 = [mem |-> M, spool |-> F, checkpoint |-> s, screen |-> {}, truncated |-> cut]
    BY <2>2, <2>5
  <2>7. a3 = [mem |-> M1, spool |-> F, checkpoint |-> s, screen |-> {}, truncated |-> cut]
    BY <2>3, <2>6
  <2>8. a4 = [mem |-> M1, spool |-> F1, checkpoint |-> s, screen |-> {}, truncated |-> cut]
    BY <2>4, <2>7
  <2>9. [b EXCEPT !.checkpoint = s, !.screen = {}, !.mem = M1, !.spool = F1] = a4
    BY <2>1, <2>2, <2>3, <2>4, Zenon
  <2> QED
    BY <1>8, <2>8, <2>9 DEF BufferOf
<1> QED
  BY <1>2, <1>4, <1>6, <1>10, <1>11, Zenon

\* A round of the loop does not change what the buffer stands for.
LEMMA SpillRefines ==
    ASSUME SpoolInv, SettledInv, SpoolSpill, faults' = faults
    PROVE  AsSets' = AsSets
<1>1. /\ memory \in Seq(ReplayFrame) /\ file \in Seq(Record) /\ events \in Nat
      /\ Chain(file, memory, events) /\ AllWhole(file) /\ MarkedInv
      /\ Marked(memory, written) /\ Marked(file, written) /\ Weight(memory) > MemMax
  <2>1. spilling
    BY Zenon DEF SpoolSpill
  <2> QED
    BY <2>1, SpoolConstants DEF SpoolInv, SpoolTypeOK, SettledInv, MarkedInv
<1>2. PICK h, T, F, W : h = Head(memory).seq /\ T = Seqs(memory') /\ F = Seqs(file) /\ W = written
  OBVIOUS
<1>3. PICK N : N = Newest(F \cup {h}, W, SpoolMax)
  OBVIOUS
<1>4. /\ Seqs(file') = N
      /\ Seqs(memory) = {h} \cup T /\ h \in Nat /\ \A y \in T : h < y
      /\ cut \in BOOLEAN /\ cut' \in BOOLEAN /\ (cut' <=> cut \/ Cuts(F \cup {h}, W, SpoolMax))
      /\ written' = W /\ covered' = covered
  BY <1>1, <1>2, <1>3, SpillSets
<1>5. Weighed(memory, W) /\ Weighed(file, W) /\ Before(Seqs(file), Seqs(memory))
  BY <1>1, <1>2, ChainSets, Zenon
<1>6. /\ F \in SUBSET Nat /\ IsFiniteSet(F) /\ {h} \cup T \in SUBSET Nat /\ IsFiniteSet({h} \cup T)
      /\ Cardinality(({h} \cup T) \cap W) > MemMax /\ \A x \in F : x < h
  BY <1>1, <1>2, <1>4, <1>5 DEF Weighed, Before
<1>7. T \in SUBSET Nat /\ IsFiniteSet(T)
  <2>1. T \in SUBSET ({h} \cup T)
    OBVIOUS
  <2> QED
    BY <1>6, <2>1, FS_Subset
<1>8. PICK M, D, E : /\ M = {h} \cup T
                     /\ D = F \cup (M \ Newest(M, W, MemMax))
                     /\ E = N \cup (T \ Newest(T, W, MemMax))
  OBVIOUS
<1>9. /\ Newest(M, W, MemMax) = Newest(T, W, MemMax)
      /\ Newest(D, W, SpoolMax) = Newest(E, W, SpoolMax)
      /\ Cuts(D, W, SpoolMax) <=> Cuts(F \cup {h}, W, SpoolMax) \/ Cuts(E, W, SpoolMax)
  <2>1. Round(F, T, h, W, N, M, D, E)
    BY <1>3, <1>4, <1>6, <1>7, <1>8, Zenon DEF Round
  <2> QED
    BY <2>1, RoundSettles, Zenon
<1>10. PICK c : c = IF covered = 0 THEN NoCheckpoint ELSE covered
  OBVIOUS
<1>11. PICK b, b1 : b = Sets /\ b1 = Sets'
  OBVIOUS
<1>12. PICK t, t1 : t = cut /\ t1 = cut'
  OBVIOUS
<1>13. b = BufferOf(M, F, c, t) /\ b1 = BufferOf(T, N, c, t1)
  BY <1>2, <1>4, <1>8, <1>10, <1>11, <1>12, SetsParts
<1>14. PICK n1, k1, u, v : /\ n1 = Newest(M, W, MemMax) /\ k1 = Newest(D, W, SpoolMax)
                           /\ u = (t \/ Cuts(D, W, SpoolMax)) /\ v = (t1 \/ Cuts(E, W, SpoolMax))
  OBVIOUS
<1>15. Settled(b, W) = BufferOf(n1, k1, c, u)
  <2>1. n1 = Newest(M, W, MemMax) /\ D = F \cup (M \ n1)
    BY <1>8, <1>14, Zenon
  <2> QED
    BY <1>13, <1>14, <2>1, SettledParts
<1>16. Settled(b1, W) = BufferOf(n1, k1, c, v)
  BY <1>8, <1>9, <1>13, <1>14, SettledParts
<1>17. u = v
  BY <1>4, <1>9, <1>12, <1>14
<1>18. AsSets = Settled(Sets, written) /\ AsSets' = Settled(Sets', written')
  BY DEF AsSets
<1> QED
  BY <1>2, <1>4, <1>11, <1>15, <1>16, <1>17, <1>18, Zenon

\* On a disk that has not failed the sequence of frames, the file and the reading
\* of the file do what the sets of ReplayBuffer do: a push, a resize, a checkpoint
\* are one step each there, and the rounds of the loop of push_output are none.
THEOREM HealthyRefinesEver == SpoolSpec => HealthyRefines
<1> DEFINE Refines ==
      faults' = 0 =>
         /\ ~spilling' => AsSets' = Sets'
         /\ IF spilling
            THEN AsSets' = AsSets
            ELSE \/ AsSets' = PushOutput(AsSets, written', events')
                 \/ AsSets' = PushResize(AsSets, written', events')
                 \/ AsSets' = AcceptCheckpoint(AsSets, covered', {})
<1>1. SpoolInv /\ HealthyInv /\ SpoolInv' /\ HealthyInv' /\ [SpoolNext]_spoolVars => [Refines]_spoolVars
  <2> SUFFICES ASSUME SpoolInv, HealthyInv, SpoolInv', HealthyInv', SpoolNext, faults' = 0
               PROVE  /\ ~spilling' => AsSets' = Sets'
                      /\ IF spilling
                         THEN AsSets' = AsSets
                         ELSE \/ AsSets' = PushOutput(AsSets, written', events')
                              \/ AsSets' = PushResize(AsSets, written', events')
                              \/ AsSets' = AcceptCheckpoint(AsSets, covered', {})
    OBVIOUS
  <2>1. faults' = faults /\ SettledInv /\ SettledInv' /\ faults \in Nat
    BY FaultsGrow DEF HealthyInv
  <2>2. ~spilling' => AsSets' = Sets'
    BY <2>1, IdleSettled
  <2>3. CASE SpoolPush
    BY <2>1, <2>2, <2>3, PushRefines DEF SpoolPush
  <2>4. CASE SpoolSpill
    <3>1. spilling
      BY <2>4, Zenon DEF SpoolSpill
    <3> QED
      BY <2>1, <2>2, <2>4, <3>1, SpillRefines
  <2>5. CASE SpoolRefused
    BY <2>1, <2>5 DEF SpoolRefused
  <2>6. CASE SpoolResize
    BY <2>1, <2>2, <2>6, ResizeRefines DEF SpoolResize
  <2>7. CASE SpoolCheckpoint
    <3>1. ~spilling
      BY <2>7, Zenon DEF SpoolCheckpoint
    <3> QED
      BY <2>1, <2>2, <2>7, <3>1, CheckpointRefines
  <2> QED
    BY <2>3, <2>4, <2>5, <2>6, <2>7 DEF SpoolNext
<1>2. SpoolSpec => []HealthyInv
  BY SpoolInvAlways, HealthyInit, HealthyStep, PTL DEF SpoolSpec
<1> QED
  BY <1>1, <1>2, SpoolInvAlways, PTL DEF SpoolSpec, HealthyRefines

=============================================================================
