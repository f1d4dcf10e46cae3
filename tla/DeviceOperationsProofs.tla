------------------------ MODULE DeviceOperationsProofs ------------------------
(***************************************************************************)
(* What an operation's status at the server says about what the web view   *)
(* did, for every number of operations and any bound of the queues.        *)
(***************************************************************************)
EXTENDS DeviceOperations, DeviceOutboxProofs

Fresh == {"submitted", "waiting"}
Beyond == {"accepted", "running"} \cup Final

Rows == [status: Status \cup {"absent"}, accepted: BOOLEAN, running: BOOLEAN]
Downs == [type: {"request", "ack", "error"}, o: Ops, status: Status \cup {"none", "absent"}]

\* The frames of the view: those of completions carry a final status.
Frames ==
    {f \in [kind: {"accepted", "running", "completed"}, of: Ops, n: {""} \cup Final] :
        f.kind = "completed" <=> f.n \in Final}

\* The status a frame asks for.
NextOf(f) == IF f.kind = "completed" THEN f.n ELSE f.kind

TableShape ==
    /\ op \in [Ops -> Rows]
    /\ api \in [Ops -> {"new", "send", "read", "write", "done"}]
    /\ job \in [{"now", "old"} -> Jobs]

QueueShape == queue \in Seq(Downs) /\ down \in Seq(Downs) /\ up \in Seq(Frames)

BoxShape ==
    /\ OutboxOf(box, Frames) /\ box.selected = 0
    /\ local \in [Ops -> Status \cup {"none", "absent"}]
    /\ seen \subseteq Ops

ViewShape ==
    /\ batch \in Seq([o: Ops, status: Status \cup {"absent"}]) /\ at \in Steps
    /\ at # "idle" => batch # <<>>
    /\ runs \in [Ops -> 0..2] /\ outcome \in [Ops -> Final \cup {"none"}]

Shape == TableShape /\ QueueShape /\ BoxShape /\ ViewShape

-----------------------------------------------------------------------------
(* Frames, rows and lists *)

LEMMA FrameFacts ==
    /\ \A f \in Frames :
         /\ f.of \in Ops /\ f.kind \in Acknowledged /\ f.kind \notin {"error", "output"}
         /\ NextOf(f) \in Beyond
         /\ f.kind = "completed" <=> NextOf(f) \in Final
         /\ f.kind = "accepted" <=> NextOf(f) = "accepted"
         /\ f.kind = "running" <=> NextOf(f) = "running"
         /\ f.n = "succeeded" <=> NextOf(f) = "succeeded"
    /\ \A o \in Ops :
         /\ \A k \in {"accepted", "running"} : [kind |-> k, of |-> o, n |-> ""] \in Frames
         /\ \A n \in Final : [kind |-> "completed", of |-> o, n |-> n] \in Frames
  BY DEF Frames, NextOf, Beyond, Final, TerminalStatuses, Acknowledged

\* An update sets one status and remembers the stage.
LEMMA Updated ==
    ASSUME op \in [Ops -> Rows], NEW o \in Ops, NEW next \in Status, Update(o, next)
    PROVE  /\ op' \in [Ops -> Rows]
           /\ op'[o].status = next
           /\ op'[o].accepted <=> op[o].accepted \/ next = "accepted"
           /\ op'[o].running <=> op[o].running \/ next = "running"
           /\ \A x \in Ops : x # o => op'[x] = op[x]
<1> DEFINE r == op[o]
           a == (r.accepted \/ next = "accepted")
           b == (r.running \/ next = "running")
           s == [[[r EXCEPT !.status = next] EXCEPT !.accepted = a] EXCEPT !.running = b]
<1>1. r \in Rows /\ a \in BOOLEAN /\ b \in BOOLEAN
  OBVIOUS
<1>2. op' = [op EXCEPT ![o] = s]
  BY DEF Update
<1> HIDE DEF r, a, b
<1>3. s \in Rows /\ s.status = next /\ s.accepted = a /\ s.running = b
  BY <1>1 DEF Rows
<1> HIDE DEF s, Rows
<1>4. op' \in [Ops -> Rows] /\ op'[o] = s /\ \A x \in Ops : x # o => op'[x] = op[x]
  BY <1>2, <1>3
<1>5. /\ op'[o].accepted <=> op[o].accepted \/ next = "accepted"
      /\ op'[o].running <=> op[o].running \/ next = "running"
  BY <1>3, <1>4 DEF a, b, r
<1> QED
  BY <1>3, <1>4, <1>5

\* SetToSeq lists a finite set.
LEMMA Listed ==
    ASSUME NEW S, IsFiniteSet(S)
    PROVE  /\ SetToSeq(S) \in Seq(S) /\ DOMAIN SetToSeq(S) = 1..Len(SetToSeq(S))
           /\ Len(SetToSeq(S)) \in Nat
           /\ \A i, j \in 1..Len(SetToSeq(S)) : SetToSeq(S)[i] = SetToSeq(S)[j] => i = j
<1> DEFINE n == Cardinality(S)
<1>1. n \in Nat /\ ExistsBijection(1..n, S)
  BY FS_CardinalityType
<1>2. PICK g \in Bijection(1..n, S) : TRUE
  BY <1>1 DEF ExistsBijection
<1>3. g \in [1..n -> S] /\ IsInjective(g)
  BY <1>2 DEF Bijection, Injection, Surjection, IsInjective
<1> DEFINE s == SetToSeq(S)
<1>4. s \in [1..n -> S] /\ IsInjective(s)
  BY <1>3 DEF SetToSeq
<1> HIDE DEF s, n
<1>5. s \in Seq(S) /\ Len(s) = n /\ DOMAIN s = 1..n
  BY <1>1, <1>4
<1> QED
  BY <1>1, <1>4, <1>5 DEF s, IsInjective

\* A part of what was written arrives.
LEMMA Shorter ==
    ASSUME NEW S, NEW s \in Seq(S), NEW k \in 0..Len(s)
    PROVE  /\ SubSeq(s, 1, k) \in Seq(S) /\ Len(SubSeq(s, 1, k)) = k
           /\ \A i \in 1..k : SubSeq(s, 1, k)[i] = s[i]
  OBVIOUS

LEMMA Joined ==
    ASSUME NEW S, NEW s \in Seq(S), NEW t \in Seq(S)
    PROVE  s \o t \in Seq(S) /\ Len(s \o t) = Len(s) + Len(t)
  OBVIOUS

-----------------------------------------------------------------------------
(* The outbox *)

LEMMA BoxReported ==
    ASSUME NEW b, OutboxOf(b, Frames), b.selected = 0, NEW f \in Frames, Len(b.entries) < Limit
    PROVE  LET d == Pushed(b, f)
               n == Len(b.entries)
           IN  /\ OutboxOf(d, Frames) /\ d.selected = 0
               /\ n \in Nat /\ Len(d.entries) = n + 1
               /\ \A i \in 1..n : d.entries[i] = b.entries[i]
               /\ d.entries[n + 1].frame = f /\ ~d.entries[n + 1].sent
               /\ Held(d) = Held(b) \cup {f}
<1> DEFINE d == Pushed(b, f)
           item == [frame |-> f, sent |-> FALSE]
<1>1. f.kind # "error"
  BY FrameFacts
<1>2. Prepared(b, f) = b /\ Admits(b, f)
  BY <1>1 DEF Prepared, Admits
<1>3. OutboxOf(d, Frames) /\ d.entries = Append(b.entries, item) /\ d.selected = 0
  BY <1>1, <1>2, Pushing
<1>4. Held(d) = Held(b) \cup {f}
  BY <1>2, PushLeaves
<1>5. item \in Entries(Frames) /\ item.frame = f /\ item.sent = FALSE
  BY DEF Entries
<1>6. b.entries \in Seq(Entries(Frames))
  BY DEF OutboxOf
<1> HIDE DEF d, item, Entries
<1>7. /\ Len(d.entries) = Len(b.entries) + 1 /\ d.entries[Len(b.entries) + 1] = item
      /\ \A i \in 1..Len(b.entries) : d.entries[i] = b.entries[i]
      /\ Len(b.entries) \in Nat
  BY <1>3, <1>5, <1>6
<1> QED
  BY <1>3, <1>4, <1>5, <1>7 DEF d

LEMMA SameHeld ==
    ASSUME NEW F, NEW b, OutboxOf(b, F), NEW d, OutboxOf(d, F), Len(d.entries) = Len(b.entries),
           \A i \in 1..Len(b.entries) : d.entries[i].frame = b.entries[i].frame
    PROVE  Held(d) = Held(b)
<1>1. DOMAIN b.entries = 1..Len(b.entries) /\ DOMAIN d.entries = 1..Len(b.entries)
  BY DEF OutboxOf
<1> QED
  BY <1>1 DEF Held

LEMMA BoxFlushed ==
    ASSUME NEW b, OutboxOf(b, Frames), b.selected = 0, NextIndex(b) # 0
    PROVE  LET d == Sent(Selected(b))
               next == NextIndex(b)
           IN  /\ OutboxOf(d, Frames) /\ d.selected = 0
               /\ next \in 1..Len(b.entries) /\ b.entries[next].frame \in Frames
               /\ b.entries[next].frame \in Held(b)
               /\ \A i \in 1..(next - 1) : b.entries[i].sent
               /\ Len(d.entries) = Len(b.entries)
               /\ \A i \in 1..Len(b.entries) :
                     /\ d.entries[i].frame = b.entries[i].frame
                     /\ d.entries[i].sent <=> b.entries[i].sent \/ i = next
<1> DEFINE c == Selected(b)
           d == Sent(c)
           next == NextIndex(b)
<1>1. /\ DOMAIN b = {"entries", "turn", "selected"} /\ b.entries \in Seq(Entries(Frames))
      /\ DOMAIN b.entries = 1..Len(b.entries) /\ Len(b.entries) \in Nat
      /\ next \in 1..Len(b.entries) /\ next \in Unsent(b)
  BY NextIsUnsent DEF OutboxOf
<1>2. \A i \in 1..Len(b.entries) : b.entries[i].frame \in Frames /\ b.entries[i].frame \in Held(b)
  BY <1>1, HeldInside
<1>3. \A i \in 1..(next - 1) : b.entries[i].sent
  <2> DEFINE U == Unsent(b)
             first == Min(U)
             others == {i \in first..Len(b.entries) :
                          (\A j \in first..i : j \in U /\ b.entries[j].frame.kind = "output")
                          /\ b.entries[i].frame.of # b.turn}
  <2>1. U # {} /\ U \subseteq 1..Len(b.entries)
    BY <1>1 DEF Unsent
  <2>2. first \in U /\ \A m \in U : first <= m
    BY <2>1, LeastNatural
  <2>3. others = {}
    <3> SUFFICES ASSUME NEW i \in others PROVE FALSE
      OBVIOUS
    <3>1. first \in first..i
      BY <2>1, <2>2
    <3>2. b.entries[first].frame.kind = "output"
      BY <3>1
    <3> QED
      BY <1>2, <2>1, <2>2, <3>2, FrameFacts
  <2>4. next = first
    BY <2>1, <2>3 DEF NextIndex
  <2>5. \A i \in 1..(next - 1) : i \notin U
    BY <1>1, <2>1, <2>2, <2>4
  <2> QED
    BY <1>1, <2>5 DEF Unsent
<1>4. c.entries = b.entries /\ c.selected = next /\ DOMAIN c = {"entries", "turn", "selected"}
  BY <1>1 DEF Selected
<1> HIDE DEF c, next
<1>5. OutboxOf(c, Frames) /\ c.selected # 0
  BY <1>1, <1>4 DEF OutboxOf
<1>6. c.entries[next].frame.kind \in Acknowledged
  BY <1>1, <1>2, <1>4, FrameFacts
<1>7. /\ OutboxOf(d, Frames) /\ d.selected = 0
      /\ Len(d.entries) = Len(c.entries)
      /\ \A i \in 1..Len(c.entries) :
            /\ d.entries[i].frame = c.entries[i].frame
            /\ d.entries[i].sent <=> c.entries[i].sent \/ i = next
  <2> DEFINE index == IF c.selected # 0 THEN c.selected ELSE NextIndex(c)
             frame == c.entries[index].frame
  <2>1. /\ OutboxOf(Sent(c), Frames) /\ Sent(c).selected = 0
        /\ index # 0 /\ frame.kind \in Acknowledged
             => /\ Len(Sent(c).entries) = Len(c.entries)
                /\ \A k \in 1..Len(c.entries) :
                      /\ Sent(c).entries[k].frame = c.entries[k].frame
                      /\ Sent(c).entries[k].sent <=> c.entries[k].sent \/ k = index
    BY <1>5, Sending
  <2>2. index = next /\ index # 0 /\ frame.kind \in Acknowledged
    BY <1>4, <1>5, <1>6
  <2> QED
    BY <2>1, <2>2
<1> QED
  BY <1>1, <1>2, <1>3, <1>4, <1>7 DEF c, next

-----------------------------------------------------------------------------
(* Shape *)


LEMMA ShapeStarts == Init => Shape
<1> SUFFICES ASSUME Init PROVE Shape
  OBVIOUS
<1>1. TableShape
  <2>1. Absent \in Rows /\ [Absent EXCEPT !.status = "submitted"] \in Rows
    BY DEF Absent, Rows, Status
  <2>2. op \in [Ops -> Rows]
    <3> HIDE DEF Rows
    <3> QED
      BY <2>1 DEF Init
  <2>3. api \in [Ops -> {"new", "send", "read", "write", "done"}]
    BY DEF Init
  <2>4. job \in [{"now", "old"} -> Jobs]
    BY DEF Init, Jobs
  <2> QED
    BY <2>2, <2>3, <2>4 DEF TableShape
<1>2. QueueShape
  BY DEF Init, QueueShape
<1>3. BoxShape
  <2>1. OutboxOf(box, Frames) /\ box.selected = 0
    BY Emptied DEF Init, EmptyBox
  <2> QED
    BY <2>1 DEF Init, BoxShape
<1>4. ViewShape
  BY DEF Init, ViewShape, Steps
<1> QED
  BY <1>1, <1>2, <1>3, <1>4 DEF Shape

\* A frame written to the connection.
LEMMA WrittenShape ==
    ASSUME down \in Seq(Downs), NEW f \in Downs
    PROVE  Written(f) \in Seq(Downs)
  BY DEF Written

LEMMA SpokenShape ==
    ASSUME NEW o \in Ops, NEW s \in Status \cup {"absent"}
    PROVE  Request(o, s) \in Downs /\ Ack(o, s) \in Downs /\ Error(o) \in Downs
  BY DEF Request, Ack, Error, Downs

\* The rows that greet a connection are those in the queue's free room.
LEMMA GreetShape ==
    ASSUME Shape, Greet
    PROVE  /\ queue' \in Seq(Downs)
           /\ \A i \in 1..Len(queue') :
                 \/ i \in 1..Len(queue) /\ queue'[i] = queue[i]
                 \/ \E o \in Ops : op[o].status \in Status \ Final /\ queue'[i] = Request(o, op[o].status)
<1> DEFINE S == {o \in Ops : op[o].status \in Status \ Final}
           pending == SetToSeq(S)
           n == Len(pending)
           fits == {i \in DOMAIN pending : Len(queue) + i <= SendQueue}
           asked == [i \in fits |-> Request(pending[i], op[pending[i]].status)]
<1>1. IsFiniteSet(S)
  BY OperationConstants, FS_Subset
<1>2. n \in Nat /\ DOMAIN pending = 1..n /\ pending \in Seq(S)
  <2> HIDE DEF S
  <2> QED
    BY <1>1, Listed
<1>3. \A i \in 1..n : pending[i] \in S
  <2> HIDE DEF S, pending
  <2> QED
    BY <1>2 DEF n
<1> HIDE DEF pending, S
<1>4. \A i \in 1..n : /\ pending[i] \in Ops /\ op[pending[i]].status \in Status \ Final
                      /\ Request(pending[i], op[pending[i]].status) \in Downs
  BY <1>3, SpokenShape DEF S
<1>5. queue \in Seq(Downs) /\ Len(queue) \in Nat /\ SendQueue \in Nat
  BY OperationConstants DEF Shape, QueueShape
<1>6. \E m \in 0..n : fits = 1..m
  <2>1. CASE SendQueue < Len(queue)
    <3>1. fits = 1..0
      BY <1>2, <1>5, <2>1
    <3> QED
      BY <1>2, <3>1
  <2>2. CASE SendQueue >= Len(queue) /\ SendQueue - Len(queue) <= n
    <3>1. fits = 1..(SendQueue - Len(queue))
      BY <1>2, <1>5, <2>2
    <3> QED
      BY <1>2, <1>5, <2>2, <3>1
  <2>3. CASE SendQueue - Len(queue) > n
    <3>1. fits = 1..n
      BY <1>2, <1>5, <2>3
    <3> QED
      BY <1>2, <3>1
  <2> HIDE DEF fits, n
  <2>4. \/ SendQueue < Len(queue) \/ SendQueue - Len(queue) > n
        \/ SendQueue >= Len(queue) /\ SendQueue - Len(queue) <= n
    BY <1>2, <1>5
  <2> QED
    BY <2>1, <2>2, <2>3, <2>4
<1>7. PICK m \in 0..n : fits = 1..m
  BY <1>6
<1>8. asked = [i \in 1..m |-> Request(pending[i], op[pending[i]].status)]
  BY <1>7
<1>9. asked \in Seq(Downs) /\ Len(asked) = m
      /\ \A i \in 1..m : asked[i] = Request(pending[i], op[pending[i]].status)
  <2>1. asked \in [1..m -> Downs] /\ m \in Nat
    <3> HIDE DEF asked, n
    <3> QED
      BY <1>2, <1>4, <1>7, <1>8
  <2>2. \A i \in 1..m : asked[i] = Request(pending[i], op[pending[i]].status)
    BY <1>8
  <2> HIDE DEF asked
  <2>3. asked \in Seq(Downs) /\ Len(asked) = m
    BY <2>1
  <2> QED
    BY <2>2, <2>3
<1>10. queue' = queue \o asked
  BY DEF Greet, pending, S
<1> HIDE DEF asked, fits, n
<1>11. /\ queue' \in Seq(Downs) /\ Len(queue') = Len(queue) + m
       /\ \A i \in 1..Len(queue) : queue'[i] = queue[i]
       /\ \A i \in 1..(Len(queue) + m) :
             i \notin 1..Len(queue) => i - Len(queue) \in 1..m /\ queue'[i] = asked[i - Len(queue)]
  <2>1. m \in Nat /\ asked \in Seq(Downs) /\ Len(asked) = m
    BY <1>2, <1>7, <1>9
  <2>2. queue' \in Seq(Downs) /\ Len(queue') = Len(queue) + m
    BY <1>5, <1>10, <2>1, Joined
  <2>3. \A i \in 1..Len(queue) : queue'[i] = queue[i]
    BY <1>5, <1>10, <2>1
  <2>4. ASSUME NEW i \in 1..(Len(queue) + m), i \notin 1..Len(queue)
        PROVE  i - Len(queue) \in 1..m /\ queue'[i] = asked[i - Len(queue)]
    BY <1>5, <1>10, <2>1, <2>4
  <2> QED
    BY <2>2, <2>3, <2>4
<1>12. \A i \in 1..m : \E o \in Ops : /\ op[o].status \in Status \ Final
                                     /\ asked[i] = Request(o, op[o].status)
  <2>1. \A i \in 1..m : i \in 1..n
    BY <1>2, <1>7
  <2> QED
    BY <1>4, <1>9, <2>1
<1> QED
  BY <1>11, <1>12

LEMMA ShapeServer ==
    ASSUME Shape,
           \/ \E o \in Ops : Create(o) \/ SendDevice(o) \/ ReadForWaiting(o) \/ WriteWaiting(o)
           \/ Greet \/ Forward \/ Receive \/ Cleanup
           \/ \E c \in {"now", "old"} : Write(c) \/ Answer(c)
    PROVE  TableShape' /\ QueueShape'
<1>0. TableShape /\ QueueShape
  BY DEF Shape
<1>1. \A x \in Ops : op[x] \in Rows /\ op[x].status \in Status \cup {"absent"}
  <2>1. \A x \in Ops : op[x] \in Rows
    BY <1>0 DEF TableShape
  <2> QED
    BY <2>1 DEF Rows
<1>2. \A d \in {"now", "old"} : job[d].at \in {"write", "answer"} =>
                                  job[d].o \in Ops /\ job[d].next \in Status
  <2>1. \A d \in {"now", "old"} : job[d] \in Jobs
    BY <1>0 DEF TableShape
  <2> QED
    BY <2>1 DEF Jobs, NoJob
<1>3. ASSUME NEW o \in Ops, Create(o) PROVE TableShape' /\ QueueShape'
  <2>1. [op[o] EXCEPT !.status = "submitted"] \in Rows
    BY <1>1 DEF Rows, Status
  <2>2. op' = [op EXCEPT ![o] = [op[o] EXCEPT !.status = "submitted"]]
        /\ api' = [api EXCEPT ![o] = "send"] /\ UNCHANGED <<job, queue, up, down>>
    BY <1>3 DEF Create
  <2> HIDE DEF Rows
  <2>3. op' \in [Ops -> Rows]
    BY <1>0, <2>1, <2>2 DEF TableShape
  <2> QED
    BY <1>0, <2>2, <2>3 DEF TableShape, QueueShape
<1>4. ASSUME NEW o \in Ops, SendDevice(o) PROVE TableShape' /\ QueueShape'
  <2>1. Request(o, "submitted") \in Downs
    BY SpokenShape DEF Status
  <2>2. api' \in [Ops -> {"new", "send", "read", "write", "done"}] /\ UNCHANGED <<op, job, up, down>>
    BY <1>0, <1>4 DEF SendDevice, TableShape
  <2>3. queue' = Append(queue, Request(o, "submitted")) \/ queue' = queue
    BY <1>4 DEF SendDevice
  <2> HIDE DEF Request
  <2>4. queue' \in Seq(Downs)
    BY <1>0, <2>1, <2>3 DEF QueueShape
  <2> QED
    BY <1>0, <2>2, <2>4 DEF TableShape, QueueShape
<1>5. ASSUME NEW o \in Ops, ReadForWaiting(o) PROVE TableShape' /\ QueueShape'
  <2>1. api' \in [Ops -> {"new", "send", "read", "write", "done"}] /\ UNCHANGED <<op, job, queue, up, down>>
    BY <1>0, <1>5 DEF ReadForWaiting, TableShape
  <2> QED
    BY <1>0, <2>1 DEF TableShape, QueueShape
<1>6. ASSUME NEW o \in Ops, WriteWaiting(o) PROVE TableShape' /\ QueueShape'
  <2>1. op' \in [Ops -> Rows]
    BY <1>0, <1>6, Updated DEF WriteWaiting, TableShape, Status
  <2>2. api' \in [Ops -> {"new", "send", "read", "write", "done"}] /\ UNCHANGED <<job, queue, up, down>>
    BY <1>0, <1>6 DEF WriteWaiting, TableShape
  <2> QED
    BY <1>0, <2>1, <2>2 DEF TableShape, QueueShape
<1>7. CASE Greet
  BY <1>0, <1>7, GreetShape DEF Greet, TableShape, QueueShape
<1>8. CASE Forward
  <2>1. Tail(queue) \in Seq(Downs) /\ Head(queue) \in Downs
    BY <1>0, <1>8 DEF Forward, QueueShape
  <2>2. Written(Head(queue)) \in Seq(Downs)
    BY <1>0, <2>1, WrittenShape DEF QueueShape
  <2> QED
    BY <1>0, <1>8, <2>1, <2>2 DEF Forward, TableShape, QueueShape
<1>9. CASE Receive
  <2> DEFINE f == Head(up)
             next == IF Head(up).kind = "completed" THEN Head(up).n ELSE Head(up).kind
             j == [at |-> "write", o |-> f.of, next |-> next]
  <2>1. f \in Frames /\ Tail(up) \in Seq(Frames)
    BY <1>0, <1>9 DEF Receive, QueueShape
  <2>2. f.of \in Ops /\ NextOf(f) \in Status
    BY <2>1, FrameFacts DEF Beyond, Status
  <2>3. j \in Jobs
    BY <2>2 DEF Jobs, NextOf
  <2>4. Written(Ack(f.of, op[f.of].status)) \in Seq(Downs) /\ Written(Error(f.of)) \in Seq(Downs)
    BY <1>0, <1>1, <2>2, SpokenShape, WrittenShape DEF QueueShape
  <2>5. /\ up' = Tail(up) /\ UNCHANGED <<op, api, queue>>
        /\ \/ down' = Written(Ack(f.of, op[f.of].status)) /\ job' = job
           \/ down' = Written(Error(f.of)) /\ job' = job
           \/ job' = [job EXCEPT !["now"] = j] /\ down' = down
    BY <1>9 DEF Receive
  <2> HIDE DEF f, j
  <2>6. down' \in Seq(Downs) /\ job' \in [{"now", "old"} -> Jobs]
    BY <1>0, <2>3, <2>4, <2>5 DEF TableShape, QueueShape
  <2> QED
    BY <1>0, <2>1, <2>5, <2>6 DEF TableShape, QueueShape
<1>10. ASSUME NEW c \in {"now", "old"}, Write(c) PROVE TableShape' /\ QueueShape'
  <2>1. job[c].at = "write" /\ Update(job[c].o, job[c].next)
        /\ job' = [job EXCEPT ![c] = [job[c] EXCEPT !.at = "answer"]]
        /\ UNCHANGED <<api, queue, up, down>>
    BY <1>10 DEF Write
  <2>2. op' \in [Ops -> Rows]
    BY <1>0, <1>2, <2>1, Updated DEF TableShape
  <2>3. [job[c] EXCEPT !.at = "answer"] \in Jobs
    <3>1. job[c] \in Jobs
      BY <1>0 DEF TableShape
    <3>2. job[c] \in [at: {"write", "answer"}, o: Ops, next: Status]
      BY <2>1, <3>1 DEF Jobs, NoJob
    <3> QED
      BY <3>2 DEF Jobs
  <2>4. job' \in [{"now", "old"} -> Jobs]
    <3> HIDE DEF Jobs
    <3> QED
      BY <1>0, <2>1, <2>3 DEF TableShape
  <2> QED
    BY <1>0, <2>1, <2>2, <2>4 DEF TableShape, QueueShape
<1>11. ASSUME NEW c \in {"now", "old"}, Answer(c) PROVE TableShape' /\ QueueShape'
  <2>1. job[c].at = "answer" /\ job' = [job EXCEPT ![c] = NoJob] /\ UNCHANGED <<op, api, queue, up>>
        /\ (down' = down \/ down' = Written(Ack(job[c].o, op[job[c].o].status)))
    BY <1>11 DEF Answer
  <2>2. Written(Ack(job[c].o, op[job[c].o].status)) \in Seq(Downs)
    BY <1>0, <1>1, <1>2, <2>1, SpokenShape, WrittenShape DEF QueueShape
  <2>3. NoJob \in Jobs
    BY DEF Jobs
  <2>4. job' \in [{"now", "old"} -> Jobs]
    <3> HIDE DEF Jobs
    <3> QED
      BY <1>0, <2>1, <2>3 DEF TableShape
  <2> QED
    BY <1>0, <2>1, <2>2, <2>4 DEF TableShape, QueueShape
<1>12. CASE Cleanup
  <2>1. UNCHANGED <<op, api, job>> /\ queue' = <<>> /\ up' = <<>> /\ down' = <<>>
    BY <1>12 DEF Cleanup
  <2> QED
    BY <1>0, <2>1 DEF TableShape, QueueShape
<1> QED
  BY <1>3, <1>4, <1>5, <1>6, <1>7, <1>8, <1>9, <1>10, <1>11, <1>12

\* What is left of the connection.
LEMMA LeaveShape ==
    ASSUME QueueShape, Leave
    PROVE  /\ up' \in Seq(Frames) /\ down' = <<>> /\ down' \in Seq(Downs) /\ ~linked'
           /\ Len(up') \in 0..Len(up) /\ \A i \in 1..Len(up') : up'[i] = up[i]
<1>1. PICK k \in 0..Len(up) : up' = SubSeq(up, 1, k)
  BY DEF Leave
<1>2. /\ up' \in Seq(Frames) /\ Len(up') = k /\ \A i \in 1..k : up'[i] = up[i]
  BY <1>1, Shorter DEF QueueShape
<1> QED
  BY <1>1, <1>2 DEF Leave

LEMMA DownFacts ==
    ASSUME down \in Seq(Downs), down # <<>>
    PROVE  /\ Head(down) \in Downs /\ Tail(down) \in Seq(Downs) /\ Head(down) = down[1]
           /\ Head(down).o \in Ops /\ Head(down).status \in Status \cup {"none", "absent"}
           /\ 1 \in 1..Len(down) /\ Len(Tail(down)) = Len(down) - 1 /\ Len(down) \in Nat
           /\ \A i \in 1..Len(Tail(down)) : i + 1 \in 1..Len(down) /\ Tail(down)[i] = down[i + 1]
<1>1. Head(down) \in Downs /\ Tail(down) \in Seq(Downs) /\ Head(down) = down[1]
  OBVIOUS
<1>2. Head(down).o \in Ops /\ Head(down).status \in Status \cup {"none", "absent"}
  BY <1>1 DEF Downs
<1>3. /\ 1 \in 1..Len(down) /\ Len(Tail(down)) = Len(down) - 1 /\ Len(down) \in Nat
      /\ \A i \in 1..Len(Tail(down)) : i + 1 \in 1..Len(down) /\ Tail(down)[i] = down[i + 1]
  OBVIOUS
<1> QED
  BY <1>1, <1>2, <1>3

LEMMA ShapeDevice ==
    ASSUME Shape,
           Connect \/ Flush \/ TakeRequest \/ TakeAck \/ TakeError \/ Cut \/ Crash
    PROVE  TableShape' /\ QueueShape' /\ BoxShape'
<1>0. TableShape /\ QueueShape /\ BoxShape
  BY DEF Shape
<1>1. CASE Connect
  <2>1. /\ job' = [now |-> NoJob, old |-> job["now"]] /\ box' = Reconnected(box)
        /\ queue' = <<>> /\ up' = <<>> /\ down' = <<>> /\ UNCHANGED <<op, api, local, seen>>
    BY <1>1 DEF Connect
  <2>2. OutboxOf(box', Frames) /\ box'.selected = 0
    BY <1>0, <2>1, Reconnecting DEF BoxShape
  <2>3. NoJob \in Jobs
    BY DEF Jobs
  <2>4. job' \in [{"now", "old"} -> Jobs]
    <3> HIDE DEF Jobs
    <3> QED
      BY <1>0, <2>1, <2>3 DEF TableShape
  <2> QED
    BY <1>0, <2>1, <2>2, <2>4 DEF TableShape, QueueShape, BoxShape
<1>2. CASE Flush
  <2>1. /\ NextIndex(box) # 0 /\ up' = Append(up, box.entries[NextIndex(box)].frame)
        /\ box' = Sent(Selected(box)) /\ UNCHANGED <<op, api, job, queue, down, local, seen>>
    BY <1>2 DEF Flush, server
  <2>2. /\ OutboxOf(box', Frames) /\ box'.selected = 0
        /\ box.entries[NextIndex(box)].frame \in Frames
    BY <1>0, <2>1, BoxFlushed DEF BoxShape
  <2>3. up' \in Seq(Frames)
    BY <1>0, <2>1, <2>2 DEF QueueShape
  <2> QED
    BY <1>0, <2>1, <2>2, <2>3 DEF TableShape, QueueShape, BoxShape
<1>3. CASE TakeRequest
  <2>1. /\ down # <<>> /\ down' = Tail(down) /\ UNCHANGED <<op, api, job, queue, up, box>>
        /\ local' = [local EXCEPT ![Head(down).o] =
                       IF Head(down).o \in seen THEN @ ELSE Head(down).status]
        /\ seen' = seen \cup {Head(down).o}
    BY <1>3 DEF TakeRequest, server
  <2>2. /\ Head(down).o \in Ops /\ Head(down).status \in Status \cup {"none", "absent"}
        /\ Tail(down) \in Seq(Downs)
    BY <1>0, <2>1, DownFacts DEF QueueShape
  <2>3. local' \in [Ops -> Status \cup {"none", "absent"}] /\ seen' \subseteq Ops
    BY <1>0, <2>1, <2>2 DEF BoxShape
  <2> QED
    BY <1>0, <2>1, <2>2, <2>3 DEF TableShape, QueueShape, BoxShape
<1>4. CASE TakeAck
  <2>1. /\ down # <<>> /\ down' = Tail(down) /\ UNCHANGED <<op, api, job, queue, up, seen>>
        /\ box' = OperationAcknowledged(box, Head(down).o, Head(down).status)
        /\ \E s \in {"none", Head(down).status} : local' = [local EXCEPT ![Head(down).o] = s]
    BY <1>4 DEF TakeAck, server
  <2>2. /\ Head(down).o \in Ops /\ Head(down).status \in Status \cup {"none", "absent"}
        /\ Tail(down) \in Seq(Downs)
    BY <1>0, <2>1, DownFacts DEF QueueShape
  <2>3. OutboxOf(box', Frames) /\ box'.selected = 0
    BY <1>0, <2>1, OperationLeaves DEF BoxShape
  <2>4. local' \in [Ops -> Status \cup {"none", "absent"}]
    BY <1>0, <2>1, <2>2 DEF BoxShape
  <2> QED
    BY <1>0, <2>1, <2>2, <2>3, <2>4 DEF TableShape, QueueShape, BoxShape
<1>5. CASE TakeError \/ Cut
  <2>1. Leave /\ UNCHANGED <<op, api, job, queue, box, local, seen>>
    BY <1>5 DEF TakeError, Cut, server, device
  <2>2. up' \in Seq(Frames) /\ down' \in Seq(Downs)
    BY <1>0, <2>1, LeaveShape
  <2> QED
    BY <1>0, <2>1, <2>2 DEF TableShape, QueueShape, BoxShape
<1>6. CASE Crash
  <2>1. /\ Leave /\ UNCHANGED <<op, api, job, queue>>
        /\ box' = EmptyBox /\ local' = [o \in Ops |-> "none"] /\ seen' = {}
    BY <1>6 DEF Crash, server
  <2>2. up' \in Seq(Frames) /\ down' \in Seq(Downs)
    BY <1>0, <2>1, LeaveShape
  <2>3. OutboxOf(box', Frames) /\ box'.selected = 0
    BY <2>1, Emptied DEF EmptyBox
  <2> QED
    BY <1>0, <2>1, <2>2, <2>3 DEF TableShape, QueueShape, BoxShape
<1> QED
  BY <1>1, <1>2, <1>3, <1>4, <1>5, <1>6

\* The operation the view works on.
LEMMA BatchFacts ==
    ASSUME ViewShape, batch # <<>>
    PROVE  /\ Now \in Ops /\ Head(batch) = batch[1] /\ Now = batch[1].o
           /\ Head(batch).status \in Status \cup {"absent"}
           /\ 1 \in 1..Len(batch) /\ Len(Tail(batch)) = Len(batch) - 1 /\ Len(batch) \in Nat
           /\ Tail(batch) \in Seq([o: Ops, status: Status \cup {"absent"}])
           /\ \A i \in 1..Len(Tail(batch)) : i + 1 \in 1..Len(batch) /\ Tail(batch)[i] = batch[i + 1]
<1> DEFINE E == [o: Ops, status: Status \cup {"absent"}]
<1>1. batch \in Seq(E)
  BY DEF ViewShape
<1>2. batch[1] \in E => batch[1].o \in Ops /\ batch[1].status \in Status \cup {"absent"}
  OBVIOUS
<1> HIDE DEF E
<1>3. /\ Head(batch) = batch[1] /\ batch[1] \in E /\ Tail(batch) \in Seq(E)
      /\ 1 \in 1..Len(batch) /\ Len(Tail(batch)) = Len(batch) - 1 /\ Len(batch) \in Nat
      /\ \A i \in 1..Len(Tail(batch)) : i + 1 \in 1..Len(batch) /\ Tail(batch)[i] = batch[i + 1]
  BY <1>1
<1> QED
  BY <1>2, <1>3 DEF Now, E

LEMMA ReportShape ==
    ASSUME BoxShape, Now \in Ops, NEW kind, NEW n, NEW status \in Status,
           [kind |-> kind, of |-> Now, n |-> n] \in Frames, Report(kind, n, status)
    PROVE  BoxShape'
<1> DEFINE f == [kind |-> kind, of |-> Now, n |-> n]
<1>1. /\ Len(box.entries) < Limit /\ box' = Pushed(box, f) /\ UNCHANGED seen
      /\ local' = [local EXCEPT ![Now] = IF @ = "none" THEN @ ELSE status]
  BY DEF Report
<1> HIDE DEF f
<1>2. OutboxOf(box', Frames) /\ box'.selected = 0
  BY <1>1, BoxReported DEF BoxShape, f
<1> QED
  BY <1>1, <1>2 DEF BoxShape

\* The pending operations, listed once each.
LEMMA DrainShape ==
    ASSUME Shape, Drain
    PROVE  /\ batch' \in Seq([o: Ops, status: Status \cup {"absent"}])
           /\ \A i \in 1..Len(batch') :
                 /\ batch'[i].o \in Ops /\ local[batch'[i].o] # "none"
                 /\ batch'[i].status = local[batch'[i].o]
           /\ \A i, j \in 1..Len(batch') : batch'[i].o = batch'[j].o => i = j
<1> DEFINE pending == {x \in Ops : local[x] # "none"}
           E == [o: Ops, status: Status \cup {"absent"}]
           S == {[o |-> x, status |-> local[x]] : x \in pending}
           h == [e \in S |-> e.o]
           b == SetToSeq(S)
<1>1. batch' = b
  BY DEF Drain
<1>2. \A e \in S : e.o \in Ops /\ local[e.o] # "none" /\ e.status = local[e.o] /\ e \in E
                   /\ e = [o |-> e.o, status |-> local[e.o]]
  BY DEF Shape, BoxShape
<1> HIDE DEF S, E
<1>3. IsFiniteSet(S)
  <2>1. h \in Injection(S, Ops)
    BY <1>2 DEF Injection, IsInjective
  <2> QED
    BY <2>1, OperationConstants, FS_Injection
<1>4. /\ b \in Seq(S) /\ Len(b) \in Nat
      /\ \A i, j \in 1..Len(b) : b[i] = b[j] => i = j
  BY <1>3, Listed
<1> HIDE DEF b
<1>5. \A i \in 1..Len(b) : b[i] \in S
  BY <1>4
<1>6. b \in Seq(E)
  BY <1>2, <1>4, <1>5
<1>7. ASSUME NEW i \in 1..Len(b), NEW j \in 1..Len(b), b[i].o = b[j].o PROVE i = j
  <2>1. b[i] = b[j]
    BY <1>2, <1>5, <1>7
  <2> QED
    BY <1>4, <2>1
<1> QED
  BY <1>1, <1>2, <1>5, <1>6, <1>7 DEF E

LEMMA ShapeView ==
    ASSUME Shape,
           \/ Drain \/ Begin \/ Validate \/ Advance \/ Refused \/ Execute \/ Complete \/ GiveUp
           \/ Reload
    PROVE  BoxShape' /\ ViewShape'
<1> DEFINE E == [o: Ops, status: Status \cup {"absent"}]
<1>0. BoxShape /\ ViewShape
  BY DEF Shape
<1>1. batch # <<>> => Now \in Ops /\ Tail(batch) \in Seq(E)
  BY <1>0, BatchFacts
<1>2. /\ batch \in Seq(E) /\ at \in Steps /\ (at # "idle" => batch # <<>>)
      /\ runs \in [Ops -> 0..2] /\ outcome \in [Ops -> Final \cup {"none"}]
  BY <1>0 DEF ViewShape
<1>3. ASSUME batch' \in Seq(E), at' \in Steps, at' # "idle" => batch' # <<>>,
             runs' \in [Ops -> 0..2], outcome' \in [Ops -> Final \cup {"none"}]
      PROVE  ViewShape'
  BY <1>3 DEF ViewShape
<1> HIDE DEF E
<1>4. CASE Drain
  <2>1. batch' \in Seq(E) /\ batch = <<>>
    BY <1>4, DrainShape DEF E, Drain
  <2>2. UNCHANGED <<box, local, seen, at, runs, outcome>>
    BY <1>4 DEF Drain, device
  <2> QED
    BY <1>0, <1>2, <1>3, <2>1, <2>2 DEF BoxShape
<1>5. CASE Begin
  <2>1. /\ batch # <<>> /\ at = "idle" /\ UNCHANGED <<box, local, seen, runs, outcome>>
        /\ \/ batch' = Tail(batch) /\ at' = at
           \/ batch' = batch /\ at' \in {"interrupted", "failed", "validate"}
    BY <1>5 DEF Begin, device
  <2>2. at' \in Steps
    BY <1>2, <2>1 DEF Steps
  <2> QED
    BY <1>0, <1>1, <1>2, <1>3, <2>1, <2>2 DEF BoxShape
<1>6. CASE Validate \/ Refused
  <2>1. /\ at # "idle" /\ at' \in {"accept", "rejected"}
        /\ UNCHANGED <<box, local, seen, batch, runs, outcome>>
    BY <1>6 DEF Validate, Refused, device
  <2>2. at' \in Steps
    BY <2>1 DEF Steps
  <2> QED
    BY <1>0, <1>2, <1>3, <2>1, <2>2 DEF BoxShape
<1>7. CASE Advance
  <2>1. /\ at # "idle" /\ at' \in {"start", "execute", "failed", "rejected"}
        /\ UNCHANGED <<batch, runs, outcome>>
        /\ Report("accepted", "", "accepted") \/ Report("running", "", "running")
    BY <1>7 DEF Advance, Answered
  <2>2. at' \in Steps
    BY <2>1 DEF Steps
  <2>3. /\ [kind |-> "accepted", of |-> Now, n |-> ""] \in Frames
        /\ [kind |-> "running", of |-> Now, n |-> ""] \in Frames
        /\ "accepted" \in Status /\ "running" \in Status /\ Now \in Ops
    BY <1>1, <1>2, <2>1, FrameFacts DEF Status
  <2>4. BoxShape'
    BY <1>0, <2>1, <2>3, ReportShape
  <2> QED
    BY <1>2, <1>3, <2>1, <2>2, <2>4
<1>8. CASE Execute
  <2>1. /\ at = "execute" /\ at' \in Final /\ UNCHANGED <<box, local, seen, batch, outcome>>
        /\ runs' = [runs EXCEPT ![Now] = IF @ = 2 THEN 2 ELSE @ + 1]
    BY <1>8 DEF Execute, device
  <2>2. at' \in Steps
    BY <2>1 DEF Steps, Final, TerminalStatuses
  <2>3. runs' \in [Ops -> 0..2]
    <3> DEFINE k == IF runs[Now] = 2 THEN 2 ELSE runs[Now] + 1
    <3>1. Now \in Ops
      BY <1>1, <1>2, <2>1
    <3>2. runs[Now] \in 0..2
      BY <1>2, <3>1
    <3>3. k \in 0..2 /\ runs' = [runs EXCEPT ![Now] = k]
      BY <2>1, <3>2
    <3> HIDE DEF k
    <3> QED
      BY <1>2, <3>3
  <2> QED
    BY <1>0, <1>2, <1>3, <2>1, <2>2, <2>3 DEF BoxShape
<1>9. CASE Complete
  <2>1. /\ at \in Final /\ Report("completed", at, at)
        /\ \/ at' = "idle" /\ batch' = Tail(batch)
           \/ at' = at /\ batch' = batch
        /\ outcome' = [outcome EXCEPT ![Now] = IF @ = "none" THEN at ELSE @] /\ UNCHANGED runs
    BY <1>9 DEF Complete
  <2>2. at # "idle" /\ Now \in Ops
    BY <1>1, <1>2, <2>1 DEF Final, TerminalStatuses
  <2>3. [kind |-> "completed", of |-> Now, n |-> at] \in Frames /\ at \in Status
    BY <2>1, <2>2, FrameFacts DEF Status
  <2>4. BoxShape'
    BY <1>0, <2>1, <2>2, <2>3, ReportShape
  <2>5. outcome' \in [Ops -> Final \cup {"none"}]
    <3> HIDE DEF Final
    <3> QED
      BY <1>2, <2>1
  <2>6. at' \in Steps
    BY <1>2, <2>1 DEF Steps
  <2> QED
    BY <1>1, <1>2, <1>3, <2>1, <2>2, <2>4, <2>5, <2>6
<1>10. CASE GiveUp
  <2>1. /\ at \in Final /\ at' = "idle" /\ batch' = Tail(batch)
        /\ UNCHANGED <<box, local, seen, runs, outcome>>
    BY <1>10 DEF GiveUp, device
  <2>2. at # "idle" /\ at' \in Steps
    BY <2>1 DEF Final, TerminalStatuses, Steps
  <2> QED
    BY <1>0, <1>1, <1>2, <1>3, <2>1, <2>2 DEF BoxShape
<1>11. CASE Reload
  <2>1. batch' = <<>> /\ at' = "idle" /\ UNCHANGED <<box, local, seen, runs, outcome>>
    BY <1>11 DEF Reload, device
  <2>2. batch' \in Seq(E) /\ at' \in Steps
    BY <2>1 DEF Steps
  <2> QED
    BY <1>0, <1>2, <1>3, <2>1, <2>2 DEF BoxShape
<1> QED
  BY <1>4, <1>5, <1>6, <1>7, <1>8, <1>9, <1>10, <1>11

LEMMA ShapeSteps == Shape /\ [Next]_vars => Shape'
<1> SUFFICES ASSUME Shape, [Next]_vars PROVE Shape'
  OBVIOUS
<1>0. TableShape /\ QueueShape /\ BoxShape /\ ViewShape
  BY DEF Shape
<1>1. ASSUME UNCHANGED device, UNCHANGED view, TableShape', QueueShape' PROVE Shape'
  BY <1>0, <1>1 DEF Shape, BoxShape, ViewShape, device, view
<1>2. ASSUME NEW o \in Ops, SendDevice(o) \/ ReadForWaiting(o) \/ WriteWaiting(o) \/ Create(o)
      PROVE  Shape'
  <2>1. UNCHANGED <<device, view>>
    BY <1>2 DEF SendDevice, ReadForWaiting, WriteWaiting, Create
  <2>2. TableShape' /\ QueueShape'
    BY <1>2, ShapeServer
  <2> QED
    BY <1>1, <2>1, <2>2
<1>3. CASE Greet \/ Forward \/ Receive \/ Cleanup \/ \E c \in {"now", "old"} : Write(c) \/ Answer(c)
  <2>1. UNCHANGED <<device, view>>
    BY <1>3 DEF Greet, Forward, Receive, Cleanup, Write, Answer
  <2>2. TableShape' /\ QueueShape'
    BY <1>3, ShapeServer
  <2> QED
    BY <1>1, <2>1, <2>2
<1>4. CASE Run \/ Cut \/ Crash
  <2>1. TableShape' /\ QueueShape' /\ BoxShape'
    BY <1>4, ShapeDevice DEF Run
  <2>2. UNCHANGED view
    BY <1>4 DEF Run, Connect, Flush, TakeRequest, TakeAck, TakeError, Cut, Crash
  <2> QED
    BY <1>0, <2>1, <2>2 DEF Shape, ViewShape, view
<1>5. CASE View \/ Refused \/ GiveUp \/ Reload
  <2>1. BoxShape' /\ ViewShape'
    BY <1>5, ShapeView DEF View
  <2>2. UNCHANGED <<server, up, down>>
    BY <1>5 DEF View, Drain, Begin, Validate, Advance, Execute, Complete, Refused, GiveUp, Reload
  <2> QED
    BY <1>0, <2>1, <2>2 DEF Shape, TableShape, QueueShape, server
<1>6. CASE UNCHANGED vars
  BY <1>0, <1>6 DEF vars, server, device, view, Shape, TableShape, QueueShape, BoxShape, ViewShape
<1> QED
  BY <1>2, <1>3, <1>4, <1>5, <1>6 DEF Next, Serve

-----------------------------------------------------------------------------
(* Success *)

\* Wherever a success is reported, on its way, decided or stored, something ran.
Real ==
    /\ \A f \in Held(box) \cup Range(up) : f.n = "succeeded" => runs[f.of] > 0
    /\ \A c \in {"now", "old"} :
          job[c].at = "write" /\ job[c].next = "succeeded" => runs[job[c].o] > 0
    /\ \A o \in Ops : op[o].status = "succeeded" => runs[o] > 0
    /\ at = "succeeded" => runs[Now] > 0

LEMMA RealStarts == Init => Real
<1> SUFFICES ASSUME Init PROVE Real
  OBVIOUS
<1>1. Held(box) = {} /\ Range(up) = {}
  BY Emptied DEF Init, Range
<1>2. \A c \in {"now", "old"} : job[c].at # "write"
  BY DEF Init, NoJob
<1>3. \A o \in Ops : op[o].status # "succeeded"
  BY DEF Init, Absent
<1>4. at = "idle"
  BY DEF Init
<1> QED
  BY <1>1, <1>2, <1>3, <1>4 DEF Real

LEMMA UpFacts ==
    ASSUME up \in Seq(Frames), up # <<>>
    PROVE  /\ Head(up) \in Frames /\ Head(up) = up[1] /\ Tail(up) \in Seq(Frames)
           /\ Range(up) = Range(Tail(up)) \cup {Head(up)}
           /\ 1 \in 1..Len(up) /\ Len(Tail(up)) = Len(up) - 1 /\ Len(up) \in Nat
           /\ \A i \in 1..Len(Tail(up)) : i + 1 \in 1..Len(up) /\ Tail(up)[i] = up[i + 1]
<1>1. /\ Head(up) \in Frames /\ Head(up) = up[1] /\ Tail(up) \in Seq(Frames)
      /\ 1 \in 1..Len(up) /\ Len(Tail(up)) = Len(up) - 1 /\ Len(up) \in Nat
      /\ \A i \in 1..Len(Tail(up)) : i + 1 \in 1..Len(up) /\ Tail(up)[i] = up[i + 1]
  OBVIOUS
<1> QED
  BY <1>1, Ranges

LEMMA RealServer ==
    ASSUME Shape, Real,
           \/ \E o \in Ops : Create(o) \/ SendDevice(o) \/ ReadForWaiting(o) \/ WriteWaiting(o)
           \/ Greet \/ Forward \/ Receive \/ Cleanup
           \/ \E c \in {"now", "old"} : Write(c) \/ Answer(c)
    PROVE  Real'
<1>0. TableShape /\ QueueShape
  BY DEF Shape
<1>1. UNCHANGED <<box, batch, at, runs>>
  BY DEF Create, SendDevice, ReadForWaiting, WriteWaiting, Greet, Forward, Receive, Cleanup, Write,
         Answer, device, view
<1>2. ASSUME NEW o \in Ops, NEW next \in Status, Update(o, next), next = "succeeded" => runs[o] > 0
      PROVE  \A x \in Ops : op'[x].status = "succeeded" => runs[x] > 0
  BY <1>0, <1>2, Updated DEF TableShape, Real
<1>3. ASSUME op' = op, job' = job, Range(up') \subseteq Range(up) PROVE Real'
  BY <1>1, <1>3 DEF Real, Now
<1>4. ASSUME NEW o \in Ops, Create(o) PROVE Real'
  <2>1. op' = [op EXCEPT ![o] = [op[o] EXCEPT !.status = "submitted"]] /\ UNCHANGED <<job, up>>
    BY <1>4 DEF Create
  <2>2. op[o] \in Rows
    BY <1>0 DEF TableShape
  <2>3. [op[o] EXCEPT !.status = "submitted"].status = "submitted"
    BY <2>2 DEF Rows
  <2>4. \A x \in Ops : op'[x].status = "succeeded" => op[x].status = "succeeded"
    BY <1>0, <2>1, <2>3 DEF TableShape
  <2> QED
    BY <1>1, <2>1, <2>4 DEF Real, Now
<1>5. ASSUME NEW o \in Ops, WriteWaiting(o) PROVE Real'
  <2>1. \A x \in Ops : op'[x].status = "succeeded" => runs[x] > 0
    BY <1>2, <1>5 DEF WriteWaiting, Status
  <2>2. UNCHANGED <<job, up>>
    BY <1>5 DEF WriteWaiting
  <2> QED
    BY <1>1, <2>1, <2>2 DEF Real, Now
<1>6. CASE Receive
  <2> DEFINE f == Head(up)
  <2>1. /\ up # <<>> /\ up' = Tail(up) /\ op' = op
        /\ \/ job' = job
           \/ job' = [job EXCEPT !["now"] = [at |-> "write", o |-> f.of, next |-> NextOf(f)]]
    BY <1>6 DEF Receive, NextOf
  <2>2. /\ f \in Frames /\ f \in Range(up) /\ Range(Tail(up)) \subseteq Range(up)
    BY <1>0, <2>1, UpFacts DEF QueueShape
  <2>3. NextOf(f) = "succeeded" => runs[f.of] > 0
    BY <2>2, FrameFacts DEF Real
  <2> HIDE DEF f
  <2>4. \A c \in {"now", "old"} :
           job'[c].at = "write" /\ job'[c].next = "succeeded" => runs[job'[c].o] > 0
    BY <1>0, <2>1, <2>3 DEF Real, TableShape
  <2> QED
    BY <1>1, <2>1, <2>2, <2>4 DEF Real, Now
<1>7. ASSUME NEW c \in {"now", "old"}, Write(c) PROVE Real'
  <2>1. /\ job[c].at = "write" /\ Update(job[c].o, job[c].next) /\ up' = up
        /\ job' = [job EXCEPT ![c] = [job[c] EXCEPT !.at = "answer"]]
    BY <1>7 DEF Write
  <2>2. job[c] \in [at: {"write", "answer"}, o: Ops, next: Status]
    <3>1. job[c] \in Jobs
      BY <1>0 DEF TableShape
    <3> QED
      BY <2>1, <3>1 DEF Jobs, NoJob
  <2>3. job[c].o \in Ops /\ job[c].next \in Status
    BY <2>2
  <2>4. \A x \in Ops : op'[x].status = "succeeded" => runs[x] > 0
    BY <1>2, <2>1, <2>3 DEF Real
  <2>5. [job[c] EXCEPT !.at = "answer"].at = "answer"
    BY <2>2
  <2>6. \A d \in {"now", "old"} : job'[d].at = "write" => job'[d] = job[d]
    BY <1>0, <2>1, <2>5 DEF TableShape
  <2> QED
    BY <1>1, <2>1, <2>4, <2>6 DEF Real, Now
<1>8. ASSUME NEW c \in {"now", "old"}, Answer(c) PROVE Real'
  <2>1. UNCHANGED <<op, up>> /\ job' = [job EXCEPT ![c] = NoJob]
    BY <1>8 DEF Answer
  <2>2. \A d \in {"now", "old"} : job'[d].at = "write" => job'[d] = job[d]
    BY <1>0, <2>1 DEF TableShape, NoJob
  <2> QED
    BY <1>1, <2>1, <2>2 DEF Real, Now
<1>9. CASE Greet \/ Forward \/ Cleanup \/ \E o \in Ops : SendDevice(o) \/ ReadForWaiting(o)
  <2>1. UNCHANGED <<op, job>> /\ (up' = up \/ up' = <<>>)
    BY <1>9 DEF Greet, Forward, Cleanup, SendDevice, ReadForWaiting
  <2>2. Range(<<>>) = {}
    BY DEF Range
  <2> QED
    BY <1>3, <2>1, <2>2
<1> QED
  BY <1>4, <1>5, <1>6, <1>7, <1>8, <1>9

LEMMA RealDevice ==
    ASSUME Shape, Real,
           Connect \/ Flush \/ TakeRequest \/ TakeAck \/ TakeError \/ Cut \/ Crash
    PROVE  Real'
<1>0. TableShape /\ QueueShape /\ BoxShape
  BY DEF Shape
<1>1. UNCHANGED <<op, batch, at, runs>>
  BY DEF Connect, Flush, TakeRequest, TakeAck, TakeError, Cut, Crash, server, view
<1>2. ASSUME Held(box') \cup Range(up') \subseteq Held(box) \cup Range(up), job' = job PROVE Real'
  BY <1>1, <1>2 DEF Real, Now
<1>3. Range(<<>>) = {}
  BY DEF Range
<1>4. CASE Connect
  <2>1. /\ box' = Reconnected(box) /\ up' = <<>> /\ job' = [now |-> NoJob, old |-> job["now"]]
    BY <1>4 DEF Connect
  <2>2. Held(box') = Held(box)
    BY <1>0, <2>1, Reconnecting DEF BoxShape
  <2>3. \A c \in {"now", "old"} : job'[c].at = "write" => job'[c] = job["now"]
    BY <2>1 DEF NoJob
  <2> QED
    BY <1>1, <1>3, <2>1, <2>2, <2>3 DEF Real, Now
<1>5. CASE Flush
  <2> DEFINE f == box.entries[NextIndex(box)].frame
  <2>1. /\ NextIndex(box) # 0 /\ up' = Append(up, f) /\ box' = Sent(Selected(box)) /\ job' = job
    BY <1>5 DEF Flush, server
  <2>2. /\ OutboxOf(box', Frames) /\ f \in Held(box) /\ f \in Frames /\ Len(box'.entries) = Len(box.entries)
        /\ \A i \in 1..Len(box.entries) : box'.entries[i].frame = box.entries[i].frame
    BY <1>0, <2>1, BoxFlushed DEF BoxShape
  <2> HIDE DEF f
  <2>3. Held(box') = Held(box)
    BY <1>0, <2>2, SameHeld DEF BoxShape
  <2>4. Range(up') = Range(up) \cup {f}
    BY <1>0, <2>1, <2>2, Ranges DEF QueueShape
  <2> QED
    BY <1>2, <2>1, <2>2, <2>3, <2>4
<1>6. CASE TakeRequest
  BY <1>2, <1>6 DEF TakeRequest, server
<1>7. CASE TakeAck
  <2>1. box' = OperationAcknowledged(box, Head(down).o, Head(down).status) /\ job' = job /\ up' = up
    BY <1>7 DEF TakeAck, server
  <2>2. OutboxOf(box', Frames) /\ Follows(box, box', {})
    BY <1>0, <2>1, OperationLeaves DEF BoxShape
  <2>3. Held(box') \subseteq Held(box)
    BY <1>0, <2>2, FollowsHeld DEF BoxShape
  <2> QED
    BY <1>2, <2>1, <2>3
<1>8. CASE TakeError \/ Cut \/ Crash
  <2>1. Leave /\ job' = job /\ box' \in {box, EmptyBox}
    BY <1>8 DEF TakeError, Cut, Crash, server, device
  <2>2. Held(EmptyBox) = {}
    BY Emptied
  <2>3. Range(up') \subseteq Range(up)
    <3>1. /\ up' \in Seq(Frames) /\ Len(up') \in 0..Len(up)
          /\ \A i \in 1..Len(up') : up'[i] = up[i]
      BY <1>0, <2>1, LeaveShape
    <3>2. DOMAIN up' = 1..Len(up') /\ DOMAIN up = 1..Len(up) /\ Len(up) \in Nat
      BY <1>0, <3>1 DEF QueueShape
    <3>3. \A i \in DOMAIN up' : i \in DOMAIN up /\ up'[i] = up[i]
      BY <3>1, <3>2
    <3> QED
      BY <3>3, Zenon DEF Range
  <2> QED
    BY <1>2, <2>1, <2>2, <2>3
<1> QED
  BY <1>4, <1>5, <1>6, <1>7, <1>8

\* What a report puts into the outbox.
LEMMA ReportHolds ==
    ASSUME BoxShape, Now \in Ops, NEW kind, NEW n, NEW status,
           [kind |-> kind, of |-> Now, n |-> n] \in Frames, Report(kind, n, status)
    PROVE  Held(box') = Held(box) \cup {[kind |-> kind, of |-> Now, n |-> n]}
<1> DEFINE f == [kind |-> kind, of |-> Now, n |-> n]
<1>1. Len(box.entries) < Limit /\ box' = Pushed(box, f)
  BY DEF Report
<1> HIDE DEF f
<1> QED
  BY <1>1, BoxReported DEF BoxShape, f

LEMMA RealView ==
    ASSUME Shape, Real,
           \/ Drain \/ Begin \/ Validate \/ Advance \/ Refused \/ Execute \/ Complete \/ GiveUp
           \/ Reload
    PROVE  Real'
<1>0. BoxShape /\ ViewShape
  BY DEF Shape
<1>1. UNCHANGED <<op, job, up>>
  BY DEF Drain, Begin, Validate, Advance, Refused, Execute, Complete, GiveUp, Reload, server
<1>2. /\ batch # <<>> => Now \in Ops
      /\ at # "idle" => batch # <<>>
      /\ runs \in [Ops -> 0..2]
  BY <1>0, BatchFacts DEF ViewShape
<1>3. ASSUME at' = "succeeded" => at = "succeeded" /\ batch' = batch, box' = box, runs' = runs PROVE Real'
  BY <1>1, <1>3 DEF Real, Now
<1>4. CASE Drain \/ Begin \/ Validate \/ Refused \/ GiveUp \/ Reload
  <2>1. box' = box /\ runs' = runs
    BY <1>4 DEF Drain, Begin, Validate, Refused, GiveUp, Reload, device
  <2>2. at' = "succeeded" => at = "succeeded" /\ batch' = batch
    BY <1>2, <1>4 DEF Drain, Begin, Validate, Refused, GiveUp, Reload
  <2> QED
    BY <1>3, <2>1, <2>2
<1>5. CASE Advance
  <2>1. /\ at # "idle" /\ at' # "succeeded" /\ runs' = runs
        /\ Report("accepted", "", "accepted") \/ Report("running", "", "running")
    BY <1>5 DEF Advance, Answered
  <2>2. /\ [kind |-> "accepted", of |-> Now, n |-> ""] \in Frames
        /\ [kind |-> "running", of |-> Now, n |-> ""] \in Frames
    BY <1>2, <2>1, FrameFacts
  <2>3. \E k : Held(box') = Held(box) \cup {[kind |-> k, of |-> Now, n |-> ""]}
    BY <1>0, <1>2, <2>1, <2>2, ReportHolds
  <2>4. \A f \in Held(box') : f.n = "succeeded" => f \in Held(box)
    <3>1. PICK k : Held(box') = Held(box) \cup {[kind |-> k, of |-> Now, n |-> ""]}
      BY <2>3
    <3>2. [kind |-> k, of |-> Now, n |-> ""].n # "succeeded"
      OBVIOUS
    <3> QED
      BY <3>1, <3>2
  <2> QED
    BY <1>1, <2>1, <2>4 DEF Real
<1>6. CASE Execute
  <2>1. at # "idle" /\ box' = box /\ batch' = batch
        /\ runs' = [runs EXCEPT ![Now] = IF @ = 2 THEN 2 ELSE @ + 1]
    BY <1>6 DEF Execute, device
  <2>2. \A o \in Ops : runs[o] \in 0..2 /\ (runs[o] > 0 => runs'[o] > 0)
    BY <1>2, <2>1
  <2>3. runs'[Now] > 0
    BY <1>2, <2>1, <2>2
  <2>4. \A f \in Held(box) \cup Range(up) : f.of \in Ops
    <3>1. Held(box) \subseteq Frames /\ Range(up) \subseteq Frames
      BY <1>0, HeldInside, Ranges DEF BoxShape, Shape, QueueShape, Range
    <3> QED
      BY <3>1, FrameFacts
  <2>5. \A c \in {"now", "old"} : job[c].at = "write" => job[c].o \in Ops
    <3>1. \A c \in {"now", "old"} : job[c] \in Jobs
      BY DEF Shape, TableShape
    <3> QED
      BY <3>1 DEF Jobs, NoJob
  <2> QED
    BY <1>1, <2>1, <2>2, <2>3, <2>4, <2>5 DEF Real, Now
<1>7. CASE Complete
  <2> DEFINE f == [kind |-> "completed", of |-> Now, n |-> at]
  <2>1. /\ at \in Final /\ Report("completed", at, at) /\ runs' = runs
        /\ at' = "idle" \/ (at' = at /\ batch' = batch)
    BY <1>7 DEF Complete
  <2>2. at # "idle" /\ f \in Frames
    BY <1>2, <2>1, FrameFacts DEF Final, TerminalStatuses
  <2>3. Held(box') = Held(box) \cup {f}
    BY <1>0, <1>2, <2>1, <2>2, ReportHolds
  <2>4. f.n = "succeeded" => runs[f.of] > 0
    BY DEF Real
  <2> HIDE DEF f
  <2> QED
    BY <1>1, <2>1, <2>3, <2>4 DEF Real, Now
<1> QED
  BY <1>4, <1>5, <1>6, <1>7

LEMMA RealSteps == Shape /\ Real /\ [Next]_vars => Real'
<1> SUFFICES ASSUME Shape, Real, [Next]_vars PROVE Real'
  OBVIOUS
<1>1. CASE UNCHANGED vars
  BY <1>1 DEF vars, server, device, view, Real, Now
<1> QED
  BY <1>1, RealServer, RealDevice, RealView DEF Next, Serve, Run, View

\* Success is never inferred: what the server stores as succeeded was carried out, also
\* when the daemon crashed, frames were refused or handlers raced (executeOperation).
THEOREM SuccessAlwaysReal == Spec => []SuccessIsReal
<1>1. Real => SuccessIsReal
  BY DEF Real, SuccessIsReal
<1> QED
  BY <1>1, ShapeStarts, ShapeSteps, RealStarts, RealSteps, PTL DEF Spec

-----------------------------------------------------------------------------
(* The operations table, as long as no two handlers update one operation at a time *)

\* The stages seen go with the status.
RowFits(r) ==
    /\ r.status \in {"absent"} \cup Fresh => ~r.accepted /\ ~r.running
    /\ r.status = "accepted" => r.accepted /\ ~r.running
    /\ r.status \in {"running", "succeeded", "failed"} => r.accepted /\ r.running
    /\ r.status = "rejected" => (r.accepted <=> r.running)

\* What one step makes of a row.
RowStep(r, s) ==
    \/ s = r
    \/ /\ r.status = "absent" /\ s.status = "submitted"
       /\ (s.accepted <=> r.accepted) /\ (s.running <=> r.running)
    \/ /\ Valid(r.status, s.status)
       /\ (s.accepted <=> r.accepted \/ s.status = "accepted")
       /\ (s.running <=> r.running \/ s.status = "running")

\* A message to the device was true of the row, and what it says of it stays true.
Told(m) ==
    /\ m.type = "request" => /\ op[m.o].status # "absent" /\ m.status \in Status \ Final
                             /\ m.status \in {"accepted", "running"} => op[m.o].accepted
                             /\ m.status = "running" => op[m.o].running
    /\ m.type = "ack" => /\ op[m.o].status \in Beyond /\ m.status \in Beyond
                         /\ m.status = "accepted" => op[m.o].accepted
                         /\ m.status = "running" => op[m.o].running
                         /\ m.status \in Final => op[m.o].status = m.status

RowsFit == \A o \in Ops : RowFits(op[o]) /\ (api[o] = "new" <=> op[o].status = "absent")

\* No handler is about to write what it read before another one's write.
WritesApart ==
    /\ \A o \in Ops : api[o] = "write" => op[o].status = "submitted" /\ job["now"].at # "write"
    /\ job["old"] = NoJob
    /\ job["now"].at = "write" => /\ Valid(op[job["now"].o].status, job["now"].next)
                                  /\ job["now"].next \in Beyond
    /\ job["now"].at = "answer" => op[job["now"].o].status \in Beyond

AllTold == \A m \in Range(queue) \cup Range(down) : Told(m)

Table == RowsFit /\ WritesApart /\ AllTold

LEMMA ValidFacts ==
    ASSUME NEW a, NEW b, Valid(a, b)
    PROVE  /\ a \in {"submitted", "waiting", "accepted", "running"}
           /\ b \in {"waiting", "accepted", "running", "succeeded", "failed", "rejected"}
           /\ b = "waiting" => a = "submitted"
           /\ b = "accepted" => a \in Fresh
           /\ b = "running" => a = "accepted"
           /\ b \in {"succeeded", "failed"} => a = "running"
           /\ b = "rejected" => a \in Fresh \/ a = "running"
  BY DEF Valid, Fresh

LEMMA RowGrows ==
    ASSUME NEW r \in Rows, NEW s \in Rows, RowFits(r), RowStep(r, s)
    PROVE  /\ RowFits(s)
           /\ r.accepted => s.accepted
           /\ r.running => s.running
           /\ r.status \in Final => s = r
           /\ r.status \in Beyond => s.status \in Beyond
           /\ r.status # "absent" => s.status # "absent"
<1>1. CASE s = r
  BY <1>1
<1>2. CASE /\ r.status = "absent" /\ s.status = "submitted"
           /\ (s.accepted <=> r.accepted) /\ (s.running <=> r.running)
  BY <1>2 DEF RowFits, Fresh, Final, TerminalStatuses, Beyond
<1>3. CASE /\ Valid(r.status, s.status)
           /\ (s.accepted <=> r.accepted \/ s.status = "accepted")
           /\ (s.running <=> r.running \/ s.status = "running")
  BY <1>3, ValidFacts DEF RowFits, Fresh, Final, TerminalStatuses, Beyond
<1> QED
  BY <1>1, <1>2, <1>3 DEF RowStep

LEMMA JobFacts ==
    ASSUME TableShape
    PROVE  /\ \A c \in {"now", "old"} : job[c].at \in {"write", "answer"} =>
                                  job[c].o \in Ops /\ job[c].next \in Status
           /\ \A x \in Ops : op[x] \in Rows /\ op[x].status \in Status \cup {"absent"}
<1>1. \A c \in {"now", "old"} : job[c] \in Jobs
  BY DEF TableShape
<1>2. \A x \in Ops : op[x] \in Rows
  BY DEF TableShape
<1> QED
  BY <1>1, <1>2 DEF Jobs, NoJob, Rows

\* Every row takes one of the steps, and a stored status only changes as the table allows.
LEMMA RowsStep ==
    ASSUME Shape, WritesApart, RowsFit, Next
    PROVE  \A x \in Ops : RowStep(op[x], op'[x])
<1>0. TableShape
  BY DEF Shape
<1>1. ASSUME op' = op PROVE \A x \in Ops : RowStep(op[x], op'[x])
  BY <1>1 DEF RowStep
<1>2. ASSUME NEW o \in Ops, Create(o) PROVE \A x \in Ops : RowStep(op[x], op'[x])
  <2> DEFINE r == op[o]
             s == [r EXCEPT !.status = "submitted"]
  <2>1. op' = [op EXCEPT ![o] = s] /\ r \in Rows /\ r.status = "absent"
    BY <1>0, <1>2, JobFacts DEF Create, RowsFit
  <2> HIDE DEF r
  <2>2. s.status = "submitted" /\ s.accepted = r.accepted /\ s.running = r.running
    BY <2>1 DEF Rows
  <2> HIDE DEF s
  <2>3. op'[o] = s /\ \A x \in Ops : x # o => op'[x] = op[x]
    BY <1>0, <2>1 DEF TableShape
  <2>4. RowStep(r, s)
    BY <2>1, <2>2 DEF RowStep
  <2> QED
    BY <2>3, <2>4 DEF RowStep, r
<1>3. ASSUME NEW o \in Ops, NEW next \in Status, Update(o, next), Valid(op[o].status, next)
      PROVE  \A x \in Ops : RowStep(op[x], op'[x])
  <2>1. /\ op'[o].status = next
        /\ op'[o].accepted <=> op[o].accepted \/ next = "accepted"
        /\ op'[o].running <=> op[o].running \/ next = "running"
        /\ \A x \in Ops : x # o => op'[x] = op[x]
    BY <1>0, <1>3, Updated DEF TableShape
  <2> QED
    BY <1>3, <2>1 DEF RowStep
<1>4. ASSUME NEW o \in Ops, WriteWaiting(o) PROVE \A x \in Ops : RowStep(op[x], op'[x])
  <2>1. Valid(op[o].status, "waiting") /\ "waiting" \in Status
    BY <1>4 DEF WriteWaiting, WritesApart, Valid, Status
  <2> QED
    BY <1>3, <1>4, <2>1 DEF WriteWaiting
<1>5. ASSUME NEW c \in {"now", "old"}, Write(c) PROVE \A x \in Ops : RowStep(op[x], op'[x])
  <2>1. c = "now"
    BY <1>5 DEF Write, WritesApart, NoJob
  <2>2. job[c].o \in Ops /\ job[c].next \in Status
    BY <1>0, <1>5, JobFacts DEF Write
  <2> QED
    BY <1>3, <1>5, <2>1, <2>2 DEF Write, WritesApart
<1>6. CASE \/ \E o \in Ops : SendDevice(o) \/ ReadForWaiting(o)
           \/ Greet \/ Forward \/ Receive \/ Cleanup \/ \E c \in {"now", "old"} : Answer(c)
           \/ Run \/ View \/ Cut \/ Crash \/ Refused \/ GiveUp \/ Reload
  <2>1. op' = op
    BY <1>6 DEF SendDevice, ReadForWaiting, Greet, Forward, Receive, Cleanup, Answer, Run, View,
                Connect, Flush, TakeRequest, TakeAck, TakeError, Drain, Begin, Validate, Advance,
                Execute, Complete, Cut, Crash, Refused, GiveUp, Reload, server
  <2> QED
    BY <1>1, <2>1
<1> QED
  BY <1>2, <1>4, <1>5, <1>6 DEF Next, Serve

\* What holds of every row over a step.
LEMMA RowsGrow ==
    ASSUME Shape, Shape', Table, Next
    PROVE  \A x \in Ops :
              /\ RowFits(op'[x])
              /\ op[x].accepted => op'[x].accepted
              /\ op[x].running => op'[x].running
              /\ op[x].status \in Final => op'[x] = op[x]
              /\ op[x].status \in Beyond => op'[x].status \in Beyond
              /\ op[x].status # "absent" => op'[x].status # "absent"
<1> SUFFICES ASSUME NEW x \in Ops
             PROVE  /\ RowFits(op'[x])
                    /\ op[x].accepted => op'[x].accepted
                    /\ op[x].running => op'[x].running
                    /\ op[x].status \in Final => op'[x] = op[x]
                    /\ op[x].status \in Beyond => op'[x].status \in Beyond
                    /\ op[x].status # "absent" => op'[x].status # "absent"
  OBVIOUS
<1>1. op[x] \in Rows /\ op'[x] \in Rows
  BY DEF Shape, TableShape
<1>2. RowFits(op[x]) /\ RowStep(op[x], op'[x])
  BY RowsStep DEF Table, RowsFit
<1> QED
  BY <1>1, <1>2, RowGrows

LEMMA WritesStayApart ==
    ASSUME ~SlowStorage, Shape, Shape', Table, Next
    PROVE  RowsFit' /\ WritesApart'
<1>0. TableShape /\ TableShape' /\ RowsFit /\ WritesApart
  BY DEF Shape, Table
<1>1. \A x \in Ops : RowFits(op'[x])
  BY RowsGrow
<1>2. /\ \A d \in {"now", "old"} : job[d].at \in {"write", "answer"} =>
                                  job[d].o \in Ops /\ job[d].next \in Status
      /\ \A x \in Ops : op[x] \in Rows /\ op[x].status \in Status \cup {"absent"}
  BY <1>0, JobFacts
<1>3. ASSUME UNCHANGED <<op, api, job>> PROVE RowsFit' /\ WritesApart'
  BY <1>0, <1>3 DEF RowsFit, WritesApart
<1>4. ASSUME NEW o \in Ops, Create(o) PROVE RowsFit' /\ WritesApart'
  <2> DEFINE s == [op[o] EXCEPT !.status = "submitted"]
  <2>1. /\ api[o] = "new" /\ op' = [op EXCEPT ![o] = s] /\ api' = [api EXCEPT ![o] = "send"]
        /\ job' = job /\ op[o].status = "absent"
    BY <1>0, <1>4 DEF Create, RowsFit
  <2>2. s.status = "submitted"
    BY <1>2 DEF Rows
  <2> HIDE DEF s
  <2>3. /\ op'[o] = s /\ api'[o] = "send"
        /\ \A x \in Ops : x # o => op'[x] = op[x] /\ api'[x] = api[x]
    BY <1>0, <2>1 DEF TableShape
  <2>4. RowsFit'
    BY <1>0, <1>1, <2>2, <2>3 DEF RowsFit
  <2>5. job["now"].at \in {"write", "answer"} => job["now"].o # o
    BY <1>0, <2>1, ValidFacts DEF WritesApart, Beyond, Final, TerminalStatuses
  <2> QED
    BY <1>0, <1>2, <2>1, <2>3, <2>4, <2>5 DEF WritesApart
<1>5. ASSUME NEW o \in Ops, SendDevice(o) \/ ReadForWaiting(o) PROVE RowsFit' /\ WritesApart'
  <2>1. /\ op' = op /\ job' = job /\ api[o] # "new" /\ api'[o] # "new"
        /\ \A x \in Ops : x # o => api'[x] = api[x]
    BY <1>0, <1>5 DEF SendDevice, ReadForWaiting, TableShape
  <2>2. api'[o] = "write" => op[o].status = "submitted" /\ job["now"].at # "write"
    BY <1>0, <1>5, ValidFacts DEF SendDevice, ReadForWaiting, TableShape
  <2> QED
    BY <1>0, <2>1, <2>2 DEF RowsFit, WritesApart
<1>6. ASSUME NEW o \in Ops, WriteWaiting(o) PROVE RowsFit' /\ WritesApart'
  <2>1. /\ api[o] = "write" /\ Update(o, "waiting") /\ api' = [api EXCEPT ![o] = "done"] /\ job' = job
        /\ op[o].status = "submitted" /\ job["now"].at # "write"
    BY <1>0, <1>6 DEF WriteWaiting, WritesApart
  <2>2. op'[o].status = "waiting" /\ \A x \in Ops : x # o => op'[x] = op[x]
    BY <1>0, <2>1, Updated DEF TableShape, Status
  <2>3. api'[o] = "done" /\ \A x \in Ops : x # o => api'[x] = api[x]
    BY <1>0, <2>1 DEF TableShape
  <2>4. job["now"].at = "answer" => job["now"].o # o
    BY <1>0, <2>1 DEF WritesApart, Beyond, Final, TerminalStatuses
  <2> QED
    BY <1>0, <1>1, <1>2, <2>1, <2>2, <2>3, <2>4 DEF RowsFit, WritesApart
<1>7. CASE Receive
  <2> DEFINE f == Head(up)
             j == [at |-> "write", o |-> f.of, next |-> NextOf(f)]
  <2>1. /\ UNCHANGED <<op, api>> /\ up # <<>> /\ job["now"] = NoJob
        /\ \A o \in Ops : api[o] # "write"
        /\ \/ job' = job
           \/ Valid(op[f.of].status, NextOf(f)) /\ job' = [job EXCEPT !["now"] = j]
    BY <1>7 DEF Receive, Working, NextOf
  <2>2. f \in Frames /\ NextOf(f) \in Beyond
    BY <2>1, UpFacts, FrameFacts DEF Shape, QueueShape
  <2>3. RowsFit'
    BY <1>0, <2>1 DEF RowsFit
  <2>4. j.at = "write" /\ j.o = f.of /\ j.next = NextOf(f)
    OBVIOUS
  <2> HIDE DEF j, f
  <2>5. CASE job' = job
    BY <1>3, <2>1, <2>5
  <2>6. CASE Valid(op[f.of].status, NextOf(f)) /\ job' = [job EXCEPT !["now"] = j]
    <3>1. job'["now"] = j /\ job'["old"] = job["old"]
      BY <1>0, <2>6 DEF TableShape
    <3> QED
      BY <1>0, <2>1, <2>2, <2>3, <2>4, <2>6, <3>1 DEF WritesApart
  <2> QED
    BY <2>1, <2>5, <2>6
<1>8. ASSUME NEW c \in {"now", "old"}, Write(c) PROVE RowsFit' /\ WritesApart'
  <2>1. c = "now"
    BY <1>0, <1>8 DEF Write, WritesApart, NoJob
  <2> DEFINE j == [job["now"] EXCEPT !.at = "answer"]
             o == job["now"].o
             next == job["now"].next
  <2>2. /\ job["now"].at = "write" /\ Update(o, next) /\ job' = [job EXCEPT !["now"] = j] /\ api' = api
        /\ o \in Ops /\ next \in Status /\ next \in Beyond /\ Valid(op[o].status, next)
    BY <1>0, <1>2, <1>8, <2>1 DEF Write, WritesApart
  <2>3. op'[o].status = next /\ \A x \in Ops : x # o => op'[x] = op[x]
    BY <1>0, <2>2, Updated DEF TableShape
  <2>4. j.at = "answer" /\ j.o = o
    <3>1. job["now"] \in Jobs
      BY <1>0 DEF TableShape
    <3> QED
      BY <2>2, <3>1 DEF Jobs, NoJob
  <2> HIDE DEF j, o, next
  <2>5. job'["now"] = j /\ job'["old"] = job["old"]
    BY <1>0, <2>2 DEF TableShape
  <2>6. op[o].status # "absent" /\ op'[o].status # "absent"
    BY <2>2, <2>3, ValidFacts
  <2>7. RowsFit'
    BY <1>0, <1>1, <2>2, <2>3, <2>6 DEF RowsFit
  <2> QED
    BY <1>0, <2>2, <2>3, <2>4, <2>5, <2>7 DEF WritesApart
<1>9. ASSUME NEW c \in {"now", "old"}, Answer(c) PROVE RowsFit' /\ WritesApart'
  <2>1. UNCHANGED <<op, api>> /\ job' = [job EXCEPT ![c] = NoJob]
    BY <1>9 DEF Answer
  <2>2. job'["old"] = NoJob /\ (job'["now"] = NoJob \/ job'["now"] = job["now"])
    BY <1>0, <2>1 DEF TableShape, WritesApart
  <2>3. NoJob.at = "none"
    BY DEF NoJob
  <2> QED
    BY <1>0, <2>1, <2>2, <2>3 DEF RowsFit, WritesApart
<1>10. CASE Connect
  <2>1. UNCHANGED <<op, api>> /\ job'["now"] = NoJob /\ job'["old"] = NoJob
    BY <1>10 DEF Connect
  <2>2. NoJob.at = "none"
    BY DEF NoJob
  <2> QED
    BY <1>0, <2>1, <2>2 DEF RowsFit, WritesApart
<1>11. CASE \/ Greet \/ Forward \/ Cleanup \/ Flush \/ TakeRequest \/ TakeAck \/ TakeError
            \/ View \/ Cut \/ Crash \/ Refused \/ GiveUp \/ Reload
  <2>1. UNCHANGED <<op, api, job>>
    BY <1>11 DEF Greet, Forward, Cleanup, View, Flush, TakeRequest, TakeAck, TakeError, Drain,
                 Begin, Validate, Advance, Execute, Complete, Cut, Crash, Refused, GiveUp, Reload,
                 server
  <2> QED
    BY <1>3, <2>1
<1> QED
  BY <1>4, <1>5, <1>6, <1>7, <1>8, <1>9, <1>10, <1>11 DEF Next, Serve, Run

\* What was told stays told.
LEMMA ToldStays ==
    ASSUME Shape, Shape', Table, Next, NEW m \in Range(queue) \cup Range(down)
    PROVE  Told(m)'
<1>1. Told(m)
  BY DEF Table, AllTold
<1>2. m \in Downs
  BY Ranges DEF Shape, QueueShape, Range
<1>3. m.o \in Ops
  BY <1>2 DEF Downs
<1> QED
  BY <1>1, <1>3, RowsGrow DEF Told

\* Messages that are true when they are made.
LEMMA RequestsTold ==
    ASSUME RowsFit, NEW o \in Ops, op[o].status \in Status
    PROVE  /\ Told(Request(o, "submitted"))
           /\ op[o].status \notin Final => Told(Request(o, op[o].status))
           /\ Told(Error(o))
           /\ op[o].status \in Beyond => Told(Ack(o, op[o].status))
<1>1. RowFits(op[o]) /\ op[o].status # "absent"
  BY DEF RowsFit, Status, Final, TerminalStatuses
<1>2. /\ Request(o, "submitted").type = "request" /\ Request(o, "submitted").o = o
      /\ Request(o, "submitted").status = "submitted"
      /\ Request(o, op[o].status).type = "request" /\ Request(o, op[o].status).o = o
      /\ Request(o, op[o].status).status = op[o].status
      /\ Error(o).type = "error"
      /\ Ack(o, op[o].status).type = "ack" /\ Ack(o, op[o].status).o = o
      /\ Ack(o, op[o].status).status = op[o].status
  BY DEF Request, Ack, Error
<1> HIDE DEF Request, Ack, Error
<1>3. Told(Request(o, "submitted")) /\ Told(Error(o))
  BY <1>1, <1>2 DEF Told, Status, Final, TerminalStatuses
<1>4. op[o].status \notin Final => Told(Request(o, op[o].status))
  BY <1>1, <1>2 DEF Told, RowFits
<1>5. op[o].status \in Beyond => Told(Ack(o, op[o].status))
  BY <1>1, <1>2 DEF Told, RowFits
<1> QED
  BY <1>3, <1>4, <1>5

\* What a written frame adds.
LEMMA WrittenRange ==
    ASSUME down \in Seq(Downs), NEW f \in Downs
    PROVE  Range(Written(f)) \subseteq Range(down) \cup {f}
  BY Ranges DEF Written

LEMMA AppendedRange ==
    ASSUME NEW s \in Seq(Downs), NEW f \in Downs
    PROVE  Range(Append(s, f)) = Range(s) \cup {f}
  BY Ranges

LEMMA ToldEver ==
    ASSUME ~SlowStorage, Shape, Shape', Table, Next
    PROVE  AllTold'
<1>0. QueueShape /\ QueueShape' /\ RowsFit /\ WritesApart /\ TableShape
  BY DEF Shape, Table
<1>1. ASSUME NEW N, Range(queue') \cup Range(down') \subseteq Range(queue) \cup Range(down) \cup N,
             \A m \in N : Told(m), UNCHANGED op
      PROVE  AllTold'
  <2>1. \A m \in N : Told(m)'
    BY <1>1 DEF Told
  <2>2. \A m \in Range(queue) \cup Range(down) : Told(m)'
    BY ToldStays
  <2> QED
    BY <1>1, <2>1, <2>2 DEF AllTold
<1>2. ASSUME Range(queue') \cup Range(down') \subseteq Range(queue) \cup Range(down)
      PROVE  AllTold'
  BY <1>2, ToldStays DEF AllTold
<1>20. ASSUME NEW m, Range(queue') \cup Range(down') \subseteq Range(queue) \cup Range(down) \cup {m},
              Told(m), UNCHANGED op
       PROVE  AllTold'
  <2> DEFINE N == {m}
  <2>1. \A x \in N : Told(x)
    BY <1>20
  <2>2. Range(queue') \cup Range(down') \subseteq Range(queue) \cup Range(down) \cup N
    BY <1>20
  <2> HIDE DEF N
  <2> QED
    BY <1>1, <1>20, <2>1, <2>2
<1>3. Range(<<>>) = {}
  BY DEF Range
<1>4. \A d \in {"now", "old"} : job[d].at \in {"write", "answer"} =>
                                  job[d].o \in Ops /\ job[d].next \in Status
  BY <1>0, JobFacts
<1>5. ASSUME NEW o \in Ops, SendDevice(o) PROVE AllTold'
  <2> DEFINE m == Request(o, "submitted")
  <2>1. /\ api[o] = "send" /\ UNCHANGED <<op, down>>
        /\ queue' = queue \/ queue' = Append(queue, m)
    BY <1>5 DEF SendDevice
  <2>2. op[o].status \in Status /\ m \in Downs
    BY <1>0, <2>1, JobFacts, SpokenShape DEF RowsFit, Status
  <2>3. Told(m)
    BY <1>0, <2>2, RequestsTold
  <2> HIDE DEF m
  <2>4. Range(queue') \subseteq Range(queue) \cup {m}
    <3>1. Range(Append(queue, m)) = Range(queue) \cup {m}
      BY <1>0, <2>2, AppendedRange DEF QueueShape
    <3> QED
      BY <2>1, <3>1
  <2> QED
    BY <1>20, <2>1, <2>3, <2>4
<1>6. CASE Greet
  <2> DEFINE N == {Request(o, op[o].status) : o \in {x \in Ops : op[x].status \in Status \ Final}}
  <2>1. UNCHANGED <<op, down>> /\ queue' \in Seq(Downs)
        /\ \A i \in 1..Len(queue') :
              \/ i \in 1..Len(queue) /\ queue'[i] = queue[i]
              \/ \E o \in Ops : op[o].status \in Status \ Final /\ queue'[i] = Request(o, op[o].status)
    BY <1>6, GreetShape DEF Greet
  <2>2. \A m \in N : Told(m)
    BY <1>0, RequestsTold
  <2>3. \A i \in 1..Len(queue') : queue'[i] \in Range(queue) \cup N
    <3>1. \A i \in 1..Len(queue) : queue[i] \in Range(queue)
      BY <1>0 DEF QueueShape, Range
    <3> QED
      BY <2>1, <3>1
  <2> HIDE DEF N
  <2>4. Range(queue') \subseteq Range(queue) \cup N
    <3>1. DOMAIN queue' = 1..Len(queue')
      BY <2>1
    <3> QED
      BY <2>3, <3>1, Zenon DEF Range
  <2> QED
    BY <1>1, <2>1, <2>2, <2>4
<1>7. CASE Forward
  <2>1. queue # <<>> /\ queue' = Tail(queue) /\ down' = Written(Head(queue)) /\ Head(queue) \in Downs
    BY <1>0, <1>7 DEF Forward, QueueShape
  <2>2. Range(queue) = Range(Tail(queue)) \cup {Head(queue)}
    BY <1>0, <2>1, Ranges DEF QueueShape
  <2>3. Range(down') \subseteq Range(down) \cup {Head(queue)}
    BY <1>0, <2>1, WrittenRange DEF QueueShape
  <2> QED
    BY <1>2, <2>1, <2>2, <2>3
<1>8. CASE Receive
  <2> DEFINE f == Head(up)
             o == Head(up).of
  <2>1. f \in Frames /\ o \in Ops /\ NextOf(f) \in Beyond
    BY <1>0, <1>8, UpFacts, FrameFacts DEF Receive, QueueShape
  <2>2. /\ UNCHANGED <<op, queue>>
        /\ \/ down' = down
           \/ down' = Written(Error(o))
           \/ /\ down' = Written(Ack(o, op[o].status))
              /\ \/ op[o].status = NextOf(f)
                 \/ op[o].accepted
                 \/ op[o].running
    BY <1>8 DEF Receive, NextOf
  <2> HIDE DEF o, f
  <2>3. CASE down' = down
    BY <1>2, <2>2, <2>3
  <2>4. CASE down' = Written(Error(o))
    <3> DEFINE m == Error(o)
    <3>1. m \in Downs /\ m.type = "error"
      BY <2>1, SpokenShape DEF Status, Error
    <3>2. Told(m)
      BY <3>1 DEF Told
    <3> HIDE DEF m
    <3>3. Range(down') \subseteq Range(down) \cup {m}
      BY <1>0, <2>4, <3>1, WrittenRange DEF QueueShape, m
    <3> QED
      BY <1>20, <2>2, <3>2, <3>3
  <2>5. CASE /\ down' = Written(Ack(o, op[o].status))
             /\ op[o].status = NextOf(f) \/ op[o].accepted \/ op[o].running
    <3> DEFINE m == Ack(o, op[o].status)
    <3>1. op[o].status \in Beyond
      <4>1. RowFits(op[o]) /\ op[o].status \in Status \cup {"absent"}
        BY <1>0, <2>1, JobFacts DEF RowsFit
      <4> QED
        BY <2>1, <2>5, <4>1 DEF RowFits, Status, Beyond, Fresh
    <3>2. op[o].status \in Status /\ m \in Downs
      BY <2>1, <3>1, SpokenShape DEF Beyond, Status
    <3>3. Told(m)
      BY <1>0, <2>1, <3>1, <3>2, RequestsTold
    <3> HIDE DEF m
    <3>4. Range(down') \subseteq Range(down) \cup {m}
      BY <1>0, <2>5, <3>2, WrittenRange DEF QueueShape, m
    <3> QED
      BY <1>20, <2>2, <3>3, <3>4
  <2> QED
    BY <2>2, <2>3, <2>4, <2>5
<1>9. ASSUME NEW c \in {"now", "old"}, Answer(c) PROVE AllTold'
  <2> DEFINE o == job["now"].o
             m == Ack(o, op[o].status)
  <2>1. /\ job[c].at = "answer" /\ UNCHANGED <<op, queue>> /\ c = "now"
        /\ down' = Written(m)
    BY <1>0, <1>9 DEF Answer, WritesApart, NoJob
  <2>2. o \in Ops /\ op[o].status \in Beyond
    BY <1>0, <1>4, <2>1 DEF WritesApart
  <2>3. op[o].status \in Status /\ m \in Downs
    BY <2>2, SpokenShape DEF Beyond, Status
  <2>4. Told(m)
    BY <1>0, <2>2, <2>3, RequestsTold
  <2> HIDE DEF m
  <2>5. Range(down') \subseteq Range(down) \cup {m}
    BY <1>0, <2>1, <2>3, WrittenRange DEF QueueShape
  <2> QED
    BY <1>20, <2>1, <2>4, <2>5
<1>10. CASE Cleanup \/ Connect
  <2>1. queue' = <<>> /\ down' = <<>>
    BY <1>10 DEF Cleanup, Connect
  <2> QED
    BY <1>2, <1>3, <2>1
<1>11. CASE TakeRequest \/ TakeAck
  <2>1. down # <<>> /\ down' = Tail(down) /\ queue' = queue
    BY <1>11 DEF TakeRequest, TakeAck, server
  <2>2. Range(down') \subseteq Range(down)
    BY <1>0, <2>1, Ranges DEF QueueShape
  <2> QED
    BY <1>2, <2>1, <2>2
<1>12. CASE TakeError \/ Cut \/ Crash
  <2>1. down' = <<>> /\ queue' = queue
    BY <1>12 DEF TakeError, Cut, Crash, Leave, server
  <2> QED
    BY <1>2, <1>3, <2>1
<1>13. CASE \/ \E o \in Ops : Create(o) \/ ReadForWaiting(o) \/ WriteWaiting(o)
            \/ \E c \in {"now", "old"} : Write(c)
            \/ Flush \/ View \/ Refused \/ GiveUp \/ Reload
  <2>1. UNCHANGED <<queue, down>>
    BY <1>13 DEF Create, ReadForWaiting, WriteWaiting, Write, Flush, View, Drain, Begin, Validate,
                 Advance, Execute, Complete, Refused, GiveUp, Reload, server
  <2> QED
    BY <1>2, <2>1
<1> QED
  BY <1>5, <1>6, <1>7, <1>8, <1>9, <1>10, <1>11, <1>12, <1>13 DEF Next, Serve, Run

LEMMA TableStarts == Init => Table
<1> SUFFICES ASSUME Init PROVE Table
  OBVIOUS
<1>1. RowsFit
  <2> SUFFICES ASSUME NEW o \in Ops
               PROVE  RowFits(op[o]) /\ (api[o] = "new" <=> op[o].status = "absent")
    BY DEF RowsFit
  <2>1. /\ ~Absent.accepted /\ ~Absent.running /\ Absent.status = "absent"
        /\ ~[Absent EXCEPT !.status = "submitted"].accepted
        /\ ~[Absent EXCEPT !.status = "submitted"].running
        /\ [Absent EXCEPT !.status = "submitted"].status = "submitted"
    BY DEF Absent
  <2>2. op[o] = (IF o \in Created THEN [Absent EXCEPT !.status = "submitted"] ELSE Absent)
        /\ api[o] = (IF o \in Created THEN "done" ELSE "new")
    BY DEF Init
  <2> QED
    BY <2>1, <2>2 DEF RowFits, Final, TerminalStatuses
<1>2. WritesApart
  BY DEF Init, WritesApart, NoJob
<1>3. AllTold
  BY DEF Init, AllTold, Range
<1> QED
  BY <1>1, <1>2, <1>3 DEF Table

LEMMA TableSteps ==
    ASSUME ~SlowStorage
    PROVE  Shape /\ Table /\ [Next]_vars => Table'
<1> SUFFICES ASSUME Shape, Table, [Next]_vars PROVE Table'
  OBVIOUS
<1>1. Shape'
  BY ShapeSteps
<1>2. CASE Next
  BY <1>1, <1>2, WritesStayApart, ToldEver DEF Table
<1>3. CASE UNCHANGED vars
  BY <1>3 DEF vars, server, Table, RowsFit, WritesApart, AllTold, Told
<1> QED
  BY <1>2, <1>3

-----------------------------------------------------------------------------
(* Once *)

\* The steps of the view up to the side effect.
Ahead == {"idle", "validate", "accept", "start", "execute"}

\* What the daemon offers as fresh, and what the view drew of it, was not carried out;
\* once it is under way the daemon does not offer it as fresh again.
Offered ==
    /\ \A o \in Ops : o \notin seen => runs[o] = 0 /\ local[o] = "none"
    /\ \A o \in Ops : local[o] \in Fresh => runs[o] = 0
    /\ \A o \in Ops : local[o] \in Status \cup {"none"}
    /\ \A o \in Ops : runs[o] <= 1

Drawn ==
    /\ \A i, j \in 1..Len(batch) : batch[i].o = batch[j].o => i = j
    /\ \A i \in 1..Len(batch) : batch[i].o \in seen /\ batch[i].status \in Status
    /\ \A i \in 1..Len(batch) : batch[i].status \in Fresh /\ (i > 1 \/ at \in Ahead)
                                   => runs[batch[i].o] = 0
    /\ at \in {"validate", "accept", "start", "execute"} => batch[1].status \in Fresh
    /\ at \in {"start", "execute"} => local[batch[1].o] \notin Fresh

Once == Offered /\ Drawn

LEMMA OnceStarts == Init => Once
  BY DEF Init, Once, Offered, Drawn, Fresh, Status

LEMMA OnceDevice ==
    ASSUME Shape, Table, Once,
           Connect \/ Flush \/ TakeRequest \/ TakeAck \/ TakeError \/ Cut
    PROVE  Once'
<1>0. BoxShape /\ ViewShape /\ QueueShape
  BY DEF Shape
<1>1. UNCHANGED view
  BY DEF Connect, Flush, TakeRequest, TakeAck, TakeError, Cut
<1>2. ASSUME local' = local, seen' = seen PROVE Once'
  BY <1>1, <1>2 DEF view, Once, Offered, Drawn
<1>3. at \in {"start", "execute"} => 1 \in 1..Len(batch) /\ batch[1].o \in Ops
  BY <1>0, BatchFacts DEF ViewShape
<1>4. ASSUME NEW o \in Ops, NEW s, local' = [local EXCEPT ![o] = s], seen' = seen,
             o \notin seen => s = "none", s \in Beyond \cup {"none"}
      PROVE  Once'
  <2>1. s \notin Fresh /\ s \in Status \cup {"none"}
    BY <1>4 DEF Beyond, Fresh, Final, TerminalStatuses, Status
  <2>2. local'[o] = s /\ \A x \in Ops : x # o => local'[x] = local[x]
    BY <1>0, <1>4 DEF BoxShape
  <2>3. Offered'
    BY <1>1, <1>4, <2>1, <2>2 DEF Once, Offered, view
  <2>4. Drawn'
    BY <1>1, <1>3, <1>4, <2>1, <2>2 DEF Once, Drawn, view
  <2> QED
    BY <2>3, <2>4 DEF Once
<1>5. CASE TakeRequest
  <2> DEFINE o == Head(down).o
             s == Head(down).status
  <2>1. /\ down # <<>> /\ Head(down).type = "request"
        /\ local' = [local EXCEPT ![o] = IF o \in seen THEN @ ELSE s]
        /\ seen' = seen \cup {o}
    BY <1>5 DEF TakeRequest
  <2>2. o \in Ops /\ Told(Head(down))
    <3>1. Head(down) \in Range(down)
      BY <1>0, <2>1, Ranges DEF QueueShape
    <3> QED
      BY <1>0, <2>1, <3>1, DownFacts DEF QueueShape, Table, AllTold
  <2>3. s \in Status
    BY <2>1, <2>2 DEF Told
  <2> HIDE DEF o, s
  <2>4. \A x \in Ops : IF x = o /\ o \notin seen THEN local'[x] = s ELSE local'[x] = local[x]
    BY <1>0, <2>1, <2>2 DEF BoxShape
  <2>5. Offered'
    BY <1>1, <2>1, <2>3, <2>4 DEF Once, Offered, view
  <2>6. Drawn'
    BY <1>1, <1>3, <2>1, <2>4 DEF Once, Drawn, view
  <2> QED
    BY <2>5, <2>6 DEF Once
<1>6. CASE TakeAck
  <2> DEFINE o == Head(down).o
             s == IF Head(down).status \in Final \/ local[o] = "none" THEN "none" ELSE Head(down).status
  <2>1. /\ down # <<>> /\ Head(down).type = "ack" /\ seen' = seen
        /\ local' = [local EXCEPT ![o] = s]
    BY <1>6 DEF TakeAck
  <2>2. o \in Ops /\ Told(Head(down))
    <3>1. Head(down) \in Range(down)
      BY <1>0, <2>1, Ranges DEF QueueShape
    <3> QED
      BY <1>0, <2>1, <3>1, DownFacts DEF QueueShape, Table, AllTold
  <2>3. s \in Beyond \cup {"none"} /\ (o \notin seen => s = "none")
    BY <2>1, <2>2 DEF Told, Once, Offered
  <2> HIDE DEF o, s
  <2> QED
    BY <1>4, <2>1, <2>2, <2>3
<1>7. CASE Connect \/ Flush \/ TakeError \/ Cut
  BY <1>2, <1>7 DEF Connect, Flush, TakeError, Cut, device
<1> QED
  BY <1>5, <1>6, <1>7

LEMMA OnceView ==
    ASSUME Shape, Once,
           \/ Drain \/ Begin \/ Validate \/ Advance \/ Refused \/ Execute \/ Complete \/ GiveUp
           \/ Reload
    PROVE  Once'
<1>0. BoxShape /\ ViewShape
  BY DEF Shape
<1>1. batch # <<>> => /\ Now \in Ops /\ Now = batch[1].o /\ Head(batch) = batch[1]
                      /\ 1 \in 1..Len(batch)
                      /\ Len(Tail(batch)) = Len(batch) - 1 /\ Len(batch) \in Nat
                      /\ \A i \in 1..Len(Tail(batch)) : i + 1 \in 1..Len(batch) /\ Tail(batch)[i] = batch[i + 1]
  BY <1>0, BatchFacts
<1>2. at # "idle" => batch # <<>>
  BY <1>0 DEF ViewShape
\* The head is done with.
<1>3. ASSUME batch # <<>>, batch' = Tail(batch), at' = "idle", UNCHANGED <<seen, runs>>, Offered'
      PROVE  Once'
  <2> DEFINE t == Tail(batch)
  <2>1. \A i \in 1..Len(t) : i + 1 \in 1..Len(batch) /\ t[i] = batch[i + 1] /\ i + 1 > 1
    BY <1>1, <1>3
  <2>2. \A i, j \in 1..Len(t) : i + 1 = j + 1 => i = j
    OBVIOUS
  <2> HIDE DEF t
  <2>3. Drawn'
    BY <1>3, <2>1, <2>2 DEF Once, Drawn, t
  <2> QED
    BY <1>3, <2>3 DEF Once
<1>4. CASE Drain
  <2>1. UNCHANGED <<local, seen, at, runs>> /\ batch = <<>>
    BY <1>4 DEF Drain, device
  <2>2. at = "idle"
    BY <1>2, <2>1
  <2>3. /\ \A i \in 1..Len(batch') :
                 /\ batch'[i].o \in Ops /\ local[batch'[i].o] # "none"
                 /\ batch'[i].status = local[batch'[i].o]
        /\ \A i, j \in 1..Len(batch') : batch'[i].o = batch'[j].o => i = j
    BY <1>4, DrainShape
  <2> QED
    BY <2>1, <2>2, <2>3 DEF Once, Offered, Drawn
<1>5. CASE Begin
  <2>1. batch # <<>> /\ at = "idle" /\ UNCHANGED <<local, seen, runs>>
    BY <1>5 DEF Begin, device
  <2>2. Offered'
    BY <2>1 DEF Once, Offered
  <2>3. CASE batch' = Tail(batch) /\ at' = "idle"
    BY <1>3, <2>1, <2>2, <2>3
  <2>4. CASE batch' = batch /\ at' \in {"interrupted", "failed"}
    BY <2>1, <2>2, <2>4 DEF Once, Drawn, Ahead
  <2>5. CASE batch' = batch /\ at' = "validate" /\ batch[1].status \in Fresh
    BY <1>1, <2>1, <2>2, <2>5 DEF Once, Drawn, Ahead
  <2>6. \/ batch' = Tail(batch) /\ at' = "idle"
        \/ batch' = batch /\ at' \in {"interrupted", "failed"}
        \/ batch' = batch /\ at' = "validate" /\ batch[1].status \in Fresh
    <3>1. batch[1].status \in Status
      BY <1>1, <2>1 DEF Once, Drawn
    <3> QED
      BY <1>1, <1>5, <3>1 DEF Begin, Status, Fresh, Final, TerminalStatuses
  <2> QED
    BY <2>3, <2>4, <2>5, <2>6
<1>6. CASE Validate \/ Refused
  <2>1. /\ UNCHANGED <<local, seen, runs, batch>>
        /\ \/ at = "validate" /\ at' = "accept"
           \/ at' = "rejected"
    BY <1>6 DEF Validate, Refused, device
  <2> QED
    BY <2>1 DEF Once, Offered, Drawn, Ahead
<1>7. CASE Advance
  <2>1. /\ at \in {"accept", "start", "interrupted"} /\ UNCHANGED <<seen, runs, batch>>
        /\ \E s \in {"none", "accepted", "running"} : local' = [local EXCEPT ![Now] = s]
        /\ \/ at \in {"accept", "start"} /\ at' \in {"start", "execute"}
           \/ at' \in {"failed", "rejected"}
        /\ local[Now] = "none" => local'[Now] = "none"
    <3>1. batch # <<>> /\ Now \in Ops
      BY <1>1, <1>2, <1>7 DEF Advance
    <3>2. local' = [local EXCEPT ![Now] = IF @ = "none" THEN @ ELSE "accepted"]
          \/ local' = [local EXCEPT ![Now] = IF @ = "none" THEN @ ELSE "running"]
      BY <1>7 DEF Advance, Report
    <3> QED
      BY <1>0, <1>7, <3>1, <3>2 DEF Advance, Answered, Report, BoxShape
  <2>2. PICK s \in {"none", "accepted", "running"} : local' = [local EXCEPT ![Now] = s]
    BY <2>1
  <2>3. batch # <<>> /\ Now \in Ops /\ Now = batch[1].o /\ 1 \in 1..Len(batch) /\ s \notin Fresh
    BY <1>1, <1>2, <2>1 DEF Fresh
  <2>4. local'[Now] = s /\ \A x \in Ops : x # Now => local'[x] = local[x]
    BY <1>0, <2>2, <2>3 DEF BoxShape
  <2>5. Offered'
    BY <2>1, <2>3, <2>4 DEF Once, Offered, Status
  <2>6. Drawn'
    BY <2>1, <2>3, <2>4 DEF Once, Drawn, Ahead
  <2> QED
    BY <2>5, <2>6 DEF Once
<1>8. CASE Execute
  <2>1. /\ at = "execute" /\ at' \in Final /\ UNCHANGED <<local, seen, batch>>
        /\ runs' = [runs EXCEPT ![Now] = IF @ = 2 THEN 2 ELSE @ + 1]
    BY <1>8 DEF Execute, device
  <2>2. batch # <<>> /\ Now \in Ops /\ Now = batch[1].o /\ 1 \in 1..Len(batch)
    BY <1>1, <1>2, <2>1
  <2>3. runs[Now] = 0 /\ Now \in seen /\ local[Now] \notin Fresh
    BY <2>1, <2>2 DEF Once, Drawn, Ahead
  <2>4. runs'[Now] = 1 /\ \A x \in Ops : x # Now => runs'[x] = runs[x]
    BY <1>0, <2>1, <2>2, <2>3 DEF ViewShape
  <2>5. Offered'
    BY <2>1, <2>3, <2>4 DEF Once, Offered
  <2>6. at' \notin Ahead
    BY <2>1 DEF Ahead, Final, TerminalStatuses
  <2>7. \A i \in 1..Len(batch) : batch[i].o \in Ops /\ (i > 1 => batch[i].o # Now)
    BY <1>0, <2>2 DEF Once, Drawn, BoxShape
  <2>8. Drawn'
    BY <2>1, <2>3, <2>4, <2>6, <2>7 DEF Once, Drawn, Ahead
  <2> QED
    BY <2>5, <2>8 DEF Once
<1>9. CASE Complete
  <2>1. /\ at \in Final /\ UNCHANGED <<seen, runs>>
        /\ \/ at' = "idle" /\ batch' = Tail(batch)
           \/ at' = at /\ batch' = batch
        /\ local' = [local EXCEPT ![Now] = IF @ = "none" THEN @ ELSE at]
    BY <1>9 DEF Complete, Report
  <2>2. batch # <<>> /\ Now \in Ops /\ at \notin Fresh /\ at \in Status
    BY <1>1, <1>2, <2>1 DEF Final, TerminalStatuses, Fresh, Status
  <2>3. \A x \in Ops : local'[x] = local[x] \/ (local'[x] = at /\ x = Now /\ local[x] # "none")
    BY <1>0, <2>1, <2>2 DEF BoxShape
  <2>4. Offered'
    BY <2>1, <2>2, <2>3 DEF Once, Offered
  <2>5. CASE at' = "idle" /\ batch' = Tail(batch)
    BY <1>3, <2>1, <2>2, <2>4, <2>5
  <2>6. CASE at' = at /\ batch' = batch
    <3>1. at \notin Ahead /\ at \notin {"idle", "validate", "accept"}
      BY <2>1 DEF Ahead, Final, TerminalStatuses
    <3>2. Drawn'
      BY <2>1, <2>6, <3>1 DEF Once, Drawn, Ahead
    <3> QED
      BY <2>1, <2>4, <3>2 DEF Once
  <2> QED
    BY <2>1, <2>5, <2>6
<1>10. CASE GiveUp
  <2>1. /\ at \in Final /\ batch' = Tail(batch) /\ at' = "idle" /\ UNCHANGED <<local, seen, runs>>
    BY <1>10 DEF GiveUp, device
  <2>2. batch # <<>>
    BY <1>2, <2>1 DEF Final, TerminalStatuses
  <2>3. Offered'
    BY <2>1 DEF Once, Offered
  <2> QED
    BY <1>3, <2>1, <2>2, <2>3
<1>11. CASE Reload
  <2>1. batch' = <<>> /\ at' = "idle" /\ UNCHANGED <<local, seen, runs>>
    BY <1>11 DEF Reload, device
  <2> QED
    BY <2>1 DEF Once, Offered, Drawn
<1> QED
  BY <1>4, <1>5, <1>6, <1>7, <1>8, <1>9, <1>10, <1>11

\* A daemon that has crashed has forgotten what it saw.
Calm == "crash" \notin faults

LEMMA OnceSteps ==
    ASSUME ~SlowStorage
    PROVE  Shape /\ Table /\ (Calm => Once) /\ [Next]_vars => (Calm => Once)'
<1> SUFFICES ASSUME Shape, Table, Calm => Once, [Next]_vars, Calm' PROVE Once'
  BY DEF Calm
<1>1. faults \subseteq faults'
  BY DEF Next, Serve, Run, View, SendDevice, ReadForWaiting, WriteWaiting, Greet, Forward, Receive,
         Cleanup, Write, Answer, Connect, Flush, TakeRequest, TakeAck, TakeError, Drain, Begin,
         Validate, Advance, Execute, Complete, Create, Cut, Crash, Refused, GiveUp, Reload, Fault, Answered,
         vars
<1>2. Calm /\ Once /\ ~Crash
  BY <1>1 DEF Calm, Crash, Fault
<1>3. CASE \/ Serve \/ \E o \in Ops : Create(o)
  <2>1. UNCHANGED <<device, view>>
    BY <1>3 DEF Serve, Create, SendDevice, ReadForWaiting, WriteWaiting, Greet, Forward, Receive,
                Cleanup, Write, Answer
  <2> QED
    BY <1>2, <2>1 DEF device, view, Once, Offered, Drawn
<1>4. CASE UNCHANGED vars
  BY <1>2, <1>4 DEF vars, device, view, Once, Offered, Drawn
<1> QED
  BY <1>2, <1>3, <1>4, OnceDevice, OnceView DEF Next, Run, View

\* A management operation is carried out once, over resent requests, reloads and broken
\* connections, for any number of operations and any bounds, as long as the daemon has not
\* crashed and no status is read between the two halves of another update
\* (executeOperation, OperationQueue.push).
THEOREM ExecutedOnceEver ==
    ASSUME ~SlowStorage
    PROVE  Spec => []ExecutedOnce
<1>1. Init => (Calm => Once)
  BY OnceStarts
<1>2. Shape /\ (Calm => Once) => ExecutedOnce
  BY DEF Calm, Once, Offered, ExecutedOnce
<1> QED
  BY <1>1, <1>2, ShapeStarts, ShapeSteps, TableStarts, TableSteps, OnceSteps, PTL DEF Spec

-----------------------------------------------------------------------------
(* What a step makes of the frames *)

\* What an acknowledged status settles (acknowledge_operation).
Settled(status) ==
    CASE status \in TerminalStatuses -> {"accepted", "running", "completed"}
      [] status = "running" -> {"accepted", "running"}
      [] status = "accepted" -> {"accepted"}
      [] OTHER -> {}

\* d has the entries of b in their order, but for frames of o of the kinds K.
Settles(b, d, o, K) ==
    \E q \in [1..Len(d.entries) -> 1..Len(b.entries)] :
        /\ \A i, j \in 1..Len(d.entries) : i < j => q[i] < q[j]
        /\ \A k \in 1..Len(d.entries) : d.entries[k] = b.entries[q[k]]
        /\ \A i \in 1..Len(b.entries) :
              \/ \E k \in 1..Len(d.entries) : q[k] = i
              \/ b.entries[i].frame.of = o /\ b.entries[i].frame.kind \in K

LEMMA AckSettles ==
    ASSUME NEW b, OutboxOf(b, Frames), NEW o, NEW status
    PROVE  LET d == OperationAcknowledged(b, o, status)
           IN  OutboxOf(d, Frames) /\ Settles(b, d, o, Settled(status))
<1> DEFINE K == Settled(status)
           drop == {i \in DOMAIN b.entries : /\ b.entries[i].frame.of = o
                                             /\ b.entries[i].frame.kind \in K}
           d == Without(b, drop)
<1>1. OperationAcknowledged(b, o, status) = d
  BY DEF OperationAcknowledged, Settled
<1> HIDE DEF K
<1>2. drop \in SUBSET (DOMAIN b.entries)
  OBVIOUS
<1>3. \A i \in DOMAIN b.entries : i \in drop => b.entries[i].frame.of = o /\ b.entries[i].frame.kind \in K
  OBVIOUS
<1> HIDE DEF drop
<1>4. OutboxOf(d, Frames) /\ Removed(b, drop, d)
  BY <1>2, Removing
<1> HIDE DEF d
<1>5. DOMAIN b.entries = 1..Len(b.entries)
  BY DEF OutboxOf
<1>6. PICK q : /\ Enumerates(q, Len(d.entries), DOMAIN b.entries \ drop)
               /\ \A k \in 1..Len(d.entries) : d.entries[k] = b.entries[q[k]]
  BY <1>4 DEF Removed
<1>7. q \in [1..Len(d.entries) -> 1..Len(b.entries)]
  BY <1>5, <1>6 DEF Enumerates
<1>8. /\ \A i, j \in 1..Len(d.entries) : i < j => q[i] < q[j]
      /\ \A i \in DOMAIN b.entries \ drop : \E k \in 1..Len(d.entries) : q[k] = i
  BY <1>6 DEF Enumerates
<1>9. Settles(b, d, o, K)
  BY <1>3, <1>5, <1>6, <1>7, <1>8 DEF Settles
<1> QED
  BY <1>1, <1>4, <1>9 DEF K

\* How the outbox changes in a step.
BoxKept == Len(box'.entries) = Len(box.entries)
           /\ \A i \in 1..Len(box.entries) : box'.entries[i].frame = box.entries[i].frame

Reports(f) ==
    /\ batch # <<>> /\ f.of = Now
    /\ \/ Advance /\ at = "accept" /\ f.kind = "accepted"
       \/ Advance /\ at \in {"start", "interrupted"} /\ f.kind = "running"
       \/ Complete /\ at \in Final /\ f.kind = "completed" /\ f.n = at

BoxGrows(f) ==
    /\ Len(box'.entries) = Len(box.entries) + 1
    /\ \A i \in 1..Len(box.entries) : box'.entries[i] = box.entries[i]
    /\ box'.entries[Len(box.entries) + 1].frame = f
    /\ ~box'.entries[Len(box.entries) + 1].sent

BoxSettles ==
    /\ TakeAck /\ down # <<>> /\ Head(down).o \in Ops /\ Head(down).type = "ack"
    /\ Settles(box, box', Head(down).o, Settled(Head(down).status))

LEMMA BoxSteps ==
    ASSUME Shape, Next, ~Crash
    PROVE  \/ box' = box
           \/ Flush /\ BoxKept
           \/ Connect /\ BoxKept
           \/ BoxSettles
           \/ \E f \in Frames : Reports(f) /\ BoxGrows(f)
<1>0. BoxShape /\ QueueShape /\ ViewShape
  BY DEF Shape
<1>1. CASE Flush
  BY <1>0, <1>1, BoxFlushed DEF Flush, BoxShape, BoxKept
<1>2. CASE Connect
  BY <1>0, <1>2, Reconnecting DEF Connect, BoxShape, BoxKept
<1>3. CASE TakeAck
  <2>1. /\ box' = OperationAcknowledged(box, Head(down).o, Head(down).status)
        /\ down # <<>> /\ Head(down).type = "ack"
    BY <1>3 DEF TakeAck
  <2> QED
    BY <1>0, <1>3, <2>1, AckSettles, DownFacts DEF BoxSettles, BoxShape, QueueShape
<1>4. ASSUME NEW kind, NEW n, NEW status, [kind |-> kind, of |-> Now, n |-> n] \in Frames,
             Report(kind, n, status)
      PROVE  BoxGrows([kind |-> kind, of |-> Now, n |-> n])
  <2> DEFINE f == [kind |-> kind, of |-> Now, n |-> n]
  <2>1. Len(box.entries) < Limit /\ box' = Pushed(box, f)
    BY <1>4 DEF Report
  <2> HIDE DEF f
  <2> QED
    BY <1>0, <1>4, <2>1, BoxReported DEF BoxShape, BoxGrows, f
<1>5. CASE Advance
  <2>1. at # "idle" /\ batch # <<>> /\ Now \in Ops
    BY <1>0, <1>5, BatchFacts DEF Advance, ViewShape
  <2> DEFINE a == [kind |-> "accepted", of |-> Now, n |-> ""]
             r == [kind |-> "running", of |-> Now, n |-> ""]
  <2>2. a \in Frames /\ r \in Frames
    BY <2>1, FrameFacts
  <2>3. CASE at = "accept"
    <3>1. Report("accepted", "", "accepted")
      BY <1>5, <2>3 DEF Advance
    <3>2. BoxGrows(a)
      BY <1>4, <2>2, <3>1
    <3>3. Reports(a)
      BY <1>5, <2>1, <2>3 DEF Reports
    <3> HIDE DEF a
    <3> QED
      BY <2>2, <3>2, <3>3
  <2>4. CASE at \in {"start", "interrupted"}
    <3>1. Report("running", "", "running")
      BY <1>5, <2>4 DEF Advance
    <3>2. BoxGrows(r)
      BY <1>4, <2>2, <3>1
    <3>3. Reports(r)
      BY <1>5, <2>1, <2>4 DEF Reports
    <3> HIDE DEF r
    <3> QED
      BY <2>2, <3>2, <3>3
  <2> QED
    BY <1>5, <2>3, <2>4 DEF Advance
<1>6. CASE Complete
  <2> DEFINE f == [kind |-> "completed", of |-> Now, n |-> at]
  <2>1. at \in Final /\ Report("completed", at, at) /\ batch # <<>> /\ Now \in Ops
    BY <1>0, <1>6, BatchFacts DEF Complete, ViewShape, Final, TerminalStatuses
  <2>2. f \in Frames
    BY <2>1, FrameFacts
  <2>3. BoxGrows(f)
    BY <1>4, <2>1, <2>2
  <2>4. Reports(f)
    BY <1>6, <2>1 DEF Reports
  <2> HIDE DEF f
  <2> QED
    BY <2>2, <2>3, <2>4
<1>7. CASE \/ Serve \/ \E o \in Ops : Create(o)
           \/ TakeRequest \/ TakeError \/ Cut \/ Drain \/ Begin \/ Validate \/ Execute
           \/ Refused \/ GiveUp \/ Reload
  BY <1>7 DEF Serve, Create, SendDevice, ReadForWaiting, WriteWaiting, Greet, Forward, Receive,
              Cleanup, Write, Answer, TakeRequest, TakeError, Cut, Drain, Begin, Validate, Execute,
              Refused, GiveUp, Reload, device
<1> QED
  BY <1>1, <1>2, <1>3, <1>5, <1>6, <1>7 DEF Next, Run, View

\* Frame f asks for one of the statuses A of o; such a one is about to be written; is
\* anywhere.
Is(f, o, A) == f.of = o /\ NextOf(f) \in A
InHand(j, o, A) == j.at = "write" /\ j.o = o /\ j.next \in A
Boxed(o, A) == \E f \in Held(box) : Is(f, o, A)
Spoken(o, A) == (\E f \in Held(box) \cup Range(up) : Is(f, o, A)) \/ InHand(job["now"], o, A)

LEMMA HeldSteps ==
    ASSUME Shape, Shape', Next, ~Crash
    PROVE  /\ \A f \in Held(box) :
                 \/ f \in Held(box')
                 \/ /\ TakeAck /\ down # <<>> /\ Head(down).type = "ack" /\ Head(down).o = f.of
                    /\ f.kind \in Settled(Head(down).status)
           /\ \A f \in Held(box') : f \in Held(box) \/ Reports(f)
<1>0. OutboxOf(box, Frames) /\ OutboxOf(box', Frames)
  BY DEF Shape, BoxShape
<1>1. /\ DOMAIN box.entries = 1..Len(box.entries) /\ DOMAIN box'.entries = 1..Len(box'.entries)
      /\ Len(box.entries) \in Nat
  BY <1>0 DEF OutboxOf
<1>2. CASE box' = box
  BY <1>2
<1>3. CASE BoxKept
  <2>1. Held(box') = Held(box)
    BY <1>0, <1>3, SameHeld DEF BoxKept
  <2> QED
    BY <2>1
<1>4. CASE BoxSettles
  <2> DEFINE o == Head(down).o
             K == Settled(Head(down).status)
  <2>1. PICK q \in [1..Len(box'.entries) -> 1..Len(box.entries)] :
            /\ \A k \in 1..Len(box'.entries) : box'.entries[k] = box.entries[q[k]]
            /\ \A i \in 1..Len(box.entries) :
                  \/ \E k \in 1..Len(box'.entries) : q[k] = i
                  \/ box.entries[i].frame.of = o /\ box.entries[i].frame.kind \in K
    BY <1>4 DEF BoxSettles, Settles
  <2> HIDE DEF o, K
  <2>2. ASSUME NEW f \in Held(box) PROVE f \in Held(box') \/ (f.of = o /\ f.kind \in K)
    <3>1. PICK i \in 1..Len(box.entries) : f = box.entries[i].frame
      BY <1>1 DEF Held
    <3>2. CASE \E k \in 1..Len(box'.entries) : q[k] = i
      <4>1. PICK k \in 1..Len(box'.entries) : q[k] = i
        BY <3>2
      <4>2. k \in DOMAIN box'.entries /\ box'.entries[k].frame = f
        BY <1>1, <2>1, <3>1, <4>1
      <4> QED
        BY <4>2 DEF Held
    <3> QED
      BY <2>1, <3>1, <3>2
  <2>3. ASSUME NEW f \in Held(box') PROVE f \in Held(box)
    <3>1. PICK k \in 1..Len(box'.entries) : f = box'.entries[k].frame
      BY <1>1 DEF Held
    <3>2. q[k] \in 1..Len(box.entries) /\ f = box.entries[q[k]].frame
      BY <2>1, <3>1
    <3> QED
      BY <1>1, <3>2 DEF Held
  <2> QED
    BY <1>4, <2>2, <2>3 DEF BoxSettles, o, K
<1>5. ASSUME NEW f \in Frames, Reports(f), BoxGrows(f)
      PROVE  \A g \in Held(box') \cup Held(box) : g \in Held(box') /\ (g \in Held(box) \/ g = f)
  <2>1. ASSUME NEW g \in Held(box) PROVE g \in Held(box')
    <3>1. PICK i \in 1..Len(box.entries) : g = box.entries[i].frame
      BY <1>1 DEF Held
    <3>2. i \in 1..Len(box'.entries) /\ box'.entries[i].frame = g
      BY <1>1, <1>5, <3>1 DEF BoxGrows
    <3> QED
      BY <1>1, <3>2 DEF Held
  <2>2. ASSUME NEW g \in Held(box') PROVE g \in Held(box) \/ g = f
    <3>1. PICK i \in 1..Len(box'.entries) : g = box'.entries[i].frame
      BY <1>1 DEF Held
    <3>2. i = Len(box.entries) + 1 \/ i \in 1..Len(box.entries)
      BY <1>1, <1>5, <3>1 DEF BoxGrows
    <3>3. i \in 1..Len(box.entries) => g = box.entries[i].frame
      BY <1>5, <3>1 DEF BoxGrows
    <3> QED
      BY <1>1, <1>5, <3>1, <3>2, <3>3 DEF Held, BoxGrows
  <2> QED
    BY <2>1, <2>2
<1> QED
  BY <1>2, <1>3, <1>4, <1>5, BoxSteps

\* What travels came out of the outbox.
LEMMA UpSteps ==
    ASSUME Shape, Shape', Next
    PROVE  \A f \in Range(up') : f \in Range(up) \cup Held(box)
<1>0. QueueShape /\ QueueShape' /\ BoxShape
  BY DEF Shape
<1>1. CASE Flush
  <2> DEFINE f == box.entries[NextIndex(box)].frame
  <2>1. NextIndex(box) # 0 /\ up' = Append(up, f)
    BY <1>1 DEF Flush
  <2>2. f \in Frames /\ f \in Held(box)
    BY <1>0, <2>1, BoxFlushed DEF BoxShape
  <2> HIDE DEF f
  <2>3. Range(up') = Range(up) \cup {f}
    BY <1>0, <2>1, <2>2, Ranges DEF QueueShape
  <2> QED
    BY <2>2, <2>3
<1>2. CASE Receive
  <2>1. up # <<>> /\ up' = Tail(up)
    BY <1>2 DEF Receive
  <2>2. Range(up) = Range(Tail(up)) \cup {Head(up)}
    BY <1>0, <2>1, UpFacts DEF QueueShape
  <2> QED
    BY <2>1, <2>2
<1>3. CASE TakeError \/ Cut \/ Crash
  <2>1. /\ Len(up') \in 0..Len(up)
        /\ \A i \in 1..Len(up') : up'[i] = up[i]
    BY <1>0, <1>3, LeaveShape DEF TakeError, Cut, Crash
  <2>2. DOMAIN up' = 1..Len(up') /\ DOMAIN up = 1..Len(up) /\ Len(up) \in Nat
    BY <1>0, <2>1 DEF QueueShape
  <2>3. \A i \in DOMAIN up' : i \in DOMAIN up /\ up'[i] = up[i]
    BY <2>1, <2>2
  <2>4. Range(up') \subseteq Range(up)
    BY <2>3, Zenon DEF Range
  <2> QED
    BY <2>4
<1>4. CASE up' = up \/ up' = <<>>
  <2>1. Range(<<>>) = {}
    BY DEF Range
  <2> QED
    BY <1>4, <2>1
<1>5. CASE \/ Cleanup \/ Connect \/ \E c \in {"now", "old"} : Write(c) \/ Answer(c)
           \/ \E o \in Ops : Create(o) \/ SendDevice(o) \/ ReadForWaiting(o) \/ WriteWaiting(o)
           \/ Greet \/ Forward \/ TakeRequest \/ TakeAck \/ View \/ Refused \/ GiveUp \/ Reload
  <2>1. up' = up \/ up' = <<>>
    BY <1>5 DEF Cleanup, Connect, Write, Answer, Create, SendDevice, ReadForWaiting, WriteWaiting,
                Greet, Forward, TakeRequest, TakeAck, View, Drain, Begin, Validate, Advance, Execute,
                Complete, Refused, GiveUp, Reload, server
  <2> QED
    BY <1>4, <2>1
<1> QED
  BY <1>1, <1>2, <1>3, <1>5 DEF Next, Serve, Run

\* What is about to be written has arrived, and only that is written.
LEMMA HandSteps ==
    ASSUME ~SlowStorage, Shape, Shape', Table, Next
    PROVE  /\ \A o, A : InHand(job'["now"], o, A) =>
                 InHand(job["now"], o, A) \/ \E f \in Range(up) : Is(f, o, A)
           /\ \A o \in Ops :
                 /\ op'[o].status \in Beyond /\ op'[o] # op[o]
                       => InHand(job["now"], o, {op'[o].status}) /\ Write("now")
                 /\ op'[o].status \in Beyond \/ op'[o].status \in Fresh \cup {"absent"}
<1>0. TableShape /\ TableShape' /\ WritesApart /\ QueueShape
  BY DEF Shape, Table
<1>1. \A o \in Ops : op'[o].status \in Beyond \/ op'[o].status \in Fresh \cup {"absent"}
  <2>1. \A o \in Ops : op'[o] \in Rows
    BY <1>0 DEF TableShape
  <2> QED
    BY <2>1 DEF Rows, Status, Beyond, Fresh
<1>2. /\ \A d \in {"now", "old"} : job[d].at \in {"write", "answer"} =>
                                  job[d].o \in Ops /\ job[d].next \in Status
  BY <1>0, JobFacts
<1>3. CASE job'["now"] = job["now"] /\ op' = op
  BY <1>1, <1>3
<1>4. CASE Receive
  <2> DEFINE f == Head(up)
             j == [at |-> "write", o |-> f.of, next |-> NextOf(f)]
  <2>1. /\ op' = op /\ up # <<>>
        /\ \/ job' = job
           \/ job' = [job EXCEPT !["now"] = j]
    BY <1>4 DEF Receive, NextOf
  <2>2. f \in Range(up)
    BY <1>0, <2>1, UpFacts DEF QueueShape
  <2>3. j.at = "write" /\ j.o = f.of /\ j.next = NextOf(f)
    OBVIOUS
  <2> HIDE DEF f, j
  <2>4. job'["now"] = job["now"] \/ job'["now"] = j
    BY <1>0, <2>1 DEF TableShape
  <2> QED
    BY <1>1, <2>1, <2>2, <2>3, <2>4 DEF InHand, Is
<1>5. ASSUME NEW c \in {"now", "old"}, Write(c)
      PROVE  /\ \A o, A : ~InHand(job'["now"], o, A)
             /\ \A o \in Ops : op'[o].status \in Beyond /\ op'[o] # op[o]
                                 => InHand(job["now"], o, {op'[o].status}) /\ Write("now")
  <2>1. c = "now"
    BY <1>0, <1>5 DEF Write, WritesApart, NoJob
  <2> DEFINE j == [job["now"] EXCEPT !.at = "answer"]
             o == job["now"].o
             next == job["now"].next
  <2>2. /\ job["now"].at = "write" /\ Update(o, next) /\ job' = [job EXCEPT !["now"] = j]
        /\ o \in Ops /\ next \in Status
    BY <1>0, <1>2, <1>5, <2>1 DEF Write, WritesApart
  <2>3. op'[o].status = next /\ \A x \in Ops : x # o => op'[x] = op[x]
    BY <1>0, <2>2, Updated DEF TableShape
  <2>4. j.at = "answer"
    <3>1. job["now"] \in Jobs
      BY <1>0 DEF TableShape
    <3> QED
      BY <2>2, <3>1 DEF Jobs, NoJob
  <2>5. InHand(job["now"], o, {op'[o].status})
    BY <2>2, <2>3 DEF InHand
  <2> HIDE DEF j, o, next
  <2>6. job'["now"] = j
    BY <1>0, <2>2 DEF TableShape
  <2> QED
    BY <1>5, <2>1, <2>3, <2>4, <2>5, <2>6 DEF InHand
<1>6. CASE Connect \/ \E c \in {"now", "old"} : Answer(c)
  <2>1. op' = op /\ (job'["now"] = NoJob \/ job'["now"] = job["now"])
    BY <1>0, <1>6 DEF Connect, Answer, TableShape
  <2> QED
    BY <1>1, <2>1 DEF InHand, NoJob
<1>7. ASSUME NEW o \in Ops, Create(o) \/ WriteWaiting(o)
      PROVE  /\ job'["now"] = job["now"]
             /\ \A x \in Ops : op'[x].status \in Beyond => op'[x] = op[x]
  <2>1. CASE Create(o)
    <3> DEFINE s == [op[o] EXCEPT !.status = "submitted"]
    <3>1. op' = [op EXCEPT ![o] = s] /\ op[o] \in Rows /\ job' = job
      BY <1>0, <2>1, JobFacts DEF Create
    <3>2. s.status = "submitted"
      BY <3>1 DEF Rows
    <3> HIDE DEF s
    <3>3. op'[o] = s /\ \A x \in Ops : x # o => op'[x] = op[x]
      BY <1>0, <3>1 DEF TableShape
    <3> QED
      BY <3>1, <3>2, <3>3 DEF Beyond, Final, TerminalStatuses
  <2>2. CASE WriteWaiting(o)
    <3>1. Update(o, "waiting") /\ job' = job
      BY <2>2 DEF WriteWaiting
    <3>2. op'[o].status = "waiting" /\ \A x \in Ops : x # o => op'[x] = op[x]
      BY <1>0, <3>1, Updated DEF TableShape, Status
    <3> QED
      BY <3>1, <3>2 DEF Beyond, Final, TerminalStatuses
  <2> QED
    BY <1>7, <2>1, <2>2
<1>8. CASE \/ \E o \in Ops : SendDevice(o) \/ ReadForWaiting(o)
           \/ Greet \/ Forward \/ Cleanup \/ Flush \/ TakeRequest \/ TakeAck \/ TakeError
           \/ View \/ Cut \/ Crash \/ Refused \/ GiveUp \/ Reload
  <2>1. UNCHANGED <<op, job>>
    BY <1>8 DEF SendDevice, ReadForWaiting, Greet, Forward, Cleanup, View, Flush, TakeRequest,
                TakeAck, TakeError, Drain, Begin, Validate, Advance, Execute, Complete, Cut, Crash,
                Refused, GiveUp, Reload, server
  <2> QED
    BY <1>3, <2>1
<1> QED
  BY <1>1, <1>3, <1>4, <1>5, <1>6, <1>7, <1>8 DEF Next, Serve, Run

-----------------------------------------------------------------------------
(* Frames that ask for one of the statuses B stay behind one that asks for one of A *)

Queued(b, o, A, B) ==
    \A i \in 1..Len(b.entries) :
        Is(b.entries[i].frame, o, B) => \E j \in 1..(i - 1) : Is(b.entries[j].frame, o, A)

Behind(u, j, o, A, B) ==
    /\ ~InHand(j, o, B)
    /\ \A i \in 1..Len(u) :
          Is(u[i], o, B) => InHand(j, o, A) \/ \E k \in 1..(i - 1) : Is(u[k], o, A)

Underway(u, b, j, o, A) ==
    \A i \in 1..Len(b.entries) :
        Is(b.entries[i].frame, o, A) /\ b.entries[i].sent
            => InHand(j, o, A) \/ \E k \in 1..Len(u) : Is(u[k], o, A)

Chain(o, A, B) ==
    /\ Queued(box, o, A, B) /\ Behind(up, job["now"], o, A, B)
    /\ linked => Underway(up, box, job["now"], o, A)

\* The step settles no frame of A.
Keeps(o, A) ==
    TakeAck /\ Head(down).type = "ack" /\ Head(down).o = o
        => \A f \in Frames : Is(f, o, A) => f.kind \notin Settled(Head(down).status)

LEMMA QueuedSteps ==
    ASSUME Shape, Shape', Next, ~Crash, NEW o, NEW A, NEW B, Queued(box, o, A, B), Keeps(o, A),
           \A f : Reports(f) /\ Is(f, o, B) => Boxed(o, A)
    PROVE  Queued(box', o, A, B)
<1>0. /\ DOMAIN box.entries = 1..Len(box.entries) /\ Len(box.entries) \in Nat /\ Len(box'.entries) \in Nat
      /\ \A i \in 1..Len(box.entries) : box.entries[i].frame \in Frames
  <2>1. OutboxOf(box, Frames) /\ OutboxOf(box', Frames)
    BY DEF Shape, BoxShape
  <2> QED
    BY <2>1, HeldInside DEF OutboxOf
<1>1. CASE box' = box \/ BoxKept
  BY <1>1 DEF Queued, BoxKept
<1>2. CASE BoxSettles
  <2> DEFINE K == Settled(Head(down).status)
             n == Len(box'.entries)
  <2>1. PICK q \in [1..n -> 1..Len(box.entries)] :
            /\ \A i, j \in 1..n : i < j => q[i] < q[j]
            /\ \A k \in 1..n : box'.entries[k] = box.entries[q[k]]
            /\ \A i \in 1..Len(box.entries) :
                  \/ \E k \in 1..n : q[k] = i
                  \/ box.entries[i].frame.of = Head(down).o /\ box.entries[i].frame.kind \in K
    BY <1>2 DEF BoxSettles, Settles
  <2>2. Head(down).o = o => \A f \in Frames : Is(f, o, A) => f.kind \notin K
    BY <1>2 DEF BoxSettles, Keeps
  <2> HIDE DEF K, n
  <2>3. ASSUME NEW k \in 1..n, Is(box'.entries[k].frame, o, B)
        PROVE  \E j \in 1..(k - 1) : Is(box'.entries[j].frame, o, A)
    <3>1. q[k] \in 1..Len(box.entries) /\ Is(box.entries[q[k]].frame, o, B)
      BY <2>1, <2>3
    <3>2. PICK j \in 1..(q[k] - 1) : Is(box.entries[j].frame, o, A)
      BY <3>1 DEF Queued
    <3>3. j \in 1..Len(box.entries) /\ j < q[k]
      BY <1>0, <3>1
    <3>4. PICK m \in 1..n : q[m] = j
      BY <1>0, <2>1, <2>2, <3>2, <3>3 DEF Is
    <3>5. m < k
      <4>1. q[m] \in Int /\ q[k] \in Int /\ q[m] < q[k] /\ m \in Int /\ k \in Int
        BY <1>0, <3>1, <3>3, <3>4 DEF n
      <4>2. m # k /\ (k < m => q[k] < q[m])
        BY <2>1, <4>1
      <4> QED
        BY <4>1, <4>2
    <3>6. Is(box'.entries[m].frame, o, A) /\ m \in 1..(k - 1)
      BY <1>0, <2>1, <3>2, <3>4, <3>5 DEF n
    <3> QED
      BY <3>6
  <2> QED
    BY <2>3 DEF Queued, n
<1>3. ASSUME NEW f \in Frames, Reports(f), BoxGrows(f) PROVE Queued(box', o, A, B)
  <2> DEFINE n == Len(box.entries)
  <2>1. ASSUME NEW i \in 1..(n + 1), Is(box'.entries[i].frame, o, B)
        PROVE  \E j \in 1..(i - 1) : Is(box'.entries[j].frame, o, A)
    <3>1. CASE i \in 1..n
      <4>1. box'.entries[i] = box.entries[i]
        BY <1>3, <3>1 DEF BoxGrows
      <4>2. PICK j \in 1..(i - 1) : Is(box.entries[j].frame, o, A)
        BY <2>1, <3>1, <4>1 DEF Queued
      <4>3. j \in 1..n
        BY <1>0, <3>1
      <4>4. box'.entries[j] = box.entries[j]
        BY <1>3, <4>3 DEF BoxGrows
      <4> QED
        BY <4>2, <4>4
    <3>2. CASE i = n + 1
      <4>1. Boxed(o, A)
        BY <1>3, <2>1, <3>2 DEF BoxGrows
      <4>2. PICK j \in 1..n : Is(box.entries[j].frame, o, A)
        BY <1>0, <4>1 DEF Boxed, Held
      <4> QED
        BY <1>0, <1>3, <3>2, <4>2 DEF BoxGrows
    <3> QED
      BY <1>0, <3>1, <3>2
  <2> QED
    BY <1>3, <2>1 DEF Queued, BoxGrows
<1> QED
  BY <1>1, <1>2, <1>3, BoxSteps

LEMMA ChainSteps ==
    ASSUME Shape, Shape', Table, Next, ~Crash, NEW o, NEW A, NEW B, Chain(o, A, B), Keeps(o, A),
           \A f : Reports(f) /\ Is(f, o, B) => Boxed(o, A),
           Receive /\ up # <<>> /\ Is(Head(up), o, A) => InHand(job'["now"], o, A),
           ~(Write("now") /\ InHand(job["now"], o, A))
    PROVE  Chain(o, A, B)'
<1> DEFINE now == job["now"]
           now2 == job'["now"]
<1>0. QueueShape /\ QueueShape' /\ BoxShape /\ BoxShape' /\ TableShape /\ WritesApart
  BY DEF Shape, Table
<1>1. Queued(box', o, A, B)
  BY QueuedSteps DEF Chain
<1>2. Behind(up, now, o, A, B) /\ (linked => Underway(up, box, now, o, A)) /\ Queued(box, o, A, B)
  BY DEF Chain
<1>3. Len(up) \in Nat /\ NoJob.at = "none"
  BY <1>0 DEF QueueShape, NoJob
<1>4. ASSUME Behind(up', now2, o, A, B), linked' => Underway(up', box', now2, o, A)
      PROVE  Chain(o, A, B)'
  BY <1>1, <1>4 DEF Chain
<1> HIDE DEF now, now2
<1>5. CASE Flush
  <2> DEFINE next == NextIndex(box)
             f == box.entries[next].frame
             n == Len(box.entries)
  <2>1. /\ linked /\ linked' = linked /\ next # 0 /\ up' = Append(up, f) /\ now2 = now
        /\ box' = Sent(Selected(box))
    BY <1>5 DEF Flush, server, now, now2
  <2>2. /\ next \in 1..n /\ f \in Frames
        /\ \A i \in 1..(next - 1) : box.entries[i].sent
        /\ Len(box'.entries) = n
        /\ \A i \in 1..n :
              /\ box'.entries[i].frame = box.entries[i].frame
              /\ box'.entries[i].sent <=> box.entries[i].sent \/ i = next
    BY <1>0, <2>1, BoxFlushed DEF BoxShape
  <2>3. n \in Nat
    BY <1>0 DEF BoxShape, OutboxOf
  <2> HIDE DEF next, n
  <2>4. Is(f, o, B) => InHand(now, o, A) \/ \E k \in 1..Len(up) : Is(up[k], o, A)
    <3> SUFFICES ASSUME Is(f, o, B) PROVE InHand(now, o, A) \/ \E k \in 1..Len(up) : Is(up[k], o, A)
      OBVIOUS
    <3>1. PICK j \in 1..(next - 1) : Is(box.entries[j].frame, o, A)
      BY <1>2, <2>2 DEF Queued, n
    <3>2. j \in 1..n /\ box.entries[j].sent
      BY <2>2, <2>3
    <3> QED
      BY <1>2, <2>1, <3>1, <3>2 DEF Underway, n
  <2>5. /\ Len(up') = Len(up) + 1 /\ up'[Len(up) + 1] = f
        /\ \A i \in 1..Len(up) : up'[i] = up[i]
    BY <1>0, <2>1, <2>2 DEF QueueShape
  <2> HIDE DEF f
  <2>6. Behind(up', now2, o, A, B)
    <3>1. ASSUME NEW i \in 1..(Len(up) + 1), Is(up'[i], o, B)
          PROVE  InHand(now, o, A) \/ \E k \in 1..(i - 1) : Is(up'[k], o, A)
      <4>1. CASE i = Len(up) + 1
        BY <1>3, <2>4, <2>5, <3>1, <4>1
      <4>2. CASE i \in 1..Len(up)
        <5>1. InHand(now, o, A) \/ \E k \in 1..(i - 1) : Is(up[k], o, A)
          BY <1>2, <2>5, <3>1, <4>2 DEF Behind
        <5>2. \A k \in 1..(i - 1) : k \in 1..Len(up)
          BY <1>3, <4>2
        <5> QED
          BY <2>5, <5>1, <5>2
      <4> QED
        BY <1>3, <4>1, <4>2
    <3> QED
      BY <1>2, <2>1, <2>5, <3>1 DEF Behind
  <2>7. Underway(up', box', now2, o, A)
    <3>1. ASSUME NEW i \in 1..n, Is(box.entries[i].frame, o, A), box'.entries[i].sent
          PROVE  InHand(now, o, A) \/ \E k \in 1..(Len(up) + 1) : Is(up'[k], o, A)
      <4>1. CASE i = next
        BY <1>3, <2>5, <3>1, <4>1 DEF f
      <4>2. CASE box.entries[i].sent
        <5>1. InHand(now, o, A) \/ \E k \in 1..Len(up) : Is(up[k], o, A)
          BY <1>2, <2>1, <3>1, <4>2 DEF Underway, n
        <5> QED
          BY <1>3, <2>5, <5>1
      <4> QED
        BY <2>2, <3>1, <4>1, <4>2
    <3> QED
      BY <2>1, <2>2, <2>5, <3>1 DEF Underway
  <2> QED
    BY <1>4, <2>6, <2>7
<1>6. CASE Receive
  <2> DEFINE t == Tail(up)
             h == Head(up)
  <2>1. /\ now = NoJob /\ up # <<>> /\ up' = t /\ UNCHANGED <<linked, box>>
        /\ h = up[1] /\ 1 \in 1..Len(up) /\ Len(t) = Len(up) - 1
        /\ \A i \in 1..Len(t) : i + 1 \in 1..Len(up) /\ t[i] = up[i + 1]
    BY <1>0, <1>6, UpFacts DEF Receive, Working, QueueShape, device, now
  <2>2. ~InHand(now, o, A)
    BY <1>3, <2>1 DEF InHand
  <2>3. ~Is(h, o, B)
    <3>1. 1 \in 1..Len(up) /\ ~ \E k \in 1..(1 - 1) : TRUE
      BY <2>1
    <3> QED
      BY <1>2, <2>1, <2>2, <3>1 DEF Behind
  <2>4. ~InHand(now2, o, B)
    <3>1. now2 = now \/ (now2.o = h.of /\ now2.next = NextOf(h))
      BY <1>0, <1>6 DEF Receive, NextOf, TableShape, now, now2
    <3> QED
      BY <1>2, <2>3, <3>1 DEF Behind, InHand, Is
  <2>5. Is(h, o, A) => InHand(now2, o, A)
    BY <1>6, <2>1 DEF now2
  <2> HIDE DEF t, h
  <2>6. ASSUME NEW m \in 1..(Len(up)), Is(up[m], o, A)
        PROVE  InHand(now2, o, A) \/ (m - 1 \in 1..Len(t) /\ Is(t[m - 1], o, A))
    <3>1. CASE m = 1
      BY <2>1, <2>5, <2>6, <3>1
    <3>2. CASE m # 1
      <4>1. m - 1 \in 1..Len(t) /\ (m - 1) + 1 = m
        BY <1>3, <2>1, <3>2
      <4>2. t[m - 1] = up[m]
        BY <2>1, <4>1
      <4> QED
        BY <2>6, <4>1, <4>2
    <3> QED
      BY <3>1, <3>2
  <2>7. Behind(up', now2, o, A, B)
    <3>1. ASSUME NEW i \in 1..Len(t), Is(t[i], o, B)
          PROVE  InHand(now2, o, A) \/ \E k \in 1..(i - 1) : Is(t[k], o, A)
      <4>1. i + 1 \in 1..Len(up) /\ Is(up[i + 1], o, B)
        BY <2>1, <3>1
      <4>2. PICK k \in 1..((i + 1) - 1) : Is(up[k], o, A)
        BY <1>2, <2>2, <4>1 DEF Behind
      <4>3. k \in 1..Len(up) /\ (k - 1 \in 1..Len(t) => k - 1 \in 1..(i - 1))
        BY <1>3, <2>1
      <4> QED
        BY <2>6, <4>2, <4>3
    <3> QED
      BY <2>1, <2>4, <3>1 DEF Behind
  <2>8. linked' => Underway(up', box', now2, o, A)
    <3> SUFFICES ASSUME linked, NEW i \in 1..Len(box.entries), Is(box.entries[i].frame, o, A),
                        box.entries[i].sent
                 PROVE  InHand(now2, o, A) \/ \E k \in 1..Len(t) : Is(t[k], o, A)
      BY <2>1 DEF Underway
    <3>1. PICK k \in 1..Len(up) : Is(up[k], o, A)
      BY <1>2, <2>2 DEF Underway
    <3> QED
      BY <2>6, <3>1
  <2> QED
    BY <1>4, <2>7, <2>8
<1>7. ASSUME UNCHANGED <<linked, box>>, up' = up,
             ~InHand(now, o, A), ~InHand(now2, o, B)
      PROVE  Chain(o, A, B)'
  <2>1. Behind(up', now2, o, A, B)
    BY <1>2, <1>7 DEF Behind
  <2>2. linked' => Underway(up', box', now2, o, A)
    BY <1>2, <1>7 DEF Underway
  <2> QED
    BY <1>4, <2>1, <2>2
<1>8. ASSUME NEW c \in {"now", "old"}, Write(c) PROVE Chain(o, A, B)'
  <2>1. c = "now"
    BY <1>0, <1>8 DEF Write, WritesApart, NoJob
  <2>2. ~InHand(now, o, A) /\ UNCHANGED <<linked, box, up>>
    BY <1>8, <2>1 DEF Write, device, now
  <2>3. now2.at = "answer"
    <3>1. now \in Jobs /\ now.at = "write" /\ now2 = [now EXCEPT !.at = "answer"]
      BY <1>0, <1>8, <2>1 DEF Write, TableShape, now, now2
    <3> QED
      BY <3>1 DEF Jobs, NoJob
  <2> QED
    BY <1>7, <2>2, <2>3 DEF InHand
<1>9. ASSUME NEW c \in {"now", "old"}, Answer(c) PROVE Chain(o, A, B)'
  <2>1. c = "now"
    BY <1>0, <1>9 DEF Answer, WritesApart, NoJob
  <2>2. UNCHANGED <<linked, box, up>> /\ now.at = "answer" /\ now2 = NoJob
    BY <1>0, <1>9, <2>1 DEF Answer, TableShape, device, now, now2
  <2> QED
    BY <1>3, <1>7, <2>2 DEF InHand
<1>10. CASE Connect
  <2>1. up' = <<>> /\ now2 = NoJob
    BY <1>10 DEF Connect, now2
  <2>2. \A i \in 1..Len(box'.entries) : ~box'.entries[i].sent
    <3>1. box' = Reconnected(box) /\ OutboxOf(box, Frames)
      BY <1>0, <1>10 DEF Connect, BoxShape
    <3>2. /\ Len(box'.entries) = Len(box.entries)
          /\ \A i \in 1..Len(box.entries) : i \in Unsent(box')
      BY <3>1, Reconnecting
    <3> QED
      BY <3>2 DEF Unsent
  <2>3. Behind(up', now2, o, A, B)
    <3>1. Len(up') = 0
      BY <2>1
    <3> QED
      BY <1>3, <2>1, <3>1 DEF Behind, InHand
  <2> QED
    BY <1>4, <2>2, <2>3 DEF Underway
<1>11. CASE Cleanup
  <2>1. up' = <<>> /\ now2 = now /\ ~linked'
    BY <1>11 DEF Cleanup, now, now2
  <2>2. Behind(up', now2, o, A, B)
    <3>1. Len(up') = 0
      BY <2>1
    <3> QED
      BY <1>2, <2>1, <3>1 DEF Behind
  <2> QED
    BY <1>4, <2>1, <2>2
<1>12. CASE TakeError \/ Cut
  <2>1. /\ Len(up') \in 0..Len(up) /\ \A i \in 1..Len(up') : up'[i] = up[i]
        /\ ~linked' /\ now2 = now
    BY <1>0, <1>12, LeaveShape DEF TakeError, Cut, server, now, now2
  <2>2. ASSUME NEW i \in 1..Len(up'), Is(up'[i], o, B)
        PROVE  InHand(now, o, A) \/ \E k \in 1..(i - 1) : Is(up'[k], o, A)
    <3>1. i \in 1..Len(up) /\ Is(up[i], o, B)
      BY <1>3, <2>1, <2>2
    <3>2. InHand(now, o, A) \/ \E k \in 1..(i - 1) : Is(up[k], o, A)
      BY <1>2, <3>1 DEF Behind
    <3>3. \A k \in 1..(i - 1) : up'[k] = up[k]
      BY <1>3, <2>1
    <3> QED
      BY <3>2, <3>3
  <2>3. Behind(up', now2, o, A, B)
    BY <1>2, <2>1, <2>2 DEF Behind
  <2> QED
    BY <1>4, <2>1, <2>3
<1>13. ASSUME UNCHANGED linked, up' = up, now2 = now, ~Flush, ~Connect PROVE Chain(o, A, B)'
  <2>1. Behind(up', now2, o, A, B)
    BY <1>2, <1>13
  <2>2. \A i \in 1..Len(box'.entries) : box'.entries[i].sent =>
            \E j \in 1..Len(box.entries) : box.entries[j] = box'.entries[i]
    <3>1. CASE box' = box
      BY <3>1
    <3>2. CASE BoxSettles
      BY <3>2 DEF BoxSettles, Settles
    <3>3. ASSUME NEW f \in Frames, BoxGrows(f)
          PROVE  \A i \in 1..Len(box'.entries) : box'.entries[i].sent =>
                    \E j \in 1..Len(box.entries) : box.entries[j] = box'.entries[i]
      <4>1. Len(box.entries) \in Nat
        BY <1>0 DEF BoxShape, OutboxOf
      <4>2. \A i \in 1..Len(box'.entries) : i \in 1..Len(box.entries) \/ i = Len(box.entries) + 1
        BY <3>3, <4>1 DEF BoxGrows
      <4> QED
        BY <3>3, <4>2 DEF BoxGrows
    <3> QED
      BY <1>13, <3>1, <3>2, <3>3, BoxSteps
  <2>3. linked' => Underway(up', box', now2, o, A)
    BY <1>2, <1>13, <2>2 DEF Underway
  <2> QED
    BY <1>4, <2>1, <2>3
<1>14. CASE \/ \E x \in Ops : Create(x) \/ SendDevice(x) \/ ReadForWaiting(x) \/ WriteWaiting(x)
            \/ Greet \/ Forward \/ TakeRequest \/ TakeAck \/ View \/ Refused \/ GiveUp \/ Reload
  <2>1. UNCHANGED linked /\ up' = up /\ now2 = now
    BY <1>14 DEF Create, SendDevice, ReadForWaiting, WriteWaiting, Greet, Forward, TakeRequest,
                 TakeAck, View, Drain, Begin, Validate, Advance, Execute, Complete, Refused, GiveUp,
                 Reload, server, now, now2
  <2>2. CASE ~Flush /\ ~Connect
    BY <1>13, <2>1, <2>2
  <2> QED
    BY <1>5, <1>10, <2>2
<1> QED
  BY <1>5, <1>6, <1>8, <1>9, <1>10, <1>11, <1>12, <1>14 DEF Next, Serve, Run

-----------------------------------------------------------------------------
(* What an operation's way was *)

Later == {"running"} \cup Final

\* The daemon was told that the operation was accepted, and that will not be forgotten.
Walked(o) == op[o].accepted \/ Boxed(o, {"accepted"})
Untouched(o) == ~Walked(o) /\ outcome[o] = "none"

\* What the device holds is in the table.
Known ==
    /\ \A o \in Ops : local[o] # "none" => op[o].status # "absent"
    /\ \A i \in 1..Len(batch) : op[batch[i].o].status # "absent"

\* Nothing is carried out, nor found interrupted, before it was reported accepted.
Followed ==
    /\ \A o \in Ops : runs[o] > 0 => Walked(o)
    /\ at \in {"start", "execute"} => Walked(batch[1].o)
    /\ at = "interrupted" => batch[1].status \in {"accepted", "running"}
    /\ \A o \in Ops : local[o] \in {"accepted", "running"} => Walked(o)
    /\ \A i \in 1..Len(batch) : batch[i].status \in {"accepted", "running"} => Walked(batch[i].o)

\* What is said of an operation has happened to it.
Founded ==
    /\ \A o \in Ops : Spoken(o, {"accepted", "running"}) => Walked(o)
    /\ \A o \in Ops : Spoken(o, Final) => outcome[o] # "none"
    /\ \A o \in Ops : op[o].status \in Beyond => Walked(o) \/ outcome[o] # "none"

\* What the daemon offers as fresh is untouched, and so is what the view drew of it, until
\* the view reports it.
Clear ==
    /\ \A o \in Ops : o \notin seen \/ local[o] \in Fresh => Untouched(o)
    /\ \A i \in 1..Len(batch) :
          batch[i].status \in Fresh /\ (i > 1 \/ at \in {"idle", "validate", "accept"})
              => Untouched(batch[i].o)

\* Until the server has it, "accepted" leads everything else that is said.
Leading ==
    \A o \in Ops : Boxed(o, {"accepted"}) /\ ~op[o].accepted
        => op[o].status \in Fresh /\ Chain(o, {"accepted"}, Later)

Walk == Known /\ Followed /\ Founded /\ Clear /\ Leading

Going == ~SlowStorage /\ Shape /\ Shape' /\ Table /\ Table' /\ Once /\ Once' /\ Next /\ ~Crash

LEMMA LocalSteps ==
    ASSUME Going, NEW o \in Ops
    PROVE  /\ o \in seen => o \in seen'
           /\ \/ local'[o] = local[o]
              \/ /\ o \notin seen
                 /\ \E m \in Range(down) : m.type = "request" /\ m.o = o /\ local'[o] = m.status
              \/ \E m \in Range(down) :
                    /\ m.type = "ack" /\ m.o = o /\ m.status \in Beyond
                    /\ local'[o] \in {"none", m.status}
              \/ \E f \in Frames : Reports(f) /\ f.of = o /\ local'[o] = NextOf(f)
<1>0. BoxShape /\ QueueShape /\ ViewShape /\ AllTold
  BY DEF Going, Shape, Table
<1>1. CASE TakeRequest
  <2> DEFINE m == Head(down)
             s == IF m.o \in seen THEN local[m.o] ELSE m.status
  <2>1. m \in Range(down) /\ m.type = "request" /\ m.o \in Ops
    <3>1. down # <<>> /\ m.type = "request"
      BY <1>1 DEF TakeRequest
    <3> QED
      BY <1>0, <3>1, Ranges, DownFacts DEF QueueShape
  <2>2. local' = [local EXCEPT ![m.o] = s] /\ seen' = seen \cup {m.o}
    BY <1>1 DEF TakeRequest
  <2>3. s = local[m.o] \/ (m.o \notin seen /\ s = m.status)
    OBVIOUS
  <2> HIDE DEF m, s
  <2>4. local'[o] = local[o] \/ (o = m.o /\ local'[o] = s)
    BY <1>0, <2>1, <2>2 DEF BoxShape
  <2> QED
    BY <2>1, <2>2, <2>3, <2>4
<1>2. CASE TakeAck
  <2> DEFINE m == Head(down)
             s == IF m.status \in Final \/ local[m.o] = "none" THEN "none" ELSE m.status
  <2>1. m \in Range(down) /\ m.type = "ack" /\ m.o \in Ops /\ m.status \in Beyond
    <3>1. down # <<>> /\ m.type = "ack"
      BY <1>2 DEF TakeAck
    <3>2. m \in Range(down) /\ m.o \in Ops
      BY <1>0, <3>1, Ranges, DownFacts DEF QueueShape
    <3> QED
      BY <1>0, <3>1, <3>2 DEF AllTold, Told
  <2>2. local' = [local EXCEPT ![m.o] = s] /\ seen' = seen
    BY <1>2 DEF TakeAck
  <2>3. s \in {"none", m.status}
    OBVIOUS
  <2> HIDE DEF m, s
  <2>4. local'[o] = local[o] \/ (o = m.o /\ local'[o] = s)
    BY <1>0, <2>1, <2>2 DEF BoxShape
  <2> QED
    BY <2>1, <2>2, <2>3, <2>4
<1>3. ASSUME NEW kind, NEW n, NEW f \in Frames, f = [kind |-> kind, of |-> Now, n |-> n],
             Report(kind, n, NextOf(f)), Reports(f)
      PROVE  /\ o \in seen => o \in seen'
             /\ local'[o] = local[o] \/ (f.of = o /\ local'[o] = NextOf(f))
  <2>1. f.of = Now
    BY <1>3
  <2>2. /\ local' = [local EXCEPT ![Now] = IF local[Now] = "none" THEN local[Now] ELSE NextOf(f)]
        /\ seen' = seen
    BY <1>3 DEF Report
  <2> QED
    BY <1>0, <2>1, <2>2 DEF BoxShape
<1>4. CASE Advance
  <2>1. at # "idle" /\ batch # <<>> /\ Now \in Ops
    BY <1>0, <1>4, BatchFacts DEF Advance, ViewShape
  <2> DEFINE a == [kind |-> "accepted", of |-> Now, n |-> ""]
             r == [kind |-> "running", of |-> Now, n |-> ""]
  <2>2. a \in Frames /\ r \in Frames /\ NextOf(a) = "accepted" /\ NextOf(r) = "running"
    BY <2>1, FrameFacts DEF NextOf
  <2>3. CASE at = "accept"
    <3>1. Report("accepted", "", "accepted")
      BY <1>4, <2>3 DEF Advance
    <3>2. Reports(a)
      BY <1>4, <2>1, <2>3 DEF Reports
    <3> QED
      BY <1>3, <2>2, <3>1, <3>2
  <2>4. CASE at \in {"start", "interrupted"}
    <3>1. Report("running", "", "running")
      BY <1>4, <2>4 DEF Advance
    <3>2. Reports(r)
      BY <1>4, <2>1, <2>4 DEF Reports
    <3> QED
      BY <1>3, <2>2, <3>1, <3>2
  <2> QED
    BY <1>4, <2>3, <2>4 DEF Advance
<1>5. CASE Complete
  <2> DEFINE f == [kind |-> "completed", of |-> Now, n |-> at]
  <2>1. at \in Final /\ Report("completed", at, at) /\ batch # <<>> /\ Now \in Ops
    BY <1>0, <1>5, BatchFacts DEF Complete, ViewShape, Final, TerminalStatuses
  <2>2. f \in Frames /\ NextOf(f) = at
    BY <2>1, FrameFacts DEF NextOf
  <2>3. Reports(f)
    BY <1>5, <2>1 DEF Reports
  <2> QED
    BY <1>3, <2>1, <2>2, <2>3
<1>6. CASE \/ Serve \/ \E x \in Ops : Create(x)
           \/ Connect \/ Flush \/ TakeError \/ Cut \/ Drain \/ Begin \/ Validate \/ Execute
           \/ Refused \/ GiveUp \/ Reload
  <2>1. UNCHANGED <<local, seen>>
    BY <1>6 DEF Serve, Create, SendDevice, ReadForWaiting, WriteWaiting, Greet, Forward, Receive,
                Cleanup, Write, Answer, Connect, Flush, TakeError, Cut, Drain, Begin, Validate,
                Execute, Refused, GiveUp, Reload, device
  <2> QED
    BY <2>1
<1> QED
  BY <1>1, <1>2, <1>4, <1>5, <1>6 DEF Going, Next, Run, View

\* Where the view's batch comes from.
LEMMA BatchSteps ==
    ASSUME Going
    PROVE  \A i \in 1..Len(batch') :
              \/ /\ Drain /\ at' = "idle" /\ UNCHANGED <<local, seen>>
                 /\ local[batch'[i].o] # "none" /\ batch'[i].status = local[batch'[i].o]
              \/ batch' = batch /\ i \in 1..Len(batch) /\ batch # <<>>
              \/ i + 1 \in 1..Len(batch) /\ batch'[i] = batch[i + 1] /\ at' = "idle"
<1>0. ViewShape
  BY DEF Going, Shape
<1>1. CASE Drain
  BY <1>0, <1>1, DrainShape DEF Going, Drain, device, ViewShape
<1>2. CASE batch' = batch
  <2>1. \A i \in 1..Len(batch) : batch # <<>>
    BY <1>0 DEF ViewShape
  <2> QED
    BY <1>2, <2>1
<1>3. CASE batch # <<>> /\ batch' = Tail(batch) /\ at' = "idle"
  BY <1>0, <1>3, BatchFacts
<1>4. CASE batch' = <<>>
  <2>1. Len(batch') = 0
    BY <1>4
  <2> QED
    BY <2>1
<1>5. ~Drain => \/ batch' = batch \/ batch' = <<>>
                \/ batch # <<>> /\ batch' = Tail(batch) /\ at' = "idle"
  <2> SUFFICES ASSUME ~Drain PROVE \/ batch' = batch \/ batch' = <<>>
                                   \/ batch # <<>> /\ batch' = Tail(batch) /\ at' = "idle"
    OBVIOUS
  <2>1. CASE Begin \/ Complete \/ GiveUp \/ Reload
    BY <1>0, <2>1 DEF Begin, Complete, GiveUp, Reload, ViewShape, Final, TerminalStatuses
  <2>2. CASE \/ Serve \/ \E x \in Ops : Create(x)
             \/ Run \/ Cut \/ Validate \/ Advance \/ Execute \/ Refused
    BY <2>2 DEF Serve, Create, SendDevice, ReadForWaiting, WriteWaiting, Greet, Forward, Receive,
                Cleanup, Write, Answer, Run, Connect, Flush, TakeRequest, TakeAck, TakeError, Cut,
                Validate, Advance, Execute, Refused, view
  <2> QED
    BY <2>1, <2>2 DEF Going, Next, View
<1> QED
  BY <1>1, <1>2, <1>3, <1>4, <1>5

LEMMA ReportGrows ==
    ASSUME Going, NEW f \in Frames, Reports(f)
    PROVE  BoxGrows(f) /\ UNCHANGED <<op, up, job>>
<1>0. BoxShape /\ ViewShape
  BY DEF Going, Shape
<1>1. f.of = Now /\ (f.kind # "completed" => f.n = "")
  BY DEF Reports, Frames
<1>2. f = [kind |-> f.kind, of |-> Now, n |-> f.n]
  BY <1>1 DEF Frames
<1>3. Len(box.entries) < Limit /\ box' = Pushed(box, f) /\ UNCHANGED <<op, up, job>>
  <2>1. CASE f.kind = "accepted"
    BY <1>1, <1>2, <2>1 DEF Reports, Advance, Report, server
  <2>2. CASE f.kind = "running"
    BY <1>1, <1>2, <2>2 DEF Reports, Advance, Report, server
  <2>3. CASE f.kind = "completed"
    BY <1>1, <1>2, <2>3 DEF Reports, Complete, Report, server
  <2> QED
    BY <2>1, <2>2, <2>3 DEF Reports
<1> QED
  BY <1>0, <1>3, BoxReported DEF BoxShape, BoxGrows

\* The first report of A is followed by nothing.
LEMMA ChainBegins ==
    ASSUME Going, NEW f \in Frames, Reports(f), NEW o, NEW A, NEW B, Is(f, o, A), ~Is(f, o, B),
           ~Boxed(o, A), ~Spoken(o, B)
    PROVE  Boxed(o, A)' /\ Chain(o, A, B)'
<1>0. OutboxOf(box, Frames) /\ OutboxOf(box', Frames) /\ QueueShape
  BY DEF Going, Shape, BoxShape
<1>1. BoxGrows(f) /\ up' = up /\ job' = job
  BY ReportGrows
<1>2. /\ Len(box.entries) \in Nat
      /\ DOMAIN box'.entries = 1..Len(box'.entries) /\ DOMAIN box.entries = 1..Len(box.entries)
  BY <1>0 DEF OutboxOf
<1>3. ASSUME NEW i \in 1..Len(box'.entries)
      PROVE  /\ ~Is(box'.entries[i].frame, o, B)
             /\ Is(box'.entries[i].frame, o, A) => ~box'.entries[i].sent
  <2>1. CASE i \in 1..Len(box.entries)
    <3>1. box'.entries[i].frame \in Held(box)
      BY <1>1, <1>2, <2>1 DEF Held, BoxGrows
    <3> QED
      BY <3>1 DEF Spoken, Boxed
  <2>2. CASE i = Len(box.entries) + 1
    BY <1>1, <2>2 DEF BoxGrows
  <2> QED
    BY <1>1, <1>2, <2>1, <2>2 DEF BoxGrows
<1>4. Queued(box', o, A, B) /\ Underway(up', box', job'["now"], o, A)
  BY <1>3 DEF Queued, Underway
<1>5. Behind(up', job'["now"], o, A, B)
  <2>1. \A i \in 1..Len(up) : up[i] \in Range(up)
    BY <1>0 DEF QueueShape, Range
  <2> QED
    BY <1>1, <2>1 DEF Behind, Spoken
<1>6. f \in Held(box')
  <2>1. Len(box.entries) + 1 \in DOMAIN box'.entries
    BY <1>1, <1>2 DEF BoxGrows
  <2> QED
    BY <1>1, <2>1 DEF Held, BoxGrows
<1> QED
  BY <1>4, <1>5, <1>6 DEF Chain, Boxed

-----------------------------------------------------------------------------
\* A stage is stored because a frame asked for it.
LEMMA StageSteps ==
    ASSUME Going, NEW o \in Ops
    PROVE  /\ op'[o].accepted => op[o].accepted \/ InHand(job["now"], o, {"accepted"})
           /\ op'[o].running => op[o].running \/ InHand(job["now"], o, {"running"})
           /\ op'[o].status \in Beyond => op'[o] = op[o] \/ InHand(job["now"], o, {op'[o].status})
           /\ op[o].accepted => op'[o].accepted
           /\ op[o].running => op'[o].running
           /\ op'[o].accepted <=> op'[o].status \in {"accepted", "running", "succeeded", "failed"}
                                  \/ (op'[o].status = "rejected" /\ op'[o].running)
           /\ op'[o].running => op'[o].accepted
<1>1. RowStep(op[o], op'[o]) /\ RowFits(op'[o]) /\ op'[o].status \in Status \cup {"absent"}
  BY RowsStep, RowsGrow, JobFacts DEF Going, Table, Shape, TableShape, Rows
<1>2. /\ op'[o].status \in Beyond => op'[o] = op[o] \/ InHand(job["now"], o, {op'[o].status})
      /\ op[o].accepted => op'[o].accepted
      /\ op[o].running => op'[o].running
  BY HandSteps, RowsGrow DEF Going
<1>3. /\ op'[o].accepted => op[o].accepted \/ (op'[o] # op[o] /\ op'[o].status = "accepted")
      /\ op'[o].running => op[o].running \/ (op'[o] # op[o] /\ op'[o].status = "running")
  BY <1>1 DEF RowStep
<1>4. {"accepted", "running"} \subseteq Beyond
  BY DEF Beyond
<1>5. /\ op'[o].accepted <=> op'[o].status \in {"accepted", "running", "succeeded", "failed"}
                             \/ (op'[o].status = "rejected" /\ op'[o].running)
      /\ op'[o].running => op'[o].accepted
  BY <1>1 DEF RowFits, Status, Fresh, Final, TerminalStatuses
<1> QED
  BY <1>2, <1>3, <1>4, <1>5

\* An acknowledgement that settles "accepted" finds it stored.
LEMMA WalkedStays ==
    ASSUME Going, Leading, NEW o \in Ops, Walked(o)
    PROVE  Walked(o)'
<1>1. CASE op[o].accepted
  BY <1>1, StageSteps DEF Walked
<1>2. CASE ~op[o].accepted /\ Boxed(o, {"accepted"})
  <2>1. PICK f \in Held(box) : Is(f, o, {"accepted"})
    BY <1>2 DEF Boxed
  <2>2. CASE f \in Held(box')
    BY <2>1, <2>2 DEF Boxed, Walked
  <2>3. CASE TakeAck /\ down # <<>> /\ Head(down).type = "ack" /\ Head(down).o = f.of
    <3>1. Head(down) \in Range(down)
      BY <2>3, Ranges DEF Going, Shape, QueueShape
    <3>2. op[o].status \in Beyond
      BY <2>1, <2>3, <3>1 DEF Going, Table, AllTold, Told, Is
    <3>3. op[o].status \in Fresh
      BY <1>2 DEF Leading
    <3> QED
      BY <3>2, <3>3 DEF Beyond, Fresh, Final, TerminalStatuses
  <2> QED
    BY <2>1, <2>2, <2>3, HeldSteps DEF Going
<1> QED
  BY <1>1, <1>2 DEF Walked

LEMMA UnwalkedStays ==
    ASSUME Going, Founded, NEW o \in Ops, ~Walked(o), ~(o = Now /\ Advance /\ at = "accept")
    PROVE  ~Walked(o)'
<1>1. ~op'[o].accepted
  <2>1. ~InHand(job["now"], o, {"accepted"})
    BY DEF Founded, Spoken, InHand
  <2> QED
    BY <2>1, StageSteps DEF Walked
<1>2. ~Boxed(o, {"accepted"})'
  <2> SUFFICES ASSUME NEW f \in Held(box'), Is(f, o, {"accepted"}) PROVE FALSE
    BY DEF Boxed
  <2>1. Reports(f)
    BY HeldSteps DEF Going, Walked, Boxed
  <2>2. f.of = o /\ f.kind = "accepted"
    BY <2>1 DEF Is, NextOf, Reports, Final, TerminalStatuses
  <2> QED
    BY <2>1, <2>2 DEF Reports
<1> QED
  BY <1>1, <1>2 DEF Walked

\* Only its report touches an operation.
LEMMA UntouchedStays ==
    ASSUME Going, Founded, NEW o \in Ops, Untouched(o)
    PROVE  \/ Untouched(o)'
           \/ batch # <<>> /\ o = Now /\ (Complete \/ (Advance /\ at = "accept"))
<1> SUFFICES ASSUME ~(batch # <<>> /\ o = Now /\ (Complete \/ (Advance /\ at = "accept")))
             PROVE  Untouched(o)'
  OBVIOUS
<1>0. ViewShape
  BY DEF Going, Shape
<1>1. ~Walked(o) /\ outcome[o] = "none"
  BY DEF Untouched
<1>2. ~Walked(o)'
  <2>1. Advance => batch # <<>>
    BY <1>0 DEF Advance, ViewShape
  <2> QED
    BY <1>1, <2>1, UnwalkedStays
<1>3. outcome'[o] = "none"
  <2>1. CASE Complete
    <3>1. batch # <<>> /\ Now \in Ops /\ Now # o
      BY <1>0, <2>1, BatchFacts DEF Complete, ViewShape, Final, TerminalStatuses
    <3> QED
      BY <1>0, <1>1, <2>1, <3>1 DEF Complete, ViewShape
  <2>2. CASE ~Complete
    <3>1. outcome' = outcome
      BY <2>2 DEF Going, Next, Serve, Run, View, Create, SendDevice, ReadForWaiting, WriteWaiting,
                  Greet, Forward, Receive, Cleanup, Write, Answer, Connect, Flush, TakeRequest,
                  TakeAck, TakeError, Cut, Drain, Begin, Validate, Advance, Execute, Refused, GiveUp,
                  Reload, view
    <3> QED
      BY <1>1, <3>1
  <2> QED
    BY <2>1, <2>2
<1> QED
  BY <1>2, <1>3 DEF Untouched

\* Every outcome is reported, and the first one stays.
LEMMA OutcomeSteps ==
    ASSUME Going, NEW o \in Ops
    PROVE  /\ outcome[o] # "none" => outcome'[o] = outcome[o]
           /\ outcome[o] = "none" => \/ outcome'[o] = "none"
                                     \/ /\ Complete /\ batch # <<>> /\ o = Now /\ at \in Final
                                        /\ outcome'[o] = at
           /\ Complete /\ batch # <<>> /\ o = Now => outcome'[o] # "none"
<1>0. ViewShape
  BY DEF Going, Shape
<1>1. CASE Complete
  <2> DEFINE s == IF outcome[Now] = "none" THEN at ELSE outcome[Now]
  <2>1. batch # <<>> /\ Now \in Ops /\ at \in Final /\ outcome' = [outcome EXCEPT ![Now] = s]
    BY <1>0, <1>1, BatchFacts DEF Complete, ViewShape, Final, TerminalStatuses
  <2>2. /\ outcome[Now] # "none" => s = outcome[Now]
        /\ outcome[Now] = "none" => s = at
        /\ s # "none"
    BY <2>1 DEF Final, TerminalStatuses
  <2> HIDE DEF s
  <2>3. outcome'[Now] = s /\ (o # Now => outcome'[o] = outcome[o])
    BY <1>0, <2>1 DEF ViewShape
  <2> QED
    BY <1>1, <2>1, <2>2, <2>3
<1>2. CASE ~Complete
  <2>1. outcome' = outcome
    BY <1>2 DEF Going, Next, Serve, Run, View, Create, SendDevice, ReadForWaiting, WriteWaiting,
                Greet, Forward, Receive, Cleanup, Write, Answer, Connect, Flush, TakeRequest,
                TakeAck, TakeError, Cut, Drain, Begin, Validate, Advance, Execute, Refused, GiveUp,
                Reload, view
  <2> QED
    BY <1>2, <2>1
<1> QED
  BY <1>1, <1>2

-----------------------------------------------------------------------------
LEMMA KnownSteps ==
    ASSUME Going, Known
    PROVE  Known'
<1>0. Shape /\ Table /\ Next
  BY DEF Going
<1>1. \A o \in Ops : op[o].status # "absent" => op'[o].status # "absent"
  BY RowsGrow DEF Going
<1>2. ASSUME NEW o \in Ops, local'[o] # "none" PROVE op'[o].status # "absent"
  <2>1. CASE local'[o] = local[o]
    BY <1>1, <1>2, <2>1 DEF Known
  <2>2. ASSUME NEW m \in Range(down), m.type \in {"request", "ack"}, m.o = o
        PROVE  op'[o].status # "absent"
    <3>1. Told(m)
      BY <1>0 DEF Table, AllTold
    <3>2. op[o].status # "absent"
      BY <2>2, <3>1 DEF Told, Beyond, Final, TerminalStatuses
    <3> QED
      BY <1>1, <3>2
  <2>3. ASSUME NEW f \in Frames, Reports(f), f.of = o PROVE op'[o].status # "absent"
    <3>1. batch # <<>> /\ o = batch[1].o /\ 1 \in 1..Len(batch)
      BY <1>0, <2>3, BatchFacts DEF Reports, Shape
    <3> QED
      BY <1>1, <3>1 DEF Known
  <2> QED
    BY <2>1, <2>2, <2>3, LocalSteps
<1>3. ASSUME NEW i \in 1..Len(batch') PROVE op'[batch'[i].o].status # "absent"
  <2>0. batch'[i].o \in Ops
    BY <1>3, BatchFacts DEF Going, Once, Drawn, Shape, BoxShape
  <2>1. CASE local[batch'[i].o] # "none"
    BY <1>1, <2>0, <2>1 DEF Known
  <2>2. ASSUME NEW j \in 1..Len(batch), batch'[i] = batch[j] PROVE op'[batch'[i].o].status # "absent"
    BY <1>1, <2>0, <2>2 DEF Known
  <2> QED
    BY <2>1, <2>2, BatchSteps
<1> QED
  BY <1>2, <1>3 DEF Known

LEMMA FoundedSteps ==
    ASSUME Going, Walk
    PROVE  Founded'
<1>0. Founded /\ Followed /\ Leading /\ ViewShape
  BY DEF Walk, Going, Shape
<1>1. \A o \in Ops : Walked(o) => Walked(o)'
  BY <1>0, WalkedStays
<1>2. \A o \in Ops : outcome[o] # "none" => outcome'[o] # "none"
  BY OutcomeSteps
<1>3. ASSUME NEW o \in Ops, NEW A, Spoken(o, A)'
      PROVE  Spoken(o, A) \/ \E f \in Held(box') : Is(f, o, A) /\ Reports(f)
  <2>1. /\ \A f \in Range(up') : f \in Range(up) \cup Held(box)
        /\ \A f \in Held(box') : f \in Held(box) \/ Reports(f)
        /\ InHand(job'["now"], o, A) => InHand(job["now"], o, A) \/ \E f \in Range(up) : Is(f, o, A)
    BY UpSteps, HeldSteps, HandSteps DEF Going
  <2> QED
    BY <1>3, <2>1 DEF Spoken
<1>4. ASSUME NEW f \in Held(box'), Reports(f)
      PROVE  /\ batch # <<>> /\ f.of = Now /\ Now \in Ops /\ Now = batch[1].o /\ 1 \in 1..Len(batch)
             /\ NextOf(f) = "accepted" => Advance /\ at = "accept"
             /\ NextOf(f) = "running" => Advance /\ at \in {"start", "interrupted"}
             /\ NextOf(f) \in Final => Complete
  BY <1>0, <1>4, BatchFacts DEF Reports, NextOf, Final, TerminalStatuses
<1>5. ASSUME NEW o \in Ops, Spoken(o, {"accepted", "running"})' PROVE Walked(o)'
  <2>1. CASE Spoken(o, {"accepted", "running"})
    BY <1>0, <1>1, <2>1 DEF Founded
  <2>2. ASSUME NEW f \in Held(box'), Is(f, o, {"accepted", "running"}), Reports(f) PROVE Walked(o)'
    <3>1. CASE NextOf(f) = "accepted"
      BY <2>2, <3>1 DEF Walked, Boxed, Is
    <3>2. CASE NextOf(f) = "running"
      <4>1. Walked(o)
        BY <1>0, <1>4, <2>2, <3>2 DEF Followed, Is
      <4> QED
        BY <1>1, <4>1
    <3> QED
      BY <2>2, <3>1, <3>2 DEF Is
  <2> QED
    BY <1>3, <1>5, <2>1, <2>2
<1>6. ASSUME NEW o \in Ops, Spoken(o, Final)' PROVE outcome'[o] # "none"
  <2>1. CASE Spoken(o, Final)
    BY <1>0, <1>2, <2>1 DEF Founded
  <2>2. ASSUME NEW f \in Held(box'), Is(f, o, Final), Reports(f) PROVE outcome'[o] # "none"
    <3>1. Complete /\ batch # <<>> /\ o = Now
      BY <1>4, <2>2 DEF Is
    <3> QED
      BY <3>1, OutcomeSteps
  <2> QED
    BY <1>3, <1>6, <2>1, <2>2
<1>7. ASSUME NEW o \in Ops, op'[o].status \in Beyond PROVE Walked(o)' \/ outcome'[o] # "none"
  <2>1. CASE op'[o] = op[o]
    <3>1. Walked(o) \/ outcome[o] # "none"
      BY <1>0, <1>7, <2>1 DEF Founded
    <3> QED
      BY <1>1, <1>2, <3>1
  <2>2. CASE InHand(job["now"], o, {op'[o].status})
    <3>1. CASE op'[o].status \in {"accepted", "running"}
      <4>1. Spoken(o, {"accepted", "running"})
        BY <2>2, <3>1 DEF Spoken, InHand
      <4> QED
        BY <1>0, <1>1, <4>1 DEF Founded
    <3>2. CASE op'[o].status \in Final
      <4>1. Spoken(o, Final)
        BY <2>2, <3>2 DEF Spoken, InHand
      <4> QED
        BY <1>0, <1>2, <4>1 DEF Founded
    <3> QED
      BY <1>7, <3>1, <3>2 DEF Beyond
  <2> QED
    BY <1>7, <2>1, <2>2, StageSteps
<1> QED
  BY <1>5, <1>6, <1>7 DEF Founded

LEMMA ClearSteps ==
    ASSUME Going, Walk
    PROVE  Clear'
<1>0. Clear /\ Founded /\ ViewShape /\ Once /\ Shape /\ Table
  BY DEF Walk, Going, Shape
<1>1. batch # <<>> => Now = batch[1].o /\ 1 \in 1..Len(batch) /\ Now \in Ops /\ Now \in seen
  BY <1>0, BatchFacts DEF Once, Drawn
<1>2. ASSUME NEW o \in Ops, o \notin seen' \/ local'[o] \in Fresh PROVE Untouched(o)'
  <2>1. Untouched(o)
    <3>1. CASE o \notin seen
      BY <1>0, <3>1 DEF Clear
    <3>2. CASE local'[o] = local[o] /\ o \in seen
      BY <1>0, <1>2, <3>2, LocalSteps DEF Clear
    <3>3. ASSUME NEW m \in Range(down), m.type = "ack", m.status \in Beyond,
                 local'[o] \in {"none", m.status}, o \in seen
          PROVE  FALSE
      BY <1>2, <3>3, LocalSteps DEF Beyond, Fresh, Final, TerminalStatuses
    <3>4. ASSUME NEW f \in Frames, local'[o] = NextOf(f), o \in seen PROVE FALSE
      BY <1>2, <3>4, LocalSteps, FrameFacts DEF Beyond, Fresh, Final, TerminalStatuses
    <3> QED
      BY <3>1, <3>2, <3>3, <3>4, LocalSteps
  <2>2. ~(batch # <<>> /\ o = Now /\ (Complete \/ (Advance /\ at = "accept")))
    <3> SUFFICES ASSUME batch # <<>>, o = Now, Complete \/ (Advance /\ at = "accept") PROVE FALSE
      OBVIOUS
    <3>1. o \in seen /\ seen' = seen
      BY <1>1 DEF Complete, Advance, Report
    <3>2. local'[o] \in Fresh
      BY <1>2, <3>1
    <3>3. local'[o] = "none" \/ local'[o] = "accepted" \/ local'[o] = at
      <4>1. local[o] = "none" => local'[o] = "none"
        BY <1>0 DEF Complete, Advance, Report, Shape, BoxShape
      <4>2. local[o] # "none" => local'[o] = "accepted" \/ local'[o] = at
        BY <1>0 DEF Complete, Advance, Report, Shape, BoxShape
      <4> QED
        BY <4>1, <4>2
    <3> QED
      BY <3>2, <3>3 DEF Fresh, Complete, Advance, Final, TerminalStatuses
  <2> QED
    BY <1>0, <2>1, <2>2, UntouchedStays
<1>3. ASSUME NEW i \in 1..Len(batch'), batch'[i].status \in Fresh,
             i > 1 \/ at' \in {"idle", "validate", "accept"},
             NEW o \in Ops, o = batch'[i].o
      PROVE  Untouched(o)'
  <2>0. o \in Ops
    BY <1>3
  <2>1. CASE /\ Drain /\ at' = "idle" /\ local[o] # "none" /\ batch'[i].status = local[o]
    <3>1. Untouched(o)
      BY <1>0, <1>3, <2>1 DEF Clear
    <3>2. batch = <<>>
      BY <2>1 DEF Drain
    <3> QED
      BY <1>0, <2>0, <3>1, <3>2, UntouchedStays
  <2>2. CASE batch' = batch /\ i \in 1..Len(batch) /\ batch # <<>>
    <3>1. i > 1 \/ at \in {"idle", "validate", "accept"}
      <4> SUFFICES ASSUME i = 1, at' \in {"idle", "validate", "accept"}
                   PROVE  at \in {"idle", "validate", "accept"}
        BY <1>3
      <4>1. CASE Validate \/ Begin
        BY <4>1 DEF Validate, Begin
      <4>2. CASE Advance \/ Execute \/ Refused
        BY <4>2 DEF Advance, Answered, Execute, Refused, Final, TerminalStatuses
      <4>3. CASE at' # at /\ (Complete \/ GiveUp \/ Reload)
        <5>1. batch' = Tail(batch) \/ batch' = <<>>
          BY <4>3 DEF Complete, GiveUp, Reload
        <5>2. Len(Tail(batch)) # Len(batch) /\ Len(<<>>) # Len(batch)
          <6> DEFINE n == Len(batch)
          <6>1. Len(Tail(batch)) = n - 1 /\ n \in Nat /\ 1 \in 1..n
            BY <1>0, <2>2, BatchFacts
          <6>2. Len(<<>>) = 0
            OBVIOUS
          <6> HIDE DEF n
          <6>3. n - 1 # n /\ 0 # n
            BY <6>1
          <6> QED
            BY <6>1, <6>2, <6>3 DEF n
        <5> QED
          BY <2>2, <5>1, <5>2
      <4>4. CASE at' = at
        BY <4>4
      <4> QED
        BY <4>1, <4>2, <4>3, <4>4 DEF Going, Next, Serve, Run, View, Create, SendDevice,
                ReadForWaiting, WriteWaiting, Greet, Forward, Receive, Cleanup, Write, Answer,
                Connect, Flush, TakeRequest, TakeAck, TakeError, Cut, Drain, view
    <3>2. Untouched(o)
      BY <1>0, <1>3, <2>2, <3>1 DEF Clear
    <3>3. ~(o = Now /\ (Complete \/ (Advance /\ at = "accept")))
      <4> SUFFICES ASSUME o = Now, Complete \/ (Advance /\ at = "accept") PROVE FALSE
        OBVIOUS
      <4>1. CASE Complete /\ at' # at
        <5>1. batch' = Tail(batch)
          BY <4>1 DEF Complete
        <5>2. Len(Tail(batch)) # Len(batch) /\ Len(<<>>) # Len(batch)
          <6> DEFINE n == Len(batch)
          <6>1. Len(Tail(batch)) = n - 1 /\ n \in Nat /\ 1 \in 1..n
            BY <1>0, <2>2, BatchFacts
          <6>2. Len(<<>>) = 0
            OBVIOUS
          <6> HIDE DEF n
          <6>3. n - 1 # n /\ 0 # n
            BY <6>1
          <6> QED
            BY <6>1, <6>2, <6>3 DEF n
        <5> QED
          BY <2>2, <5>1, <5>2
      <4>2. CASE (Complete /\ at' = at) \/ (Advance /\ at = "accept")
        <5>1. at' \notin {"idle", "validate", "accept"}
          BY <4>2 DEF Complete, Advance, Answered, Final, TerminalStatuses
        <5>2. i > 1
          BY <1>3, <5>1
        <5>3. o # Now
          BY <1>0, <1>1, <1>3, <2>2, <5>2 DEF Once, Drawn
        <5> QED
          BY <5>3
      <4> QED
        BY <4>1, <4>2
    <3> QED
      BY <1>0, <2>0, <3>2, <3>3, UntouchedStays
  <2>3. CASE i + 1 \in 1..Len(batch) /\ batch'[i] = batch[i + 1] /\ at' = "idle"
    <3>1. i + 1 > 1
      OBVIOUS
    <3>2. Untouched(o)
      BY <1>0, <1>3, <2>3, <3>1 DEF Clear
    <3>3. batch # <<>> => o # Now
      BY <1>0, <1>1, <1>3, <2>3, <3>1 DEF Once, Drawn
    <3> QED
      BY <1>0, <2>0, <3>2, <3>3, UntouchedStays
  <2> QED
    BY <1>3, <2>1, <2>2, <2>3, BatchSteps
<1>4. \A i \in 1..Len(batch') : batch'[i].o \in Ops
  BY DEF Going, Once, Drawn, Shape, BoxShape
<1>5. \A i \in 1..Len(batch') :
          batch'[i].status \in Fresh /\ (i > 1 \/ at' \in {"idle", "validate", "accept"})
              => Untouched(batch[i].o)'
  BY <1>3, <1>4 DEF Untouched, Walked, Boxed, Is
<1> QED
  BY <1>2, <1>5 DEF Clear

-----------------------------------------------------------------------------
LEMMA StepSteps ==
    ASSUME Going, at' # "idle"
    PROVE  /\ batch' = batch /\ batch # <<>> /\ Now \in Ops /\ Now = batch[1].o
           /\ \/ at' = at
              \/ at = "idle" /\ at' = "interrupted" /\ Begin /\ batch[1].status = "accepted"
              \/ at = "idle" /\ at' = "failed" /\ Begin /\ batch[1].status = "running"
              \/ at = "idle" /\ at' = "validate" /\ Begin
              \/ at = "validate" /\ at' = "accept"
              \/ at = "validate" /\ at' = "rejected" /\ batch[1].status \in Fresh
              \/ at = "accept" /\ at' = "start" /\ Advance
              \/ at = "start" /\ at' = "execute" /\ Advance
              \/ at = "interrupted" /\ at' = "failed" /\ Advance
              \/ at = "execute" /\ at' \in Final /\ Execute
              \/ at' = "rejected" /\ (Refused \/ Advance)
<1>0. ViewShape /\ Drawn
  BY DEF Going, Shape, Once
<1>1. ASSUME batch # <<>> PROVE Now \in Ops /\ Now = batch[1].o /\ Head(batch) = batch[1]
  BY <1>0, <1>1, BatchFacts
<1>2. CASE Begin
  BY <1>1, <1>2 DEF Begin
<1>3. CASE Validate \/ Advance \/ Execute \/ Refused
  <2>1. batch' = batch /\ at # "idle"
    BY <1>3 DEF Validate, Advance, Execute, Refused
  <2>2. batch # <<>>
    BY <1>0, <2>1 DEF ViewShape
  <2>3. at = "validate" => batch[1].status \in Fresh
    BY <1>0 DEF Drawn
  <2> QED
    BY <1>1, <1>3, <2>1, <2>2, <2>3 DEF Validate, Advance, Answered, Execute, Refused
<1>4. CASE Drain \/ Complete \/ GiveUp \/ Reload
  <2>1. at' = "idle" \/ (at' = at /\ batch' = batch)
    BY <1>0, <1>4 DEF Drain, Complete, GiveUp, Reload, ViewShape
  <2>2. at # "idle" => batch # <<>>
    BY <1>0 DEF ViewShape
  <2> QED
    BY <1>1, <2>1, <2>2
<1>5. CASE Serve \/ Run \/ Cut \/ \E x \in Ops : Create(x)
  <2>1. UNCHANGED <<batch, at>>
    BY <1>5 DEF Serve, Create, SendDevice, ReadForWaiting, WriteWaiting, Greet, Forward, Receive,
                Cleanup, Write, Answer, Run, Connect, Flush, TakeRequest, TakeAck, TakeError, Cut, view
  <2>2. batch # <<>>
    BY <1>0, <2>1 DEF ViewShape
  <2> QED
    BY <1>1, <2>1, <2>2
<1> QED
  BY <1>2, <1>3, <1>4, <1>5 DEF Going, Next, View

\* What is newly reported.
LEMMA ReportFacts ==
    ASSUME Going, NEW f \in Frames, Reports(f)
    PROVE  /\ batch # <<>> /\ f.of = Now /\ Now \in Ops /\ Now = batch[1].o /\ 1 \in 1..Len(batch)
           /\ NextOf(f) = "accepted" => Advance /\ at = "accept" /\ at' \in {"start", "rejected"}
           /\ NextOf(f) = "running" => Advance /\ at \in {"start", "interrupted"}
           /\ NextOf(f) \in Final => Complete /\ at = NextOf(f) /\ at \in Final
<1>0. ViewShape
  BY DEF Going, Shape
<1> QED
  BY <1>0, BatchFacts DEF Reports, NextOf, Advance, Answered, Final, TerminalStatuses

LEMMA FollowedSteps ==
    ASSUME Going, Walk
    PROVE  Followed'
<1>0. Followed /\ Leading /\ Clear /\ ViewShape /\ Shape /\ Table /\ BoxShape
  BY DEF Walk, Going, Shape
<1>1. \A o \in Ops : Walked(o) => Walked(o)'
  BY <1>0, WalkedStays
<1>2. ASSUME NEW o \in Ops, runs'[o] > 0 PROVE Walked(o)'
  <2>1. CASE Execute
    <3> DEFINE n == IF runs[Now] = 2 THEN 2 ELSE runs[Now] + 1
    <3>1. at = "execute" /\ batch # <<>> /\ runs' = [runs EXCEPT ![Now] = n]
      BY <1>0, <2>1 DEF Execute, ViewShape
    <3> HIDE DEF n
    <3>2. Now \in Ops /\ Now = batch[1].o
      BY <1>0, <3>1, BatchFacts
    <3>3. o = Now \/ runs'[o] = runs[o]
      BY <1>0, <3>1, <3>2 DEF ViewShape
    <3>4. Walked(o)
      BY <1>0, <1>2, <3>1, <3>2, <3>3 DEF Followed
    <3> QED
      BY <1>1, <3>4
  <2>2. CASE ~Execute
    <3>1. runs' = runs
      BY <2>2 DEF Going, Next, Serve, Run, View, Create, SendDevice, ReadForWaiting, WriteWaiting,
                  Greet, Forward, Receive, Cleanup, Write, Answer, Connect, Flush, TakeRequest,
                  TakeAck, TakeError, Cut, Drain, Begin, Validate, Advance, Complete, Refused, GiveUp,
                  Reload, view
    <3> QED
      BY <1>0, <1>1, <1>2, <3>1 DEF Followed
  <2> QED
    BY <2>1, <2>2
\* A new report of "accepted" is held.
<1>3. ASSUME NEW f \in Frames, Reports(f), NextOf(f) = "accepted" PROVE Walked(f.of)'
  <2>1. f.of = Now /\ Now \in Ops /\ Advance /\ at = "accept"
    BY <1>3, ReportFacts
  <2>2. f = [kind |-> "accepted", of |-> Now, n |-> ""]
    BY <1>3, <2>1 DEF Frames, NextOf, Final, TerminalStatuses
  <2>3. f \in Held(box')
    <3>1. Len(box.entries) < Limit /\ box' = Pushed(box, f)
      BY <2>1, <2>2 DEF Advance, Report
    <3> QED
      BY <1>0, <3>1, BoxReported DEF BoxShape
  <2> QED
    BY <1>3, <2>3 DEF Walked, Boxed, Is
<1>4. ASSUME at' \in {"start", "execute"}, NEW o \in Ops, o = batch'[1].o PROVE Walked(o)'
  <2>1. batch' = batch /\ o = Now
    BY <1>4, StepSteps
  <2>2. CASE at = "accept"
    <3> DEFINE f == [kind |-> "accepted", of |-> Now, n |-> ""]
    <3>1. Advance /\ batch # <<>> /\ Now \in Ops
      BY <1>4, <2>2, StepSteps DEF Final, TerminalStatuses
    <3>2. f \in Frames /\ Reports(f) /\ NextOf(f) = "accepted" /\ f.of = Now
      BY <2>2, <3>1, FrameFacts DEF Reports, NextOf
    <3> HIDE DEF f
    <3> QED
      BY <1>3, <2>1, <3>2 DEF Walked, Boxed, Is
  <2>3. CASE at \in {"start", "execute"}
    <3>1. Walked(o)
      BY <1>0, <1>4, <2>1, <2>3 DEF Followed
    <3> QED
      BY <1>1, <3>1
  <2> QED
    BY <1>4, <2>2, <2>3, StepSteps DEF Final, TerminalStatuses
<1>5. ASSUME at' = "interrupted" PROVE batch'[1].status \in {"accepted", "running"}
  BY <1>0, <1>5, StepSteps DEF Final, TerminalStatuses, Followed
<1>6. ASSUME NEW o \in Ops, local'[o] \in {"accepted", "running"} PROVE Walked(o)'
  <2>1. CASE local'[o] = local[o]
    BY <1>0, <1>1, <1>6, <2>1 DEF Followed
  <2>2. ASSUME NEW m \in Range(down), m.type \in {"request", "ack"}, m.o = o, m.status = local'[o]
        PROVE  Walked(o)'
    <3>1. Told(m) /\ RowFits(op[o]) /\ op[o].status \in Status \cup {"absent"}
      BY <1>0, JobFacts DEF Table, AllTold, RowsFit, Shape
    <3>2. op[o].accepted
      BY <1>6, <2>2, <3>1 DEF Told, RowFits, Status, Fresh, Final, TerminalStatuses
    <3> QED
      BY <1>1, <3>2 DEF Walked
  <2>3. ASSUME NEW f \in Frames, Reports(f), f.of = o, local'[o] = NextOf(f) PROVE Walked(o)'
    <3>1. CASE NextOf(f) = "accepted"
      BY <1>3, <2>3, <3>1 DEF Walked, Boxed, Is
    <3>2. CASE NextOf(f) = "running"
      <4>1. batch # <<>> /\ o = batch[1].o /\ 1 \in 1..Len(batch) /\ at \in {"start", "interrupted"}
        BY <2>3, <3>2, ReportFacts
      <4>2. Walked(o)
        BY <1>0, <4>1 DEF Followed
      <4> QED
        BY <1>1, <4>2
    <3> QED
      BY <1>6, <2>3, <3>1, <3>2
  <2> QED
    BY <1>6, <2>1, <2>2, <2>3, LocalSteps
<1>7. ASSUME NEW i \in 1..Len(batch'), batch'[i].status \in {"accepted", "running"},
             NEW o \in Ops, o = batch'[i].o
      PROVE  Walked(o)'
  <2>1. CASE local[o] = batch'[i].status
    BY <1>0, <1>1, <1>7, <2>1 DEF Followed
  <2>2. ASSUME NEW j \in 1..Len(batch), batch'[i] = batch[j] PROVE Walked(o)'
    BY <1>0, <1>1, <1>7, <2>2 DEF Followed
  <2> QED
    BY <1>7, <2>1, <2>2, BatchSteps
<1>8. \A i \in 1..Len(batch') : batch'[i].o \in Ops
  BY DEF Going, Once, Drawn, Shape, BoxShape
<1>9. \A i \in 1..Len(batch') : batch'[i].status \in {"accepted", "running"} => Walked(batch[i].o)'
  BY <1>7, <1>8 DEF Walked, Boxed, Is
<1>10. at' \in {"start", "execute"} => Walked(batch[1].o)'
  <2>1. at' \in {"start", "execute"} => batch'[1].o \in Ops
    BY StepSteps
  <2> QED
    BY <1>4, <2>1 DEF Walked, Boxed, Is
<1> QED
  BY <1>2, <1>5, <1>6, <1>9, <1>10 DEF Followed

LEMMA LeadingSteps ==
    ASSUME Going, Walk
    PROVE  Leading'
<1>0. Followed /\ Founded /\ Leading /\ Clear /\ Known /\ ViewShape /\ Shape /\ Table /\ BoxShape /\ QueueShape
  BY DEF Walk, Going, Shape
<1> SUFFICES ASSUME NEW o \in Ops, Boxed(o, {"accepted"})', ~op'[o].accepted
             PROVE  op'[o].status \in Fresh /\ Chain(o, {"accepted"}, Later)'
  BY DEF Leading
<1>1. ~op[o].accepted /\ op[o].status \in Status \cup {"absent"} /\ RowFits(op[o])
  BY <1>0, StageSteps, JobFacts DEF Shape, Table, RowsFit
<1>2. CASE Boxed(o, {"accepted"})
  <2>1. op[o].status \in Fresh /\ Chain(o, {"accepted"}, Later)
    BY <1>0, <1>1, <1>2 DEF Leading
  <2>2. ~(Write("now") /\ InHand(job["now"], o, {"accepted"}))
    <3> SUFFICES ASSUME Write("now"), InHand(job["now"], o, {"accepted"}) PROVE FALSE
      OBVIOUS
    <3>1. Update(o, "accepted")
      BY DEF Write, InHand
    <3> QED
      BY <1>0, <3>1, Updated DEF Shape, TableShape, Status
  <2>3. op'[o].status \in Fresh
    <3>1. op'[o].status \notin Beyond
      <4> SUFFICES ASSUME op'[o].status \in Beyond PROVE FALSE
        OBVIOUS
      <4>1. op'[o] # op[o]
        BY <2>1 DEF Fresh, Beyond, Final, TerminalStatuses
      <4>2. InHand(job["now"], o, {op'[o].status}) /\ Write("now")
        BY <4>1, HandSteps DEF Going
      <4>3. op'[o].status \notin Later
        BY <2>1, <4>2 DEF Chain, Behind, InHand
      <4>4. op'[o].status = "accepted"
        BY <4>3 DEF Later, Beyond
      <4> QED
        BY <2>2, <4>2, <4>4
    <3>2. op'[o].status # "absent"
      BY <1>0, <2>1, RowsGrow DEF Going, Fresh
    <3> QED
      BY <3>1, <3>2, HandSteps DEF Going
  <2>4. Keeps(o, {"accepted"})
    <3> SUFFICES ASSUME TakeAck, Head(down).type = "ack", Head(down).o = o PROVE FALSE
      BY DEF Keeps
    <3>1. Head(down) \in Range(down)
      BY <1>0, Ranges DEF QueueShape, TakeAck
    <3>2. op[o].status \in Beyond
      BY <1>0, <3>1 DEF Table, AllTold, Told
    <3> QED
      BY <2>1, <3>2 DEF Fresh, Beyond, Final, TerminalStatuses
  <2>5. Receive /\ up # <<>> /\ Is(Head(up), o, {"accepted"}) => InHand(job'["now"], o, {"accepted"})
    <3> SUFFICES ASSUME Receive, up # <<>>, Is(Head(up), o, {"accepted"})
                 PROVE  InHand(job'["now"], o, {"accepted"})
      OBVIOUS
    <3> DEFINE j == [at |-> "write", o |-> o, next |-> "accepted"]
    <3>1. Head(up).of = o /\ NextOf(Head(up)) = "accepted"
      BY DEF Is
    <3>2. /\ op[o].status # "accepted" /\ Valid(op[o].status, "accepted")
      BY <2>1 DEF Fresh, Valid
    <3>3. job' = [job EXCEPT !["now"] = j]
      BY <1>1, <3>1, <3>2 DEF Receive, NextOf
    <3>4. j.at = "write" /\ j.o = o /\ j.next = "accepted"
      OBVIOUS
    <3> HIDE DEF j
    <3>5. job'["now"] = j
      BY <1>0, <3>3 DEF Shape, TableShape
    <3> QED
      BY <3>4, <3>5 DEF InHand
  <2> QED
    BY <1>0, <1>2, <2>1, <2>2, <2>3, <2>4, <2>5, ChainSteps DEF Going
<1>3. CASE ~Boxed(o, {"accepted"})
  <2>1. PICK f \in Held(box') : Is(f, o, {"accepted"})
    BY DEF Boxed
  <2>2. Reports(f) /\ f \in Frames
    <3>1. Held(box') \subseteq Frames
      BY HeldInside DEF Going, Shape, BoxShape
    <3> QED
      BY <1>3, <2>1, <3>1, HeldSteps DEF Going, Boxed
  <2>3. /\ Advance /\ at = "accept" /\ o = batch[1].o /\ 1 \in 1..Len(batch)
    BY <2>1, <2>2, ReportFacts DEF Is
  <2>4. Untouched(o)
    <3>1. batch[1].status \in Fresh
      BY <2>3 DEF Going, Once, Drawn
    <3> QED
      BY <1>0, <2>3, <3>1 DEF Clear
  <2>5. ~Spoken(o, Later)
    <3>1. ~Spoken(o, {"accepted", "running"}) /\ ~Spoken(o, Final)
      BY <1>0, <2>4 DEF Founded, Untouched
    <3> QED
      BY <3>1 DEF Spoken, Is, InHand, Later
  <2>6. op[o].status \in Fresh
    <3>1. op[o].status \notin Beyond
      BY <1>0, <2>4 DEF Founded, Untouched
    <3>2. op[o].status # "absent"
      BY <1>0, <2>3 DEF Known
    <3> QED
      BY <1>1, <3>1, <3>2 DEF Beyond, Fresh, Status, Final, TerminalStatuses
  <2>7. op' = op
    BY <2>2, ReportGrows
  <2>8. Chain(o, {"accepted"}, Later)'
    <3>1. ~Is(f, o, Later)
      BY <2>1 DEF Is, Later, Final, TerminalStatuses
    <3> QED
      BY <1>3, <2>1, <2>2, <2>5, <3>1, ChainBegins
  <2> QED
    BY <2>6, <2>7, <2>8
<1> QED
  BY <1>2, <1>3

-----------------------------------------------------------------------------
LEMMA WalkStarts == Init => Walk
<1> SUFFICES ASSUME Init PROVE Walk
  OBVIOUS
<1>1. /\ box = EmptyBox /\ local = [o \in Ops |-> "none"] /\ seen = {} /\ up = <<>>
      /\ batch = <<>> /\ at = "idle" /\ runs = [o \in Ops |-> 0] /\ outcome = [o \in Ops |-> "none"]
      /\ job["now"].at = "none"
  BY DEF Init, NoJob
<1>2. Held(box) = {} /\ Range(up) = {} /\ Len(batch) = 0
  <2>1. Held(box) = {}
    <3>1. EmptyBox.entries = <<>> /\ DOMAIN <<>> = {}
      BY DEF EmptyBox
    <3> QED
      BY <1>1, <3>1 DEF Held
  <2>2. Range(<<>>) = {} /\ Len(<<>>) = 0
    BY DEF Range
  <2> QED
    BY <1>1, <2>1, <2>2
<1>3. /\ \A o, A : ~Boxed(o, A) /\ ~Spoken(o, A)
  BY <1>1, <1>2 DEF Boxed, Spoken, InHand
<1>4. \A o \in Ops : ~op[o].accepted /\ op[o].status \in {"absent", "submitted"}
  <2> SUFFICES ASSUME NEW o \in Ops
               PROVE  ~op[o].accepted /\ op[o].status \in {"absent", "submitted"}
    OBVIOUS
  <2>1. /\ ~Absent.accepted /\ Absent.status = "absent"
        /\ ~[Absent EXCEPT !.status = "submitted"].accepted
        /\ [Absent EXCEPT !.status = "submitted"].status = "submitted"
    BY DEF Absent
  <2>2. op[o] = IF o \in Created THEN [Absent EXCEPT !.status = "submitted"] ELSE Absent
    BY DEF Init
  <2> QED
    BY <2>1, <2>2
<1>5. Known /\ Followed
  BY <1>1, <1>2 DEF Known, Followed
<1>6. Founded /\ Leading
  BY <1>3, <1>4 DEF Founded, Leading, Beyond, Final, TerminalStatuses
<1>7. Clear
  BY <1>1, <1>2, <1>3, <1>4 DEF Clear, Untouched, Walked
<1> QED
  BY <1>5, <1>6, <1>7 DEF Walk

LEMMA WalkSteps ==
    ASSUME ~SlowStorage
    PROVE  Shape /\ Table /\ (Calm => Once) /\ (Calm => Walk) /\ [Next]_vars => (Calm => Walk)'
<1> SUFFICES ASSUME Shape, Table, Calm => Once, Calm => Walk, [Next]_vars, Calm' PROVE Walk'
  BY DEF Calm
<1>1. Shape' /\ Table' /\ Once'
  BY ShapeSteps, TableSteps, OnceSteps DEF Calm
<1>2. CASE Next
  <2>1. Calm /\ ~Crash
    <3>1. faults \subseteq faults'
      BY <1>2 DEF Next, Serve, Run, View, SendDevice, ReadForWaiting, WriteWaiting, Greet, Forward,
             Receive, Cleanup, Write, Answer, Connect, Flush, TakeRequest, TakeAck, TakeError, Drain,
             Begin, Validate, Advance, Execute, Complete, Create, Cut, Crash, Refused, GiveUp, Reload,
             Fault, Answered
    <3> QED
      BY <3>1 DEF Calm, Crash, Fault
  <2>2. Going /\ Walk
    BY <1>1, <1>2, <2>1 DEF Going
  <2> QED
    BY <2>2, KnownSteps, FollowedSteps, FoundedSteps, ClearSteps, LeadingSteps DEF Walk
<1>3. CASE UNCHANGED vars
  BY <1>3 DEF vars, server, device, view, Calm, Walk, Known, Followed, Founded, Clear, Leading,
              Walked, Untouched, Boxed, Spoken, Chain
<1> QED
  BY <1>2, <1>3

\* A rejection without execution left nothing behind, over resent frames, reloads, broken
\* connections and refused frames, for any number of operations and any bounds, as long as
\* the daemon has not crashed and no status is read between the two halves of another
\* update (executeOperation, rejectBeforeExecution, webDeviceApi.accepted).
THEOREM RejectedUntouchedEver ==
    ASSUME ~SlowStorage
    PROVE  Spec => []RejectedUntouched
<1>1. Init => (Calm => Once) /\ (Calm => Walk)
  BY OnceStarts, WalkStarts
<1>2. Shape /\ (Calm => Walk) => RejectedUntouched
  <2> SUFFICES ASSUME Shape, Walk, NEW o \in Ops, op[o].status = "rejected", ~op[o].accepted
               PROVE  runs[o] = 0
    BY DEF Calm, RejectedUntouched
  <2>1. ~Walked(o)
    <3>1. ~(op[o].status \in Fresh)
      BY DEF Fresh
    <3> QED
      BY <3>1 DEF Walk, Leading, Walked
  <2>2. runs[o] \in 0..2
    BY DEF Shape, ViewShape
  <2> QED
    BY <2>1, <2>2 DEF Walk, Followed
<1> QED
  BY <1>1, <1>2, ShapeStarts, ShapeSteps, TableStarts, TableSteps, OnceSteps, WalkSteps, PTL DEF Spec

-----------------------------------------------------------------------------
(* The first report stands, as long as no frame was refused *)

\* The daemon was told that the operation is running, and that will not be forgotten.
Ran(o) == op[o].running \/ Boxed(o, {"running"})

\* An outcome comes after "running", or is the rejection of an operation never accepted.
Ended(o, n) == Ran(o) \/ (n = "rejected" /\ ~Walked(o))

Begun ==
    /\ \A o \in Ops : local[o] = "running" => Ran(o)
    /\ \A i \in 1..Len(batch) : batch[i].status = "running" => Ran(batch[i].o)
    /\ at = "execute" => Ran(batch[1].o)
    /\ at \in Final => Ended(batch[1].o, at)
    /\ \A o \in Ops : Spoken(o, {"running"}) => Ran(o)
    /\ \A o \in Ops : outcome[o] # "none" => Ended(o, outcome[o]) /\ op[o].status # "absent"

\* Until the server has it, "running" comes before every outcome.
Ordered ==
    \A o \in Ops : Boxed(o, {"running"}) /\ ~op[o].running
        => op[o].status \notin Final /\ Chain(o, {"running"}, Final)

\* Until the server has an outcome, the first one reported comes before every other.
First ==
    \A o \in Ops :
        /\ op[o].status \in Final => op[o].status = outcome[o]
        /\ outcome[o] # "none" /\ op[o].status \notin Final
              => Boxed(o, {outcome[o]}) /\ Chain(o, {outcome[o]}, Final \ {outcome[o]})

Stand == Begun /\ Ordered /\ First

\* Nor does a stage's report fail.
Quietly == Going /\ Walk /\ Walk' /\ ~(at' = "rejected" /\ (Refused \/ Advance))

\* While A leads, the server does not find B first.
LEMMA HeadLeads ==
    ASSUME Going, Receive, NEW o, NEW A, NEW B, Chain(o, A, B)
    PROVE  up # <<>> /\ ~Is(Head(up), o, B)
<1>1. job["now"] = NoJob /\ up # <<>>
  BY DEF Receive, Working
<1>2. Head(up) = up[1] /\ 1 \in 1..Len(up)
  BY <1>1, UpFacts DEF Going, Shape, QueueShape
<1>3. ~InHand(job["now"], o, A) /\ ~ \E k \in 1..(1 - 1) : TRUE
  BY <1>1 DEF InHand, NoJob
<1> QED
  BY <1>1, <1>2, <1>3 DEF Chain, Behind

\* An acknowledgement that settles "running" finds it stored.
LEMMA RanStays ==
    ASSUME Going, Walk, NEW o \in Ops, Ran(o)
    PROVE  Ran(o)'
<1>0. Shape /\ Table /\ RowFits(op[o]) /\ op[o].status \in Status \cup {"absent"}
  BY JobFacts DEF Going, Shape, Table, RowsFit
<1>1. CASE op[o].running
  BY <1>1, StageSteps DEF Ran
<1>2. CASE ~op[o].running /\ Boxed(o, {"running"})
  <2>1. PICK f \in Held(box) : Is(f, o, {"running"})
    BY <1>2 DEF Boxed
  <2>2. CASE f \in Held(box')
    BY <2>1, <2>2 DEF Boxed, Ran
  <2>3. CASE /\ TakeAck /\ down # <<>> /\ Head(down).type = "ack" /\ Head(down).o = f.of
             /\ f.kind \in Settled(Head(down).status)
    <3>1. Head(down) \in Range(down)
      BY <2>3, Ranges DEF Going, Shape, QueueShape
    <3>2. f.of = o /\ f.kind = "running"
      <4>1. f \in Frames
        BY <1>0, <2>1, HeldInside DEF Shape, BoxShape
      <4> QED
        BY <2>1, <4>1, FrameFacts DEF Is
    <3>3. Head(down).status \in {"running"} \cup Final
      BY <2>3, <3>2 DEF Settled, Final, TerminalStatuses
    <3>4. Head(down).status = "running" => op[o].running
      BY <1>0, <2>3, <3>1, <3>2 DEF Table, AllTold, Told
    <3>5. Head(down).status \in Final => op[o].status \in Final
      BY <1>0, <2>3, <3>1, <3>2 DEF Table, AllTold, Told
    <3>6. op[o].status = "rejected" /\ ~op[o].accepted
      BY <1>0, <1>2, <3>3, <3>4, <3>5 DEF RowFits, Final, TerminalStatuses
    <3>7. Walked(o)
      BY <2>1 DEF Walk, Founded, Spoken, Is
    <3>8. op[o].status \in Fresh
      BY <3>6, <3>7 DEF Walk, Leading, Walked
    <3> QED
      BY <3>6, <3>8 DEF Fresh
  <2> QED
    BY <2>1, <2>2, <2>3, HeldSteps DEF Going
<1> QED
  BY <1>1, <1>2 DEF Ran

-----------------------------------------------------------------------------
LEMMA BegunSteps ==
    ASSUME Quietly, Stand
    PROVE  Begun'
<1>0. /\ Going /\ Walk /\ Begun /\ Shape /\ Table /\ ViewShape /\ BoxShape
      /\ Founded /\ Followed /\ Clear /\ Known
  BY DEF Quietly, Going, Shape, Stand, Walk
<1>1. \A o \in Ops : Ran(o) => Ran(o)'
  BY <1>0, RanStays
\* A new report of "running" is held.
<1>2. ASSUME NEW f \in Frames, Reports(f), NEW o, Is(f, o, {"running"}) PROVE Ran(o)'
  <2>1. BoxGrows(f) /\ OutboxOf(box', Frames) /\ OutboxOf(box, Frames)
    BY <1>0, <1>2, ReportGrows DEF Going, Shape, BoxShape
  <2>2. f \in Held(box')
    <3>1. Len(box.entries) + 1 \in DOMAIN box'.entries
      BY <2>1 DEF BoxGrows, OutboxOf
    <3> QED
      BY <2>1, <3>1 DEF Held, BoxGrows
  <2> QED
    BY <1>2, <2>2 DEF Ran, Boxed
<1>3. ASSUME NEW o \in Ops, local'[o] = "running" PROVE Ran(o)'
  <2>1. CASE local'[o] = local[o]
    BY <1>0, <1>1, <1>3, <2>1 DEF Begun
  <2>2. ASSUME NEW m \in Range(down), m.type \in {"request", "ack"}, m.o = o, m.status = local'[o]
        PROVE  Ran(o)'
    <3>1. Told(m)
      BY <1>0 DEF Table, AllTold
    <3>2. op[o].running
      BY <1>3, <2>2, <3>1 DEF Told
    <3> QED
      BY <1>1, <3>2 DEF Ran
  <2>3. ASSUME NEW f \in Frames, Reports(f), f.of = o, local'[o] = NextOf(f) PROVE Ran(o)'
    BY <1>2, <1>3, <2>3 DEF Is
  <2> QED
    BY <1>0, <1>3, <2>1, <2>2, <2>3, LocalSteps
<1>4. ASSUME NEW i \in 1..Len(batch'), batch'[i].status = "running", NEW o \in Ops, o = batch'[i].o
      PROVE  Ran(o)'
  <2>1. CASE local[o] = batch'[i].status
    BY <1>0, <1>1, <1>4, <2>1 DEF Begun
  <2>2. ASSUME NEW j \in 1..Len(batch), batch'[i] = batch[j] PROVE Ran(o)'
    BY <1>0, <1>1, <1>4, <2>2 DEF Begun
  <2> QED
    BY <1>0, <1>4, <2>1, <2>2, BatchSteps
<1>5. ASSUME Advance, at \in {"start", "interrupted"}, NEW o \in Ops, o = Now PROVE Ran(o)'
  <2> DEFINE f == [kind |-> "running", of |-> Now, n |-> ""]
  <2>1. batch # <<>>
    BY <1>0, <1>5 DEF ViewShape
  <2>2. f \in Frames /\ Reports(f) /\ Is(f, o, {"running"})
    BY <1>5, <2>1, FrameFacts DEF Reports, Is, NextOf
  <2> HIDE DEF f
  <2> QED
    BY <1>2, <2>2
<1>6. ASSUME at' = "execute", NEW o \in Ops, o = batch'[1].o PROVE Ran(o)'
  <2>1. CASE at = "start" /\ Advance
    BY <1>0, <1>5, <1>6, <2>1, StepSteps
  <2>2. CASE at' = at
    BY <1>0, <1>1, <1>6, <2>2, StepSteps DEF Begun
  <2> QED
    BY <1>0, <1>6, <2>1, <2>2, StepSteps DEF Final, TerminalStatuses
<1>7. ASSUME at' \in Final, NEW o \in Ops, o = batch'[1].o
      PROVE  Ran(o)' \/ (at' = "rejected" /\ ~Walked(o)')
  <2>1. at' # "idle" /\ o = Now /\ batch' = batch /\ o = batch[1].o /\ batch # <<>> /\ 1 \in 1..Len(batch)
    <3>1. at' # "idle"
      BY <1>7 DEF Final, TerminalStatuses
    <3> QED
      BY <1>0, <1>7, <3>1, StepSteps, BatchFacts
  <2>2. CASE Ran(o)
    BY <1>1, <2>2
  <2>3. CASE at = "interrupted" /\ Advance
    BY <1>5, <2>1, <2>3
  <2>4. CASE at' = "rejected" /\ ~Walked(o) /\ ~Advance
    BY <1>0, <2>4, UnwalkedStays
  <2>5. CASE at' = at
    <3>1. Ran(o) \/ (at' = "rejected" /\ ~Walked(o))
      BY <1>0, <1>7, <2>1, <2>5 DEF Begun, Ended
    <3>2. ~Advance
      BY <1>7, <2>5 DEF Advance, Final, TerminalStatuses
    <3> QED
      BY <2>2, <2>4, <3>1, <3>2
  <2>6. CASE at = "validate" /\ at' = "rejected" /\ batch[1].status \in Fresh
    <3>1. ~Walked(o)
      BY <1>0, <2>1, <2>6 DEF Clear, Untouched
    <3>2. ~Advance
      BY <2>6 DEF Advance
    <3> QED
      BY <2>4, <2>6, <3>1, <3>2
  <2>7. CASE batch[1].status = "running"
    BY <1>0, <2>1, <2>2, <2>7 DEF Begun
  <2>8. CASE at = "execute"
    BY <1>0, <2>1, <2>2, <2>8 DEF Begun
  <2> QED
    BY <1>0, <1>7, <2>1, <2>3, <2>5, <2>6, <2>7, <2>8, StepSteps DEF Quietly, Final, TerminalStatuses
<1>8. ASSUME NEW o \in Ops, Spoken(o, {"running"})' PROVE Ran(o)'
  <2>1. /\ \A f \in Range(up') : f \in Range(up) \cup Held(box)
        /\ \A f \in Held(box') : f \in Held(box) \/ Reports(f)
        /\ InHand(job'["now"], o, {"running"})
              => InHand(job["now"], o, {"running"}) \/ \E f \in Range(up) : Is(f, o, {"running"})
    BY <1>0, UpSteps, HeldSteps, HandSteps DEF Going
  <2>2. Spoken(o, {"running"}) \/ \E f \in Held(box') : Is(f, o, {"running"}) /\ Reports(f)
    BY <1>8, <2>1 DEF Spoken
  <2>3. Held(box') \subseteq Frames
    BY <1>0, HeldInside DEF Going, Shape, BoxShape
  <2> QED
    BY <1>0, <1>1, <1>2, <2>2, <2>3 DEF Begun
<1>9. ASSUME NEW o \in Ops, outcome'[o] # "none"
      PROVE  /\ Ran(o)' \/ (outcome'[o] = "rejected" /\ ~Walked(o)')
             /\ op'[o].status # "absent"
  <2>1. CASE outcome[o] # "none"
    <3>1. outcome'[o] = outcome[o] /\ op'[o].status # "absent"
      BY <1>0, <2>1, OutcomeSteps, RowsGrow DEF Begun, Going
    <3>2. CASE Ran(o)
      BY <1>1, <3>1, <3>2
    <3>3. CASE outcome[o] = "rejected" /\ ~Walked(o)
      <4>1. ~(o = Now /\ Advance /\ at = "accept")
        <5> SUFFICES ASSUME o = Now, Advance, at = "accept" PROVE FALSE
          OBVIOUS
        <5>1. o = batch[1].o /\ 1 \in 1..Len(batch)
          BY <1>0, BatchFacts DEF ViewShape
        <5>2. batch[1].status \in Fresh
          BY <1>0 DEF Going, Once, Drawn
        <5> QED
          BY <1>0, <2>1, <5>1, <5>2 DEF Clear, Untouched
      <4> QED
        BY <1>0, <3>1, <3>3, <4>1, UnwalkedStays
    <3> QED
      BY <1>0, <2>1, <3>2, <3>3 DEF Begun, Ended
  <2>2. CASE outcome[o] = "none"
    <3>1. Complete /\ batch # <<>> /\ o = Now /\ at \in Final /\ outcome'[o] = at
      BY <1>0, <1>9, <2>2, OutcomeSteps
    <3>2. o = batch[1].o /\ 1 \in 1..Len(batch)
      BY <1>0, <3>1, BatchFacts
    <3>3. op'[o].status # "absent"
      BY <1>0, <3>2, RowsGrow DEF Known, Going
    <3>4. CASE Ran(o)
      BY <1>1, <3>3, <3>4
    <3>5. CASE at = "rejected" /\ ~Walked(o)
      <4>1. at # "accept"
        BY <3>5
      <4> QED
        BY <1>0, <3>1, <3>3, <3>5, <4>1, UnwalkedStays
    <3> QED
      BY <1>0, <3>1, <3>2, <3>4, <3>5 DEF Begun, Ended
  <2> QED
    BY <2>1, <2>2
<1>10. \A i \in 1..Len(batch') : batch'[i].o \in Ops
  BY <1>0 DEF Going, Once, Drawn, Shape, BoxShape
<1>11. /\ \A i \in 1..Len(batch') : batch'[i].status = "running" => Ran(batch[i].o)'
  BY <1>4, <1>10 DEF Ran, Boxed, Is
<1>12. at' # "idle" => batch'[1].o \in Ops
  BY <1>0, StepSteps
<1>13. /\ at' = "execute" => Ran(batch[1].o)'
       /\ at' \in Final => Ended(batch[1].o, at)'
  <2>1. \A o \in Ops : o = batch'[1].o =>
           /\ at' = "execute" => Ran(o)'
           /\ at' \in Final => Ran(o)' \/ (at' = "rejected" /\ ~Walked(o)')
    BY <1>6, <1>7
  <2>2. at' = "execute" \/ at' \in Final => batch'[1].o \in Ops
    BY <1>12 DEF Final, TerminalStatuses
  <2> QED
    BY <2>1, <2>2 DEF Ended, Walked, Ran, Boxed, Is
<1>14. \A o \in Ops : outcome'[o] # "none" => Ended(o, outcome[o])' /\ op'[o].status # "absent"
  BY <1>9 DEF Ended, Walked, Ran, Boxed
<1> QED
  BY <1>3, <1>8, <1>11, <1>13, <1>14 DEF Begun

-----------------------------------------------------------------------------
\* The server stores what it finds at the head when the table allows it.
LEMMA HeadTaken ==
    ASSUME Going, Receive, NEW o \in Ops, NEW n \in {"running"} \cup Final, Is(Head(up), o, {n}),
           op[o].status # n, n = "running" => ~op[o].running, Valid(op[o].status, n)
    PROVE  InHand(job'["now"], o, {n})
<1> DEFINE j == [at |-> "write", o |-> o, next |-> n]
<1>1. Head(up).of = o /\ NextOf(Head(up)) = n /\ n # "accepted"
  BY DEF Is, Final, TerminalStatuses
<1>2. job' = [job EXCEPT !["now"] = j]
  BY <1>1 DEF Receive, NextOf
<1>3. j.at = "write" /\ j.o = o /\ j.next = n
  OBVIOUS
<1> HIDE DEF j
<1>4. job'["now"] = j
  BY <1>2 DEF Going, Shape, TableShape
<1> QED
  BY <1>3, <1>4 DEF InHand

LEMMA OrderedSteps ==
    ASSUME Quietly, Stand
    PROVE  Ordered'
<1>0. /\ Going /\ Walk /\ Begun /\ Ordered /\ First /\ Shape /\ Table /\ ViewShape /\ BoxShape
      /\ QueueShape /\ Founded /\ Followed /\ Leading
  BY DEF Quietly, Going, Shape, Stand, Walk
<1> SUFFICES ASSUME NEW o \in Ops, Boxed(o, {"running"})', ~op'[o].running
             PROVE  op'[o].status \notin Final /\ Chain(o, {"running"}, Final)'
  BY DEF Ordered
<1>1. ~op[o].running /\ op[o].status \in Status \cup {"absent"} /\ RowFits(op[o])
  BY <1>0, StageSteps, JobFacts DEF Shape, Table, RowsFit
<1>2. CASE Boxed(o, {"running"})
  <2>1. op[o].status \notin Final /\ Chain(o, {"running"}, Final)
    BY <1>0, <1>1, <1>2 DEF Ordered
  <2>2. op'[o].status \notin Final
    <3> SUFFICES ASSUME op'[o].status \in Final PROVE FALSE
      OBVIOUS
    <3>1. InHand(job["now"], o, {op'[o].status})
      BY <1>0, <2>1, StageSteps DEF Beyond
    <3> QED
      BY <2>1, <3>1 DEF Chain, Behind, InHand
  <2>3. ~(Write("now") /\ InHand(job["now"], o, {"running"}))
    <3> SUFFICES ASSUME Write("now"), InHand(job["now"], o, {"running"}) PROVE FALSE
      OBVIOUS
    <3>1. Update(o, "running")
      BY DEF Write, InHand
    <3> QED
      BY <1>0, <3>1, Updated DEF Shape, TableShape, Status
  <2>4. Keeps(o, {"running"})
    <3> SUFFICES ASSUME TakeAck, Head(down).type = "ack", Head(down).o = o, NEW f \in Frames,
                        Is(f, o, {"running"}), f.kind \in Settled(Head(down).status)
                 PROVE  FALSE
      BY DEF Keeps
    <3>1. Head(down) \in Range(down)
      BY <1>0, Ranges DEF QueueShape, TakeAck
    <3>2. f.kind = "running"
      BY FrameFacts DEF Is
    <3>3. Head(down).status \in {"running"} \cup Final
      BY <3>2 DEF Settled, Final, TerminalStatuses
    <3> QED
      BY <1>0, <1>1, <2>1, <3>1, <3>3 DEF Table, AllTold, Told
  <2>5. Receive /\ up # <<>> /\ Is(Head(up), o, {"running"}) => InHand(job'["now"], o, {"running"})
    <3> SUFFICES ASSUME Receive, up # <<>>, Is(Head(up), o, {"running"})
                 PROVE  InHand(job'["now"], o, {"running"})
      OBVIOUS
    <3>1. Walked(o)
      BY <1>0, <1>2 DEF Founded, Spoken, Boxed, Is
    <3>2. op[o].accepted
      <4> SUFFICES ASSUME ~op[o].accepted PROVE FALSE
        OBVIOUS
      <4>1. Chain(o, {"accepted"}, Later)
        BY <1>0, <3>1 DEF Walked, Leading
      <4>2. ~Is(Head(up), o, Later)
        BY <1>0, <4>1, HeadLeads
      <4> QED
        BY <4>2 DEF Is, Later
    <3>3. op[o].status = "accepted"
      BY <1>1, <2>1, <3>2 DEF RowFits, Fresh, Status
    <3>4. Valid(op[o].status, "running") /\ op[o].status # "running"
      BY <3>3 DEF Valid
    <3> QED
      BY <1>0, <1>1, <3>4, HeadTaken
  <2> QED
    BY <1>0, <1>2, <2>1, <2>2, <2>3, <2>4, <2>5, ChainSteps DEF Going
<1>3. CASE ~Boxed(o, {"running"})
  <2>1. PICK f \in Held(box') : Is(f, o, {"running"})
    BY DEF Boxed
  <2>2. Reports(f) /\ f \in Frames
    <3>1. Held(box') \subseteq Frames
      BY <1>0, HeldInside DEF Going, Shape, BoxShape
    <3> QED
      BY <1>0, <1>3, <2>1, <3>1, HeldSteps DEF Going, Boxed
  <2>3. at \in {"start", "interrupted"} /\ o = batch[1].o /\ 1 \in 1..Len(batch)
    BY <1>0, <2>1, <2>2, ReportFacts DEF Is
  <2>4. Walked(o) /\ ~Ran(o)
    BY <1>0, <1>1, <1>3, <2>3 DEF Followed, Ran
  <2>5. outcome[o] = "none"
    BY <1>0, <2>4 DEF Begun, Ended
  <2>6. ~Spoken(o, Final) /\ op[o].status \notin Final
    BY <1>0, <2>5 DEF Founded, First, Final, TerminalStatuses
  <2>7. ~Is(f, o, Final)
    BY <2>1 DEF Is, Final, TerminalStatuses
  <2>8. Chain(o, {"running"}, Final)'
    BY <1>0, <1>3, <2>1, <2>2, <2>6, <2>7, ChainBegins
  <2>9. op' = op
    BY <1>0, <2>2, ReportGrows
  <2> QED
    BY <2>6, <2>8, <2>9
<1> QED
  BY <1>2, <1>3

LEMMA FirstSteps ==
    ASSUME Quietly, Stand
    PROVE  First'
<1>0. /\ Going /\ Walk /\ Begun /\ Ordered /\ First /\ Shape /\ Table /\ ViewShape /\ BoxShape
      /\ QueueShape /\ Founded /\ Followed /\ Leading
  BY DEF Quietly, Going, Shape, Stand, Walk
<1>1. ASSUME NEW o \in Ops, op'[o].status \in Final PROVE op'[o].status = outcome'[o]
  <2>1. CASE op[o].status \in Final
    <3>1. op'[o] = op[o] /\ op[o].status = outcome[o] /\ outcome[o] # "none"
      BY <1>0, <2>1, RowsGrow DEF Going, First, Final, TerminalStatuses
    <3> QED
      BY <1>0, <3>1, OutcomeSteps
  <2>2. CASE op[o].status \notin Final
    <3>1. InHand(job["now"], o, {op'[o].status})
      BY <1>0, <1>1, <2>2, StageSteps DEF Beyond
    <3>2. Spoken(o, Final)
      BY <1>1, <3>1 DEF Spoken, InHand
    <3>3. outcome[o] # "none"
      BY <1>0, <3>2 DEF Founded
    <3>4. Chain(o, {outcome[o]}, Final \ {outcome[o]})
      BY <1>0, <2>2, <3>3 DEF First
    <3>5. op'[o].status = outcome[o]
      BY <1>1, <3>1, <3>4 DEF Chain, Behind, InHand
    <3> QED
      BY <1>0, <3>3, <3>5, OutcomeSteps
  <2> QED
    BY <2>1, <2>2
<1>2. ASSUME NEW o \in Ops, op'[o].status \notin Final, NEW n, n = outcome'[o], n # "none"
      PROVE  Boxed(o, {n})' /\ Chain(o, {n}, Final \ {n})'
  <2>1. op[o].status \notin Final
    BY <1>0, <1>2, RowsGrow DEF Going
  <2>2. /\ op[o].status \in Status \cup {"absent"} /\ RowFits(op[o]) /\ n \in Final
    <3>1. outcome'[o] \in Final \cup {"none"}
      BY DEF Quietly, Going, Shape, ViewShape
    <3> QED
      BY <1>0, <1>2, <3>1, JobFacts DEF Shape, Table, RowsFit
  <2>3. CASE outcome[o] # "none"
    <3>1. n = outcome[o] /\ Boxed(o, {n}) /\ Chain(o, {n}, Final \ {n})
      BY <1>0, <1>2, <2>1, <2>3, OutcomeSteps DEF First
    <3>2. Keeps(o, {n})
      <4> SUFFICES ASSUME TakeAck, Head(down).type = "ack", Head(down).o = o, NEW f \in Frames,
                          Is(f, o, {n}), f.kind \in Settled(Head(down).status)
                   PROVE  FALSE
        BY DEF Keeps
      <4>1. Head(down) \in Range(down)
        BY <1>0, Ranges DEF QueueShape, TakeAck
      <4>2. f.kind = "completed"
        BY <2>2, FrameFacts DEF Is
      <4>3. Head(down).status \in Final
        BY <4>2 DEF Settled, Final, TerminalStatuses
      <4> QED
        BY <1>0, <2>1, <4>1, <4>3 DEF Table, AllTold, Told
    <3>3. Boxed(o, {n})'
      <4>1. PICK f \in Held(box) : Is(f, o, {n})
        BY <3>1 DEF Boxed
      <4>2. f \in Frames
        BY <1>0, <4>1, HeldInside DEF BoxShape
      <4>3. f \in Held(box')
        BY <1>0, <3>2, <4>1, <4>2, HeldSteps DEF Going, Keeps, Is
      <4> QED
        BY <4>1, <4>3 DEF Boxed
    <3>4. ~(Write("now") /\ InHand(job["now"], o, {n}))
      <4> SUFFICES ASSUME Write("now"), InHand(job["now"], o, {n}) PROVE FALSE
        OBVIOUS
      <4>1. Update(o, n)
        BY DEF Write, InHand
      <4>2. n \in Status
        BY <2>2 DEF Status
      <4> QED
        BY <1>0, <1>2, <2>2, <4>1, <4>2, Updated DEF Shape, TableShape
    <3>5. Receive /\ up # <<>> /\ Is(Head(up), o, {n}) => InHand(job'["now"], o, {n})
      <4> SUFFICES ASSUME Receive, up # <<>>, Is(Head(up), o, {n}) PROVE InHand(job'["now"], o, {n})
        OBVIOUS
      <4>1. op[o].status # n /\ op[o].status # "absent" /\ Ended(o, n) /\ n # "running"
        BY <1>0, <2>1, <2>2, <2>3, <3>1 DEF Begun, Final, TerminalStatuses
      <4>2. Valid(op[o].status, n)
        <5>1. CASE op[o].running
          <6>1. op[o].status = "running"
            BY <2>1, <2>2, <5>1 DEF RowFits, Fresh, Status
          <6> QED
            BY <2>2, <6>1 DEF Valid, Final, TerminalStatuses
        <5>2. CASE ~op[o].running /\ Boxed(o, {"running"})
          <6>1. ~Is(Head(up), o, Final)
            BY <1>0, <5>2, HeadLeads DEF Ordered
          <6> QED
            BY <2>2, <6>1 DEF Is
        <5>3. CASE n = "rejected" /\ ~Walked(o)
          <6>1. ~op[o].accepted
            BY <5>3 DEF Walked
          <6>2. op[o].status \in Fresh
            BY <2>1, <2>2, <4>1, <6>1 DEF RowFits, Fresh, Status
          <6> QED
            BY <5>3, <6>2 DEF Valid, Fresh
        <5> QED
          BY <4>1, <5>1, <5>2, <5>3 DEF Ended, Ran
      <4> QED
        BY <1>0, <2>2, <4>1, <4>2, HeadTaken
    <3> QED
      BY <1>0, <3>1, <3>2, <3>3, <3>4, <3>5, ChainSteps DEF Going
  <2>4. CASE outcome[o] = "none"
    <3>1. Complete /\ batch # <<>> /\ o = Now /\ at = n
      BY <1>0, <1>2, <2>4, OutcomeSteps
    <3> DEFINE f == [kind |-> "completed", of |-> Now, n |-> at]
    <3>2. f \in Frames /\ Reports(f) /\ Is(f, o, {n}) /\ ~Is(f, o, Final \ {n})
      BY <2>2, <3>1, FrameFacts DEF Reports, Is, NextOf
    <3> HIDE DEF f
    <3>3. ~Spoken(o, Final)
      BY <1>0, <2>4 DEF Founded
    <3>4. ~Boxed(o, {n}) /\ ~Spoken(o, Final \ {n})
      BY <2>2, <3>3 DEF Spoken, Boxed, Is, InHand
    <3> QED
      BY <1>0, <3>2, <3>4, ChainBegins
  <2> QED
    BY <2>3, <2>4
<1>3. ASSUME NEW o \in Ops, outcome'[o] # "none", op'[o].status \notin Final
      PROVE  Boxed(o, {outcome[o]})' /\ Chain(o, {outcome[o]}, Final \ {outcome[o]})'
  BY <1>2, <1>3 DEF Boxed, Chain, Is, InHand, Queued, Behind, Underway
<1> QED
  BY <1>1, <1>3 DEF First

\* A daemon that has not crashed and has refused nothing.
Quiet == faults \cap {"crash", "refusal"} = {}

LEMMA StandStarts == Init => Stand
<1> SUFFICES ASSUME Init PROVE Stand
  OBVIOUS
<1>1. /\ local = [o \in Ops |-> "none"] /\ batch = <<>> /\ at = "idle"
      /\ outcome = [o \in Ops |-> "none"] /\ Len(batch) = 0
      /\ box = EmptyBox /\ up = <<>> /\ job["now"].at = "none"
  BY DEF Init, NoJob
<1>2. \A o, A : ~Boxed(o, A) /\ ~Spoken(o, A)
  <2>1. EmptyBox.entries = <<>> /\ DOMAIN <<>> = {}
    BY DEF EmptyBox
  <2>2. Held(box) = {}
    BY <1>1, <2>1 DEF Held
  <2>3. Range(<<>>) = {}
    BY DEF Range
  <2> QED
    BY <1>1, <2>2, <2>3 DEF Boxed, Spoken, InHand
<1>3. \A o \in Ops : op[o].status \notin Final
  <2>1. Absent.status = "absent" /\ [Absent EXCEPT !.status = "submitted"].status = "submitted"
    BY DEF Absent
  <2>2. \A o \in Ops : op[o] = IF o \in Created THEN [Absent EXCEPT !.status = "submitted"] ELSE Absent
    BY DEF Init
  <2> QED
    BY <2>1, <2>2 DEF Final, TerminalStatuses
<1>4. Begun
  BY <1>1, <1>2 DEF Begun, Final, TerminalStatuses
<1> QED
  BY <1>1, <1>2, <1>3, <1>4 DEF Stand, Ordered, First

LEMMA StandSteps ==
    ASSUME ~SlowStorage
    PROVE  /\ Shape /\ Table /\ (Calm => Once) /\ (Calm => Walk) /\ (Quiet => Stand) /\ [Next]_vars
              => (Quiet => Stand)'
<1> SUFFICES ASSUME Shape, Table, Calm => Once, Calm => Walk, Quiet => Stand, [Next]_vars, Quiet'
             PROVE  Stand'
  BY DEF Quiet
<1>1. Calm'
  BY DEF Quiet, Calm
<1>2. Shape' /\ Table' /\ Once' /\ Walk'
  BY <1>1, ShapeSteps, TableSteps, OnceSteps, WalkSteps DEF Calm
<1>3. CASE Next
  <2>1. Quiet /\ Calm /\ ~Crash /\ ~(at' = "rejected" /\ (Refused \/ Advance))
    <3>1. faults \subseteq faults'
      BY <1>3 DEF Next, Serve, Run, View, SendDevice, ReadForWaiting, WriteWaiting, Greet, Forward,
             Receive, Cleanup, Write, Answer, Connect, Flush, TakeRequest, TakeAck, TakeError, Drain,
             Begin, Validate, Advance, Execute, Complete, Create, Cut, Crash, Refused, GiveUp, Reload,
             Fault, Answered
    <3> QED
      BY <3>1 DEF Quiet, Calm, Crash, Refused, Advance, Answered, Fault
  <2>2. Quietly /\ Stand
    BY <1>2, <1>3, <2>1 DEF Going, Quietly
  <2> QED
    BY <2>2, BegunSteps, OrderedSteps, FirstSteps DEF Stand
<1>4. CASE UNCHANGED vars
  BY <1>4 DEF vars, server, device, view, Quiet, Stand, Begun, Ordered, First, Ended, Ran, Walked,
              Boxed, Spoken, Chain
<1> QED
  BY <1>3, <1>4

\* What the server stores at the end is what the view reported first, over resent frames,
\* reloads and broken connections, for any number of operations and any bounds, as long as
\* the daemon has neither crashed nor refused a frame and no status is read between the
\* two halves of another update (reportCompletion, update_operation_status).
THEOREM FirstReportStandsEver ==
    ASSUME ~SlowStorage
    PROVE  Spec => []FirstReportStands
<1>1. Init => (Calm => Once) /\ (Calm => Walk) /\ (Quiet => Stand)
  BY OnceStarts, WalkStarts, StandStarts
<1>2. (Quiet => Stand) => FirstReportStands
  BY DEF Quiet, Stand, First, FirstReportStands
<1> QED
  BY <1>1, <1>2, ShapeStarts, ShapeSteps, TableStarts, TableSteps, OnceSteps, WalkSteps, StandSteps, PTL
     DEF Spec
=============================================================================
