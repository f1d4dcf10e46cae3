----------------------- MODULE SessionLifecycleProofs -----------------------
(***************************************************************************)
(* Proofs about SessionLifecycle, for any number of views, sessions and    *)
(* connections.                                                            *)
(***************************************************************************)
EXTENDS SessionLifecycle, FiniteSetTheorems, WellFoundedInduction, TLAPS

ConnectionFields == {"owner", "handle", "open", "inbox", "job", "attached", "barrier", "held", "out"}

\* The steps of a create, and those of them before its process is started or after it
\* failed to.
CreateSteps == {"reserve", "subscribe", "spawn", "confirm", "unreserve", "unsubscribe"}
Early == {"subscribe", "spawn", "unreserve"}

\* A reader thread answers one request at a time, and only a create takes the steps of
\* a create.
OneJob(c) ==
    /\ DOMAIN c = ConnectionFields
    /\ \A j \in c.job :
          /\ c.job = {j}
          /\ DOMAIN j = {"step", "call", "alive"}
          /\ j.step \in CreateSteps => j.call.op = "create"

\* Connections are numbered in the order in which they are opened.
JobsOrdered == (\E n \in Nat : DOMAIN conn = 1..n) /\ \A k \in DOMAIN conn : OneJob(conn[k])

\* A create whose reservation has no process yet, or never will.
StartingAt(c, s) == \E j \in c.job : j.call.op = "create" /\ j.call.s = s /\ j.step \in Early
Starting(s) == \E k \in DOMAIN conn : StartingAt(conn[k], s)

Counted == \A s \in Sessions : entry[s] = "alive" => proc[s] \in {"running", "ended"} \/ Starting(s)

\* NoPhantom strengthened: once its process was started, a reservation rests on that
\* process alone, so that the create may be answered.
PhantomInv ==
    /\ entry \in [Sessions -> {"none", "alive", "exited"}]
    /\ proc \in [Sessions -> {"none", "running", "ended", "marked", "told", "settled"}]
    /\ JobsOrdered
    /\ Counted

-----------------------------------------------------------------------------
(* What is done to a connection *)

\* Subscriptions, barriers and frames leave the job of a connection as it is.
LEMMA JobUntouched ==
    ASSUME NEW c, OneJob(c)
    PROVE  /\ \A fs : OneJob(Sent(c, fs)) /\ Sent(c, fs).job = c.job
           /\ \A ss : OneJob(Unsubscribed(c, ss)) /\ Unsubscribed(c, ss).job = c.job
<1>1. ASSUME NEW d, DOMAIN d = DOMAIN c, d.job = c.job PROVE OneJob(d)
  BY <1>1 DEF OneJob
<1>2. ASSUME NEW fs PROVE DOMAIN Sent(c, fs) = DOMAIN c /\ Sent(c, fs).job = c.job
  BY DEF Sent, OneJob, ConnectionFields
<1>3. ASSUME NEW ss PROVE DOMAIN Unsubscribed(c, ss) = DOMAIN c /\ Unsubscribed(c, ss).job = c.job
  BY DEF Unsubscribed, OneJob, ConnectionFields
<1> QED BY <1>1, <1>2, <1>3

\* An answer ends the job.
LEMMA JobAnswered ==
    ASSUME NEW c, OneJob(c), NEW f
    PROVE  OneJob(Answer(c, f)) /\ Answer(c, f).job = {}
<1> DEFINE d == [c EXCEPT !.job = {}]
<1>1. OneJob(d) /\ d.job = {}
  BY DEF OneJob, ConnectionFields
<1>2. OneJob(Sent(d, <<f>>)) /\ Sent(d, <<f>>).job = d.job
  BY <1>1, JobUntouched
<1> QED BY <1>1, <1>2 DEF Answer

\* The next step is a step of the same request.
LEMMA JobAdvanced ==
    ASSUME NEW c, OneJob(c), NEW j \in c.job, NEW step,
           step \in CreateSteps => j.call.op = "create"
    PROVE  /\ OneJob(Goto(c, step))
           /\ \E i \in Goto(c, step).job : i.step = step /\ i.call = j.call
           /\ \A s : StartingAt(Goto(c, step), s) <=>
                       j.call.op = "create" /\ j.call.s = s /\ step \in Early
<1> DEFINE i == [j EXCEPT !.step = step]
           d == Goto(c, step)
<1>1. c.job = {j} /\ DOMAIN j = {"step", "call", "alive"} /\ DOMAIN c = ConnectionFields
  BY DEF OneJob
<1>2. DOMAIN i = {"step", "call", "alive"} /\ i.step = step /\ i.call = j.call
  BY <1>1
<1>3. d.job = {i} /\ DOMAIN d = ConnectionFields
  BY <1>1 DEF Goto, ConnectionFields
<1>4. OneJob(d)
  BY <1>2, <1>3 DEF OneJob
<1>5. \A s : StartingAt(d, s) <=> j.call.op = "create" /\ j.call.s = s /\ step \in Early
  BY <1>2, <1>3 DEF StartingAt
<1> QED BY <1>2, <1>3, <1>4, <1>5

\* The request that is answered is the only one there is.
LEMMA TheJob ==
    ASSUME JobsOrdered, NEW k \in DOMAIN conn, NEW step, At(k, step)
    PROVE  \E j \in conn[k].job : /\ j.step = step /\ conn[k].job = {j} /\ CallOf(k) = j.call
                                  /\ step \in CreateSteps => j.call.op = "create"
                                  /\ \A s : StartingAt(conn[k], s) <=>
                                       j.call.op = "create" /\ j.call.s = s /\ step \in Early
<1>1. PICK j \in conn[k].job : j.step = step
  BY DEF At
<1>2. conn[k].job = {j} /\ (step \in CreateSteps => j.call.op = "create")
  BY <1>1 DEF JobsOrdered, OneJob
<1>3. CallOf(k) = j.call
  <2>1. (CHOOSE i \in {j} : TRUE) = j
    OBVIOUS
  <2> QED BY <1>2, <2>1 DEF CallOf
<1>4. \A s : StartingAt(conn[k], s) <=> j.call.op = "create" /\ j.call.s = s /\ step \in Early
  BY <1>1, <1>2 DEF StartingAt
<1> QED BY <1>1, <1>2, <1>3, <1>4

\* One connection changes.
LEMMA OneReplaced ==
    ASSUME JobsOrdered, NEW k \in DOMAIN conn, NEW c, OneJob(c), conn' = [conn EXCEPT ![k] = c]
    PROVE  /\ JobsOrdered'
           /\ \A s : Starting(s) => Starting(s)' \/ StartingAt(conn[k], s)
           /\ \A s : StartingAt(c, s) => Starting(s)'
<1>1. /\ DOMAIN conn' = DOMAIN conn /\ conn'[k] = c
      /\ \A i \in DOMAIN conn \ {k} : conn'[i] = conn[i]
  OBVIOUS
<1>2. JobsOrdered'
  BY <1>1 DEF JobsOrdered
<1>3. ASSUME NEW s, Starting(s) PROVE Starting(s)' \/ StartingAt(conn[k], s)
  <2>1. PICK i \in DOMAIN conn : StartingAt(conn[i], s)
    BY <1>3 DEF Starting
  <2>2. i # k => i \in DOMAIN conn' /\ StartingAt(conn'[i], s)
    BY <1>1, <2>1
  <2> QED BY <2>1, <2>2 DEF Starting, StartingAt
<1>4. ASSUME NEW s, StartingAt(c, s) PROVE Starting(s)'
  <2>1. k \in DOMAIN conn' /\ StartingAt(conn'[k], s)
    BY <1>1, <1>4
  <2> QED BY <2>1 DEF Starting, StartingAt
<1> QED BY <1>2, <1>3, <1>4

\* No job changes.
LEMMA NoneReplaced ==
    ASSUME JobsOrdered, DOMAIN conn' = DOMAIN conn,
           \A i \in DOMAIN conn : OneJob(conn'[i]) /\ conn'[i].job = conn[i].job
    PROVE  JobsOrdered' /\ \A s : Starting(s) => Starting(s)'
<1>1. JobsOrdered'
  BY DEF JobsOrdered
<1>2. ASSUME NEW s, Starting(s) PROVE Starting(s)'
  <2>1. PICK i \in DOMAIN conn : StartingAt(conn[i], s)
    BY <1>2 DEF Starting
  <2>2. i \in DOMAIN conn' /\ StartingAt(conn'[i], s)
    BY <2>1 DEF StartingAt
  <2> QED BY <2>2 DEF Starting, StartingAt
<1> QED BY <1>1, <1>2

-----------------------------------------------------------------------------
(* The steps *)

\* What a view writes to its connection, or takes from it, is no job.
LEMMA Mailboxes ==
    ASSUME JobsOrdered, NEW k, NEW c,
           conn' = [conn EXCEPT ![k] = c], k \in DOMAIN conn => DOMAIN c = DOMAIN conn[k],
           k \in DOMAIN conn => c.job = conn[k].job
    PROVE  JobsOrdered' /\ \A s : Starting(s) => Starting(s)'
<1>1. DOMAIN conn' = DOMAIN conn
  OBVIOUS
<1>2. ASSUME NEW i \in DOMAIN conn PROVE OneJob(conn'[i]) /\ conn'[i].job = conn[i].job
  <2>1. CASE i = k
    <3>1. conn'[i] = c /\ OneJob(conn[i])
      BY <2>1 DEF JobsOrdered
    <3> QED BY <2>1, <3>1 DEF OneJob
  <2>2. CASE i # k
    BY <2>2 DEF JobsOrdered
  <2> QED BY <2>1, <2>2
<1> QED BY <1>1, <1>2, NoneReplaced

\* A request goes into the inbox of an open connection.
LEMMA Requesting ==
    ASSUME JobsOrdered, NEW v \in Views, NEW w, NEW call, Make(v, w, call)
    PROVE  JobsOrdered' /\ \A s : Starting(s) => Starting(s)'
<1>1. CASE w.conn = None
  BY <1>1 DEF Make, Carried, JobsOrdered, Starting
<1>2. CASE w.conn # None
  <2> DEFINE k == w.conn
             c == [conn[k] EXCEPT !.inbox = Append(@, call)]
  <2>1. conn' = [conn EXCEPT ![k] = c]
    BY <1>2 DEF Make, Carried
  <2>2. k \in DOMAIN conn => DOMAIN c = DOMAIN conn[k] /\ c.job = conn[k].job
    BY DEF JobsOrdered, OneJob, ConnectionFields
  <2> QED BY <2>1, <2>2, Mailboxes
<1> QED BY <1>1, <1>2

\* A new connection has no job yet, and a number of its own.
LEMMA Connecting ==
    ASSUME JobsOrdered, NEW v \in Views, NEW loop \in BOOLEAN, Online(v, loop)
    PROVE  JobsOrdered' /\ \A s : Starting(s) => Starting(s)'
<1>1. PICK n \in Nat : DOMAIN conn = 1..n
  BY DEF JobsOrdered
<1>2. Cardinality(DOMAIN conn) = n
  <2>1. Cardinality(1..n) = IF 1 > n THEN 0 ELSE n - 1 + 1
    BY FS_Interval
  <2> QED BY <1>1, <2>1
<1>3. /\ DOMAIN conn' = 1..n + 1
      /\ conn'[n + 1] = NewConnection(v, view[v].unsent)
      /\ \A i \in 1..n : conn'[i] = conn[i]
  <2>1. conn' = [i \in DOMAIN conn \cup {n + 1} |->
                    IF i = n + 1 THEN NewConnection(v, view[v].unsent) ELSE conn[i]]
    BY <1>2 DEF Online
  <2>2. DOMAIN conn \cup {n + 1} = 1..n + 1
    BY <1>1
  <2> QED BY <1>1, <2>1, <2>2
<1>4. OneJob(conn'[n + 1])
  BY <1>3 DEF NewConnection, OneJob, ConnectionFields
<1>5. JobsOrdered'
  <2>1. \A i \in DOMAIN conn' : OneJob(conn'[i])
    BY <1>1, <1>3, <1>4 DEF JobsOrdered
  <2> QED BY <1>3, <2>1 DEF JobsOrdered
<1>6. ASSUME NEW s, Starting(s) PROVE Starting(s)'
  <2>1. PICK i \in DOMAIN conn : StartingAt(conn[i], s)
    BY <1>6 DEF Starting
  <2>2. i \in DOMAIN conn' /\ StartingAt(conn'[i], s)
    BY <1>1, <1>3, <2>1
  <2> QED BY <2>2 DEF Starting, StartingAt
<1> QED BY <1>5, <1>6

\* Nothing a view does touches a job.
LEMMA ViewsTouchNoJob ==
    ASSUME JobsOrdered, NEW v \in Views,
           \/ CloseAll(v) \/ ViewStep(v) \/ Cut(v) \/ ConnectFails(v)
           \/ \E s \in Sessions : Create(v, s) \/ Close(v, s) \/ Attach(v, s)
    PROVE  JobsOrdered' /\ \A s : Starting(s) => Starting(s)'
<1>0. ASSUME conn' = conn PROVE JobsOrdered' /\ \A s : Starting(s) => Starting(s)'
  BY <1>0 DEF JobsOrdered, Starting
<1>1. CASE CloseAll(v)
  BY <1>1, Requesting DEF CloseAll
<1>2. ASSUME NEW s \in Sessions, Create(v, s) \/ Close(v, s) \/ Attach(v, s)
      PROVE  JobsOrdered' /\ \A t : Starting(t) => Starting(t)'
  BY <1>2, Requesting DEF Create, Close, Attach
<1>3. CASE Receive(v)
  <2> DEFINE k == view[v].conn
             f == Head(conn[k].out)
             read == [conn[k] EXCEPT !.out = Tail(@)]
             asked == [read EXCEPT !.inbox = Append(@, [f.call EXCEPT !.op = "probe"])]
  <2>1. conn' = [conn EXCEPT ![k] = read] \/ conn' = [conn EXCEPT ![k] = asked]
    <3>1. [[conn EXCEPT ![k].out = Tail(@)] EXCEPT
                ![k].inbox = Append(@, [f.call EXCEPT !.op = "probe"])]
            = [conn EXCEPT ![k] = asked]
      OBVIOUS
    <3> QED BY <1>3, <3>1 DEF Receive
  <2>2. k \in DOMAIN conn => /\ DOMAIN read = DOMAIN conn[k] /\ read.job = conn[k].job
                             /\ DOMAIN asked = DOMAIN conn[k] /\ asked.job = conn[k].job
    BY DEF JobsOrdered, OneJob, ConnectionFields
  <2>3. CASE conn' = [conn EXCEPT ![k] = read]
    BY <2>2, <2>3, Mailboxes
  <2>4. CASE conn' = [conn EXCEPT ![k] = asked]
    BY <2>2, <2>4, Mailboxes
  <2> QED BY <2>1, <2>3, <2>4
<1>4. CASE Connect(v)
  BY <1>4, Connecting DEF Connect
<1>5. CASE Reconnect(v)
  BY <1>5, <1>0, Connecting DEF Reconnect
<1>6. ASSUME NEW s \in Sessions, Reattach(v, s)
      PROVE  JobsOrdered' /\ \A t : Starting(t) => Starting(t)'
  BY <1>6, <1>0, Requesting DEF Reattach
<1>7. CASE Cut(v)
  <2> DEFINE k == view[v].conn
             cut(n) == [conn[k] EXCEPT !.open = FALSE, !.out = <<>>, !.inbox = SubSeq(@, 1, n)]
  <2>1. PICK n \in 0..Len(conn[k].inbox) : conn' = [conn EXCEPT ![k].open = FALSE, ![k].out = <<>>,
                                                   ![k].inbox = SubSeq(@, 1, n)]
    BY <1>7 DEF Cut
  <2>2. conn' = [conn EXCEPT ![k] = cut(n)]
    BY <2>1
  <2>3. k \in DOMAIN conn => DOMAIN cut(n) = DOMAIN conn[k] /\ cut(n).job = conn[k].job
    BY DEF JobsOrdered, OneJob, ConnectionFields
  <2> QED BY <2>2, <2>3, Mailboxes
<1>8. CASE ConnectFails(v)
  BY <1>8, <1>0 DEF ConnectFails
<1> QED BY <1>1, <1>2, <1>3, <1>4, <1>5, <1>6, <1>7, <1>8 DEF ViewStep

\* The steps of a reader thread that change no table: none of them ends a create that
\* has no process.
LEMMA ReadersKeepStarting ==
    ASSUME JobsOrdered, NEW k \in DOMAIN conn,
           \/ Take(k) \/ HangUp(k) \/ Subscribe(k) \/ SpawnFails(k) \/ Confirm(k)
           \/ Unsubscribe(k) \/ Detach(k) \/ Snapshot(k) \/ Complete(k)
    PROVE  JobsOrdered' /\ \A s : Starting(s) => Starting(s)'
<1> DEFINE c == conn[k]
<1>0. OneJob(c)
  BY DEF JobsOrdered
<1>1. CASE Take(k)
  <2> DEFINE call == Head(c.inbox)
             j == [step |-> FirstStep(call), call |-> call, alive |-> FALSE]
             d == [c EXCEPT !.inbox = Tail(@), !.job = {j}]
  <2>1. conn' = [conn EXCEPT ![k] = d] /\ c.job = {}
    BY <1>1 DEF Take
  <2>2. j.step \in CreateSteps => j.call.op = "create"
    BY DEF FirstStep, CreateSteps
  <2>3. OneJob(d)
    BY <1>0, <2>2 DEF OneJob, ConnectionFields
  <2>4. \A s : ~StartingAt(c, s)
    BY <2>1 DEF StartingAt
  <2> QED BY <2>1, <2>3, <2>4, OneReplaced
<1>2. CASE HangUp(k)
  <2> DEFINE d == [c EXCEPT !.handle = FALSE, !.attached = {}, !.barrier = {}, !.held = {}]
  <2>1. conn' = [conn EXCEPT ![k] = d]
    BY <1>2 DEF HangUp
  <2>2. DOMAIN d = DOMAIN c /\ d.job = c.job
    BY <1>0 DEF OneJob, ConnectionFields
  <2> QED BY <2>1, <2>2, Mailboxes
<1>3. CASE Subscribe(k)
  <2>1. PICK j \in c.job : /\ j.step = "subscribe" /\ CallOf(k) = j.call
                           /\ ("subscribe" \in CreateSteps => j.call.op = "create")
                           /\ \A s : StartingAt(c, s) <=>
                                j.call.op = "create" /\ j.call.s = s /\ "subscribe" \in Early
    BY <1>3, TheJob DEF Subscribe
  <2> DEFINE u == Subscribed(c, j.call.s)
             g == Goto(u, "spawn")
  <2>2. OneJob(u) /\ u.job = c.job
    <3> DEFINE d == Unsubscribed(c, {j.call.s})
    <3>1. OneJob(d) /\ d.job = c.job
      BY <1>0, JobUntouched
    <3>2. DOMAIN u = DOMAIN d /\ u.job = d.job
      BY <3>1 DEF Subscribed, OneJob, ConnectionFields
    <3> QED BY <3>1, <3>2 DEF OneJob
  <2>3. OneJob(g) /\ \A s : StartingAt(g, s) <=>
                                j.call.op = "create" /\ j.call.s = s /\ "spawn" \in Early
    <3>1. j \in u.job /\ ("spawn" \in CreateSteps => j.call.op = "create")
      BY <2>1, <2>2 DEF CreateSteps
    <3> QED BY <2>2, <3>1, JobAdvanced
  <2>4. \A s : StartingAt(c, s) => StartingAt(g, s)
    BY <2>1, <2>3 DEF Early
  <2>5. conn' = [conn EXCEPT ![k] = g]
    BY <1>3, <2>1 DEF Subscribe
  <2> QED BY <2>3, <2>4, <2>5, OneReplaced
<1>4. CASE SpawnFails(k)
  <2>1. PICK j \in c.job : /\ j.step = "spawn"
                           /\ ("spawn" \in CreateSteps => j.call.op = "create")
                           /\ \A s : StartingAt(c, s) <=>
                                j.call.op = "create" /\ j.call.s = s /\ "spawn" \in Early
    BY <1>4, TheJob DEF SpawnFails
  <2> DEFINE g == Goto(c, "unreserve")
  <2>2. OneJob(g) /\ \A s : StartingAt(g, s) <=>
                                j.call.op = "create" /\ j.call.s = s /\ "unreserve" \in Early
    BY <1>0, <2>1, JobAdvanced DEF CreateSteps
  <2>3. conn' = [conn EXCEPT ![k] = g]
    BY <1>4 DEF SpawnFails
  <2>4. \A s : StartingAt(c, s) => StartingAt(g, s)
    BY <2>1, <2>2 DEF Early
  <2> QED BY <2>2, <2>3, <2>4, OneReplaced
<1>5. ASSUME NEW step, At(k, step), step \notin Early, NEW d, OneJob(d),
             conn' = [conn EXCEPT ![k] = d]
      PROVE  JobsOrdered' /\ \A s : Starting(s) => Starting(s)'
  <2>1. \A s : ~StartingAt(c, s)
    BY <1>5, TheJob
  <2> QED BY <1>5, <2>1, OneReplaced
<1>6. CASE Confirm(k)
  <2>1. PICK f : conn' = [conn EXCEPT ![k] = Answer(c, f)]
    BY <1>6 DEF Confirm
  <2> QED BY <1>0, <1>5, <1>6, <2>1, JobAnswered DEF Confirm, Early
<1>7. CASE Unsubscribe(k)
  <2>1. PICK f, ss : conn' = [conn EXCEPT ![k] = Answer(Unsubscribed(c, ss), f)]
    BY <1>7 DEF Unsubscribe
  <2>2. OneJob(Answer(Unsubscribed(c, ss), f))
    BY <1>0, JobUntouched, JobAnswered
  <2> QED BY <1>5, <1>7, <2>1, <2>2 DEF Unsubscribe, Early
<1>8. CASE Detach(k)
  <2> DEFINE ss == Targets(CallOf(k))
             f == Reply(CallOf(k), TRUE, FALSE)
  <2>1. /\ DOMAIN conn' = DOMAIN conn
        /\ conn'[k] = Answer(Unsubscribed(c, ss), f)
        /\ \A i \in DOMAIN conn \ {k} : conn'[i] = Unsubscribed(conn[i], ss)
    BY <1>8 DEF Detach
  <2>2. OneJob(conn'[k])
    BY <1>0, <2>1, JobUntouched, JobAnswered
  <2>3. \A i \in DOMAIN conn \ {k} : OneJob(conn'[i]) /\ conn'[i].job = conn[i].job
    BY <2>1, JobUntouched DEF JobsOrdered
  <2>4. JobsOrdered'
    BY <2>1, <2>2, <2>3 DEF JobsOrdered
  <2>5. \A s : ~StartingAt(c, s)
    BY <1>8, TheJob DEF Detach, Early
  <2>6. ASSUME NEW s, Starting(s) PROVE Starting(s)'
    <3>1. PICK i \in DOMAIN conn : StartingAt(conn[i], s)
      BY <2>6 DEF Starting
    <3>2. i \in DOMAIN conn' /\ StartingAt(conn'[i], s)
      BY <2>1, <2>3, <2>5, <3>1 DEF StartingAt
    <3> QED BY <3>2 DEF Starting, StartingAt
  <2> QED BY <2>4, <2>6
<1>9. CASE Snapshot(k)
  <2> DEFINE call == CallOf(k)
             j == [step |-> "complete", call |-> call, alive |-> entry[call.s] = "alive"]
             a == Answer(c, Reply(call, FALSE, FALSE))
             d == Barred(c, call, entry[call.s] = "alive")
  <2>1. conn' = [conn EXCEPT ![k] = a] \/ conn' = [conn EXCEPT ![k] = d]
    <3>1. CASE entry[call.s] = "none"
      BY <1>9, <3>1 DEF Snapshot
    <3>2. CASE entry[call.s] # "none"
      BY <1>9, <3>2 DEF Snapshot
    <3> QED BY <3>1, <3>2
  <2>2. OneJob(a)
    BY <1>0, JobAnswered
  <2>3. OneJob(d)
    <3>1. DOMAIN d = ConnectionFields /\ d.job = {j}
      BY <1>0 DEF Barred, OneJob, ConnectionFields
    <3>2. DOMAIN j = {"step", "call", "alive"} /\ j.step \notin CreateSteps
      BY DEF CreateSteps
    <3> QED BY <3>1, <3>2 DEF OneJob
  <2>4. At(k, "snapshot") /\ "snapshot" \notin Early
    BY <1>9 DEF Snapshot, Early
  <2>5. CASE conn' = [conn EXCEPT ![k] = a]
    BY <1>5, <2>2, <2>4, <2>5
  <2>6. CASE conn' = [conn EXCEPT ![k] = d]
    BY <1>5, <2>3, <2>4, <2>6
  <2> QED BY <2>1, <2>5, <2>6
<1>10. CASE Complete(k)
  <2>1. PICK s, fs : conn' = [conn EXCEPT ![k] = Sent(Unbarred(c, s), fs)]
    <3>0. PICK j : j = CHOOSE i \in conn[k].job : TRUE
      OBVIOUS
    <3>1. conn' = [conn EXCEPT ![k] = Sent(Unbarred(c, j.call.s), <<Reply(j.call, TRUE, j.alive)>>
                        \o (IF j.call.s \in conn[k].held THEN <<Exit(j.call.s)>> ELSE <<>>))]
      BY <1>10, <3>0 DEF Complete
    <3> QED BY <3>1
  <2>2. OneJob(Unbarred(c, s))
    BY <1>0 DEF Unbarred, OneJob, ConnectionFields
  <2>3. OneJob(Sent(Unbarred(c, s), fs))
    BY <2>2, JobUntouched
  <2> QED BY <1>5, <1>10, <2>1, <2>3 DEF Complete, Early
<1> QED BY <1>1, <1>2, <1>3, <1>4, <1>6, <1>7, <1>8, <1>9, <1>10

\* The steps of a reader thread that change a table.
LEMMA ReadersKeepCounted ==
    ASSUME PhantomInv, NEW k \in DOMAIN conn,
           Reserve(k) \/ Spawn(k) \/ Unreserve(k) \/ Kill(k) \/ Remove(k)
    PROVE  PhantomInv'
<1> DEFINE c == conn[k]
<1> USE DEF PhantomInv
<1>0. OneJob(c)
  BY DEF JobsOrdered
<1>1. CASE Reserve(k)
  <2>1. PICK j \in c.job : CallOf(k) = j.call /\ j.call.op = "create"
                           /\ \A s : ~StartingAt(c, s)
    BY <1>1, TheJob DEF Reserve, CreateSteps, Early
  <2>2. CASE entry' = entry /\ \E f : conn' = [conn EXCEPT ![k] = Answer(c, f)]
    <3>1. PICK f : conn' = [conn EXCEPT ![k] = Answer(c, f)]
      BY <2>2
    <3>2. JobsOrdered' /\ \A s : Starting(s) => Starting(s)'
      BY <1>0, <2>1, <3>1, JobAnswered, OneReplaced
    <3> QED BY <1>1, <2>2, <3>2 DEF Reserve, Counted
  <2>3. CASE /\ entry' = [entry EXCEPT ![j.call.s] = "alive"]
             /\ conn' = [conn EXCEPT ![k] = Goto(c, "subscribe")]
    <3>1. /\ OneJob(Goto(c, "subscribe"))
          /\ StartingAt(Goto(c, "subscribe"), j.call.s)
      BY <1>0, <2>1, JobAdvanced DEF Early
    <3>2. JobsOrdered' /\ Starting(j.call.s)' /\ \A s : Starting(s) => Starting(s)'
      BY <2>1, <2>3, <3>1, OneReplaced
    <3>3. entry' \in [Sessions -> {"none", "alive", "exited"}]
      BY <2>3
    <3>4. \A s \in Sessions : entry'[s] = "alive" => s = j.call.s \/ entry[s] = "alive"
      BY <2>3
    <3>5. Counted'
      BY <1>1, <3>2, <3>4 DEF Reserve, Counted
    <3> QED BY <1>1, <3>2, <3>3, <3>5 DEF Reserve
  <2> QED BY <1>1, <2>1, <2>2, <2>3 DEF Reserve
<1>2. CASE Spawn(k)
  <2>1. PICK j \in c.job : /\ CallOf(k) = j.call /\ j.call.op = "create"
                           /\ \A s : StartingAt(c, s) => s = j.call.s
    BY <1>2, TheJob DEF Spawn, CreateSteps
  <2>2. conn' = [conn EXCEPT ![k] = Goto(c, "confirm")]
        /\ proc' = [proc EXCEPT ![j.call.s] = "running"] /\ entry' = entry
    BY <1>2, <2>1 DEF Spawn
  <2>3. OneJob(Goto(c, "confirm"))
    BY <1>0, <2>1, JobAdvanced
  <2>4. JobsOrdered' /\ \A s : Starting(s) => Starting(s)' \/ s = j.call.s
    BY <2>1, <2>2, <2>3, OneReplaced
  <2>5. /\ proc' \in [Sessions -> {"none", "running", "ended", "marked", "told", "settled"}]
        /\ \A s \in Sessions : IF s = j.call.s THEN proc'[s] = "running" ELSE proc'[s] = proc[s]
    BY <2>2
  <2>6. Counted'
    BY <2>2, <2>4, <2>5 DEF Counted
  <2> QED BY <2>2, <2>4, <2>5, <2>6
<1>3. CASE Unreserve(k)
  <2>1. PICK j \in c.job : /\ CallOf(k) = j.call /\ j.call.op = "create"
                           /\ \A s : StartingAt(c, s) => s = j.call.s
    BY <1>3, TheJob DEF Unreserve, CreateSteps
  <2>2. conn' = [conn EXCEPT ![k] = Goto(c, "unsubscribe")]
        /\ entry' = [entry EXCEPT ![j.call.s] = "none"] /\ proc' = proc
    BY <1>3, <2>1 DEF Unreserve
  <2>3. OneJob(Goto(c, "unsubscribe"))
    BY <1>0, <2>1, JobAdvanced
  <2>4. JobsOrdered' /\ \A s : Starting(s) => Starting(s)' \/ s = j.call.s
    BY <2>1, <2>2, <2>3, OneReplaced
  <2>5. /\ entry' \in [Sessions -> {"none", "alive", "exited"}]
        /\ \A s \in Sessions : entry'[s] = "alive" => s # j.call.s /\ entry[s] = "alive"
    BY <2>2
  <2>6. Counted'
    BY <2>2, <2>4, <2>5 DEF Counted
  <2> QED BY <2>2, <2>4, <2>5, <2>6
<1>4. ASSUME NEW step, At(k, step), step \notin Early,
             NEW next, next \notin CreateSteps, conn' = [conn EXCEPT ![k] = Goto(c, next)]
      PROVE  JobsOrdered' /\ \A s : Starting(s) => Starting(s)'
  <2>1. PICK j \in c.job : \A s : ~StartingAt(c, s)
    BY <1>4, TheJob
  <2>2. OneJob(Goto(c, next))
    BY <1>0, <1>4, <2>1, JobAdvanced
  <2> QED BY <1>4, <2>1, <2>2, OneReplaced
<1>5. CASE Kill(k)
  <2>1. JobsOrdered' /\ \A s : Starting(s) => Starting(s)'
    BY <1>4, <1>5 DEF Kill, Early, CreateSteps
  <2>2. /\ proc' \in [Sessions -> {"none", "running", "ended", "marked", "told", "settled"}]
        /\ \A s \in Sessions : proc'[s] = proc[s] \/ proc'[s] = "ended"
    BY <1>5 DEF Kill
  <2> QED BY <1>5, <2>1, <2>2 DEF Kill, Counted
<1>6. CASE Remove(k)
  <2>1. JobsOrdered' /\ \A s : Starting(s) => Starting(s)'
    BY <1>4, <1>6 DEF Remove, Early, CreateSteps
  <2>2. /\ entry' \in [Sessions -> {"none", "alive", "exited"}]
        /\ \A s \in Sessions : entry'[s] = entry[s] \/ entry'[s] = "none"
    BY <1>6 DEF Remove
  <2> QED BY <1>6, <2>1, <2>2 DEF Remove, Counted
<1> QED BY <1>1, <1>2, <1>3, <1>5, <1>6

\* The sink thread of a process reports its end to the table first.
LEMMA SinksKeepCounted ==
    ASSUME PhantomInv, NEW s \in Sessions, ProcessEnds(s) \/ SinkStep(s)
    PROVE  PhantomInv'
<1> USE DEF PhantomInv
<1>0. ASSUME conn' = conn PROVE JobsOrdered' /\ \A t : Starting(t)' <=> Starting(t)
  BY <1>0 DEF JobsOrdered, Starting
<1>1. CASE ProcessEnds(s)
  BY <1>0, <1>1 DEF ProcessEnds, Counted
<1>2. CASE MarkExited(s)
  <2>1. entry' \in [Sessions -> {"none", "alive", "exited"}]
    BY <1>2 DEF MarkExited
  <2>2. \A t \in Sessions : entry'[t] = "alive" => t # s /\ entry[t] = "alive"
    BY <1>2 DEF MarkExited
  <2> QED BY <1>0, <1>2, <2>1, <2>2 DEF MarkExited, Counted
<1>3. CASE PushExit(s)
  <2> DEFINE held(c) == [c EXCEPT !.held = @ \cup {s}]
  <2>1. /\ DOMAIN conn' = DOMAIN conn
        /\ \A i \in DOMAIN conn :
              conn'[i] \in {conn[i], held(conn[i]), Sent(conn[i], <<Exit(s)>>)}
    BY <1>3 DEF PushExit
  <2>2. ASSUME NEW i \in DOMAIN conn PROVE OneJob(conn'[i]) /\ conn'[i].job = conn[i].job
    <3>1. OneJob(conn[i])
      BY DEF JobsOrdered
    <3>2. DOMAIN held(conn[i]) = DOMAIN conn[i] /\ held(conn[i]).job = conn[i].job
      BY <3>1 DEF OneJob, ConnectionFields
    <3>3. OneJob(held(conn[i]))
      BY <3>1, <3>2 DEF OneJob
    <3>4. /\ OneJob(Sent(conn[i], <<Exit(s)>>))
          /\ Sent(conn[i], <<Exit(s)>>).job = conn[i].job
      BY <3>1, JobUntouched
    <3>5. CASE conn'[i] = conn[i]
      BY <3>1, <3>5
    <3>6. CASE conn'[i] = held(conn[i])
      BY <3>2, <3>3, <3>6
    <3>7. CASE conn'[i] = Sent(conn[i], <<Exit(s)>>)
      BY <3>4, <3>7
    <3> QED BY <2>1, <3>5, <3>6, <3>7
  <2>3. JobsOrdered' /\ \A t : Starting(t) => Starting(t)'
    BY <2>1, <2>2, NoneReplaced
  <2>4. /\ proc' \in [Sessions -> {"none", "running", "ended", "marked", "told", "settled"}]
        /\ \A t \in Sessions : proc[t] \in {"running", "ended"} => proc'[t] = proc[t]
    BY <1>3 DEF PushExit
  <2> QED BY <1>3, <2>3, <2>4 DEF PushExit, Counted
<1>4. CASE Govern(s)
  <2>1. /\ entry' \in [Sessions -> {"none", "alive", "exited"}]
        /\ \A t \in Sessions : entry'[t] = entry[t] \/ entry'[t] = "none"
    BY <1>4 DEF Govern
  <2>2. /\ proc' \in [Sessions -> {"none", "running", "ended", "marked", "told", "settled"}]
        /\ \A t \in Sessions : proc[t] \in {"running", "ended"} => proc'[t] = proc[t]
    BY <1>4 DEF Govern
  <2> QED BY <1>0, <1>4, <2>1, <2>2 DEF Govern, Counted
<1> QED BY <1>1, <1>2, <1>3, <1>4 DEF SinkStep

\* A step that leaves the tables alone and takes no create that waits for its process.
LEMMA TablesUntouched ==
    ASSUME PhantomInv, entry' = entry, proc' = proc,
           JobsOrdered', \A s : Starting(s) => Starting(s)'
    PROVE  PhantomInv'
  BY DEF PhantomInv, Counted

\* Every step preserves the invariant.
LEMMA PhantomStep == PhantomInv /\ [Next]_vars => PhantomInv'
<1> SUFFICES ASSUME PhantomInv, [Next]_vars PROVE PhantomInv'
  OBVIOUS
<1>0. JobsOrdered
  BY DEF PhantomInv
<1>1. ASSUME NEW v \in Views,
             \/ CloseAll(v) \/ ViewStep(v) \/ Cut(v) \/ ConnectFails(v)
             \/ \E s \in Sessions : Create(v, s) \/ Close(v, s) \/ Attach(v, s)
      PROVE  PhantomInv'
  <2>1. JobsOrdered' /\ \A s : Starting(s) => Starting(s)'
    BY <1>0, <1>1, ViewsTouchNoJob
  <2>2. entry' = entry /\ proc' = proc
    BY <1>1 DEF CloseAll, ViewStep, Cut, ConnectFails, Create, Close, Attach,
                Receive, Connect, Reconnect, Reattach
  <2> QED BY <2>1, <2>2, TablesUntouched
<1>2. ASSUME NEW k \in DOMAIN conn, ReaderStep(k) PROVE PhantomInv'
  <2>1. CASE Reserve(k) \/ Spawn(k) \/ Unreserve(k) \/ Kill(k) \/ Remove(k)
    BY <2>1, ReadersKeepCounted
  <2>2. CASE \/ Take(k) \/ HangUp(k) \/ Subscribe(k) \/ SpawnFails(k) \/ Confirm(k)
             \/ Unsubscribe(k) \/ Detach(k) \/ Snapshot(k) \/ Complete(k)
    <3>1. JobsOrdered' /\ \A s : Starting(s) => Starting(s)'
      BY <1>0, <2>2, ReadersKeepStarting
    <3>2. entry' = entry /\ proc' = proc
      BY <2>2 DEF Take, HangUp, Subscribe, SpawnFails, Confirm, Unsubscribe, Detach,
                  Snapshot, Complete
    <3> QED BY <3>1, <3>2, TablesUntouched
  <2> QED BY <1>2, <2>1, <2>2 DEF ReaderStep
<1>3. ASSUME NEW s \in Sessions, ProcessEnds(s) \/ SinkStep(s) PROVE PhantomInv'
  BY <1>3, SinksKeepCounted
<1>4. CASE UNCHANGED vars
  <2>1. JobsOrdered' /\ \A s : Starting(s) => Starting(s)'
    BY <1>0, <1>4 DEF vars, JobsOrdered, Starting
  <2> QED BY <1>4, <2>1, TablesUntouched DEF vars
<1> QED BY <1>1, <1>2, <1>3, <1>4, LifecycleConstants DEF Next

LEMMA PhantomAtFirst == Init => PhantomInv
<1> SUFFICES ASSUME Init PROVE PhantomInv
  OBVIOUS
<1>1. DOMAIN conn = {}
  BY DEF Init
<1>2. DOMAIN conn = 1..0
  BY <1>1
<1>3. JobsOrdered
  BY <1>1, <1>2 DEF JobsOrdered
<1> QED BY <1>3 DEF Init, PhantomInv, Counted

\* No session is counted as alive, and keeps the daemon from exiting, without a process
\* or a create that will start one or take the reservation back: whatever fails, breaks
\* or overtakes, in create, close, attach and the end of a process.
THEOREM NoReservationLeaks == Spec => []NoPhantom
<1>1. Init => PhantomInv
  BY PhantomAtFirst
<1>2. PhantomInv /\ [Next]_vars => PhantomInv'
  BY PhantomStep
<1>3. PhantomInv => NoPhantom
  <2> SUFFICES ASSUME PhantomInv, NEW s \in Sessions, Starting(s) PROVE Creating(s)
    BY DEF PhantomInv, Counted, NoPhantom
  <2> QED BY DEF Starting, StartingAt, Creating, Early
<1> QED BY <1>1, <1>2, <1>3, PTL DEF Spec

-----------------------------------------------------------------------------
(* Closed sessions stay detached *)

ViewFields == {"conn", "attached", "tombs", "pending", "unsent", "timer", "due", "got", "show"}

Subscribes(call, s) == call.op \notin CloseOps /\ call.s = s
Closes(call, s) == call.op \in CloseOps /\ s \in Targets(call)

\* In a queue of requests a close of s comes; it comes after all that subscribes to s.
Awaited(q, s) == \E i \in 1..Len(q) : Closes(q[i], s)
Retracts(q, s) ==
    \A i \in 1..Len(q) : Subscribes(q[i], s) => \E m \in i + 1..Len(q) : Closes(q[m], s)

\* A connection that will be without s once it has answered what it was asked.
Sheds(c, s) ==
    /\ Retracts(c.inbox, s)
    /\ \A j \in c.job : Subscribes(j.call, s) => Awaited(c.inbox, s)
    /\ s \in c.attached => Awaited(c.inbox, s) \/ \E j \in c.job : Closes(j.call, s)

\* What a connection carries; no close takes the steps of an attach.
Talks(c) ==
    /\ c.inbox \in Seq(Call) /\ c.out \in Seq(Frame)
    /\ \A j \in c.job : /\ j.step \in Steps /\ j.call \in Call /\ j.alive \in BOOLEAN
                        /\ j.step \in {"snapshot", "complete"} => j.call.op \notin CloseOps

\* What a view asks; finitely many requests await a reply.
Asks(w) ==
    /\ DOMAIN w = ViewFields
    /\ w.attached \subseteq Sessions /\ w.unsent \in Seq(Call)
    /\ w.pending \subseteq Call /\ IsFiniteSet(w.pending)

\* Each view has a connection to itself.
Wired ==
    /\ \A v \in Views : view[v].conn \in {None} \cup DOMAIN conn
    /\ \A u, v \in Views : view[u].conn = view[v].conn /\ view[u].conn # None => u = v

\* What a view has closed is not asked for again behind the close, neither by the
\* requests that wait for a connection nor by those that are under way on it.
Retracted(w, cs) ==
    /\ w.conn # None => w.unsent = <<>>
    /\ \A s \in w.tombs : Retracts(w.unsent, s) /\ (w.conn # None => Sheds(cs[w.conn], s))

ClosedInv ==
    /\ PhantomInv /\ Wired
    /\ \A k \in DOMAIN conn : Talks(conn[k])
    /\ DOMAIN view = Views
    /\ \A v \in Views : Asks(view[v]) /\ Retracted(view[v], conn)

-----------------------------------------------------------------------------
(* Queues of requests *)

LEMMA NothingAsked == \A s : Retracts(<<>>, s) /\ <<>> \in Seq(Call) /\ ~Awaited(<<>>, s)
  BY DEF Retracts, Awaited

\* What a request at the end of a queue does to the order.
LEMMA Appended ==
    ASSUME NEW q \in Seq(Call), NEW call \in Call, NEW s
    PROVE  /\ Append(q, call) \in Seq(Call)
           /\ Retracts(q, s) /\ ~Subscribes(call, s) => Retracts(Append(q, call), s)
           /\ Closes(call, s) => Retracts(Append(q, call), s) /\ Awaited(Append(q, call), s)
           /\ Awaited(q, s) => Awaited(Append(q, call), s)
<1> DEFINE p == Append(q, call)
<1>1. /\ p \in Seq(Call) /\ Len(p) = Len(q) + 1 /\ Len(q) \in Nat /\ p[Len(p)] = call
      /\ \A i \in 1..Len(q) : p[i] = q[i]
  OBVIOUS
<1>2. Closes(call, s) => ~Subscribes(call, s)
  BY DEF Closes, Subscribes
<1> HIDE DEF p
<1>3. ASSUME Retracts(q, s), ~Subscribes(call, s) PROVE Retracts(p, s)
  <2> SUFFICES ASSUME NEW i \in 1..Len(p), Subscribes(p[i], s)
               PROVE  \E m \in i + 1..Len(p) : Closes(p[m], s)
    BY DEF Retracts
  <2>1. i \in 1..Len(q) /\ Subscribes(q[i], s)
    BY <1>1, <1>3
  <2>2. PICK m \in i + 1..Len(q) : Closes(q[m], s)
    BY <1>3, <2>1 DEF Retracts
  <2>3. m \in 1..Len(q) /\ m \in i + 1..Len(p) /\ p[m] = q[m]
    BY <1>1, <2>1
  <2> QED
    BY <2>2, <2>3
<1>4. ASSUME Closes(call, s) PROVE Retracts(p, s) /\ Awaited(p, s)
  <2>1. Len(p) \in 1..Len(p) /\ Closes(p[Len(p)], s)
    BY <1>1, <1>4
  <2>2. ASSUME NEW i \in 1..Len(p), Subscribes(p[i], s)
        PROVE  \E m \in i + 1..Len(p) : Closes(p[m], s)
    <3>1. i # Len(p)
      BY <1>1, <1>2, <1>4, <2>2
    <3>2. Len(p) \in i + 1..Len(p)
      BY <1>1, <3>1
    <3> QED
      BY <2>1, <3>2
  <2> QED
    BY <2>1, <2>2 DEF Retracts, Awaited
<1>5. ASSUME Awaited(q, s) PROVE Awaited(p, s)
  <2>1. PICK i \in 1..Len(q) : Closes(q[i], s)
    BY <1>5 DEF Awaited
  <2>2. i \in 1..Len(p) /\ p[i] = q[i]
    BY <1>1
  <2> QED
    BY <2>1, <2>2 DEF Awaited
<1> QED
  BY <1>1, <1>3, <1>4, <1>5 DEF p

\* What taking the first request leaves of the order.
LEMMA Taken ==
    ASSUME NEW q \in Seq(Call), q # <<>>, NEW s
    PROVE  /\ Tail(q) \in Seq(Call) /\ Head(q) \in Call
           /\ Retracts(q, s) => /\ Retracts(Tail(q), s)
                                /\ Subscribes(Head(q), s) => Awaited(Tail(q), s)
           /\ Awaited(q, s) => Closes(Head(q), s) \/ Awaited(Tail(q), s)
<1> DEFINE p == Tail(q)
<1>1. /\ p \in Seq(Call) /\ Len(p) = Len(q) - 1 /\ Len(q) \in Nat \ {0}
      /\ q[1] = Head(q) /\ q[1] \in Call
      /\ \A i \in 1..Len(p) : p[i] = q[i + 1]
  OBVIOUS
<1> HIDE DEF p
<1>2. ASSUME Retracts(q, s), NEW i \in 1..Len(q), Subscribes(q[i], s)
      PROVE  \E m \in i..Len(p) : Closes(p[m], s)
  <2>1. PICK m \in i + 1..Len(q) : Closes(q[m], s)
    BY <1>2 DEF Retracts
  <2>2. m - 1 \in i..Len(p) /\ p[m - 1] = q[m]
    BY <1>1, <2>1
  <2> QED
    BY <2>1, <2>2
<1>3. ASSUME Retracts(q, s) PROVE Retracts(p, s)
  <2> SUFFICES ASSUME NEW i \in 1..Len(p), Subscribes(p[i], s)
               PROVE  \E m \in i + 1..Len(p) : Closes(p[m], s)
    BY DEF Retracts
  <2>1. i + 1 \in 1..Len(q) /\ Subscribes(q[i + 1], s)
    BY <1>1
  <2> QED
    BY <1>2, <1>3, <2>1
<1>4. ASSUME Retracts(q, s), Subscribes(Head(q), s) PROVE Awaited(p, s)
  <2>1. 1 \in 1..Len(q) /\ Subscribes(q[1], s)
    BY <1>1, <1>4
  <2>2. PICK m \in 1..Len(p) : Closes(p[m], s)
    BY <1>2, <1>4, <2>1
  <2> QED
    BY <2>2 DEF Awaited
<1>5. ASSUME Awaited(q, s) PROVE Closes(Head(q), s) \/ Awaited(p, s)
  <2>1. PICK i \in 1..Len(q) : Closes(q[i], s)
    BY <1>5 DEF Awaited
  <2>2. CASE i = 1
    BY <1>1, <2>1, <2>2
  <2>3. CASE i # 1
    <3>1. i - 1 \in 1..Len(p) /\ p[i - 1] = q[i]
      BY <1>1, <2>3
    <3> QED
      BY <2>1, <3>1 DEF Awaited
  <2> QED
    BY <2>2, <2>3
<1> QED
  BY <1>1, <1>3, <1>4, <1>5 DEF p

-----------------------------------------------------------------------------
(* Requests that fail *)

\* w becomes u, which asks for nothing that w has closed.
Fades(w, u) ==
    /\ Asks(u) /\ u.tombs = w.tombs /\ u.conn = w.conn
    /\ w.conn # None => u.unsent = w.unsent
    /\ \A s \in w.tombs : Retracts(w.unsent, s) => Retracts(u.unsent, s)

\* A view that keeps its tombstones, its connection and what it has not sent.
LEMMA Keeping ==
    ASSUME NEW w, NEW u, Asks(w), DOMAIN u = DOMAIN w,
           u.attached \subseteq Sessions, u.pending = w.pending,
           u.tombs = w.tombs, u.conn = w.conn, u.unsent = w.unsent
    PROVE  Fades(w, u)
  BY DEF Fades, Asks

\* Clearing sessions, with what it leaves alone.
LEMMA Clearing ==
    ASSUME NEW w, Asks(w), NEW ss
    PROVE  LET u == ClearSession(w, ss)
           IN  /\ Asks(u) /\ u.tombs = w.tombs /\ u.conn = w.conn
               /\ u.unsent = w.unsent /\ u.pending = w.pending
  BY DEF Asks, ViewFields, ClearSession

\* A refused or lost request brings nothing back that was closed: a create is probed only
\* without a tombstone.
LEMMA FailedFades ==
    ASSUME NEW w, Asks(w), NEW call \in Call
    PROVE  Fades(w, Failed(w, call))
<1> DEFINE s == call.s
           probe == [call EXCEPT !.op = "probe"]
           grown == [w EXCEPT !.attached = @ \cup {s}]
<1>0. call.op \in Ops /\ s \in Sessions
  BY DEF Call
<1>1. ASSUME NEW x, Asks(x)
      PROVE  /\ Fades(x, AttachFailed(x, s)) /\ Asks(AttachFailed(x, s))
             /\ Fades(x, CreateFailed(x, s))
  <2>1. AttachFailed(x, s).attached \subseteq Sessions
    BY <1>1 DEF AttachFailed, Asks, ViewFields
  <2>2. Fades(x, AttachFailed(x, s))
    <3> DEFINE u == AttachFailed(x, s)
    <3>1. DOMAIN u = DOMAIN x /\ u.pending = x.pending /\ u.tombs = x.tombs
          /\ u.conn = x.conn /\ u.unsent = x.unsent
      BY <1>1 DEF AttachFailed, Asks, ViewFields
    <3> HIDE DEF u
    <3> QED
      BY <1>1, <2>1, <3>1, Keeping DEF u
  <2>3. Fades(x, CreateFailed(x, s))
    <3> DEFINE y == ClearSession(x, {s})
               u == CreateFailed(x, s)
    <3>1. /\ Asks(y) /\ y.tombs = x.tombs /\ y.conn = x.conn
          /\ y.unsent = x.unsent /\ y.pending = x.pending
      BY <1>1, Clearing
    <3>2. u = [y EXCEPT !.show[s] = IF @ = "closed" THEN @ ELSE "failed"]
      BY DEF CreateFailed
    <3> HIDE DEF y, u
    <3>3. DOMAIN u = DOMAIN y /\ u.attached = y.attached /\ u.pending = y.pending
          /\ u.tombs = y.tombs /\ u.conn = y.conn /\ u.unsent = y.unsent
      BY <3>1, <3>2 DEF Asks, ViewFields
    <3>4. DOMAIN u = DOMAIN x /\ u.attached \subseteq Sessions
      BY <1>1, <3>1, <3>3 DEF Asks
    <3>5. u.pending = x.pending /\ u.tombs = x.tombs /\ u.conn = x.conn /\ u.unsent = x.unsent
      BY <3>1, <3>3
    <3> QED
      BY <1>1, <3>4, <3>5, Keeping DEF u
  <2>4. Asks(AttachFailed(x, s))
    BY <2>2 DEF Fades
  <2> QED
    BY <2>2, <2>3, <2>4
<1>2. CASE call.op = "create" /\ s \in w.tombs
  <2>1. Failed(w, call) = CreateFailed(w, s)
    BY <1>2 DEF Failed, CloseOps
  <2> QED
    BY <1>1, <2>1
<1>3. CASE call.op = "create" /\ s \notin w.tombs
  <2>1. Failed(w, call) = Requested(grown, probe)
    BY <1>3 DEF Failed, CloseOps
  <2>2. probe \in Call /\ probe.s = s /\ probe.op = "probe"
    BY DEF Call, Ops
  <2>3. /\ Asks(grown) /\ grown.tombs = w.tombs /\ grown.conn = w.conn
        /\ grown.unsent = w.unsent /\ grown.pending = w.pending
    BY <1>0 DEF Asks, ViewFields
  <2> HIDE DEF grown, probe
  <2>4. \A t \in w.tombs : ~Subscribes(probe, t)
    BY <1>3, <2>2 DEF Subscribes
  <2>5. CASE w.conn = None
    <3> DEFINE u == [grown EXCEPT !.unsent = Append(@, probe)]
    <3>1. Failed(w, call) = u
      BY <2>1, <2>3, <2>5 DEF Requested
    <3>2. /\ Append(w.unsent, probe) \in Seq(Call)
          /\ \A t \in w.tombs : Retracts(w.unsent, t) => Retracts(Append(w.unsent, probe), t)
      BY <2>2, <2>4, Appended DEF Asks
    <3>3. /\ DOMAIN u = ViewFields /\ u.attached = grown.attached /\ u.pending = grown.pending
          /\ u.tombs = grown.tombs /\ u.conn = grown.conn /\ u.unsent = Append(grown.unsent, probe)
      BY <2>3 DEF Asks, ViewFields
    <3> HIDE DEF u
    <3> QED
      BY <2>3, <2>5, <3>1, <3>2, <3>3 DEF Fades, Asks
  <2>6. CASE w.conn # None
    <3> DEFINE u == [grown EXCEPT !.pending = @ \cup {probe}]
    <3>1. Failed(w, call) = u
      BY <2>1, <2>3, <2>6 DEF Requested
    <3>2. /\ DOMAIN u = ViewFields /\ u.attached = grown.attached
          /\ u.pending = grown.pending \cup {probe}
          /\ u.tombs = grown.tombs /\ u.conn = grown.conn /\ u.unsent = grown.unsent
      BY <2>3 DEF Asks, ViewFields
    <3>3. IsFiniteSet(grown.pending \cup {probe}) /\ grown.pending \cup {probe} \subseteq Call
      BY <2>2, <2>3, FS_AddElement DEF Asks
    <3> HIDE DEF u
    <3> QED
      BY <2>3, <3>1, <3>2, <3>3 DEF Fades, Asks
  <2> QED
    BY <2>5, <2>6
<1>4. CASE call.op = "probe"
  <2>1. Failed(w, call) = CreateFailed(AttachFailed(w, s), s)
    BY <1>4 DEF Failed, CloseOps
  <2>2. Fades(w, AttachFailed(w, s)) /\ Fades(AttachFailed(w, s), CreateFailed(AttachFailed(w, s), s))
    BY <1>1
  <2> QED
    BY <2>1, <2>2 DEF Fades
<1>5. CASE call.op = "attach"
  <2> DEFINE y == AttachFailed(w, s)
             u == [y EXCEPT !.show[s] = IF @ = "closed" THEN @ ELSE "failed"]
  <2>1. Failed(w, call) = u
    BY <1>5 DEF Failed, CloseOps
  <2>2. Fades(w, y) /\ Asks(y)
    BY <1>1
  <2> HIDE DEF y
  <2>3. DOMAIN u = DOMAIN y /\ u.attached = y.attached /\ u.pending = y.pending
        /\ u.tombs = y.tombs /\ u.conn = y.conn /\ u.unsent = y.unsent
    BY <2>2 DEF Asks, ViewFields
  <2> HIDE DEF u
  <2>4. Fades(y, u)
    BY <2>2, <2>3, Keeping DEF Asks
  <2> QED
    BY <2>1, <2>2, <2>4 DEF Fades
<1>6. CASE call.op = "reattach"
  BY <1>1, <1>6 DEF Failed, CloseOps
<1>7. CASE call.op \in CloseOps
  BY <1>7 DEF Failed, CloseOps, Fades
<1> QED
  BY <1>0, <1>2, <1>3, <1>4, <1>5, <1>6, <1>7 DEF Ops, CloseOps

\* Every set of naturals has a least element.
LEMMA LeastNatural ==
    ASSUME NEW T, T \subseteq Nat, T # {}
    PROVE  \E n \in T : \A m \in T : n <= m
<1>1. \E x \in T : \A y \in T : ~(<<y, x>> \in OpToRel(<, Nat))
  BY NatLessThanWellFounded, WFMin
<1>2. \A x, y \in Nat : <<y, x>> \in OpToRel(<, Nat) <=> y < x
  BY DEF OpToRel
<1>3. PICK x \in T : \A y \in T : ~(<<y, x>> \in OpToRel(<, Nat))
  BY <1>1
<1>4. \A y \in T : ~(y < x) /\ x \in Nat /\ y \in Nat
  BY <1>2, <1>3
<1> QED
  BY <1>4

\* one[cs] is what the failure of all requests of cs makes of w: that of one of them
\* after that of the others.
OneByOne(one, w, calls) ==
    /\ one[{}] = w
    /\ \A cs \in SUBSET calls : cs # {} => \E c \in cs : one[cs] = Failed(one[cs \ {c}], c)

\* FailedAll does what its recursion says.
LEMMA FailedAllRecursion ==
    ASSUME NEW w, NEW calls, IsFiniteSet(calls)
    PROVE  \E one : one[calls] = FailedAll(w, calls) /\ OneByOne(one, w, calls)
<1> DEFINE Step(f, cs) == IF cs = {} THEN w
                          ELSE Failed(f[cs \ {CHOOSE c \in cs : TRUE}], CHOOSE c \in cs : TRUE)
           Small(n) == {cs \in SUBSET calls : Cardinality(cs) <= n}
           Bad == {n \in Nat : ~\E f : f = [cs \in Small(n) |-> Step(f, cs)]}
<1>0. \A cs \in SUBSET calls : IsFiniteSet(cs) /\ Cardinality(cs) \in Nat
                                  /\ Cardinality(cs) <= Cardinality(calls)
  BY FS_Subset, FS_CardinalityType
<1>1. Bad = {}
  <2> SUFFICES ASSUME Bad # {} PROVE FALSE
    OBVIOUS
  <2>1. PICK n \in Bad : \A m \in Bad : n <= m
    <3> HIDE DEF Bad
    <3>1. Bad \subseteq Nat
      BY DEF Bad
    <3> QED
      BY <3>1, LeastNatural
  <2>2. CASE n = 0
    <3>1. \A cs \in Small(0) : cs = {}
      BY <1>0, FS_EmptySet
    <3> DEFINE f == [cs \in Small(0) |-> w]
    <3>2. \A cs \in Small(0) : Step(f, cs) = w
      BY <3>1
    <3>3. f = [cs \in Small(0) |-> Step(f, cs)]
      <4> HIDE DEF Small, Step
      <4> QED
        BY <3>2
    <3> QED
      BY <2>1, <2>2, <3>3
  <2>3. CASE n # 0
    <3>0. n \in Nat
      BY <2>1
    <3>1. n - 1 \in Nat /\ n - 1 \notin Bad
      <4> HIDE DEF Bad
      <4> QED
        BY <2>1, <2>3, <3>0
    <3>2. PICK f : f = [cs \in Small(n - 1) |-> Step(f, cs)]
      BY <3>1
    <3> DEFINE g == [cs \in Small(n) |-> Step(f, cs)]
    <3>3. ASSUME NEW cs \in Small(n) PROVE Step(g, cs) = Step(f, cs)
      <4> DEFINE rest == cs \ {CHOOSE c \in cs : TRUE}
      <4>1. CASE cs = {}
        BY <4>1
      <4>2. CASE cs # {}
        <5>1. (CHOOSE c \in cs : TRUE) \in cs
          BY <4>2
        <5>2. Cardinality(rest) = Cardinality(cs) - 1
          BY <1>0, <5>1, FS_RemoveElement
        <5>3. rest \in Small(n - 1) /\ rest \in Small(n)
          BY <1>0, <2>1, <5>2
        <5>4. f[rest] = Step(f, rest) /\ g[rest] = Step(f, rest)
          <6> HIDE DEF Small, Step, rest
          <6> QED
            BY <3>2, <5>3
        <5> QED
          BY <4>2, <5>4
      <4> QED
        BY <4>1, <4>2
    <3>4. g = [cs \in Small(n) |-> Step(g, cs)]
      <4> HIDE DEF Small, Step
      <4> QED
        BY <3>3
    <3> QED
      BY <2>1, <3>4
  <2> QED
    BY <2>2, <2>3
<1>2. Small(Cardinality(calls)) = SUBSET calls
  BY <1>0
<1>3. \E f : f = [cs \in SUBSET calls |-> Step(f, cs)]
  <2>1. Cardinality(calls) \in Nat
    BY <1>0
  <2>2. \E f : f = [cs \in Small(Cardinality(calls)) |-> Step(f, cs)]
    BY <1>1, <2>1
  <2> HIDE DEF Small, Step
  <2> QED
    BY <1>2, <2>2
<1> DEFINE one == CHOOSE f : f = [cs \in SUBSET calls |-> Step(f, cs)]
<1>4. one = [cs \in SUBSET calls |-> Step(one, cs)]
  <2> HIDE DEF Step
  <2> QED
    BY <1>3
<1>5. FailedAll(w, calls) = one[calls]
  BY DEF FailedAll
<1> HIDE DEF one
<1>6. one[{}] = w
  BY <1>4
<1>7. ASSUME NEW cs \in SUBSET calls, cs # {}
      PROVE  \E c \in cs : one[cs] = Failed(one[cs \ {c}], c)
  <2>1. one[cs] = Step(one, cs)
    <3> HIDE DEF Step
    <3> QED
      BY <1>4
  <2>2. (CHOOSE c \in cs : TRUE) \in cs
    BY <1>7
  <2> QED
    BY <1>7, <2>1, <2>2
<1>8. OneByOne(one, w, calls)
  BY <1>6, <1>7 DEF OneByOne
<1> QED
  BY <1>5, <1>8

\* So many requests at once bring nothing back either.
LEMMA FailedAllFades ==
    ASSUME NEW w, Asks(w), NEW calls \in SUBSET Call, IsFiniteSet(calls)
    PROVE  Fades(w, FailedAll(w, calls))
<1>1. PICK one : one[calls] = FailedAll(w, calls) /\ OneByOne(one, w, calls)
  BY FailedAllRecursion
<1> DEFINE Bad == {n \in Nat : \E cs \in SUBSET calls : Cardinality(cs) = n /\ ~Fades(w, one[cs])}
<1>2. \A cs \in SUBSET calls : IsFiniteSet(cs) /\ Cardinality(cs) \in Nat
  BY FS_Subset, FS_CardinalityType
<1>3. Bad = {}
  <2> SUFFICES ASSUME Bad # {} PROVE FALSE
    OBVIOUS
  <2>1. PICK n \in Bad : \A m \in Bad : n <= m
    <3> HIDE DEF Bad
    <3>1. Bad \subseteq Nat
      BY DEF Bad
    <3> QED
      BY <3>1, LeastNatural
  <2>2. PICK cs \in SUBSET calls : Cardinality(cs) = n /\ ~Fades(w, one[cs])
    BY <2>1
  <2>3. CASE cs = {}
    <3>1. one[cs] = w
      BY <1>1, <2>3 DEF OneByOne
    <3> QED
      BY <2>2, <3>1 DEF Fades
  <2>4. CASE cs # {}
    <3>1. PICK c \in cs : one[cs] = Failed(one[cs \ {c}], c)
      BY <1>1, <2>4 DEF OneByOne
    <3>2. cs \ {c} \in SUBSET calls /\ Cardinality(cs \ {c}) = n - 1 /\ n - 1 \in Nat
      <4>1. cs \ {c} \in SUBSET calls
        OBVIOUS
      <4>2. IsFiniteSet(cs) /\ Cardinality(cs \ {c}) \in Nat
        BY <1>2, <4>1
      <4>3. Cardinality(cs \ {c}) = Cardinality(cs) - 1
        BY <4>2, FS_RemoveElement
      <4> QED
        BY <2>2, <4>1, <4>2, <4>3
    <3>3. n - 1 \notin Bad
      BY <2>1, <3>2
    <3>4. Fades(w, one[cs \ {c}])
      BY <3>2, <3>3
    <3>5. Fades(one[cs \ {c}], one[cs])
      <4>1. Asks(one[cs \ {c}]) /\ c \in Call
        BY <3>4 DEF Fades
      <4> QED
        BY <3>1, <4>1, FailedFades
    <3>6. Fades(w, one[cs])
      BY <3>4, <3>5 DEF Fades
    <3> QED
      BY <2>2, <3>6
  <2> QED
    BY <2>3, <2>4
<1>4. Fades(w, one[calls])
  BY <1>2, <1>3
<1> QED
  BY <1>1, <1>4

-----------------------------------------------------------------------------
(* What is done to a connection, and whether it still sheds what was closed *)

\* c becomes d: well formed, and rid of whatever c would be rid of.
Loses(c, d) == OneJob(d) /\ Talks(d) /\ \A s : Sheds(c, s) => Sheds(d, s)

\* A connection with the same requests and no new subscription.
LEMMA Alike ==
    ASSUME NEW c, NEW d, OneJob(d), Talks(d), d.inbox = c.inbox, d.job = c.job,
           d.attached \subseteq c.attached
    PROVE  Loses(c, d)
  BY DEF Loses, Sheds

\* Frames that are sent change nothing else.
LEMMA Sending ==
    ASSUME NEW c, OneJob(c), Talks(c), NEW fs \in Seq(Frame)
    PROVE  /\ OneJob(Sent(c, fs)) /\ Talks(Sent(c, fs)) /\ Loses(c, Sent(c, fs))
           /\ Sent(c, fs).job = c.job /\ Sent(c, fs).inbox = c.inbox
           /\ Sent(c, fs).attached = c.attached
<1> DEFINE d == Sent(c, fs)
<1>1. OneJob(d) /\ d.job = c.job
  BY JobUntouched
<1>2. /\ d.inbox = c.inbox /\ d.attached = c.attached
      /\ d.out = c.out \/ d.out = c.out \o fs
  BY DEF Sent, OneJob, ConnectionFields
<1>3. Talks(d)
  <2> HIDE DEF d
  <2>1. c.out \in Seq(Frame)
    BY DEF Talks
  <2>2. c.out \o fs \in Seq(Frame)
    BY <2>1
  <2>3. d.out \in Seq(Frame)
    BY <1>2, <2>1, <2>2
  <2> QED
    BY <1>1, <1>2, <2>3 DEF Talks
<1> HIDE DEF d
<1>4. Loses(c, d)
  BY <1>1, <1>2, <1>3, Alike
<1> QED
  BY <1>1, <1>2, <1>3, <1>4 DEF d

\* A request that is no close is answered: what closes is still in the inbox.
LEMMA Answering ==
    ASSUME NEW c, OneJob(c), Talks(c), NEW f \in Frame,
           \A j \in c.job : j.call.op \notin CloseOps
    PROVE  Loses(c, Answer(c, f))
<1> DEFINE d == [c EXCEPT !.job = {}]
<1>1. OneJob(d) /\ d.job = {} /\ d.inbox = c.inbox /\ d.out = c.out /\ d.attached = c.attached
  BY DEF OneJob, ConnectionFields
<1>2. <<f>> \in Seq(Frame)
  OBVIOUS
<1>3. Answer(c, f) = Sent(d, <<f>>)
  BY DEF Answer
<1> HIDE DEF d
<1>4. Talks(d)
  BY <1>1 DEF Talks
<1>5. Loses(c, d)
  BY <1>1, <1>4 DEF Loses, Sheds, Closes
<1>6. Loses(d, Sent(d, <<f>>))
  BY <1>1, <1>2, <1>4, Sending
<1> QED
  BY <1>3, <1>5, <1>6 DEF Loses

\* Less is subscribed to.
LEMMA Unsubscribing ==
    ASSUME NEW c, OneJob(c), Talks(c), NEW ss
    PROVE  /\ Loses(c, Unsubscribed(c, ss)) /\ Unsubscribed(c, ss).job = c.job
           /\ Unsubscribed(c, ss).attached = c.attached \ ss
           /\ Unsubscribed(c, ss).inbox = c.inbox
<1> DEFINE d == Unsubscribed(c, ss)
<1>1. OneJob(d) /\ d.job = c.job
  BY JobUntouched
<1>2. d.inbox = c.inbox /\ d.out = c.out /\ d.attached = c.attached \ ss
  BY DEF Unsubscribed, OneJob, ConnectionFields
<1> HIDE DEF d
<1>3. Talks(d)
  BY <1>1, <1>2 DEF Talks
<1>4. Loses(c, d)
  BY <1>1, <1>2, <1>3, Alike
<1> QED
  BY <1>1, <1>2, <1>4 DEF d

\* The next step is a step of the same request.
LEMMA Advancing ==
    ASSUME NEW c, OneJob(c), Talks(c), NEW j \in c.job,
           NEW step \in Steps \ {"snapshot", "complete"},
           step \in CreateSteps => j.call.op = "create"
    PROVE  Loses(c, Goto(c, step))
<1> DEFINE d == Goto(c, step)
<1>1. PICK i \in d.job : i.step = step /\ i.call = j.call
  BY JobAdvanced
<1>2. OneJob(d)
  BY JobAdvanced
<1>3. d.job = {i} /\ c.job = {j}
  BY <1>1, <1>2 DEF OneJob
<1>4. d.inbox = c.inbox /\ d.out = c.out /\ d.attached = c.attached
  BY DEF Goto, OneJob, ConnectionFields
<1>5. i.alive = j.alive
  <2>1. i \in {[x EXCEPT !.step = step] : x \in c.job}
    BY <1>1 DEF Goto, OneJob, ConnectionFields
  <2>2. i = [j EXCEPT !.step = step]
    BY <1>3, <2>1
  <2> QED
    BY <2>2 DEF OneJob
<1> HIDE DEF d
<1>6. Talks(d)
  BY <1>1, <1>3, <1>4, <1>5 DEF Talks
<1>7. ASSUME NEW s, Sheds(c, s) PROVE Sheds(d, s)
  BY <1>1, <1>3, <1>4, <1>7 DEF Sheds
<1> QED
  BY <1>2, <1>6, <1>7 DEF Loses, d

\* Every connection gets rid of what it would have got rid of.
AllLose == DOMAIN conn' = DOMAIN conn /\ \A i \in DOMAIN conn : Loses(conn[i], conn'[i])

\* Connections change, and no view.
LEMMA Shedding ==
    ASSUME ClosedInv, view' = view, AllLose
    PROVE  /\ Wired' /\ DOMAIN view' = Views
           /\ \A i \in DOMAIN conn' : Talks(conn'[i])
           /\ \A v \in Views : Asks(view'[v]) /\ Retracted(view'[v], conn')
<1> USE DEF AllLose
<1>1. Wired'
  BY DEF ClosedInv, Wired
<1>2. ASSUME NEW v \in Views, NEW s \in view[v].tombs, view[v].conn # None
      PROVE  Sheds(conn'[view[v].conn], s)
  <2>1. view[v].conn \in DOMAIN conn /\ Sheds(conn[view[v].conn], s)
    BY <1>2 DEF ClosedInv, Wired, Retracted
  <2> QED
    BY <2>1 DEF Loses
<1> QED
  BY <1>1, <1>2 DEF ClosedInv, Retracted, Loses

\* Connection k becomes d.
Becomes(k, d) == conn' = [conn EXCEPT ![k] = d]

\* One connection changes.
LEMMA OneShed ==
    ASSUME ClosedInv, NEW k \in DOMAIN conn, NEW d, Loses(conn[k], d), Becomes(k, d)
    PROVE  AllLose
<1> USE DEF Becomes, AllLose
<1>1. ASSUME NEW i \in DOMAIN conn PROVE Loses(conn[i], conn'[i])
  <2>1. CASE i = k
    BY <2>1
  <2>2. CASE i # k
    <3>1. conn'[i] = conn[i] /\ OneJob(conn[i]) /\ Talks(conn[i])
      BY <2>2 DEF ClosedInv, PhantomInv, JobsOrdered
    <3> QED
      BY <3>1 DEF Loses
  <2> QED
    BY <2>1, <2>2
<1> QED
  BY <1>1

\* The connection c is at a step for its only request j.
Answers(c, j, step) ==
    /\ c.job = {j} /\ j.call \in Call /\ j.alive \in BOOLEAN
    /\ step \in CreateSteps => j.call.op = "create"
    /\ step \in CreateSteps \cup {"snapshot", "complete"} => j.call.op \notin CloseOps

\* That request, by the step.
LEMMA TheAnswered ==
    ASSUME ClosedInv, NEW k \in DOMAIN conn, NEW step, At(k, step)
    PROVE  \E j \in conn[k].job : Answers(conn[k], j, step) /\ CallOf(k) = j.call
<1>0. JobsOrdered /\ Talks(conn[k])
  BY DEF ClosedInv, PhantomInv
<1>1. PICK j \in conn[k].job : /\ j.step = step /\ conn[k].job = {j} /\ CallOf(k) = j.call
                              /\ (step \in CreateSteps => j.call.op = "create")
  BY <1>0, TheJob
<1>2. j.call \in Call /\ j.alive \in BOOLEAN
      /\ (step \in {"snapshot", "complete"} => j.call.op \notin CloseOps)
  BY <1>0, <1>1 DEF Talks
<1>3. "create" \notin CloseOps
  BY DEF CloseOps
<1> QED
  BY <1>1, <1>2, <1>3 DEF Answers

\* The steps of a reader thread.
LEMMA ReadersShed ==
    ASSUME ClosedInv, NEW k \in DOMAIN conn, ReaderStep(k)
    PROVE  AllLose
<1> DEFINE c == conn[k]
<1>0. OneJob(c) /\ Talks(c) /\ JobsOrdered
  BY DEF ClosedInv, PhantomInv, JobsOrdered
<1>1. ASSUME NEW d, Loses(c, d), Becomes(k, d) PROVE AllLose
  BY <1>1, OneShed
<1>2. ASSUME NEW step, At(k, step)
      PROVE  \E j \in c.job : Answers(c, j, step) /\ CallOf(k) = j.call
  BY <1>2, TheAnswered
<1>3. ASSUME NEW call \in Call, NEW ok \in BOOLEAN, NEW alive \in BOOLEAN
      PROVE  Reply(call, ok, alive) \in Frame
  BY DEF Reply, Frame
<1>4. ASSUME NEW step, At(k, step), NEW next \in Steps \ {"snapshot", "complete"},
             next \in CreateSteps => step \in CreateSteps,
             Becomes(k, Goto(c, next))
      PROVE  AllLose
  <2>0. PICK j \in c.job : Answers(c, j, step)
    BY <1>2, <1>4
  <2>1. step \in CreateSteps => j.call.op = "create"
    BY <2>0 DEF Answers
  <2>2. Loses(c, Goto(c, next))
    BY <1>0, <1>4, <2>1, Advancing
  <2> QED
    BY <1>1, <1>4, <2>2
<1>5. ASSUME NEW step, At(k, step), step \in CreateSteps \cup {"snapshot", "complete"},
             NEW ok \in BOOLEAN, NEW alive \in BOOLEAN,
             Becomes(k, Answer(c, Reply(CallOf(k), ok, alive)))
      PROVE  AllLose
  <2>0. PICK j \in c.job : Answers(c, j, step) /\ CallOf(k) = j.call
    BY <1>2, <1>5
  <2>1. c.job = {j} /\ j.call \in Call /\ j.call.op \notin CloseOps
    BY <1>5, <2>0 DEF Answers
  <2>2. Loses(c, Answer(c, Reply(CallOf(k), ok, alive)))
    <3>1. Reply(CallOf(k), ok, alive) \in Frame
      BY <1>3, <1>5, <2>0, <2>1
    <3> QED
      BY <1>0, <2>1, <3>1, Answering
  <2> QED
    BY <1>1, <1>5, <2>2
<1>6. CASE Reserve(k)
  <2>1. At(k, "reserve") /\ "reserve" \in CreateSteps /\ "subscribe" \in Steps
    BY <1>6 DEF Reserve, CreateSteps, Steps, Becomes
  <2>2. \/ Becomes(k, Answer(c, Reply(CallOf(k), FALSE, FALSE)))
        \/ Becomes(k, Goto(c, "subscribe"))
    BY <1>6 DEF Reserve, Becomes
  <2> QED
    BY <1>4, <1>5, <2>1, <2>2
<1>7. CASE Spawn(k)
  <2>1. /\ At(k, "spawn") /\ "spawn" \in CreateSteps /\ "confirm" \in Steps
        /\ Becomes(k, Goto(c, "confirm"))
    BY <1>7 DEF Spawn, CreateSteps, Steps, Becomes
  <2> QED
    BY <1>4, <2>1
<1>8. CASE SpawnFails(k)
  <2>1. /\ At(k, "spawn") /\ "spawn" \in CreateSteps /\ "unreserve" \in Steps
        /\ Becomes(k, Goto(c, "unreserve"))
    BY <1>8 DEF SpawnFails, CreateSteps, Steps, Becomes
  <2> QED
    BY <1>4, <2>1
<1>9. CASE Unreserve(k)
  <2>1. /\ At(k, "unreserve") /\ "unreserve" \in CreateSteps /\ "unsubscribe" \in Steps
        /\ Becomes(k, Goto(c, "unsubscribe"))
    BY <1>9 DEF Unreserve, CreateSteps, Steps, Becomes
  <2> QED
    BY <1>4, <2>1
<1>10. CASE Kill(k)
  <2>1. /\ At(k, "kill") /\ "remove" \in Steps /\ "remove" \notin CreateSteps
        /\ Becomes(k, Goto(c, "remove"))
    BY <1>10 DEF Kill, CreateSteps, Steps, Becomes
  <2> QED
    BY <1>4, <2>1
<1>11. CASE Remove(k)
  <2>1. /\ At(k, "remove") /\ "detach" \in Steps /\ "detach" \notin CreateSteps
        /\ Becomes(k, Goto(c, "detach"))
    BY <1>11 DEF Remove, CreateSteps, Steps, Becomes
  <2> QED
    BY <1>4, <2>1
<1>12. CASE Confirm(k)
  <2>1. /\ At(k, "confirm") /\ "confirm" \in CreateSteps
        /\ Becomes(k, Answer(c, Reply(CallOf(k), entry[CallOf(k).s] # "none", TRUE)))
    BY <1>12 DEF Confirm, CreateSteps, Becomes
  <2> QED
    BY <1>5, <2>1
<1>13. CASE Take(k)
  <2> DEFINE call == Head(c.inbox)
             j == [step |-> FirstStep(call), call |-> call, alive |-> FALSE]
             d == [c EXCEPT !.inbox = Tail(@), !.job = {j}]
  <2>1. Becomes(k, d) /\ c.job = {} /\ c.inbox # <<>>
    BY <1>13 DEF Take, Becomes
  <2>2. /\ Tail(c.inbox) \in Seq(Call) /\ call \in Call
        /\ \A s : /\ Retracts(c.inbox, s) =>
                       Retracts(Tail(c.inbox), s) /\ (Subscribes(call, s) => Awaited(Tail(c.inbox), s))
                  /\ Awaited(c.inbox, s) => Closes(call, s) \/ Awaited(Tail(c.inbox), s)
    BY <1>0, <2>1, Taken DEF Talks
  <2>3. /\ DOMAIN d = ConnectionFields /\ d.inbox = Tail(c.inbox) /\ d.job = {j}
        /\ d.out = c.out /\ d.attached = c.attached
    BY <1>0 DEF OneJob, ConnectionFields
  <2>4. /\ j.step \in Steps /\ j.call = call /\ j.alive = FALSE
        /\ j.step \in CreateSteps => j.call.op = "create"
        /\ j.step \in {"snapshot", "complete"} => j.call.op \notin CloseOps
        /\ DOMAIN j = {"step", "call", "alive"}
    BY DEF FirstStep, Steps, CreateSteps
  <2> HIDE DEF d, j, call
  <2>5. OneJob(d) /\ Talks(d)
    BY <1>0, <2>2, <2>3, <2>4 DEF OneJob, Talks
  <2>6. ASSUME NEW s, Sheds(c, s) PROVE Sheds(d, s)
    <3>1. /\ Retracts(d.inbox, s)
          /\ \A i \in d.job : Subscribes(i.call, s) => Awaited(d.inbox, s)
      BY <2>2, <2>3, <2>4, <2>6 DEF Sheds
    <3>2. s \in d.attached => Awaited(d.inbox, s) \/ \E i \in d.job : Closes(i.call, s)
      BY <2>1, <2>2, <2>3, <2>4, <2>6 DEF Sheds
    <3> QED
      BY <3>1, <3>2 DEF Sheds
  <2> QED
    BY <1>1, <2>1, <2>5, <2>6 DEF Loses
<1>14. CASE HangUp(k)
  <2> DEFINE d == [c EXCEPT !.handle = FALSE, !.attached = {}, !.barrier = {}, !.held = {}]
  <2>1. Becomes(k, d)
    BY <1>14 DEF HangUp, Becomes
  <2>2. /\ DOMAIN d = DOMAIN c /\ d.job = c.job /\ d.inbox = c.inbox /\ d.out = c.out
        /\ d.attached = {}
    BY <1>0 DEF OneJob, ConnectionFields
  <2> HIDE DEF d
  <2>3. OneJob(d) /\ Talks(d)
    BY <1>0, <2>2 DEF OneJob, Talks
  <2>4. Loses(c, d)
    BY <2>2, <2>3, Alike
  <2> QED
    BY <1>1, <2>1, <2>4
<1>15. CASE Subscribe(k)
  <2>0. PICK j \in c.job : Answers(c, j, "subscribe") /\ CallOf(k) = j.call
    BY <1>2, <1>15 DEF Subscribe
  <2>1. /\ c.job = {j} /\ CallOf(k) = j.call /\ j.call.op = "create"
        /\ j.call \in Call /\ j.call.op \notin CloseOps
    BY <2>0 DEF Answers, CreateSteps
  <2> DEFINE u == Unsubscribed(c, {j.call.s})
             d == Subscribed(c, j.call.s)
  <2>2. /\ OneJob(u) /\ Talks(u) /\ u.job = c.job /\ u.inbox = c.inbox
        /\ u.attached = c.attached \ {j.call.s}
    BY <1>0, Unsubscribing DEF Loses
  <2>3. d = [u EXCEPT !.attached = @ \cup {j.call.s}]
    BY DEF Subscribed
  <2> HIDE DEF u
  <2>4. /\ DOMAIN d = DOMAIN u /\ d.job = u.job /\ d.inbox = u.inbox /\ d.out = u.out
        /\ d.attached = u.attached \cup {j.call.s}
    BY <2>2, <2>3 DEF OneJob, ConnectionFields
  <2> HIDE DEF d
  <2>5. OneJob(d) /\ Talks(d)
    BY <2>2, <2>4 DEF OneJob, Talks
  <2>6. ASSUME NEW s, Sheds(c, s) PROVE Sheds(d, s)
    <3>1. s = j.call.s => Awaited(c.inbox, s)
      BY <2>1, <2>6 DEF Sheds, Subscribes
    <3> QED
      BY <2>2, <2>4, <2>6, <3>1 DEF Sheds
  <2>7. Loses(d, Goto(d, "spawn"))
    <3>1. j \in d.job /\ "spawn" \in Steps \ {"snapshot", "complete"}
      BY <2>1, <2>2, <2>4 DEF Steps
    <3> QED
      BY <2>1, <2>5, <3>1, Advancing
  <2>8. Loses(c, Goto(d, "spawn"))
    BY <2>5, <2>6, <2>7 DEF Loses
  <2>9. Becomes(k, Goto(d, "spawn"))
    BY <1>15, <2>1 DEF Subscribe, d, Becomes
  <2> QED
    BY <1>1, <2>8, <2>9
<1>16. CASE Unsubscribe(k)
  <2>0. PICK j \in c.job : Answers(c, j, "unsubscribe") /\ CallOf(k) = j.call
    BY <1>2, <1>16 DEF Unsubscribe
  <2>1. /\ c.job = {j} /\ CallOf(k) = j.call
        /\ j.call \in Call /\ j.call.op \notin CloseOps
    BY <2>0 DEF Answers, CreateSteps
  <2> DEFINE u == Unsubscribed(c, {j.call.s})
             f == Reply(j.call, FALSE, FALSE)
  <2>2. OneJob(u) /\ Talks(u) /\ u.job = c.job /\ Loses(c, u)
    BY <1>0, Unsubscribing DEF Loses
  <2>3. Becomes(k, Answer(u, f))
    BY <1>16, <2>1 DEF Unsubscribe, Becomes
  <2>4. f \in Frame
    BY <1>3, <2>1
  <2> HIDE DEF u, f
  <2>5. Loses(u, Answer(u, f))
    BY <2>1, <2>2, <2>4, Answering
  <2>6. Loses(c, Answer(u, f))
    BY <2>2, <2>5 DEF Loses
  <2> QED
    BY <1>1, <2>3, <2>6
<1>17. CASE Detach(k)
  <2>0. PICK j \in c.job : Answers(c, j, "detach") /\ CallOf(k) = j.call
    BY <1>2, <1>17 DEF Detach
  <2>1. c.job = {j} /\ CallOf(k) = j.call /\ j.call \in Call
    BY <2>0 DEF Answers
  <2> DEFINE ss == Targets(j.call)
             f == Reply(j.call, TRUE, FALSE)
             u == Unsubscribed(c, ss)
             d == Answer(u, f)
  <2>2. /\ DOMAIN conn' = DOMAIN conn /\ conn'[k] = d
        /\ \A i \in DOMAIN conn \ {k} : conn'[i] = Unsubscribed(conn[i], ss)
    BY <1>17, <2>1 DEF Detach
  <2>3. ASSUME NEW i \in DOMAIN conn \ {k} PROVE Loses(conn[i], conn'[i])
    <3>1. OneJob(conn[i]) /\ Talks(conn[i])
      BY DEF ClosedInv, PhantomInv, JobsOrdered
    <3> QED
      BY <2>2, <3>1, Unsubscribing
  <2>4. Loses(c, d)
    <3> DEFINE e == [u EXCEPT !.job = {}]
    <3>1. /\ OneJob(u) /\ Talks(u) /\ u.job = c.job /\ u.inbox = c.inbox
          /\ u.attached = c.attached \ ss
      BY <1>0, Unsubscribing DEF Loses
    <3>2. f \in Frame
      BY <1>3, <2>1
    <3>3. d = Sent(e, <<f>>)
      BY DEF Answer
    <3> HIDE DEF f
    <3>8. <<f>> \in Seq(Frame)
      BY <3>2
    <3> HIDE DEF u, d, ss
    <3>4. OneJob(e) /\ e.job = {} /\ e.inbox = u.inbox /\ e.out = u.out /\ e.attached = u.attached
      BY <3>1 DEF OneJob, ConnectionFields
    <3> HIDE DEF e
    <3>5. Talks(e)
      BY <3>1, <3>4 DEF Talks
    <3>6. ASSUME NEW s, Sheds(c, s) PROVE Sheds(e, s)
      <4>1. Closes(j.call, s) => s \in ss
        BY DEF Closes, ss
      <4> QED
        BY <2>1, <3>1, <3>4, <3>6, <4>1 DEF Sheds
    <3>7. Loses(e, Sent(e, <<f>>))
      BY <3>4, <3>5, <3>8, Sending
    <3> QED
      BY <3>3, <3>5, <3>6, <3>7 DEF Loses
  <2> HIDE DEF d, ss
  <2> QED
    BY <2>2, <2>3, <2>4 DEF AllLose
<1>18. CASE Snapshot(k)
  <2>0. PICK j \in c.job : Answers(c, j, "snapshot") /\ CallOf(k) = j.call
    BY <1>2, <1>18 DEF Snapshot
  <2>1. /\ c.job = {j} /\ CallOf(k) = j.call
        /\ j.call \in Call /\ j.call.op \notin CloseOps
    BY <2>0 DEF Answers
  <2> DEFINE s0 == j.call.s
             live == entry[s0] = "alive"
             i == [step |-> "complete", call |-> j.call, alive |-> live]
             d == Barred(c, j.call, live)
  <2>2. CASE entry[s0] = "none"
    <3>1. Becomes(k, Answer(c, Reply(CallOf(k), FALSE, FALSE)))
      BY <1>18, <2>1, <2>2 DEF Snapshot, Becomes
    <3> QED
      BY <1>5, <1>18, <3>1 DEF Snapshot
  <2>3. CASE entry[s0] # "none"
    <3>1. Becomes(k, d)
      BY <1>18, <2>1, <2>3 DEF Snapshot, Becomes
    <3>2. /\ DOMAIN d = ConnectionFields /\ d.job = {i} /\ d.inbox = c.inbox /\ d.out = c.out
          /\ d.attached = c.attached \cup {s0}
      BY <1>0 DEF Barred, OneJob, ConnectionFields
    <3>3. /\ i.step = "complete" /\ i.call = j.call /\ i.alive \in BOOLEAN
          /\ DOMAIN i = {"step", "call", "alive"}
          /\ "complete" \in Steps /\ "complete" \notin CreateSteps
      BY DEF Steps, CreateSteps
    <3> HIDE DEF d, i
    <3>4. OneJob(d) /\ Talks(d)
      BY <1>0, <2>1, <3>2, <3>3 DEF OneJob, Talks
    <3>5. ASSUME NEW s, Sheds(c, s) PROVE Sheds(d, s)
      <4>1. s = s0 => Awaited(c.inbox, s)
        BY <2>1, <3>5 DEF Sheds, Subscribes
      <4>2. s \in d.attached => Awaited(c.inbox, s)
        BY <2>1, <3>2, <3>5, <4>1 DEF Sheds, Closes
      <4> QED
        BY <2>1, <3>2, <3>3, <3>5, <4>2 DEF Sheds
    <3>6. Loses(c, d)
      BY <3>4, <3>5 DEF Loses
    <3> QED
      BY <1>1, <3>1, <3>6
  <2> QED
    BY <2>2, <2>3
<1>19. CASE Complete(k)
  <2>0. PICK j \in c.job : Answers(c, j, "complete")
    BY <1>2, <1>19 DEF Complete
  <2>1. /\ c.job = {j} /\ j.call \in Call /\ j.alive \in BOOLEAN
        /\ j.call.op \notin CloseOps
    BY <2>0 DEF Answers
  <2> DEFINE s0 == j.call.s
             d == Unbarred(c, s0)
             fs == <<Reply(j.call, TRUE, j.alive)>>
                       \o (IF s0 \in c.held THEN <<Exit(s0)>> ELSE <<>>)
  <2>2. (CHOOSE x \in c.job : TRUE) = j
    BY <2>1
  <2>3. Becomes(k, Sent(d, fs))
    BY <1>19, <2>2 DEF Complete, Becomes
  <2>4. fs \in Seq(Frame)
    <3> DEFINE f == Reply(j.call, TRUE, j.alive)
               g == Exit(s0)
    <3>1. f \in Frame
      BY <1>3, <2>1
    <3>2. g \in Frame
      BY <2>1 DEF Exit, Frame, Call
    <3> HIDE DEF f, g
    <3>3. <<f>> \o (IF s0 \in c.held THEN <<g>> ELSE <<>>) \in Seq(Frame)
      BY <3>1, <3>2
    <3> QED
      BY <3>3 DEF f, g
  <2>5. /\ DOMAIN d = ConnectionFields /\ d.job = {} /\ d.inbox = c.inbox /\ d.out = c.out
        /\ d.attached = c.attached
    BY <1>0 DEF Unbarred, OneJob, ConnectionFields
  <2> HIDE DEF d, fs
  <2>6. OneJob(d) /\ Talks(d)
    BY <1>0, <2>5 DEF OneJob, Talks
  <2>7. ASSUME NEW s, Sheds(c, s) PROVE Sheds(d, s)
    BY <2>1, <2>5, <2>7 DEF Sheds, Closes
  <2>8. Loses(d, Sent(d, fs))
    BY <2>4, <2>6, Sending
  <2>9. Loses(c, Sent(d, fs))
    BY <2>7, <2>8 DEF Loses
  <2> QED
    BY <1>1, <2>3, <2>9
<1> QED
  BY <1>6, <1>7, <1>8, <1>9, <1>10, <1>11, <1>12, <1>13, <1>14, <1>15, <1>16, <1>17,
     <1>18, <1>19 DEF ReaderStep, AllLose

-----------------------------------------------------------------------------
(* The steps of a view *)

\* What is to be shown of a view's step, apart from the jobs.
Kept ==
    /\ Wired' /\ DOMAIN view' = Views
    /\ \A i \in DOMAIN conn' : Talks(conn'[i])
    /\ \A v \in Views : Asks(view'[v]) /\ Retracted(view'[v], conn')

\* A step of one view that changes no connection but its own.
LEMMA OneViewSteps ==
    ASSUME ClosedInv, NEW v \in Views, NEW u,
           view' = [view EXCEPT ![v] = u], Asks(u),
           DOMAIN conn \subseteq DOMAIN conn',
           u.conn = None \/ u.conn = view[v].conn \/ u.conn \in DOMAIN conn' \ DOMAIN conn,
           view[v].conn \in DOMAIN conn' \cup {None},
           \A i \in DOMAIN conn : i # view[v].conn => conn'[i] = conn[i],
           \A i \in DOMAIN conn' : i \notin DOMAIN conn \/ i = view[v].conn => Talks(conn'[i]),
           Retracted(u, conn')
    PROVE  Kept
<1>1. /\ DOMAIN view' = Views /\ view'[v] = u
      /\ \A x \in Views \ {v} : view'[x] = view[x]
  BY DEF ClosedInv
<1>2. \A x \in Views : view[x].conn \in {None} \cup DOMAIN conn
  BY DEF ClosedInv, Wired
<1>3. \A x, y \in Views : view[x].conn = view[y].conn /\ view[x].conn # None => x = y
  BY DEF ClosedInv, Wired
<1>4. Wired'
  <2>1. ASSUME NEW x \in Views PROVE view'[x].conn \in {None} \cup DOMAIN conn'
    BY <1>1, <1>2
  <2>2. ASSUME NEW x \in Views, NEW y \in Views, view'[x].conn = view'[y].conn,
               view'[x].conn # None, x # y
        PROVE  FALSE
    <3>1. CASE x # v /\ y # v
      BY <1>1, <1>3, <2>2, <3>1
    <3>2. CASE x = v
      BY <1>1, <1>2, <1>3, <2>2, <3>2
    <3>3. CASE y = v
      BY <1>1, <1>2, <1>3, <2>2, <3>3
    <3> QED
      BY <3>1, <3>2, <3>3
  <2> QED
    BY <2>1, <2>2 DEF Wired
<1>5. ASSUME NEW i \in DOMAIN conn' PROVE Talks(conn'[i])
  BY DEF ClosedInv
<1>6. ASSUME NEW x \in Views PROVE Asks(view'[x]) /\ Retracted(view'[x], conn')
  <2>1. CASE x = v
    BY <1>1, <2>1
  <2>2. CASE x # v
    <3>1. view'[x] = view[x] /\ Asks(view[x]) /\ Retracted(view[x], conn)
      BY <1>1, <2>2 DEF ClosedInv
    <3>2. view[x].conn # None => conn'[view[x].conn] = conn[view[x].conn]
      BY <1>2, <1>3, <2>2
    <3> QED
      BY <3>1, <3>2 DEF Retracted
  <2> QED
    BY <2>1, <2>2
<1> QED
  BY <1>1, <1>4, <1>5, <1>6 DEF Kept

\* A request that a view makes: none for what it has closed, but the close itself.
LEMMA Making ==
    ASSUME ClosedInv, NEW v \in Views, NEW w, NEW call \in Call, Make(v, w, call),
           Asks(w), w.conn = view[v].conn, w.unsent = view[v].unsent,
           \A s \in w.tombs : \/ s \in view[v].tombs /\ ~Subscribes(call, s)
                              \/ Closes(call, s)
    PROVE  Kept
<1> DEFINE u == Requested(w, call)
           k == w.conn
<1>1. view' = [view EXCEPT ![v] = u] /\ conn' = Carried(w, call)
  BY DEF Make
<1>2. w.unsent \in Seq(Call)
  BY DEF Asks
<1>3. \A s \in view[v].tombs : Retracts(w.unsent, s) /\ (k # None => Sheds(conn[k], s))
  BY DEF ClosedInv, Retracted
<1>4. k \in {None} \cup DOMAIN conn
  BY DEF ClosedInv, Wired
<1>5. CASE k = None
  <2> DEFINE q == Append(w.unsent, call)
  <2>1. u = [w EXCEPT !.unsent = q] /\ conn' = conn
    BY <1>1, <1>5 DEF Requested, Carried
  <2>2. /\ DOMAIN u = ViewFields /\ u.conn = None /\ u.unsent = q /\ u.tombs = w.tombs
        /\ u.attached = w.attached /\ u.pending = w.pending
    BY <1>5, <2>1 DEF Asks, ViewFields
  <2> HIDE DEF u
  <2>3. q \in Seq(Call) /\ \A s \in w.tombs : Retracts(q, s)
    BY <1>2, <1>3, Appended
  <2> HIDE DEF q
  <2>4. Asks(u) /\ Retracted(u, conn')
    BY <2>2, <2>3 DEF Asks, Retracted
  <2>5. \A i \in DOMAIN conn' : Talks(conn'[i])
    BY <2>1 DEF ClosedInv
  <2>6. u.conn = None /\ DOMAIN conn' = DOMAIN conn /\ view[v].conn = None
    BY <1>5, <2>1, <2>2
  <2> QED
    BY <1>1, <2>1, <2>4, <2>5, <2>6, OneViewSteps
<1>6. CASE k # None
  <2> DEFINE c == conn[k]
             d == [c EXCEPT !.inbox = Append(@, call)]
             q == Append(c.inbox, call)
             p == w.pending \cup {call}
  <2>1. u = [w EXCEPT !.pending = p] /\ conn' = [conn EXCEPT ![k] = d]
    BY <1>1, <1>6 DEF Requested, Carried
  <2>2. /\ DOMAIN u = ViewFields /\ u.conn = k /\ u.unsent = w.unsent /\ u.tombs = w.tombs
        /\ u.attached = w.attached /\ u.pending = p
    BY <2>1 DEF Asks, ViewFields
  <2>3. IsFiniteSet(p) /\ p \subseteq Call
    BY FS_AddElement DEF Asks
  <2>4. k \in DOMAIN conn /\ OneJob(c) /\ Talks(c)
    BY <1>4, <1>6 DEF ClosedInv, PhantomInv, JobsOrdered
  <2>5. /\ d.inbox = q /\ d.job = c.job /\ d.out = c.out /\ d.attached = c.attached
    BY <2>4 DEF OneJob, ConnectionFields
  <2>6. DOMAIN conn' = DOMAIN conn /\ conn'[k] = d
        /\ \A i \in DOMAIN conn \ {k} : conn'[i] = conn[i]
    BY <2>1, <2>4
  <2>7. c.inbox \in Seq(Call)
    BY <2>4 DEF Talks
  <2> HIDE DEF u, d, c, p
  <2>8. /\ q \in Seq(Call)
        /\ \A s : /\ Retracts(c.inbox, s) /\ ~Subscribes(call, s) => Retracts(q, s)
                  /\ Closes(call, s) => Retracts(q, s) /\ Awaited(q, s)
                  /\ Awaited(c.inbox, s) => Awaited(q, s)
    BY <2>7, Appended
  <2> HIDE DEF q
  <2>9. Talks(d)
    BY <2>4, <2>5, <2>8 DEF Talks
  <2>10. ASSUME NEW s \in w.tombs PROVE Sheds(d, s)
    <3>1. CASE Closes(call, s)
      <4>1. Retracts(q, s) /\ Awaited(q, s)
        BY <2>8, <3>1
      <4> QED
        BY <2>5, <4>1 DEF Sheds
    <3>2. CASE ~Closes(call, s)
      <4>1. s \in view[v].tombs /\ ~Subscribes(call, s)
        BY <3>2
      <4>2. Sheds(c, s)
        BY <1>3, <1>6, <4>1 DEF c
      <4>3. Retracts(q, s) /\ (Awaited(c.inbox, s) => Awaited(q, s))
        BY <2>8, <4>1, <4>2 DEF Sheds
      <4> QED
        BY <2>5, <4>2, <4>3 DEF Sheds
    <3> QED
      BY <3>1, <3>2
  <2>11. Asks(u)
    BY <2>2, <2>3, <1>2 DEF Asks
  <2>12. Retracted(u, conn')
    <3>1. w.unsent = <<>> /\ \A s : Retracts(w.unsent, s)
      BY <1>6, NothingAsked DEF ClosedInv, Retracted
    <3> QED
      BY <2>2, <2>6, <2>10, <3>1 DEF Retracted
  <2>13. \A i \in DOMAIN conn' : i = k => Talks(conn'[i])
    BY <2>6, <2>9
  <2> QED
    BY <1>1, <2>2, <2>4, <2>6, <2>11, <2>12, <2>13, OneViewSteps
<1> QED
  BY <1>5, <1>6

\* The calls of the user.
LEMMA UsersKeep ==
    ASSUME ClosedInv, NEW v \in Views,
           CloseAll(v) \/ \E s \in Sessions : Create(v, s) \/ Close(v, s) \/ Attach(v, s)
    PROVE  Kept
<1> DEFINE w == view[v]
<1>0. Asks(w)
  BY DEF ClosedInv
<1>1. ASSUME NEW s \in Sessions, NEW op \in Ops
      PROVE  LET call == [op |-> op, s |-> s]
             IN  call \in Call /\ call.op = op /\ call.s = s
  BY DEF Call
<1>2. ASSUME NEW s \in Sessions, Create(v, s) PROVE Kept
  <2> DEFINE u == [w EXCEPT !.tombs = @ \ {s}, !.attached = @ \cup {s}, !.show[s] = "opening"]
             call == [op |-> "create", s |-> s]
  <2>1. Make(v, u, call)
    BY <1>2 DEF Create
  <2>2. call \in Call /\ call.op = "create" /\ call.s = s
    BY <1>1 DEF Ops
  <2>3. /\ DOMAIN u = ViewFields /\ u.attached = w.attached \cup {s} /\ u.pending = w.pending
        /\ u.tombs = w.tombs \ {s} /\ u.conn = w.conn /\ u.unsent = w.unsent
    BY <1>0 DEF Asks, ViewFields
  <2> HIDE DEF u, call
  <2>4. Asks(u)
    BY <1>0, <2>3 DEF Asks
  <2>5. \A t \in u.tombs : t \in w.tombs /\ ~Subscribes(call, t)
    BY <2>2, <2>3 DEF Subscribes
  <2> QED
    BY <2>1, <2>2, <2>3, <2>4, <2>5, Making
<1>3. ASSUME NEW s \in Sessions, Attach(v, s) PROVE Kept
  <2> DEFINE u == [w EXCEPT !.attached = @ \cup {s}, !.show[s] = "opening"]
             call == [op |-> "attach", s |-> s]
  <2>1. Make(v, u, call) /\ s \notin w.tombs
    BY <1>3 DEF Attach
  <2>2. call \in Call /\ call.op = "attach" /\ call.s = s
    BY <1>1 DEF Ops
  <2>3. /\ DOMAIN u = ViewFields /\ u.attached = w.attached \cup {s} /\ u.pending = w.pending
        /\ u.tombs = w.tombs /\ u.conn = w.conn /\ u.unsent = w.unsent
    BY <1>0 DEF Asks, ViewFields
  <2> HIDE DEF u, call
  <2>4. Asks(u)
    BY <1>0, <2>3 DEF Asks
  <2>5. \A t \in u.tombs : t \in w.tombs /\ ~Subscribes(call, t)
    BY <2>1, <2>2, <2>3 DEF Subscribes
  <2> QED
    BY <2>1, <2>2, <2>3, <2>4, <2>5, Making
<1>4. ASSUME NEW s \in Sessions, Close(v, s) PROVE Kept
  <2> DEFINE x == ClearSession(w, {s})
             u == [x EXCEPT !.tombs = @ \cup {s}, !.show[s] = "closed"]
             call == [op |-> "close", s |-> s]
  <2>1. Make(v, u, call)
    BY <1>4 DEF Close
  <2>2. call \in Call /\ call.op = "close" /\ call.s = s
    BY <1>1 DEF Ops
  <2>3. /\ Asks(x) /\ x.tombs = w.tombs /\ x.conn = w.conn
        /\ x.unsent = w.unsent /\ x.pending = w.pending
    BY <1>0, Clearing
  <2> HIDE DEF x
  <2>4. /\ DOMAIN u = ViewFields /\ u.attached = x.attached /\ u.pending = x.pending
        /\ u.tombs = x.tombs \cup {s} /\ u.conn = x.conn /\ u.unsent = x.unsent
    BY <2>3 DEF Asks, ViewFields
  <2> HIDE DEF u, call
  <2>5. Asks(u)
    BY <2>3, <2>4 DEF Asks
  <2>6. \A t \in u.tombs : (t \in w.tombs /\ ~Subscribes(call, t)) \/ Closes(call, t)
    BY <2>2, <2>3, <2>4 DEF Subscribes, Closes, CloseOps, Targets
  <2> QED
    BY <2>1, <2>2, <2>3, <2>4, <2>5, <2>6, Making
<1>5. ASSUME CloseAll(v) PROVE Kept
  <2> DEFINE x == ClearSession(w, w.attached)
             s == CHOOSE s \in Sessions : TRUE
             shown == [t \in Sessions |-> IF t \in w.attached THEN "closed" ELSE x.show[t]]
             u == [x EXCEPT !.tombs = @ \cup w.attached, !.got = {}, !.show = shown]
             call == [op |-> "close_all", s |-> s]
  <2>0. w.attached # {} /\ w.attached \subseteq Sessions
    BY <1>0, <1>5 DEF CloseAll, Asks
  <2>1. s \in Sessions
    BY <2>0
  <2>2. /\ Asks(x) /\ x.tombs = w.tombs /\ x.conn = w.conn
        /\ x.unsent = w.unsent /\ x.pending = w.pending
    BY <1>0, Clearing
  <2>3. Make(v, u, call)
    BY <1>5 DEF CloseAll
  <2>4. call \in Call /\ call.op = "close_all"
    BY <1>1, <2>1 DEF Ops
  <2> HIDE DEF x, shown
  <2>5. /\ DOMAIN u = ViewFields /\ u.attached = x.attached /\ u.pending = x.pending
        /\ u.tombs = x.tombs \cup w.attached /\ u.conn = x.conn /\ u.unsent = x.unsent
    BY <2>2 DEF Asks, ViewFields
  <2> HIDE DEF u, call
  <2>6. Asks(u)
    BY <2>2, <2>5 DEF Asks
  <2>7. \A t \in u.tombs : (t \in w.tombs /\ ~Subscribes(call, t)) \/ Closes(call, t)
    BY <2>0, <2>2, <2>4, <2>5 DEF Subscribes, Closes, CloseOps, Targets
  <2> QED
    BY <2>2, <2>3, <2>4, <2>5, <2>6, <2>7, Making
<1> QED
  BY <1>2, <1>3, <1>4, <1>5

\* The body of the reconnect loop.
LEMMA ReattachKeeps ==
    ASSUME ClosedInv, NEW v \in Views, NEW s \in Sessions, Reattach(v, s)
    PROVE  Kept
<1> DEFINE w == view[v]
           next == [w EXCEPT !.due = @ \ {s}]
<1>0. Asks(w) /\ Retracted(w, conn) /\ \A i \in DOMAIN conn : Talks(conn[i])
  BY DEF ClosedInv
<1>1. /\ DOMAIN next = ViewFields /\ next.attached = w.attached /\ next.pending = w.pending
      /\ next.tombs = w.tombs /\ next.conn = w.conn /\ next.unsent = w.unsent
  BY <1>0 DEF Asks, ViewFields
<1>2. CASE s \in w.tombs
  <2>1. view' = [view EXCEPT ![v] = next] /\ conn' = conn
    BY <1>2 DEF Reattach
  <2> HIDE DEF next
  <2>2. Asks(next) /\ Retracted(next, conn')
    BY <1>0, <1>1, <2>1 DEF Asks, Retracted
  <2>3. view[v].conn \in {None} \cup DOMAIN conn
    BY DEF ClosedInv, Wired
  <2> QED
    BY <1>0, <1>1, <2>1, <2>2, <2>3, OneViewSteps
<1>3. CASE s \notin w.tombs
  <2> DEFINE u == [next EXCEPT !.attached = @ \cup {s}]
             call == [op |-> "reattach", s |-> s]
  <2>1. Make(v, u, call)
    BY <1>3 DEF Reattach
  <2>2. call \in Call /\ call.op = "reattach" /\ call.s = s
    BY DEF Call, Ops
  <2>3. /\ DOMAIN u = ViewFields /\ u.attached = w.attached \cup {s} /\ u.pending = w.pending
        /\ u.tombs = w.tombs /\ u.conn = w.conn /\ u.unsent = w.unsent
    BY <1>1 DEF ViewFields
  <2> HIDE DEF u, call
  <2>4. Asks(u)
    BY <1>0, <2>3 DEF Asks
  <2>5. \A t \in u.tombs : t \in w.tombs /\ ~Subscribes(call, t)
    BY <1>3, <2>2, <2>3 DEF Subscribes
  <2> QED
    BY <2>1, <2>2, <2>3, <2>4, <2>5, Making
<1> QED
  BY <1>2, <1>3

\* A frame arrives.  Only a create that failed without a tombstone asks for more.
LEMMA ReceiveKeeps ==
    ASSUME ClosedInv, NEW v \in Views, Receive(v)
    PROVE  Kept
<1> DEFINE w == view[v]
           k == w.conn
           c == conn[k]
           f == Head(c.out)
           d == [c EXCEPT !.out = Tail(@)]
<1>0. /\ Asks(w) /\ Retracted(w, conn) /\ k # None /\ k \in DOMAIN conn /\ c.out # <<>>
      /\ OneJob(c) /\ Talks(c)
  BY DEF ClosedInv, Wired, PhantomInv, JobsOrdered, Receive
<1>1. f \in Frame /\ Tail(c.out) \in Seq(Frame)
  BY <1>0 DEF Talks
<1>2. /\ d.inbox = c.inbox /\ d.job = c.job /\ d.attached = c.attached /\ DOMAIN d = DOMAIN c
      /\ d.out = Tail(c.out)
  BY <1>0 DEF OneJob, ConnectionFields
<1>3. OneJob(d) /\ Talks(d)
  <2> HIDE DEF d, c
  <2> QED
    BY <1>0, <1>1, <1>2 DEF OneJob, Talks
<1>4. Loses(c, d)
  <2> HIDE DEF d, c
  <2> QED
    BY <1>2, <1>3, Alike
<1>5. ASSUME NEW u, Fades(w, u), view' = [view EXCEPT ![v] = u], Becomes(k, d)
      PROVE  Kept
  <2>1. /\ Asks(u) /\ u.conn = k /\ u.tombs = w.tombs /\ u.unsent = w.unsent
    BY <1>0, <1>5 DEF Fades
  <2>2. /\ DOMAIN conn' = DOMAIN conn /\ conn'[k] = d
        /\ \A i \in DOMAIN conn \ {k} : conn'[i] = conn[i]
    BY <1>0, <1>5 DEF Becomes
  <2>3. \A s \in w.tombs : Retracts(w.unsent, s) /\ Sheds(d, s)
    BY <1>0, <1>4 DEF Retracted, Loses
  <2> HIDE DEF d
  <2>4. Retracted(u, conn')
    BY <1>0, <2>1, <2>2, <2>3 DEF Retracted
  <2> QED
    BY <1>0, <1>3, <1>5, <2>1, <2>2, <2>4, OneViewSteps
<1>6. CASE f.kind = "exit"
  <2> DEFINE u == [w EXCEPT !.got = IF f.s \in w.tombs THEN @ ELSE @ \cup {f.s}]
  <2>1. view' = [view EXCEPT ![v] = u] /\ Becomes(k, d)
    BY <1>6 DEF Receive, Becomes
  <2>2. /\ DOMAIN u = DOMAIN w /\ u.attached = w.attached /\ u.pending = w.pending
        /\ u.tombs = w.tombs /\ u.conn = w.conn /\ u.unsent = w.unsent
    BY <1>0 DEF Asks, ViewFields
  <2> HIDE DEF u, d, c
  <2>3. Fades(w, u)
    BY <1>0, <2>2, Keeping DEF Asks
  <2> QED
    BY <1>5, <2>1, <2>3
<1> DEFINE done == [w EXCEPT !.pending = @ \ {f.call}]
<1>7. CASE f.kind # "exit"
  <2>1. f.call \in Call
    BY <1>1, <1>7 DEF Frame
  <2>2. /\ DOMAIN done = ViewFields /\ done.attached = w.attached
        /\ done.pending = w.pending \ {f.call} /\ IsFiniteSet(done.pending)
        /\ done.tombs = w.tombs /\ done.conn = w.conn /\ done.unsent = w.unsent
    <3>1. IsFiniteSet(w.pending \ {f.call})
      BY <1>0, FS_Subset DEF Asks
    <3> QED
      BY <1>0, <3>1 DEF Asks, ViewFields
  <2>3. Fades(w, done) /\ Asks(done)
    <3> HIDE DEF done
    <3> QED
      BY <1>0, <2>2 DEF Fades, Asks
  <2>4. CASE f.ok
    <3> DEFINE u == Succeeded(done, f)
    <3>1. view' = [view EXCEPT ![v] = u] /\ Becomes(k, d)
      BY <1>7, <2>4 DEF Receive, Becomes
    <3> HIDE DEF done
    <3>2. /\ DOMAIN u = DOMAIN done /\ u.attached = done.attached /\ u.pending = done.pending
          /\ u.tombs = done.tombs /\ u.conn = done.conn /\ u.unsent = done.unsent
      BY <2>2 DEF Succeeded, ViewFields
    <3> HIDE DEF u, d, c
    <3>3. Fades(done, u)
      BY <2>3, <3>2, Keeping DEF Asks
    <3>4. Fades(w, u)
      BY <2>3, <3>3 DEF Fades
    <3> QED
      BY <1>5, <3>1, <3>4
  <2>5. CASE ~f.ok
    <3> DEFINE u == Failed(done, f.call)
               probe == [f.call EXCEPT !.op = "probe"]
               e == [d EXCEPT !.inbox = Append(@, probe)]
    <3>1. Fades(w, u)
      <4>1. Fades(done, u)
        BY <2>1, <2>3, FailedFades
      <4> QED
        BY <2>3, <4>1 DEF Fades
    <3>2. view' = [view EXCEPT ![v] = u]
      BY <1>7, <2>5 DEF Receive
    <3>3. CASE ~(f.call.op = "create" /\ f.call.s \notin w.tombs)
      <4>1. Becomes(k, d)
        BY <1>7, <2>5, <3>3 DEF Receive, Becomes
      <4> HIDE DEF u, d, c
      <4> QED
        BY <1>5, <3>1, <3>2, <4>1
    <3>4. CASE f.call.op = "create" /\ f.call.s \notin w.tombs
      <4>1. conn' = [[conn EXCEPT ![k] = d] EXCEPT ![k].inbox = Append(@, probe)]
        BY <1>7, <2>5, <3>4 DEF Receive
      <4>2. /\ DOMAIN conn' = DOMAIN conn /\ conn'[k] = e
            /\ \A i \in DOMAIN conn \ {k} : conn'[i] = conn[i]
        <5> HIDE DEF d, probe, c
        <5> QED
          BY <1>0, <4>1
      <4>3. probe \in Call /\ probe.s = f.call.s /\ probe.op = "probe"
        BY <2>1 DEF Call, Ops
      <4> HIDE DEF probe, u, d, c
      <4>4. d.inbox \in Seq(Call)
        BY <1>3 DEF Talks
      <4>5. /\ DOMAIN e = DOMAIN d /\ e.inbox = Append(d.inbox, probe) /\ e.job = d.job
            /\ e.out = d.out /\ e.attached = d.attached
        BY <1>3 DEF OneJob, ConnectionFields
      <4>6. /\ e.inbox \in Seq(Call)
            /\ \A s : /\ Retracts(d.inbox, s) /\ ~Subscribes(probe, s) => Retracts(e.inbox, s)
                      /\ Awaited(d.inbox, s) => Awaited(e.inbox, s)
        BY <4>3, <4>4, <4>5, Appended
      <4> HIDE DEF e
      <4>7. Talks(e)
        BY <1>3, <4>5, <4>6 DEF Talks
      <4>8. ASSUME NEW s \in w.tombs PROVE Retracts(w.unsent, s) /\ Sheds(e, s)
        <5>1. Retracts(w.unsent, s) /\ Sheds(d, s)
          BY <1>0, <1>4 DEF Retracted, Loses, c
        <5>2. ~Subscribes(probe, s)
          BY <3>4, <4>3 DEF Subscribes
        <5> QED
          BY <4>5, <4>6, <5>1, <5>2 DEF Sheds
      <4>9. Asks(u) /\ u.conn = k /\ u.tombs = w.tombs /\ u.unsent = w.unsent
        BY <1>0, <3>1 DEF Fades
      <4>10. Retracted(u, conn')
        BY <1>0, <4>2, <4>8, <4>9 DEF Retracted
      <4> QED
        BY <1>0, <3>2, <4>2, <4>7, <4>9, <4>10, OneViewSteps
    <3> QED
      BY <3>3, <3>4
  <2> QED
    BY <2>4, <2>5
<1> QED
  BY <1>6, <1>7

\* The connection breaks: the view lets go of it, and what it asks for again waits for
\* another one.
LEMMA CutKeeps ==
    ASSUME ClosedInv, NEW v \in Views, Cut(v)
    PROVE  Kept
<1> DEFINE w == view[v]
           k == w.conn
           c == conn[k]
           alone == [w EXCEPT !.conn = None, !.pending = {}]
           off == FailedAll(alone, w.pending)
           u == [off EXCEPT !.timer = @ \/ off.attached # {}]
<1>0. /\ Asks(w) /\ Retracted(w, conn) /\ k # None /\ k \in DOMAIN conn
      /\ OneJob(c) /\ Talks(c)
  BY DEF ClosedInv, Wired, PhantomInv, JobsOrdered, Cut
<1>1. view' = [view EXCEPT ![v] = u]
  BY DEF Cut
<1>2. PICK n \in 0..Len(c.inbox) :
          conn' = [conn EXCEPT ![k].open = FALSE, ![k].out = <<>>, ![k].inbox = SubSeq(@, 1, n)]
  BY DEF Cut
<1> DEFINE d == [c EXCEPT !.open = FALSE, !.out = <<>>, !.inbox = SubSeq(@, 1, n)]
<1>3. /\ DOMAIN conn' = DOMAIN conn /\ conn'[k] = d
      /\ \A i \in DOMAIN conn \ {k} : conn'[i] = conn[i]
  BY <1>0, <1>2
<1>4. Talks(d)
  <2>1. d.job = c.job /\ d.inbox = SubSeq(c.inbox, 1, n) /\ d.out = <<>>
    BY <1>0 DEF OneJob, ConnectionFields
  <2> HIDE DEF d, c
  <2>2. c.inbox \in Seq(Call)
    BY <1>0 DEF Talks
  <2>3. SubSeq(c.inbox, 1, n) \in Seq(Call)
    BY <1>2, <2>2
  <2> QED
    BY <1>0, <2>1, <2>3 DEF Talks
<1>5. /\ DOMAIN alone = ViewFields /\ alone.attached = w.attached /\ alone.pending = {}
      /\ alone.tombs = w.tombs /\ alone.conn = None /\ alone.unsent = w.unsent
  BY <1>0 DEF Asks, ViewFields
<1>6. Asks(alone) /\ \A s \in alone.tombs : Retracts(alone.unsent, s)
  <2> HIDE DEF alone
  <2> QED
    BY <1>0, <1>5, FS_EmptySet DEF Asks, Retracted
<1>7. Fades(alone, off)
  <2>1. w.pending \in SUBSET Call /\ IsFiniteSet(w.pending)
    BY <1>0 DEF Asks
  <2> HIDE DEF alone
  <2> QED
    BY <1>6, <2>1, FailedAllFades
<1> HIDE DEF alone, off
<1>8. Asks(off)
  BY <1>7 DEF Fades
<1>9. /\ DOMAIN u = DOMAIN off /\ u.attached = off.attached /\ u.pending = off.pending
      /\ u.tombs = off.tombs /\ u.conn = off.conn /\ u.unsent = off.unsent
  BY <1>8 DEF Asks, ViewFields
<1> HIDE DEF u, d
<1>10. Fades(off, u)
  BY <1>8, <1>9, Keeping DEF Asks
<1>11. Asks(u) /\ u.conn = None /\ u.tombs = alone.tombs
       /\ \A s \in u.tombs : Retracts(u.unsent, s)
  BY <1>5, <1>6, <1>7, <1>10 DEF Fades
<1>12. Retracted(u, conn')
  BY <1>11 DEF Retracted
<1> QED
  BY <1>0, <1>1, <1>3, <1>4, <1>11, <1>12, OneViewSteps

\* No connection opens: what waited for it is refused.
LEMMA ConnectFailsKeeps ==
    ASSUME ClosedInv, NEW v \in Views, ConnectFails(v)
    PROVE  Kept
<1> DEFINE w == view[v]
           probed(i) == IF w.unsent[i].op = "create" THEN [w.unsent[i] EXCEPT !.op = "probe"]
                        ELSE w.unsent[i]
           calls == {probed(i) : i \in 1..Len(w.unsent)}
           x == [w EXCEPT !.unsent = <<>>]
           u == FailedAll(x, calls)
<1>0. Asks(w) /\ w.conn = None /\ \A i \in DOMAIN conn : Talks(conn[i])
  BY DEF ClosedInv, ConnectFails
<1>1. view' = [view EXCEPT ![v] = u] /\ conn' = conn
  BY DEF ConnectFails
<1>2. w.unsent \in Seq(Call) /\ Len(w.unsent) \in Nat
  BY <1>0 DEF Asks
<1>3. calls \in SUBSET Call
  <2>1. ASSUME NEW i \in 1..Len(w.unsent) PROVE probed(i) \in Call
    <3>1. w.unsent[i] \in Call
      BY <1>2
    <3> QED
      BY <3>1 DEF Call, Ops
  <2> HIDE DEF probed
  <2> QED
    BY <2>1
<1>4. IsFiniteSet(calls)
  <2>1. IsFiniteSet(1..Len(w.unsent))
    BY <1>2, FS_Interval
  <2> DEFINE g == [i \in 1..Len(w.unsent) |-> probed(i)]
  <2> HIDE DEF probed
  <2>2. g \in Surjection(1..Len(w.unsent), calls)
    BY DEF Surjection
  <2> HIDE DEF g, calls
  <2> QED
    BY <2>1, <2>2, FS_Surjection
<1>5. /\ DOMAIN x = ViewFields /\ x.attached = w.attached /\ x.pending = w.pending
      /\ x.tombs = w.tombs /\ x.conn = None /\ x.unsent = <<>>
  BY <1>0 DEF Asks, ViewFields
<1> HIDE DEF calls, x
<1>6. Asks(x) /\ \A s \in x.tombs : Retracts(x.unsent, s)
  BY <1>0, <1>5, NothingAsked DEF Asks
<1>7. Fades(x, u)
  BY <1>3, <1>4, <1>6, FailedAllFades
<1> HIDE DEF u
<1>8. Asks(u) /\ u.conn = None /\ \A s \in u.tombs : Retracts(u.unsent, s)
  BY <1>5, <1>6, <1>7 DEF Fades
<1>9. Retracted(u, conn')
  BY <1>8 DEF Retracted
<1> QED
  BY <1>0, <1>1, <1>8, <1>9, OneViewSteps

\* A connection opens: nothing is subscribed to on it, and what waited for it goes out.
LEMMA OnlineKeeps ==
    ASSUME ClosedInv, NEW v \in Views, NEW loop \in BOOLEAN, view[v].conn = None,
           Online(v, loop)
    PROVE  Kept
<1> DEFINE w == view[v]
           k == Cardinality(DOMAIN conn) + 1
           sent == {w.unsent[i] : i \in 1..Len(w.unsent)}
           new == NewConnection(v, w.unsent)
<1>0. /\ Asks(w) /\ Retracted(w, conn) /\ w.unsent \in Seq(Call)
      /\ \A i \in DOMAIN conn : Talks(conn[i])
  BY DEF ClosedInv, Asks
<1>1. k \in Nat \ {0} /\ k \notin DOMAIN conn
  <2>1. PICK n \in Nat : DOMAIN conn = 1..n
    BY DEF ClosedInv, PhantomInv, JobsOrdered
  <2>2. Cardinality(1..n) = n
    BY <2>1, FS_Interval
  <2> QED
    BY <2>1, <2>2
<1> DEFINE u == [w EXCEPT !.conn = k, !.unsent = <<>>, !.pending = sent,
                          !.timer = @ /\ ~loop,
                          !.due = IF loop THEN w.attached \ w.tombs ELSE @]
<1>2. view' = [view EXCEPT ![v] = u]
  <2>1. view' = [view EXCEPT ![v].conn = k, ![v].unsent = <<>>, ![v].pending = sent,
                        ![v].timer = @ /\ ~loop,
                        ![v].due = IF loop THEN w.attached \ w.tombs ELSE @]
    BY DEF Online
  <2> HIDE DEF sent, k
  <2> QED
    BY <2>1 DEF ClosedInv
<1>3. /\ DOMAIN conn' = DOMAIN conn \cup {k} /\ conn'[k] = new
      /\ \A i \in DOMAIN conn : conn'[i] = conn[i]
  <2>1. conn' = [i \in DOMAIN conn \cup {k} |-> IF i = k THEN new ELSE conn[i]]
    BY DEF Online
  <2> HIDE DEF k, new
  <2> QED
    BY <1>1, <2>1
<1>4. sent \subseteq Call /\ IsFiniteSet(sent)
  <2> DEFINE q == w.unsent
             g == [i \in 1..Len(q) |-> q[i]]
  <2>1. Len(q) \in Nat /\ \A i \in 1..Len(q) : q[i] \in Call
    BY <1>0
  <2>2. IsFiniteSet(1..Len(q))
    BY <2>1, FS_Interval
  <2> HIDE DEF q
  <2>3. g \in Surjection(1..Len(q), {q[i] : i \in 1..Len(q)})
    BY DEF Surjection
  <2>4. IsFiniteSet({q[i] : i \in 1..Len(q)})
    BY <2>2, <2>3, FS_Surjection
  <2> QED
    BY <2>1, <2>4 DEF q
<1>5. /\ new.inbox = w.unsent /\ new.job = {} /\ new.out = <<>> /\ new.attached = {}
  BY DEF NewConnection
<1> HIDE DEF new, sent, k
<1>6. Talks(new)
  BY <1>0, <1>5 DEF Talks
<1>7. /\ DOMAIN u = ViewFields /\ u.attached = w.attached /\ u.pending = sent
      /\ u.tombs = w.tombs /\ u.conn = k /\ u.unsent = <<>>
  BY <1>0 DEF Asks, ViewFields
<1> HIDE DEF u
<1>8. Asks(u)
  BY <1>0, <1>4, <1>7, NothingAsked DEF Asks
<1>9. \A s \in w.tombs : Retracts(<<>>, s) /\ Sheds(new, s)
  BY <1>0, <1>5, NothingAsked DEF Retracted, Sheds
<1>10. Retracted(u, conn')
  BY <1>3, <1>7, <1>9 DEF Retracted
<1>11. u.conn \in DOMAIN conn' \ DOMAIN conn
  BY <1>1, <1>3, <1>7
<1>12. \A i \in DOMAIN conn' : i \notin DOMAIN conn => i = k
  BY <1>3
<1>13. \A i \in DOMAIN conn' : Talks(conn'[i])
  BY <1>0, <1>3, <1>6
<1> QED
  BY <1>2, <1>3, <1>8, <1>10, <1>11, <1>13, OneViewSteps

\* The steps a view takes by itself.
LEMMA ViewsKeep ==
    ASSUME ClosedInv, NEW v \in Views, ViewStep(v)
    PROVE  Kept
<1>1. CASE Receive(v)
  BY <1>1, ReceiveKeeps
<1>2. CASE Connect(v)
  BY <1>2, OnlineKeeps DEF Connect
<1>3. CASE Reconnect(v)
  <2>1. CASE view[v].conn = None /\ view[v].attached \ view[v].tombs # {}
    BY <1>3, <2>1, OnlineKeeps DEF Reconnect
  <2>2. CASE ~(view[v].conn = None /\ view[v].attached \ view[v].tombs # {})
    <3> DEFINE w == view[v]
               u == [w EXCEPT !.timer = FALSE, !.due = w.attached \ w.tombs]
    <3>0. /\ Asks(w) /\ Retracted(w, conn) /\ \A i \in DOMAIN conn : Talks(conn[i])
          /\ w.conn \in {None} \cup DOMAIN conn
      BY DEF ClosedInv, Wired
    <3>1. conn' = conn /\ view' = [view EXCEPT ![v].timer = FALSE, ![v].due = w.attached \ w.tombs]
      BY <1>3, <2>2 DEF Reconnect
    <3>2. view' = [view EXCEPT ![v] = u]
      BY <3>1 DEF ClosedInv
    <3>3. /\ DOMAIN u = ViewFields /\ u.attached = w.attached /\ u.pending = w.pending
          /\ u.tombs = w.tombs /\ u.conn = w.conn /\ u.unsent = w.unsent
      BY <3>0 DEF Asks, ViewFields
    <3> HIDE DEF u
    <3>4. Asks(u) /\ Retracted(u, conn')
      BY <3>0, <3>1, <3>3 DEF Asks, Retracted
    <3> QED
      BY <3>0, <3>1, <3>2, <3>3, <3>4, OneViewSteps
  <2> QED
    BY <2>1, <2>2
<1>4. ASSUME NEW s \in Sessions, Reattach(v, s) PROVE Kept
  BY <1>4, ReattachKeeps
<1> QED
  BY <1>1, <1>2, <1>3, <1>4 DEF ViewStep

\* The report of a process's end only sends or holds back a frame.
LEMMA SinksShed ==
    ASSUME ClosedInv, NEW s \in Sessions, ProcessEnds(s) \/ SinkStep(s)
    PROVE  view' = view /\ AllLose
<1>1. ASSUME NEW i \in DOMAIN conn PROVE OneJob(conn[i]) /\ Talks(conn[i])
  BY DEF ClosedInv, PhantomInv, JobsOrdered
<1>2. CASE conn' = conn /\ view' = view
  BY <1>1, <1>2, Alike DEF AllLose
<1>3. CASE PushExit(s)
  <2> DEFINE held(c) == [c EXCEPT !.held = @ \cup {s}]
  <2>1. /\ DOMAIN conn' = DOMAIN conn /\ view' = view
        /\ \A i \in DOMAIN conn :
              conn'[i] \in {conn[i], held(conn[i]), Sent(conn[i], <<Exit(s)>>)}
    BY <1>3 DEF PushExit
  <2>2. <<Exit(s)>> \in Seq(Frame)
    <3>1. Exit(s) \in Frame
      BY DEF Exit, Frame
    <3> QED
      BY <3>1
  <2>3. ASSUME NEW c, OneJob(c), Talks(c)
        PROVE  Loses(c, c) /\ Loses(c, held(c)) /\ Loses(c, Sent(c, <<Exit(s)>>))
    <3>1. Loses(c, c)
      BY <2>3, Alike
    <3>2. /\ DOMAIN held(c) = DOMAIN c /\ held(c).inbox = c.inbox /\ held(c).job = c.job
          /\ held(c).out = c.out /\ held(c).attached = c.attached
      BY <2>3 DEF OneJob, ConnectionFields
    <3> HIDE DEF held
    <3>3. OneJob(held(c)) /\ Talks(held(c))
      BY <2>3, <3>2 DEF OneJob, Talks
    <3>4. Loses(c, held(c))
      BY <3>2, <3>3, Alike
    <3>5. Loses(c, Sent(c, <<Exit(s)>>))
      BY <2>2, <2>3, Sending
    <3> QED
      BY <3>1, <3>4, <3>5
  <2> HIDE DEF held
  <2>4. \A i \in DOMAIN conn : Loses(conn[i], conn'[i])
    BY <1>1, <2>1, <2>3
  <2> QED
    BY <2>1, <2>4 DEF AllLose
<1> QED
  BY <1>2, <1>3 DEF ProcessEnds, SinkStep, MarkExited, Govern

\* Every step preserves the invariant.
LEMMA ClosedStep == ClosedInv /\ [Next]_vars => ClosedInv'
<1> SUFFICES ASSUME ClosedInv, [Next]_vars PROVE ClosedInv'
  OBVIOUS
<1>0. PhantomInv'
  BY PhantomStep DEF ClosedInv
<1>1. ASSUME Kept PROVE ClosedInv'
  BY <1>0, <1>1 DEF Kept, ClosedInv
<1>2. ASSUME view' = view, AllLose PROVE ClosedInv'
  BY <1>1, <1>2, Shedding DEF Kept
<1>3. ASSUME NEW v \in Views,
             CloseAll(v) \/ \E s \in Sessions : Create(v, s) \/ Close(v, s) \/ Attach(v, s)
      PROVE  ClosedInv'
  BY <1>1, <1>3, UsersKeep
<1>4. ASSUME NEW v \in Views, ViewStep(v) PROVE ClosedInv'
  BY <1>1, <1>4, ViewsKeep
<1>5. ASSUME NEW v \in Views, Cut(v) \/ ConnectFails(v) PROVE ClosedInv'
  BY <1>1, <1>5, CutKeeps, ConnectFailsKeeps
<1>6. ASSUME NEW k \in DOMAIN conn, ReaderStep(k) PROVE ClosedInv'
  <2>1. view' = view
    BY <1>6 DEF ReaderStep, Take, HangUp, Reserve, Subscribe, Spawn, SpawnFails, Confirm,
                Unreserve, Unsubscribe, Kill, Remove, Detach, Snapshot, Complete
  <2> QED
    BY <1>2, <1>6, <2>1, ReadersShed
<1>7. ASSUME NEW s \in Sessions, ProcessEnds(s) \/ SinkStep(s) PROVE ClosedInv'
  BY <1>2, <1>7, SinksShed
<1>8. CASE UNCHANGED vars
  <2>1. AllLose /\ view' = view
    BY <1>8, Alike DEF vars, AllLose, ClosedInv, PhantomInv, JobsOrdered
  <2> QED
    BY <1>2, <2>1
<1> QED
  BY <1>3, <1>4, <1>5, <1>6, <1>7, <1>8, LifecycleConstants DEF Next

\* A session that a view has closed is not subscribed to on the view's connection, unless
\* its close is still to be answered there: no reconnect, probe or request under way
\* brings a closed session back, however connections break and requests fail.
THEOREM ClosedStayDetached == Spec => []ClosedGetsDetached
<1>1. Init => ClosedInv
  <2> SUFFICES ASSUME Init PROVE ClosedInv
    OBVIOUS
  <2>1. PhantomInv
    BY PhantomAtFirst
  <2>2. DOMAIN conn = {}
    BY DEF Init
  <2>3. \A v \in Views : view[v] = NewView
    BY DEF Init
  <2>4. /\ DOMAIN NewView = ViewFields /\ NewView.conn = None /\ NewView.tombs = {}
        /\ NewView.attached = {} /\ NewView.pending = {} /\ NewView.unsent = <<>>
    BY DEF NewView, ViewFields
  <2>5. Asks(NewView) /\ Retracted(NewView, conn)
    BY <2>4, NothingAsked, FS_EmptySet DEF Asks, Retracted
  <2>6. Wired /\ DOMAIN view = Views
    BY <2>3, <2>4 DEF Wired, Init
  <2> QED
    BY <2>1, <2>2, <2>3, <2>5, <2>6 DEF ClosedInv
<1>2. ClosedInv /\ [Next]_vars => ClosedInv'
  BY ClosedStep
<1>3. ClosedInv => ClosedGetsDetached
  <2> SUFFICES ASSUME ClosedInv, NEW v \in Views, NEW s \in view[v].tombs,
                      view[v].conn # None, s \in conn[view[v].conn].attached
               PROVE  \/ Awaited(conn[view[v].conn].inbox, s)
                      \/ \E j \in conn[view[v].conn].job : Closes(j.call, s)
    BY DEF ClosedGetsDetached, Awaited, Closes
  <2>1. Sheds(conn[view[v].conn], s)
    BY DEF ClosedInv, Retracted
  <2> QED
    BY <2>1 DEF Sheds
<1> QED
  BY <1>1, <1>2, <1>3, PTL DEF Spec
=============================================================================
