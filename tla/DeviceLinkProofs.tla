--------------------------- MODULE DeviceLinkProofs ---------------------------
(***************************************************************************)
(* The reservation of the frame in flight, the stay of acknowledged frames *)
(* and the order in which the server hears of frames, for every number of  *)
(* sessions and of pushes, any limit of the outbox, and connections broken *)
(* and pairings cleared at any time.                                       *)
(***************************************************************************)
EXTENDS DeviceLink, DeviceOutboxProofs

\* The frames pushed so far.
Pushes == [kind: PushKinds, of: Sessions, n: 1..born]

\* What the server has heard and is about to hear on this connection.
Heard == got \o wire

\* f has to be heard before g.
Precedes(f, g) ==
    f.n < g.n /\ "error" \notin {f.kind, g.kind}
              /\ (f.kind = "output" /\ g.kind = "output" => f.of = g.of)

\* Frames that are no errors wait in the order they were pushed.
Sorted(b) ==
    \A i, j \in 1..Len(b.entries) :
        i < j /\ b.entries[i].frame.kind # "error" /\ b.entries[j].frame.kind # "error"
            => b.entries[i].frame.n < b.entries[j].frame.n

\* Every entry marked as sent is in S.
MarkedIn(b, S) == \A i \in 1..Len(b.entries) : b.entries[i].sent => b.entries[i].frame \in S

\* Whatever precedes the p-th frame heard and may yet be heard was heard before it.
Orderly(h, S) ==
    \A p \in 1..Len(h), f \in S \cup Range(h) :
        Precedes(f, h[p]) => \E k \in 1..(p - 1) : h[k] = f

Shape ==
    /\ born \in Nat
    /\ OutboxOf(box, Pushes)
    /\ got \in Seq(Pushes) /\ wire \in Seq(Pushes) /\ acks \in Seq(Pushes)
    /\ worker \in {"waiting", "reading", "sending", "retired"}

\* The reserved entry, and who may have one.
Reservation ==
    /\ worker = "sending" => Reserved(box, holding) /\ holding \in Range(Heard)
    /\ worker = "reading" => box.selected = 0
    /\ clearing => worker \in {"waiting", "retired"}

\* An answer is about a frame that arrived.
Answered == Range(acks) \subseteq Range(got)

\* While a worker is connected, what is marked went out on its connection or before.
InOrder ==
    /\ Sorted(box)
    /\ worker \in {"reading", "sending"} => MarkedIn(box, Range(Heard))
    /\ Orderly(Heard, Held(box))

LinkInv == Shape /\ Reservation /\ Answered /\ KeptUntilStored /\ InOrder

-----------------------------------------------------------------------------
(* The order of the outbox *)

LEMMA OrderFollows ==
    ASSUME NEW F, NEW b, OutboxOf(b, F), NEW d, OutboxOf(d, F), NEW S, Follows(b, d, S)
    PROVE  /\ Sorted(b) => Sorted(d)
           /\ \A T : MarkedIn(b, T) => MarkedIn(d, T \cup S)
<1>1. PICK q \in [1..Len(d.entries) -> 1..Len(b.entries)] :
        /\ \A i, j \in 1..Len(d.entries) : i < j => q[i] < q[j]
        /\ \A k \in 1..Len(d.entries) :
              /\ d.entries[k].frame = b.entries[q[k]].frame
              /\ d.entries[k].sent => b.entries[q[k]].sent \/ d.entries[k].frame \in S
  BY DEF Follows
<1>2. Sorted(b) => Sorted(d)
  BY <1>1 DEF Sorted
<1>3. \A T : MarkedIn(b, T) => MarkedIn(d, T \cup S)
  BY <1>1 DEF MarkedIn
<1> QED
  BY <1>2, <1>3

\* A new frame goes behind the frames that must be heard before it.
LEMMA OrderPushed ==
    ASSUME NEW F, NEW b, OutboxOf(b, F), NEW f \in F, \A g \in Held(b) : g.n < f.n, Sorted(b)
    PROVE  /\ Sorted(Pushed(b, f))
           /\ \A T : MarkedIn(b, T) => MarkedIn(Pushed(b, f), T)
<1> DEFINE p == Prepared(b, f)
           d == Pushed(b, f)
           entry == [frame |-> f, sent |-> FALSE]
<1>1. /\ OutboxOf(p, F) /\ Follows(b, p, {})
  BY PushLeaves
<1>2. /\ OutboxOf(d, F)
      /\ \/ ~Admits(b, f) /\ d = p
         \/ Admits(b, f) /\ f.kind = "error" /\ d.entries = <<entry>> \o p.entries
         \/ Admits(b, f) /\ f.kind # "error" /\ d.entries = Append(p.entries, entry)
  BY Pushing
<1>3. entry.frame = f /\ entry.sent = FALSE /\ entry \in Entries(F)
  BY DEF Entries
<1> HIDE DEF p, d, entry
<1>4. Sorted(p) /\ \A T : MarkedIn(b, T) => MarkedIn(p, T \cup {})
  BY <1>1, OrderFollows
<1>5. \A i \in 1..Len(p.entries) : p.entries[i].frame.n < f.n
  <2>1. Held(p) \subseteq Held(b)
    BY <1>1, FollowsHeld
  <2>2. \A i \in DOMAIN p.entries : p.entries[i].frame \in Held(p)
    BY <1>1, HeldInside
  <2>3. DOMAIN p.entries = 1..Len(p.entries)
    BY <1>1 DEF OutboxOf
  <2> QED
    BY <2>1, <2>2, <2>3
<1>6. p.entries \in Seq(Entries(F)) /\ Len(p.entries) \in Nat
  BY <1>1 DEF OutboxOf
<1> HIDE DEF Entries
<1>7. CASE d = p
  BY <1>4, <1>7 DEF d, MarkedIn
<1>8. CASE f.kind = "error" /\ d.entries = <<entry>> \o p.entries
  <2>1. /\ Len(d.entries) = Len(p.entries) + 1 /\ d.entries[1] = entry
        /\ \A k \in 1..(Len(p.entries) + 1) :
              k # 1 => k - 1 \in 1..Len(p.entries) /\ d.entries[k] = p.entries[k - 1]
    <3>1. /\ Len(d.entries) = Len(p.entries) + 1 /\ d.entries[1] = entry
          /\ \A i \in 1..Len(p.entries) : d.entries[i + 1] = p.entries[i]
      BY <1>3, <1>6, <1>8
    <3> QED
      BY <1>6, <3>1
  <2>2. Sorted(d)
    <3> SUFFICES ASSUME NEW i \in 1..Len(d.entries), NEW j \in 1..Len(d.entries), i < j,
                        d.entries[i].frame.kind # "error", d.entries[j].frame.kind # "error"
                 PROVE  d.entries[i].frame.n < d.entries[j].frame.n
      BY DEF Sorted
    <3>1. i # 1 /\ j # 1
      BY <1>3, <1>8, <2>1
    <3>2. /\ i - 1 \in 1..Len(p.entries) /\ d.entries[i] = p.entries[i - 1]
          /\ j - 1 \in 1..Len(p.entries) /\ d.entries[j] = p.entries[j - 1]
      BY <2>1, <3>1
    <3> QED
      BY <1>4, <1>6, <3>2 DEF Sorted
  <2>3. \A T : MarkedIn(p, T) => MarkedIn(d, T)
    BY <1>3, <2>1 DEF MarkedIn
  <2> QED
    BY <1>4, <2>2, <2>3 DEF d
<1>9. CASE d.entries = Append(p.entries, entry)
  <2>1. /\ Len(d.entries) = Len(p.entries) + 1 /\ d.entries[Len(p.entries) + 1] = entry
        /\ \A i \in 1..Len(p.entries) : d.entries[i] = p.entries[i]
    BY <1>3, <1>6, <1>9
  <2>2. \A k \in 1..(Len(p.entries) + 1) : k \in 1..Len(p.entries) \/ k = Len(p.entries) + 1
    BY <1>6
  <2>3. Sorted(d)
    <3> SUFFICES ASSUME NEW i \in 1..Len(d.entries), NEW j \in 1..Len(d.entries), i < j,
                        d.entries[i].frame.kind # "error", d.entries[j].frame.kind # "error"
                 PROVE  d.entries[i].frame.n < d.entries[j].frame.n
      BY DEF Sorted
    <3>1. i \in 1..Len(p.entries)
      BY <1>6, <2>1
    <3>2. CASE j = Len(p.entries) + 1
      BY <1>3, <1>5, <2>1, <3>1, <3>2
    <3>3. CASE j \in 1..Len(p.entries)
      BY <1>4, <2>1, <3>1, <3>3 DEF Sorted
    <3> QED
      BY <2>1, <2>2, <3>2, <3>3
  <2>4. \A T : MarkedIn(p, T) => MarkedIn(d, T)
    BY <1>3, <2>1, <2>2 DEF MarkedIn
  <2> QED
    BY <1>4, <2>3, <2>4 DEF d
<1> QED
  BY <1>2, <1>7, <1>8, <1>9

\* next_index: what precedes the frame chosen has been sent.
LEMMA NextInOrder ==
    ASSUME NEW F, NEW b, OutboxOf(b, F), \A g \in F : g.n \in Nat, Sorted(b),
           NextIndex(b) # 0, NEW i \in 1..Len(b.entries),
           Precedes(b.entries[i].frame, b.entries[NextIndex(b)].frame)
    PROVE  b.entries[i].sent
<1> DEFINE U == Unsent(b)
           first == Min(U)
           inRun(k) == \A j \in first..k : j \in U /\ b.entries[j].frame.kind = "output"
           others == {k \in first..Len(b.entries) : inRun(k) /\ b.entries[k].frame.of # b.turn}
           next == NextIndex(b)
           f == b.entries[i].frame
           g == b.entries[next].frame
<1>1. next = IF U = {} THEN 0 ELSE IF others = {} THEN first ELSE Min(others)
  BY DEF NextIndex
<1>2. /\ U \subseteq 1..Len(b.entries) /\ Len(b.entries) \in Nat /\ next \in 1..Len(b.entries)
      /\ \A k \in 1..Len(b.entries) : b.entries[k].sent \/ k \in U
      /\ \A k \in 1..Len(b.entries) : b.entries[k].frame.n \in Nat
  <2>1. DOMAIN b.entries = 1..Len(b.entries) /\ Len(b.entries) \in Nat
    BY DEF OutboxOf
  <2>2. next \in 1..Len(b.entries)
    BY <2>1, NextIsUnsent
  <2>3. \A k \in 1..Len(b.entries) : b.entries[k].frame.n \in Nat
    BY <2>1, HeldInside
  <2> QED
    BY <2>1, <2>2, <2>3 DEF Unsent
<1>3. /\ f.n < g.n /\ f.kind # "error" /\ g.kind # "error"
      /\ f.kind = "output" /\ g.kind = "output" => f.of = g.of
  BY DEF Precedes
<1>4. i < next
  <2>1. i # next
    BY <1>2, <1>3
  <2>2. CASE next < i
    <3>1. g.n < f.n
      BY <1>2, <1>3, <2>2 DEF Sorted
    <3> QED
      BY <1>2, <1>3, <3>1
  <2> QED
    BY <1>2, <2>1, <2>2
<1> SUFFICES ASSUME i \in U PROVE FALSE
  BY <1>2
<1>5. first \in U /\ \A m \in U : first <= m
  BY <1>2, LeastNatural
<1> HIDE DEF U, first
<1>6. others # {} /\ next = Min(others)
  <2> HIDE DEF others
  <2>1. first <= i /\ first \in Nat /\ i \in Nat /\ next \in Nat
    BY <1>2, <1>5
  <2>2. U # {} /\ next # first
    BY <1>4, <2>1
  <2> QED
    BY <1>1, <2>2
<1>7. others \subseteq Nat
  BY <1>2, <1>5
<1>8. next \in others /\ \A m \in others : next <= m
  BY <1>6, <1>7, LeastNatural
<1>9. /\ next \in first..Len(b.entries) /\ g.of # b.turn
      /\ \A j \in first..next : j \in U /\ b.entries[j].frame.kind = "output"
  BY <1>8
<1>10. i \in first..next /\ f.kind = "output" /\ next \in first..next
  BY <1>2, <1>4, <1>5, <1>9
<1>11. i \in others
  <2>1. i \in first..Len(b.entries) /\ f.of # b.turn
    BY <1>2, <1>3, <1>5, <1>9, <1>10
  <2>2. \A j \in first..i : j \in first..next
    BY <1>2, <1>4, <1>5
  <2> QED
    BY <1>9, <2>1, <2>2
<1> QED
  BY <1>2, <1>4, <1>8, <1>11

-----------------------------------------------------------------------------
(* The order in which frames are heard *)

LEMMA OrderlyLess ==
    ASSUME NEW h, NEW S, NEW T, Orderly(h, S), T \subseteq S \cup Range(h)
    PROVE  Orderly(h, T)
  BY DEF Orderly

LEMMA OrderlyPrefix ==
    ASSUME NEW E, NEW s \in Seq(E), NEW t \in Seq(E), NEW S, Orderly(s \o t, S)
    PROVE  Orderly(s, S)
<1> DEFINE h == s \o t
<1>1. /\ Len(s) \in Nat /\ Len(h) = Len(s) + Len(t) /\ Len(t) \in Nat
      /\ \A i \in 1..Len(s) : h[i] = s[i]
  OBVIOUS
<1>2. E # {} => Range(s) \subseteq Range(h)
  BY Ranges
<1>3. E = {} => Range(s) = {}
  BY DEF Range
<1> HIDE DEF h
<1>4. Orderly(h, S)
  BY DEF h
<1> SUFFICES ASSUME NEW p \in 1..Len(s), NEW f \in S \cup Range(s), Precedes(f, s[p])
             PROVE  \E k \in 1..(p - 1) : s[k] = f
  BY DEF Orderly
<1>5. p \in 1..Len(h) /\ h[p] = s[p] /\ f \in S \cup Range(h)
  BY <1>1, <1>2, <1>3
<1>6. PICK k \in 1..(p - 1) : h[k] = f
  BY <1>4, <1>5 DEF Orderly
<1> QED
  BY <1>1, <1>6

LEMMA OrderlyAppend ==
    ASSUME NEW E, \A e \in E : e.n \in Nat, NEW h \in Seq(E), NEW S, NEW g \in E, g \in S, Orderly(h, S),
           \A f \in S : Precedes(f, g) => f \in Range(h)
    PROVE  Orderly(Append(h, g), S)
<1> DEFINE a == Append(h, g)
<1>1. /\ Len(h) \in Nat /\ Len(a) = Len(h) + 1 /\ a[Len(h) + 1] = g
      /\ \A i \in 1..Len(h) : a[i] = h[i]
  OBVIOUS
<1>2. Range(a) = Range(h) \cup {g}
  BY Ranges
<1> HIDE DEF a
<1> SUFFICES ASSUME NEW p \in 1..Len(a), NEW f \in S \cup Range(a), Precedes(f, a[p])
             PROVE  \E k \in 1..(p - 1) : a[k] = f
  BY DEF Orderly, a
<1>3. f \in S \cup Range(h)
  BY <1>2
<1>4. CASE p \in 1..Len(h)
  <2>1. PICK k \in 1..(p - 1) : h[k] = f
    BY <1>1, <1>3, <1>4 DEF Orderly
  <2> QED
    BY <1>1, <1>4, <2>1
<1>5. CASE p = Len(h) + 1
  <2>1. f \in Range(h)
    BY <1>1, <1>3, <1>5
  <2>2. PICK k \in 1..Len(h) : h[k] = f
    BY <2>1 DEF Range
  <2> QED
    BY <1>1, <1>5, <2>2
<1> QED
  BY <1>1, <1>4, <1>5

\* The frame just pushed precedes nothing that was heard.
LEMMA OrderlyPushed ==
    ASSUME NEW E, NEW h \in Seq(E), NEW S, NEW T, NEW f, T \subseteq S \cup {f}, Orderly(h, S),
           \A e \in E : ~Precedes(f, e)
    PROVE  Orderly(h, T)
<1>1. \A p \in 1..Len(h) : h[p] \in E
  OBVIOUS
<1> QED
  BY <1>1 DEF Orderly

-----------------------------------------------------------------------------
(* The steps *)

LEMMA LinkStarts == Init => LinkInv
<1> SUFFICES ASSUME Init PROVE LinkInv
  OBVIOUS
<1>1. /\ born = 0 /\ worker = "waiting" /\ clearing = FALSE /\ handed = {}
      /\ got = <<>> /\ wire = <<>> /\ acks = <<>>
  BY DEF Init
<1>2. box = EmptyBox
  BY DEF Init
<1>3. OutboxOf(box, Pushes) /\ box.entries = <<>>
  BY <1>2, Emptied DEF EmptyBox
<1>4. Len(box.entries) = 0 /\ Heard = <<>> /\ Len(Heard) = 0
  BY <1>1, <1>3 DEF Heard
<1>5. Shape
  BY <1>1, <1>3 DEF Shape
<1>6. Reservation
  BY <1>1 DEF Reservation
<1>7. Answered
  BY <1>1 DEF Answered, Range
<1>8. KeptUntilStored
  BY <1>1 DEF KeptUntilStored
<1>9. InOrder
  BY <1>4 DEF InOrder, Sorted, MarkedIn, Orderly
<1> QED
  BY <1>5, <1>6, <1>7, <1>8, <1>9 DEF LinkInv

\* Frames of the past and of the next moment.
LEMMA PushesGrow ==
    ASSUME born \in Nat, born' \in Nat, born <= born'
    PROVE  Pushes \subseteq Pushes' /\ \A f \in Pushes : f.n \in Nat /\ f.n <= born
  BY DEF Pushes

LEMMA PushKeeps ==
    ASSUME LinkInv, NEW kind \in PushKinds, NEW session \in Sessions, Push(kind, session)
    PROVE  LinkInv'
<1> DEFINE f == [kind |-> kind, of |-> session, n |-> born + 1]
<1>0. Shape /\ Reservation /\ Answered /\ KeptUntilStored /\ InOrder
  BY DEF LinkInv
<1>1. /\ born' = born + 1 /\ box' = Pushed(box, f) /\ born \in Nat
      /\ gone \subseteq gone' /\ Held(box) \ Held(box') \subseteq gone'
      /\ UNCHANGED <<worker, holding, wire, acks, clearing, got, handed>>
  BY <1>0 DEF Push, Shape
<1>2. /\ Pushes \subseteq Pushes' /\ f \in Pushes'
      /\ \A g \in Pushes : g.n \in Nat /\ g.n <= born
  BY <1>1, PushesGrow DEF Pushes
<1>3. OutboxOf(box, Pushes') /\ OutboxOf(box, Pushes)
  BY <1>0, <1>2, OutboxGrows DEF Shape
<1>4. \A g \in Held(box) : g.n < f.n
  BY <1>1, <1>2, <1>3, HeldInside
<1>f. f.n = born + 1
  OBVIOUS
<1> HIDE DEF f
<1>5. /\ OutboxOf(box', Pushes') /\ Held(box') \subseteq Held(box) \cup {f}
      /\ box.selected = 0 => box'.selected = 0
      /\ \A g : Reserved(box, g) => Reserved(box', g)
  <2>1. OutboxOf(Pushed(box, f), Pushes')
    BY <1>2, <1>3, Pushing
  <2>2. /\ OutboxOf(Prepared(box, f), Pushes') /\ Follows(box, Prepared(box, f), {})
        /\ Held(Pushed(box, f)) \subseteq Held(Prepared(box, f)) \cup {f}
        /\ box.selected = 0 => Pushed(box, f).selected = 0
        /\ \A g : Reserved(box, g) => Reserved(Pushed(box, f), g)
    BY <1>2, <1>3, PushLeaves
  <2>3. Held(Prepared(box, f)) \subseteq Held(box)
    BY <1>3, <2>2, FollowsHeld
  <2> QED
    BY <1>1, <2>1, <2>2, <2>3
<1>6. Sorted(box') /\ \A T : MarkedIn(box, T) => MarkedIn(box', T)
  BY <1>0, <1>1, <1>2, <1>3, <1>4, OrderPushed DEF InOrder
<1>7. Shape'
  <2>1. got' \in Seq(Pushes') /\ wire' \in Seq(Pushes') /\ acks' \in Seq(Pushes')
    BY <1>0, <1>1, <1>2 DEF Shape
  <2> QED
    BY <1>0, <1>1, <1>5, <2>1 DEF Shape
<1>8. Reservation'
  BY <1>0, <1>1, <1>5 DEF Reservation, Heard
<1>9. Answered'
  BY <1>0, <1>1 DEF Answered
<1>10. KeptUntilStored'
  BY <1>0, <1>1 DEF KeptUntilStored
<1>11. InOrder'
  <2>1. Heard \in Seq(Pushes) /\ Heard' = Heard
    BY <1>0, <1>1 DEF Shape, Heard
  <2>2. \A e \in Pushes : ~Precedes(f, e)
    BY <1>1, <1>2, <1>f DEF Precedes
  <2>3. Orderly(Heard, Held(box'))
    BY <1>0, <1>5, <2>1, <2>2, OrderlyPushed DEF InOrder
  <2> QED
    BY <1>0, <1>1, <1>6, <2>1, <2>3 DEF InOrder
<1> QED
  BY <1>7, <1>8, <1>9, <1>10, <1>11 DEF LinkInv

LEMMA ConnectKeeps ==
    ASSUME LinkInv, Connect
    PROVE  LinkInv'
<1>0. Shape /\ Reservation /\ Answered /\ KeptUntilStored /\ InOrder
  BY DEF LinkInv
<1>1. /\ worker' = "reading" /\ box' = Reconnected(box) /\ ~clearing
      /\ UNCHANGED <<holding, wire, acks, clearing, got, handed, gone, born>>
  BY DEF Connect
<1>2. /\ OutboxOf(box', Pushes) /\ box'.selected = 0 /\ Len(box'.entries) = Len(box.entries)
      /\ \A i \in 1..Len(box.entries) : /\ box'.entries[i].frame = box.entries[i].frame
                                        /\ i \in Unsent(box')
      /\ Held(box') = Held(box)
  BY <1>0, <1>1, Reconnecting DEF Shape
<1>3. \A i \in 1..Len(box.entries) : ~box'.entries[i].sent
  BY <1>2 DEF Unsent
<1>4. Sorted(box') /\ \A T : MarkedIn(box', T)
  BY <1>0, <1>2, <1>3 DEF InOrder, Sorted, MarkedIn
<1>5. Pushes' = Pushes /\ Heard' = Heard
  BY <1>1 DEF Pushes, Heard
<1>6. Shape'
  BY <1>0, <1>1, <1>2, <1>5 DEF Shape
<1>7. Reservation'
  BY <1>1, <1>2 DEF Reservation
<1>8. Answered' /\ KeptUntilStored'
  BY <1>0, <1>1, <1>2 DEF Answered, KeptUntilStored
<1>9. InOrder'
  BY <1>0, <1>2, <1>4, <1>5 DEF InOrder
<1> QED
  BY <1>6, <1>7, <1>8, <1>9 DEF LinkInv

LEMMA TakeKeeps ==
    ASSUME LinkInv, Take
    PROVE  LinkInv'
<1> DEFINE next == NextIndex(box)
           g == box.entries[next].frame
<1>0. Shape /\ Reservation /\ Answered /\ KeptUntilStored /\ InOrder
  BY DEF LinkInv
<1>1. /\ worker = "reading" /\ next # 0 /\ box' = Selected(box) /\ holding' = g
      /\ worker' = "sending" /\ wire' = Append(wire, g) /\ handed' = handed \cup {g}
      /\ UNCHANGED <<acks, clearing, got, gone, born>>
  BY DEF Take
<1>2. next \in DOMAIN box.entries /\ g \in Held(box) /\ g \in Pushes
  <2>1. next \in 0..Len(box.entries) /\ DOMAIN box.entries = 1..Len(box.entries)
    BY <1>0, NextIsUnsent DEF Shape, OutboxOf
  <2>2. next \in DOMAIN box.entries
    BY <1>1, <2>1 DEF Shape, OutboxOf
  <2> QED
    BY <1>0, <2>2, HeldInside DEF Shape
<1>3. box.selected = 0 /\ ~clearing
  BY <1>0, <1>1 DEF Reservation
<1>4. /\ box'.entries = box.entries /\ box'.selected = next
      /\ DOMAIN box' = {"entries", "turn", "selected"}
  BY <1>0, <1>1, <1>3 DEF Selected, Shape, OutboxOf
<1> HIDE DEF next, g
<1>5. OutboxOf(box', Pushes) /\ Held(box') = Held(box)
  BY <1>0, <1>2, <1>4 DEF Shape, OutboxOf, Held
<1>6. Reserved(box', g)
  BY <1>1, <1>4 DEF Reserved, g
<1>7. Pushes' = Pushes /\ Heard' = Append(Heard, g) /\ Heard \in Seq(Pushes)
  BY <1>0, <1>1, <1>2 DEF Pushes, Heard, Shape
<1>8. Range(Heard') = Range(Heard) \cup {g}
  BY <1>2, <1>7, Ranges
<1>9. Shape'
  <2>1. Append(wire, g) \in Seq(Pushes)
    BY <1>0, <1>2 DEF Shape
  <2> QED
    BY <1>0, <1>1, <1>5, <1>7, <2>1 DEF Shape
<1>10. Reservation'
  BY <1>1, <1>3, <1>6, <1>8 DEF Reservation
<1>11. Answered' /\ KeptUntilStored'
  BY <1>0, <1>1, <1>2, <1>5 DEF Answered, KeptUntilStored
<1>12. InOrder'
  <2>1. Sorted(box') /\ MarkedIn(box', Range(Heard'))
    BY <1>0, <1>1, <1>4, <1>8 DEF InOrder, Sorted, MarkedIn
  <2>2. \A e \in Pushes : e.n \in Nat
    BY <1>0 DEF Shape, Pushes
  <2>3. ASSUME NEW f \in Held(box), Precedes(f, g) PROVE f \in Range(Heard)
    <3>1. PICK i \in DOMAIN box.entries : f = box.entries[i].frame
      BY <2>3 DEF Held
    <3>2. i \in 1..Len(box.entries)
      BY <1>0 DEF Shape, OutboxOf
    <3>3. box.entries[i].sent
      BY <1>0, <1>1, <2>2, <2>3, <3>1, <3>2, NextInOrder DEF Shape, InOrder, g, next
    <3>4. MarkedIn(box, Range(Heard))
      BY <1>0, <1>1 DEF InOrder
    <3> QED
      BY <3>1, <3>2, <3>3, <3>4 DEF MarkedIn
  <2>4. Orderly(Append(Heard, g), Held(box))
    BY <1>0, <1>2, <1>7, <2>2, <2>3, OrderlyAppend DEF InOrder
  <2> QED
    BY <1>5, <1>7, <2>1, <2>4 DEF InOrder
<1> QED
  BY <1>9, <1>10, <1>11, <1>12 DEF LinkInv

LEMMA FinishKeeps ==
    ASSUME LinkInv, Finish
    PROVE  LinkInv'
<1>0. Shape /\ Reservation /\ Answered /\ KeptUntilStored /\ InOrder
  BY DEF LinkInv
<1>1. /\ worker \in {"sending", "retired"} /\ box' = Sent(box)
      /\ worker' = IF worker = "retired" THEN "waiting" ELSE "reading"
      /\ UNCHANGED <<wire, acks, clearing, got, handed, gone, born>>
  BY DEF Finish
<1>2. Pushes' = Pushes /\ Heard' = Heard
  BY <1>1 DEF Pushes, Heard
<1>3. /\ OutboxOf(box', Pushes) /\ box'.selected = 0
      /\ \A f : Reserved(box, f) => Follows(box, box', {f})
      /\ Follows(box, box', Held(box))
      /\ \A f \in Held(box) : f.kind \in Acknowledged => f \in Held(box')
  <2>1. OutboxOf(box, Pushes)
    BY <1>0 DEF Shape
  <2>2. OutboxOf(Sent(box), Pushes) /\ Sent(box).selected = 0
    BY <2>1, Sending
  <2> QED
    BY <1>1, <2>1, <2>2, SentFollows
<1>4. Held(box') \subseteq Held(box) /\ Sorted(box')
  BY <1>0, <1>3, FollowsHeld, OrderFollows DEF Shape, InOrder
<1>5. Shape'
  BY <1>0, <1>1, <1>2, <1>3 DEF Shape
<1>6. Reservation'
  BY <1>0, <1>1, <1>3 DEF Reservation
<1>7. Answered'
  BY <1>0, <1>1 DEF Answered
<1>8. KeptUntilStored'
  BY <1>0, <1>1, <1>3 DEF KeptUntilStored
<1>9. InOrder'
  <2>1. ASSUME worker' \in {"reading", "sending"} PROVE MarkedIn(box', Range(Heard))
    <3>1. worker = "sending" /\ Reserved(box, holding) /\ holding \in Range(Heard)
          /\ MarkedIn(box, Range(Heard))
      BY <1>0, <1>1, <2>1 DEF Reservation, InOrder
    <3>2. Follows(box, box', {holding})
      BY <1>3, <3>1
    <3>3. MarkedIn(box', Range(Heard) \cup {holding})
      BY <1>0, <1>3, <3>1, <3>2, OrderFollows DEF Shape
    <3> QED
      BY <3>1, <3>3 DEF MarkedIn
  <2>2. Orderly(Heard, Held(box'))
    BY <1>0, <1>4, OrderlyLess DEF InOrder
  <2> QED
    BY <1>2, <1>4, <2>1, <2>2 DEF InOrder
<1> QED
  BY <1>5, <1>6, <1>7, <1>8, <1>9 DEF LinkInv

LEMMA DeliverKeeps ==
    ASSUME LinkInv, Deliver
    PROVE  LinkInv'
<1> DEFINE f == Head(wire)
<1>0. Shape /\ Reservation /\ Answered /\ KeptUntilStored /\ InOrder
  BY DEF LinkInv
<1>1. /\ wire # <<>> /\ wire' = Tail(wire) /\ got' = Append(got, f)
      /\ acks' = IF f.kind \in Acknowledged THEN Append(acks, f) ELSE acks
      /\ UNCHANGED <<box, worker, holding, clearing, handed, gone, born>>
  BY DEF Deliver
<1>2. /\ Append(got, f) \in Seq(Pushes) /\ Tail(wire) \in Seq(Pushes) /\ f \in Pushes
      /\ Append(got, f) \o Tail(wire) = got \o wire
  BY <1>0, <1>1, Moved DEF Shape
<1> HIDE DEF f
<1>3. Pushes' = Pushes /\ Heard' = Heard
  BY <1>1, <1>2 DEF Pushes, Heard
<1>4. Range(got') = Range(got) \cup {f} /\ Range(Append(acks, f)) = Range(acks) \cup {f}
  BY <1>0, <1>1, <1>2, Ranges DEF Shape
<1>5. Shape'
  <2>1. Append(acks, f) \in Seq(Pushes)
    BY <1>0, <1>2 DEF Shape
  <2> QED
    BY <1>0, <1>1, <1>2, <1>3, <2>1 DEF Shape
<1>6. Reservation'
  BY <1>0, <1>1, <1>3 DEF Reservation
<1>7. Answered'
  BY <1>0, <1>1, <1>4 DEF Answered
<1>8. KeptUntilStored'
  BY <1>0, <1>1, <1>4 DEF KeptUntilStored
<1>9. InOrder'
  BY <1>0, <1>1, <1>3 DEF InOrder
<1> QED
  BY <1>5, <1>6, <1>7, <1>8, <1>9 DEF LinkInv

LEMMA AcknowledgeKeeps ==
    ASSUME LinkInv, Acknowledge
    PROVE  LinkInv'
<1> DEFINE f == Head(acks)
<1>0. Shape /\ Reservation /\ Answered /\ KeptUntilStored /\ InOrder
  BY DEF LinkInv
<1>1. /\ worker = "reading" /\ acks # <<>> /\ acks' = Tail(acks)
      /\ box' = EventAcknowledged(box, f)
      /\ UNCHANGED <<worker, holding, wire, clearing, got, handed, gone, born>>
  BY DEF Acknowledge
<1>2. /\ Tail(acks) \in Seq(Pushes) /\ f \in Pushes /\ Range(acks) = Range(acks') \cup {f}
  <2>1. Tail(acks) \in Seq(Pushes) /\ f \in Pushes
    BY <1>0, <1>1, Moved DEF Shape
  <2> QED
    BY <1>0, <1>1, <2>1, Ranges DEF Shape
<1> HIDE DEF f
<1>3. /\ OutboxOf(box', Pushes) /\ Follows(box, box', {}) /\ Held(box) \subseteq Held(box') \cup {f}
      /\ box'.selected = 0
  <2>1. OutboxOf(box, Pushes) /\ box.selected = 0
    BY <1>0, <1>1 DEF Shape, Reservation
  <2> QED
    BY <1>1, <2>1, EventLeaves
<1>4. /\ Held(box') \subseteq Held(box) /\ Sorted(box')
      /\ \A T : MarkedIn(box, T) => MarkedIn(box', T \cup {})
  BY <1>0, <1>3, FollowsHeld, OrderFollows DEF Shape, InOrder
<1>5. Pushes' = Pushes /\ Heard' = Heard
  BY <1>1 DEF Pushes, Heard
<1>6. Shape'
  BY <1>0, <1>1, <1>2, <1>3, <1>5 DEF Shape
<1>7. Reservation'
  BY <1>0, <1>1, <1>3 DEF Reservation
<1>8. Answered'
  BY <1>0, <1>1, <1>2 DEF Answered
<1>9. KeptUntilStored'
  <2>1. f \in Range(got)
    BY <1>0, <1>2 DEF Answered
  <2> QED
    BY <1>0, <1>1, <1>3, <2>1 DEF KeptUntilStored
<1>10. InOrder'
  <2>1. MarkedIn(box', Range(Heard))
    BY <1>0, <1>1, <1>4 DEF InOrder, MarkedIn
  <2>2. Orderly(Heard, Held(box'))
    BY <1>0, <1>4, OrderlyLess DEF InOrder
  <2> QED
    BY <1>4, <1>5, <2>1, <2>2 DEF InOrder
<1> QED
  BY <1>6, <1>7, <1>8, <1>9, <1>10 DEF LinkInv

\* The connection is lost with what was on its way: Cut and Stop.
LEMMA LostKeeps ==
    ASSUME LinkInv, wire' = <<>>, acks' = <<>>, worker' \in {"waiting", "retired"},
           UNCHANGED <<box, got, handed, gone, born>>
    PROVE  LinkInv'
<1>0. Shape /\ Reservation /\ Answered /\ KeptUntilStored /\ InOrder
  BY DEF LinkInv
<1>1. Pushes' = Pushes /\ Heard' = got /\ got \in Seq(Pushes) /\ wire \in Seq(Pushes)
  BY <1>0 DEF Pushes, Heard, Shape
<1>2. Shape'
  BY <1>0, <1>1 DEF Shape
<1>3. Reservation'
  BY DEF Reservation
<1>4. Answered'
  BY DEF Answered, Range
<1>5. KeptUntilStored'
  BY <1>0 DEF KeptUntilStored
<1>6. InOrder'
  <2>1. Orderly(got, Held(box))
    BY <1>0, <1>1, OrderlyPrefix DEF InOrder, Heard
  <2> QED
    BY <1>0, <1>1, <2>1 DEF InOrder
<1> QED
  BY <1>2, <1>3, <1>4, <1>5, <1>6 DEF LinkInv

LEMMA WipeKeeps ==
    ASSUME LinkInv, Wipe
    PROVE  LinkInv'
<1>0. Shape /\ Reservation /\ Answered /\ KeptUntilStored /\ InOrder
  BY DEF LinkInv
<1>1. /\ clearing /\ ~clearing' /\ box' = EmptyBox /\ gone' = gone \cup Held(box)
      /\ UNCHANGED <<worker, holding, wire, acks, got, handed, born>>
  BY DEF Wipe
<1>2. worker \in {"waiting", "retired"}
  BY <1>0, <1>1 DEF Reservation
<1>3. /\ OutboxOf(box', Pushes) /\ Held(box') = {} /\ Len(box'.entries) = 0
  BY <1>1, Emptied DEF EmptyBox
<1>4. Pushes' = Pushes /\ Heard' = Heard
  BY <1>1 DEF Pushes, Heard
<1>5. Shape'
  BY <1>0, <1>1, <1>3, <1>4 DEF Shape
<1>6. Reservation'
  BY <1>1, <1>2 DEF Reservation
<1>7. Answered' /\ KeptUntilStored'
  BY <1>0, <1>1 DEF Answered, KeptUntilStored
<1>8. InOrder'
  <2>1. Orderly(Heard, {})
    BY <1>0, OrderlyLess DEF InOrder
  <2> QED
    BY <1>1, <1>2, <1>3, <1>4, <2>1 DEF InOrder, Sorted, MarkedIn
<1> QED
  BY <1>5, <1>6, <1>7, <1>8 DEF LinkInv

LEMMA RestartKeeps ==
    ASSUME LinkInv, Restart
    PROVE  LinkInv'
<1>0. Shape /\ Reservation /\ Answered /\ KeptUntilStored /\ InOrder
  BY DEF LinkInv
<1>1. /\ clearing /\ UNCHANGED <<box, worker, holding, wire, acks, got, handed, gone, born>>
      /\ clearing' \in BOOLEAN
  BY DEF Restart
<1>2. Shape' /\ Reservation'
  BY <1>0, <1>1 DEF Shape, Reservation, Reserved, Pushes
<1>3. Answered' /\ KeptUntilStored' /\ InOrder'
  BY <1>0, <1>1 DEF Answered, KeptUntilStored, InOrder, Heard, Pushes
<1> QED
  BY <1>2, <1>3 DEF LinkInv

LEMMA LinkSteps == LinkInv /\ [Next]_vars => LinkInv'
<1> SUFFICES ASSUME LinkInv, [Next]_vars PROVE LinkInv'
  OBVIOUS
<1>1. ASSUME NEW kind \in PushKinds, NEW session \in Sessions, Push(kind, session) PROVE LinkInv'
  BY <1>1, PushKeeps
<1>2. CASE Connect
  BY <1>2, ConnectKeeps
<1>3. CASE Take
  BY <1>3, TakeKeeps
<1>4. CASE Finish
  BY <1>4, FinishKeeps
<1>5. CASE Deliver
  BY <1>5, DeliverKeeps
<1>6. CASE Acknowledge
  BY <1>6, AcknowledgeKeeps
<1>7. CASE Cut
  BY <1>7, LostKeeps DEF Cut
<1>8. CASE Stop
  BY <1>8, LostKeeps DEF Stop
<1>9. CASE Wipe
  BY <1>9, WipeKeeps
<1>10. CASE Restart
  BY <1>10, RestartKeeps
<1>11. CASE UNCHANGED vars
  BY <1>11 DEF vars, LinkInv, Shape, Reservation, Answered, KeptUntilStored, InOrder,
               Pushes, Heard
<1> QED
  BY <1>1, <1>2, <1>3, <1>4, <1>5, <1>6, <1>7, <1>8, <1>9, <1>10, <1>11 DEF Next

THEOREM LinkAlways == Spec => []LinkInv
<1> QED
  BY LinkStarts, LinkSteps, PTL DEF Spec

-----------------------------------------------------------------------------
(* The properties *)

\* The entry reserved in the outbox is the frame being written, whatever threads of the
\* control socket push and errors retire meanwhile (WebDeviceOutbox.selected).
THEOREM InFlightEver == Spec => []InFlight
<1>1. LinkInv => InFlight
  BY DEF LinkInv, Reservation, Reserved, InFlight
<1> QED
  BY <1>1, LinkAlways, PTL

\* Frames that are acknowledged stay in the outbox until the server has them, over any
\* number of broken connections and retired senders (web_device_outbox.rs:1).
THEOREM KeptUntilStoredEver == Spec => []KeptUntilStored
<1>1. LinkInv => KeptUntilStored
  BY DEF LinkInv
<1> QED
  BY <1>1, LinkAlways, PTL

\* The server first hears of frames in the order they were queued, but for errors and
\* for output of different sessions, also when they are sent again (next_index, reconnect).
THEOREM HeardInOrderEver == Spec => []HeardInOrder
<1>1. ASSUME LinkInv PROVE HeardInOrder
  <2>0. Shape /\ InOrder
    BY <1>1 DEF LinkInv
  <2> SUFFICES ASSUME NEW f \in Range(got), NEW g \in Range(got), Precedes(f, g)
               PROVE  FirstAt(f) < FirstAt(g)
    BY DEF HeardInOrder, Precedes
  <2> DEFINE at(x) == {i \in DOMAIN got : got[i] = x}
  <2>1. DOMAIN got = 1..Len(got) /\ Len(got) \in Nat
    BY <2>0 DEF Shape
  <2>2. ASSUME NEW x \in Range(got)
        PROVE  FirstAt(x) \in at(x) /\ \A i \in at(x) : FirstAt(x) <= i
    <3>1. at(x) \subseteq Nat /\ at(x) # {}
      BY <2>1, <2>2 DEF Range
    <3> HIDE DEF at
    <3>2. FirstAt(x) = Min(at(x))
      BY DEF FirstAt, at
    <3> QED
      BY <3>1, <3>2, LeastNatural
  <2>3. FirstAt(g) \in 1..Len(got) /\ got[FirstAt(g)] = g /\ FirstAt(f) \in 1..Len(got)
    BY <2>1, <2>2
  <2>4. Orderly(got, Held(box))
    BY <2>0, OrderlyPrefix DEF Shape, InOrder, Heard
  <2>5. PICK k \in 1..(FirstAt(g) - 1) : got[k] = f
    BY <2>3, <2>4 DEF Orderly
  <2>6. k \in at(f) /\ k \in Nat
    BY <2>1, <2>3, <2>5
  <2>7. FirstAt(f) <= k
    BY <2>2, <2>6
  <2> QED
    BY <2>1, <2>3, <2>5, <2>7
<1> QED
  BY <1>1, LinkAlways, PTL
=============================================================================
