----------------------------- MODULE DeviceLink -----------------------------
(***************************************************************************)
(* The web device's connection to the server (web_daemon.rs).  Threads of  *)
(* the local control socket push frames; one worker at a time holds the    *)
(* connection, sends the frames of the outbox and applies the              *)
(* acknowledgements it reads; the connection may break at any time and is  *)
(* made again; clear_pairing retires the worker and empties the outbox.    *)
(***************************************************************************)
EXTENDS DeviceOutbox

CONSTANTS
    Sessions,   \* terminal sessions, strings
    PushKinds,  \* the kinds of frames this instance pushes
    MaxPush,    \* bound: frames pushed
    MaxCuts,    \* bound: broken connections
    MaxWipes    \* bound: calls of clear_pairing

ASSUME LinkConstants == PushKinds \subseteq Kinds /\ MaxPush \in Nat

VARIABLES
    box,      \* DaemonState.outbound
    worker,   \* the connection thread: waiting, reading, sending or retired while sending
    holding,  \* the frame the worker sends
    wire,     \* frames on their way to the server
    acks,     \* acknowledgements on their way back
    clearing, \* clear_pairing has stopped the worker and not yet emptied the outbox
    got,      \* history: the frames the server received, in order
    handed,   \* history: the frames written to a connection
    gone,     \* history: the frames retired by an error or cleared
    born,     \* the number of frames pushed
    cuts, wipes

vars == <<box, worker, holding, wire, acks, clearing, got, handed, gone, born, cuts, wipes>>

FrameSet == [kind: PushKinds, of: Sessions, n: 1..MaxPush]
None == [kind |-> "none", of |-> "", n |-> 0]

TypeOK ==
    /\ Held(box) \subseteq FrameSet /\ box.selected \in 0..Len(box.entries)
    /\ Len(box.entries) <= Limit + Lane /\ box.turn \in Sessions \cup {""}
    /\ worker \in {"waiting", "reading", "sending", "retired"}
    /\ holding \in FrameSet \cup {None} /\ clearing \in BOOLEAN
    /\ wire \in Seq(FrameSet) /\ acks \in Seq(FrameSet) /\ got \in Seq(FrameSet)
    /\ handed \subseteq FrameSet /\ gone \subseteq FrameSet
    /\ born \in 0..MaxPush /\ cuts \in 0..MaxCuts /\ wipes \in 0..MaxWipes

Init ==
    /\ box = EmptyBox /\ worker = "waiting" /\ holding = None
    /\ wire = <<>> /\ acks = <<>> /\ clearing = FALSE
    /\ got = <<>> /\ handed = {} /\ gone = {}
    /\ born = 0 /\ cuts = 0 /\ wipes = 0

\* queue, called for a request of the desktop application.
Push(kind, session) ==
    LET frame == [kind |-> kind, of |-> session, n |-> born + 1]
    IN  /\ born < MaxPush
        /\ box' = Pushed(box, frame)
        /\ born' = born + 1
        /\ gone' = gone \cup (Held(box) \ Held(box'))
                        \cup (IF Admits(box, frame) THEN {} ELSE {frame})
        /\ UNCHANGED <<worker, holding, wire, acks, clearing, got, handed, cuts, wipes>>

\* run_connection: a worker has the attempt lock and connects.
Connect ==
    /\ worker = "waiting" /\ ~clearing
    /\ worker' = "reading" /\ box' = Reconnected(box)
    /\ UNCHANGED <<holding, wire, acks, clearing, got, handed, gone, born, cuts, wipes>>

\* flush_outbound: the frame is chosen under the lock and written after it is released.
Take ==
    /\ worker = "reading" /\ NextIndex(box) # 0
    /\ box' = Selected(box)
    /\ holding' = box.entries[NextIndex(box)].frame
    /\ worker' = "sending"
    /\ wire' = Append(wire, holding') /\ handed' = handed \cup {holding'}
    /\ UNCHANGED <<acks, clearing, got, gone, born, cuts, wipes>>

\* flush_outbound: sent, under the lock again.
Finish ==
    /\ worker \in {"sending", "retired"}
    /\ box' = Sent(box) /\ holding' = None
    /\ worker' = IF worker = "retired" THEN "waiting" ELSE "reading"
    /\ UNCHANGED <<wire, acks, clearing, got, handed, gone, born, cuts, wipes>>

\* The server stores a frame and answers; an answer follows for the durable kinds.
Deliver ==
    /\ wire # <<>>
    /\ wire' = Tail(wire) /\ got' = Append(got, Head(wire))
    /\ acks' = IF Head(wire).kind \in Acknowledged THEN Append(acks, Head(wire)) ELSE acks
    /\ UNCHANGED <<box, worker, holding, clearing, handed, gone, born, cuts, wipes>>

\* handle_server_frame, ConversationAck.
Acknowledge ==
    /\ worker = "reading" /\ acks # <<>>
    /\ acks' = Tail(acks) /\ box' = EventAcknowledged(box, Head(acks))
    /\ UNCHANGED <<worker, holding, wire, clearing, got, handed, gone, born, cuts, wipes>>

\* The connection breaks; a write under way fails and sent is not called.
Cut ==
    /\ worker # "waiting" /\ cuts < MaxCuts
    /\ worker' = "waiting" /\ holding' = None /\ wire' = <<>> /\ acks' = <<>>
    /\ cuts' = cuts + 1
    /\ UNCHANGED <<box, clearing, got, handed, gone, born, wipes>>

\* clear_pairing: stop shuts the socket down, ...
Stop ==
    /\ ~clearing /\ wipes < MaxWipes
    /\ clearing' = TRUE /\ wipes' = wipes + 1
    /\ wire' = <<>> /\ acks' = <<>>
    /\ worker' = IF worker \in {"sending", "retired"} THEN "retired" ELSE "waiting"
    /\ UNCHANGED <<box, holding, got, handed, gone, born, cuts>>

\* ... clear empties the outbox and start lets the next worker in.
Wipe ==
    /\ clearing /\ clearing' = FALSE
    /\ box' = EmptyBox /\ gone' = gone \cup Held(box)
    /\ UNCHANGED <<worker, holding, wire, acks, got, handed, born, cuts, wipes>>

\* clear_pairing failed before it emptied the outbox, and the device is started again.
Restart ==
    /\ clearing /\ clearing' = FALSE
    /\ UNCHANGED <<box, worker, holding, wire, acks, got, handed, gone, born, cuts, wipes>>

Next ==
    \/ \E kind \in PushKinds, session \in Sessions : Push(kind, session)
    \/ Connect \/ Take \/ Finish \/ Deliver \/ Acknowledge
    \/ Cut \/ Stop \/ Wipe \/ Restart

Spec == Init /\ [][Next]_vars

\* The worker runs, the network delivers; frames need not be pushed.  A clear_pairing that
\* fails is tried again or followed by a start.
FairSpec ==
    /\ Spec /\ WF_vars(Connect) /\ WF_vars(Take) /\ WF_vars(Finish)
    /\ WF_vars(Deliver) /\ WF_vars(Acknowledge) /\ WF_vars(Wipe)

-----------------------------------------------------------------------------
\* The reserved entry is the one being written, whatever was pushed, retired or
\* acknowledged since it was chosen: sent settles the frame that was sent
\* (WebDeviceOutbox.selected).
InFlight == worker = "sending" => box.selected # 0 /\ box.entries[box.selected].frame = holding

\* A frame leaves the outbox only by being written to a connection, by an error of its
\* session or by clear_pairing: nothing disappears unsent (push, sent, retain).
NothingUnsent ==
    \A n \in 1..born : \E f \in Held(box) \cup handed \cup gone : f.n = n

\* web_device_outbox.rs:1: frames that are acknowledged stay until the server has them,
\* over broken connections and a retired sender.
KeptUntilStored ==
    \A f \in handed : f.kind \in Acknowledged => f \in Held(box) \cup Range(got) \cup gone

FirstAt(f) == Min({i \in DOMAIN got : got[i] = f})
\* The server first hears of frames in the order they were queued, except that output of
\* different sessions may interleave and an error overtakes (next_index: barriers).
HeardInOrder ==
    \A f, g \in Range(got) :
        f.n < g.n /\ "error" \notin {f.kind, g.kind}
                  /\ (f.kind = "output" /\ g.kind = "output" => f.of = g.of)
            => FirstAt(f) < FirstAt(g)

\* A frame that is acknowledged reaches the server once connections stop breaking.
Arrives ==
    \A n \in 1..MaxPush :
        (\E f \in Held(box) : f.n = n /\ f.kind \in Acknowledged)
            ~> (\E f \in Range(got) \cup gone : f.n = n)
=============================================================================
