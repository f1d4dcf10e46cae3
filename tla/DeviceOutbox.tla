---------------------------- MODULE DeviceOutbox ----------------------------
(***************************************************************************)
(* The outbox of the web device (web_device_outbox.rs): what each call     *)
(* makes of it.  Frames are abstracted to their kind, the session or       *)
(* operation they are about and a number that tells them apart; every      *)
(* frame has the same size, so that one limit stands for the limits on     *)
(* entries and on bytes.                                                   *)
(***************************************************************************)
EXTENDS Naturals, Sequences, SequencesExt, FiniteSetsExt

CONSTANTS
    Limit,   \* 248 entries, 16 MiB less 64 KiB: what ordinary frames may fill
    Lane     \* the 8 entries and 64 KiB above it, for errors

ASSUME OutboxConstants == Limit \in Nat \ {0} /\ Lane \in Nat

\* DeviceToServerFrame.  "error" is a terminal_status of error, "status" any
\* other, "other" a frame without acknowledgement (history, pairing).
Kinds == {"output", "status", "error", "event", "accepted", "running", "completed", "other"}
Acknowledged == {"event", "accepted", "running", "completed"}
Statuses == {"status", "error"}

\* entries holds (frame, sent); selected is the index of the frame whose sending has
\* begun, 0 for None; turn is last_terminal, "" for None.
EmptyBox == [entries |-> <<>>, turn |-> "", selected |-> 0]

Unsent(box) == {i \in DOMAIN box.entries : ~box.entries[i].sent}
Held(box) == {box.entries[i].frame : i \in DOMAIN box.entries}

\* The k-th of a set of indices.
Kth(indices, k) == CHOOSE i \in indices : Cardinality({j \in indices : j <= i}) = k

\* Removes the entries at drop; the selected entry keeps its reservation.
Without(box, drop) ==
    LET kept == DOMAIN box.entries \ drop
    IN  [box EXCEPT !.entries = [k \in 1..Cardinality(kept) |-> box.entries[Kth(kept, k)]],
                    !.selected = IF @ \in drop THEN 0
                                 ELSE @ - Cardinality({i \in drop : i < @})]

\* An error retires the session's queued statuses but for the one in flight.
Retired(box, session) ==
    Without(box, {i \in DOMAIN box.entries \ {box.selected} :
                    box.entries[i].frame.kind \in Statuses /\ box.entries[i].frame.of = session})

Prepared(box, frame) == IF frame.kind = "error" THEN Retired(box, frame.of) ELSE box
Admits(box, frame) ==
    Len(Prepared(box, frame).entries) < IF frame.kind = "error" THEN Limit + Lane ELSE Limit

\* Mutant: an error goes in front of the selected frame without moving the selection.
PushedUnshifted(box, frame) ==
    LET b == Prepared(box, frame)
        entry == [frame |-> frame, sent |-> FALSE]
    IN  IF ~Admits(box, frame) THEN b
        ELSE [b EXCEPT !.entries = IF frame.kind = "error" THEN <<entry>> \o @ ELSE Append(@, entry)]

\* push; a refused error has retired the statuses all the same.
Pushed(box, frame) ==
    LET b == Prepared(box, frame)
        entry == [frame |-> frame, sent |-> FALSE]
    IN  IF ~Admits(box, frame) THEN b
        ELSE IF frame.kind = "error"
        THEN [b EXCEPT !.entries = <<entry>> \o @, !.selected = IF @ = 0 THEN 0 ELSE @ + 1]
        ELSE [b EXCEPT !.entries = Append(@, entry)]

\* Mutant: the rotation passes over frames that are not output.
NextIndexAcross(box) ==
    LET others == {i \in Unsent(box) : /\ box.entries[i].frame.kind = "output"
                                       /\ box.entries[i].frame.of # box.turn}
    IN  IF Unsent(box) = {} THEN 0
        ELSE IF others = {} THEN Min(Unsent(box))
        ELSE Min(others)
\* next_index: the first unsent entry, or within the run of unsent output that begins
\* there the first of another session than the last one served.
NextIndex(box) ==
    LET first == Min(Unsent(box))
        inRun(i) == \A j \in first..i : j \in Unsent(box) /\ box.entries[j].frame.kind = "output"
        others == {i \in first..Len(box.entries) :
                     inRun(i) /\ box.entries[i].frame.of # box.turn}
    IN  IF Unsent(box) = {} THEN 0
        ELSE IF others = {} THEN first
        ELSE Min(others)

\* next: the selection stays until sent.
Selected(box) == [box EXCEPT !.selected = IF @ # 0 THEN @ ELSE NextIndex(box)]

\* Mutant: every frame leaves once it was written.
SentRemoves(box) ==
    LET index == Selected(box).selected
    IN  IF index = 0 THEN box ELSE Without([box EXCEPT !.selected = 0], {index})
\* sent: a frame that will be acknowledged stays, the others leave.
Sent(box) ==
    LET index == Selected(box).selected
        frame == box.entries[index].frame
        b == [box EXCEPT !.selected = 0, !.turn = IF frame.kind = "output" THEN frame.of ELSE @]
    IN  IF index = 0 THEN box
        ELSE IF frame.kind \in Acknowledged THEN [b EXCEPT !.entries[index].sent = TRUE]
        ELSE Without(b, {index})

\* Mutant: what was sent before the connection broke counts as sent.
ReconnectedBlind(box) == [box EXCEPT !.selected = 0]
\* reconnect
Reconnected(box) ==
    [box EXCEPT !.selected = 0,
                !.entries = [i \in DOMAIN @ |-> [@[i] EXCEPT !.sent = FALSE]]]

\* acknowledge_event names one event.
EventAcknowledged(box, frame) ==
    Without(box, {i \in DOMAIN box.entries : box.entries[i].frame = frame})

TerminalStatuses == {"succeeded", "failed", "rejected"}

\* acknowledge_operation: the status the server answers settles the frames it includes.
OperationAcknowledged(box, operation, status) ==
    LET settled == CASE status \in TerminalStatuses -> {"accepted", "running", "completed"}
                     [] status = "running" -> {"accepted", "running"}
                     [] status = "accepted" -> {"accepted"}
                     [] OTHER -> {}
    IN  Without(box, {i \in DOMAIN box.entries : /\ box.entries[i].frame.of = operation
                                                 /\ box.entries[i].frame.kind \in settled})
=============================================================================
