----------------------------- MODULE SpoolFaults -----------------------------
(***************************************************************************)
(* SessionBuffer (replay.rs) on a disk that fails: the frames of a session *)
(* in memory, the older ones in its spool file, and the checkpoint before  *)
(* both.  ReplayBuffer is the same buffer on a disk that never fails.      *)
(*                                                                         *)
(* Every operation runs under the lock of its session.  The loop that ends *)
(* push_output takes one step for each frame that it moves to the spool,   *)
(* and no other operation comes between.  A frame counts one whatever its  *)
(* length, an empty resize frame nothing.                                  *)
(***************************************************************************)
EXTENDS ReplayBuffer, Sequences

CONSTANTS
    DiskFaults,            \* what a failing disk does: see SpoolConstants
    MaxFaults, MaxEvents   \* bounds: faults of the disk; sequence numbers

\* refused: an append or a rewrite fails and leaves the file as it was.
\* torn: an append leaves a part of its record.
\* lost: a rewrite fails between the removal of the old file and the renaming
\* of the new one.
ASSUME SpoolConstants ==
    /\ DiskFaults \subseteq {"refused", "torn", "lost"}
    /\ MaxFaults \in Nat /\ MaxEvents \in Nat

VARIABLES
    memory,     \* SessionBuffer.frames
    spilling,   \* push_output is in its loop: memory is over its limit
    file,       \* the records of the spool file
    covered,    \* the sequence of the checkpoint, 0 without
    cut,        \* SessionBuffer.truncated
    written,    \* history: the sequences of all output so far
    events,     \* sequences given out
    faults      \* faults met so far

spoolVars == <<memory, spilling, file, covered, cut, written, events, faults>>

ReplayFrame == [seq: 1..MaxEvents, data: BOOLEAN]
Record == [seq: 1..MaxEvents, data: BOOLEAN, whole: BOOLEAN]

SpoolTypeOK ==
    /\ memory \in Seq(ReplayFrame) /\ file \in Seq(Record)
    /\ spilling \in BOOLEAN /\ cut \in BOOLEAN
    /\ covered \in 0..MaxEvents /\ events \in 0..MaxEvents
    /\ written \in SUBSET (1..MaxEvents)
    /\ faults \in 0..MaxFaults

SpoolInit ==
    /\ memory = <<>> /\ file = <<>> /\ covered = 0 /\ cut = FALSE /\ spilling = FALSE
    /\ written = {} /\ events = 0 /\ faults = 0

-----------------------------------------------------------------------------
(* The spool file *)

ToRecord(f, whole) == [seq |-> f.seq, data |-> f.data, whole |-> whole]
ToFrame(r) == [seq |-> r.seq, data |-> r.data]
Weight(frames) == Cardinality({i \in DOMAIN frames : frames[i].data})

\* read_spooled_frames: reading ends at the first record that is not whole.
Readable(records) ==
    LET read == {i \in DOMAIN records : \A j \in 1..i : records[j].whole}
    IN  [i \in 1..Cardinality(read) |-> ToFrame(records[i])]
\* Mutant: memory is read first.
LiveSwapped == memory \o Readable(file)
Live == Readable(file) \o memory

FromFrame(frames, k) == SubSeq(frames, k + 1, Len(frames))

\* write_spooled_frames; the removal of an empty spool reports no error.
Rewrite(old, frames) ==
    \/ /\ file' = [i \in DOMAIN frames |-> ToRecord(frames[i], TRUE)]
       /\ faults' = faults
    \/ /\ faults < MaxFaults /\ faults' = faults + 1
       /\ \/ "refused" \in DiskFaults /\ file' = old
          \/ "lost" \in DiskFaults /\ file' = <<>>

\* The least number of the oldest frames that brings the rest within the cap.
\* Mutant: one frame more than needed goes.
OverflowOne(frames) == CHOOSE k \in 0..Len(frames) :
    /\ Weight(FromFrame(frames, k)) < SpoolMax
    /\ \A j \in 0..k - 1 : Weight(FromFrame(frames, j)) >= SpoolMax
Overflow(frames) ==
    CHOOSE k \in 0..Len(frames) :
        /\ Weight(FromFrame(frames, k)) <= SpoolMax
        /\ \A j \in 0..k - 1 : Weight(FromFrame(frames, j)) > SpoolMax

\* enforce_spool_cap, on a file of these records.
\* Mutant: what is cut off is not noted.
CapQuietly(records) ==
    IF Weight(records) <= SpoolMax
    THEN file' = records /\ UNCHANGED <<cut, faults>>
    ELSE Rewrite(records, FromFrame(Readable(records), Overflow(Readable(records)))) /\ UNCHANGED cut
Cap(records) ==
    LET frames == Readable(records)
        k == Overflow(frames)
    IN  IF Weight(records) <= SpoolMax
        THEN file' = records /\ UNCHANGED <<cut, faults>>
        ELSE Rewrite(records, FromFrame(frames, k)) /\ cut' = (cut \/ k > 0)

-----------------------------------------------------------------------------
(* Operations *)

\* push_output, up to its loop.
SpoolPush ==
    /\ ~spilling /\ events < MaxEvents
    /\ events' = events + 1
    /\ written' = written \cup {events + 1}
    /\ memory' = Append(memory, [seq |-> events + 1, data |-> TRUE])
    /\ spilling' = (Weight(memory') > MemMax)
    /\ UNCHANGED <<file, covered, cut, faults>>

\* One round of the loop: the oldest frame moves to the spool.
SpoolSpill ==
    /\ spilling
    /\ Cap(Append(file, ToRecord(Head(memory), TRUE)))
    /\ memory' = Tail(memory)
    /\ spilling' = (Weight(memory') > MemMax)
    /\ UNCHANGED <<covered, written, events>>

\* The last round of the loop, when the append fails: the frame stays in memory.
SpoolRefused ==
    /\ spilling /\ spilling' = FALSE
    /\ faults < MaxFaults /\ faults' = faults + 1
    /\ \/ "refused" \in DiskFaults /\ file' = file
       \/ "torn" \in DiskFaults /\ file' = Append(file, ToRecord(Head(memory), FALSE))
    /\ UNCHANGED <<memory, covered, cut, written, events>>

\* push_resize: an empty frame at the end takes over the new sequence.
SpoolResize ==
    LET f == [seq |-> events + 1, data |-> FALSE]
        trailing == memory # <<>> /\ ~memory[Len(memory)].data
    IN  /\ ~spilling /\ events < MaxEvents
        /\ events' = events + 1
        /\ memory' = IF trailing THEN [memory EXCEPT ![Len(memory)] = f] ELSE Append(memory, f)
        /\ UNCHANGED <<spilling, file, covered, cut, written, faults>>

\* The frames after s, in their order.
After(frames, s) ==
    LET later == {i \in DOMAIN frames : frames[i].seq > s}
        place(i) == Cardinality({j \in later : j <= i})
    IN  [k \in 1..Cardinality(later) |-> frames[CHOOSE i \in later : place(i) = k]]

\* accept_checkpoint: memory loses frames from its front, the spool wherever they
\* are; what a failing rewrite leaves is not rolled back.
SpoolCheckpoint ==
    /\ ~spilling
    /\ \E s \in covered + 1..events :
         /\ covered' = s
         /\ \E k \in 0..Len(memory) :
              /\ \A i \in 1..k : memory[i].seq <= s
              /\ k < Len(memory) => memory[k + 1].seq > s
              /\ memory' = FromFrame(memory, k)
         /\ Rewrite(file, After(Readable(file), s))
    /\ UNCHANGED <<spilling, cut, written, events>>

SpoolNext == SpoolPush \/ SpoolSpill \/ SpoolRefused \/ SpoolResize \/ SpoolCheckpoint

SpoolSpec == SpoolInit /\ [][SpoolNext]_spoolVars

-----------------------------------------------------------------------------
(* Properties *)

Seqs(frames) == {frames[i].seq : i \in DOMAIN frames}

\* "A write to the disk that fails must not lose frames": all output after the
\* checkpoint is there, or the buffer is marked as truncated and has lost only
\* output older than all it has.
Complete ==
    \A q \in written : q > covered /\ q \notin Seqs(Live) =>
        /\ cut
        /\ \A p \in Seqs(Live) \cap written : p > covered => p > q

\* What a replay sends is in order and without repetition, although disk and
\* memory are read one after the other.
Ordered == \A i, j \in DOMAIN Live : i < j => Live[i].seq < Live[j].seq

\* On a healthy disk this buffer does what ReplayBuffer, on which the delivery
\* of output is built, says of the sets of frames.  Inside the loop of
\* push_output the buffer stands for what it will be when the loop is through.
Sets ==
    [mem |-> Seqs(memory), spool |-> Seqs(file),
     checkpoint |-> IF covered = 0 THEN NoCheckpoint ELSE covered,
     screen |-> {}, truncated |-> cut]
AsSets == Settled(Sets, written)
HealthyRefines ==
    [][faults' = 0 =>
         /\ ~spilling' => AsSets' = Sets'
         /\ IF spilling
            THEN AsSets' = AsSets
            ELSE \/ AsSets' = PushOutput(AsSets, written', events')
                 \/ AsSets' = PushResize(AsSets, written', events')
                 \/ AsSets' = AcceptCheckpoint(AsSets, covered', {})]_spoolVars
=============================================================================
