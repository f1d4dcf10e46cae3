---------------------------- MODULE ReplayBuffer ----------------------------
(***************************************************************************)
(* The replay buffer of one daemon session (server/replay.rs).             *)
(*                                                                         *)
(* A frame is named by its event sequence number.  Output frames and empty *)
(* resize frames share the numbering; the set outs, kept by the caller,    *)
(* holds the numbers that carry output.  Frames enter in ascending order,  *)
(* so a VecDeque or a spool file is the set of its numbers, and a byte     *)
(* budget is a number of output frames (a resize carries no payload).      *)
(* The disk is taken to be healthy: a spool write never fails.             *)
(***************************************************************************)
EXTENDS Integers, FiniteSets

CONSTANTS MemMax,    \* SESSION_BUFFER_MAX_BYTES, in output frames
          SpoolMax   \* SESSION_SPOOL_MAX_BYTES, in output frames

ASSUME BufferCaps == MemMax \in Nat \ {0} /\ SpoolMax \in Nat

NoCheckpoint == -1

(***************************************************************************)
(* mem and spool: the frames in memory and on disk.  checkpoint: the       *)
(* sequence number of the accepted xterm snapshot; screen: the outputs the *)
(* serialized screen really shows.                                         *)
(***************************************************************************)
Buffer == [mem: SUBSET Nat, spool: SUBSET Nat, checkpoint: Nat \cup {NoCheckpoint},
           screen: SUBSET Nat, truncated: BOOLEAN]

EmptyBuffer == [mem |-> {}, spool |-> {}, checkpoint |-> NoCheckpoint,
                screen |-> {}, truncated |-> FALSE]

\* The longest tail of S that carries at most cap output frames.
Newest(S, outs, cap) == {n \in S : Cardinality({m \in S \cap outs : m >= n}) <= cap}

\* The loop of push_output, when it is through: the oldest frames spilled to the
\* spool while memory is over budget, and the oldest spooled frames dropped over
\* the spool's cap.
Settled(b, outs) ==
    LET mem  == Newest(b.mem, outs, MemMax)
        disk == b.spool \cup (b.mem \ mem)
        kept == Newest(disk, outs, SpoolMax)
    IN  [b EXCEPT !.mem = mem, !.spool = kept, !.truncated = @ \/ kept # disk]

\* push_output
PushOutput(b, outs, n) == Settled([b EXCEPT !.mem = @ \cup {n}], outs)

\* push_resize: an empty frame at the tail is overwritten, its number included.
PushResize(b, outs, n) ==
    LET trailing == {m \in b.mem \ outs : \A k \in b.mem : k <= m}
    IN  [b EXCEPT !.mem = (@ \ trailing) \cup {n}]

\* live_frames: the raw events, without the checkpoint.
LiveFrames(b) == b.spool \cup b.mem

\* Mutant: a truncated buffer reports the sequence it once started from.
OldestForgetsTruncation(b, k) == b.checkpoint # NoCheckpoint /\ b.checkpoint > k

\* oldest_sequence() > k, where the checkpoint, when there is one, stands for
\* the oldest event and an empty buffer answers 0.
OldestAfter(b, k) ==
    IF b.checkpoint # NoCheckpoint
    THEN b.checkpoint > k
    ELSE LiveFrames(b) # {} /\ \A n \in LiveFrames(b) : n > k

\* accept_checkpoint: a snapshot no newer than the present one is ignored;
\* another one replaces it and every frame it covers is dropped.
AcceptCheckpoint(b, n, screen) ==
    IF b.checkpoint >= n
    THEN b
    ELSE [b EXCEPT !.checkpoint = n, !.screen = screen,
                   !.mem = {m \in @ : m > n}, !.spool = {m \in @ : m > n}]
=============================================================================
