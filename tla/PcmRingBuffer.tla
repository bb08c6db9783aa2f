----------------------------- MODULE PcmRingBuffer -----------------------------
(***************************************************************************)
(* PcmRingBuffer: a ring of frames between one producer and one consumer,  *)
(* on miniaudio's ma_rb.  Each side owns one offset, paired with a flag    *)
(* that is flipped whenever the offset wraps; the flags tell a full ring   *)
(* from an empty one.  write() and read() bound their work by what they    *)
(* see on entry and then move chunks that do not cross the end of the ring.*)
(*                                                                         *)
(* Frames are numbered in the order in which the producer stores them; a   *)
(* write that does not fit drops its tail, which never gets a number.      *)
(***************************************************************************)
EXTENDS Integers

CONSTANTS Capacity,   \* total_frames
          MaxRequest, \* bound: frames asked for by one call
          MaxFrames   \* bound: frames stored in a behaviour

ASSUME RingAssumption ==
  /\ Capacity \in Nat \ {0} /\ MaxRequest \in Nat /\ MaxFrames \in Nat

VARIABLES
  mem,                   \* the number of the frame in each cell; -1 at first
  wOff, wFlag,           \* encodedWriteOffset
  rOff, rFlag,           \* encodedReadOffset
  wpc, wLeft, wChunk, wDone,   \* write(): step, remaining, actual, frames copied
  rpc, rLeft, rChunk, rDone,   \* read()
  written, consumed,     \* history: frames committed by each side
  heard                  \* the frame that read() copied last

writer == <<wOff, wFlag, wpc, wLeft, wChunk, wDone, written>>
reader == <<rOff, rFlag, rpc, rLeft, rChunk, rDone, consumed>>
ringVars == <<mem, writer, reader, heard>>

Least(a, b) == IF a <= b THEN a ELSE b
Cells == 0..Capacity - 1

RingInit ==
  /\ mem = [i \in Cells |-> -1]
  /\ wOff = 0 /\ wFlag = 0 /\ rOff = 0 /\ rFlag = 0
  /\ wpc = "idle" /\ wLeft = 0 /\ wChunk = 0 /\ wDone = 0
  /\ rpc = "idle" /\ rLeft = 0 /\ rChunk = 0 /\ rDone = 0
  /\ written = 0 /\ consumed = 0 /\ heard = -1

(* init() on a ring in use before: offsets, flags and contents start anew.  *)
RingReset ==
  /\ mem' = [i \in Cells |-> -1]
  /\ wOff' = 0 /\ wFlag' = 0 /\ rOff' = 0 /\ rFlag' = 0
  /\ wpc' = "idle" /\ wLeft' = 0 /\ wChunk' = 0 /\ wDone' = 0
  /\ rpc' = "idle" /\ rLeft' = 0 /\ rChunk' = 0 /\ rDone' = 0
  /\ written' = 0 /\ consumed' = 0 /\ heard' = -1

(* ma_rb_pointer_distance.                                                 *)
Distance == IF rFlag = wFlag THEN wOff - rOff ELSE wOff + (Capacity - rOff)

-------------------------------------------------------------------------------
(* write.  The bound on the work is the space available on entry.          *)
BeginWrite ==
  /\ wpc = "idle"
  /\ \E n \in 0..MaxRequest :
       /\ written + n <= MaxFrames
       /\ wLeft' = Least(n, Capacity - Distance)
       /\ wpc' = IF wLeft' = 0 THEN "idle" ELSE "acquire"
  /\ UNCHANGED <<mem, wOff, wFlag, wChunk, wDone, written, reader, heard>>

(* Mutant: behind the reader, the chunk runs to the end of the ring.       *)
AcquireWriteThrough ==
  /\ wpc = "acquire"
  /\ wChunk' = IF wFlag = rFlag THEN Least(wLeft, Capacity - wOff) ELSE Capacity - wOff
  /\ wDone' = 0
  /\ wpc' = IF wChunk' = 0 THEN "idle" ELSE "copy"
  /\ UNCHANGED <<mem, wOff, wFlag, wLeft, written, reader, heard>>

(* ma_rb_acquire_write: up to the end of the ring, or up to the reader.    *)
AcquireWrite ==
  /\ wpc = "acquire"
  /\ wChunk' = Least(wLeft, IF wFlag = rFlag THEN Capacity - wOff ELSE rOff - wOff)
  /\ wDone' = 0
  /\ wpc' = IF wChunk' = 0 THEN "idle" ELSE "copy"
  /\ UNCHANGED <<mem, wOff, wFlag, wLeft, written, reader, heard>>

(* memcpy into the ring, a frame at a time.                                *)
CopyIn ==
  /\ wpc = "copy"
  /\ mem' = [mem EXCEPT ![wOff + wDone] = written + wDone]
  /\ wDone' = wDone + 1
  /\ wpc' = IF wDone' = wChunk THEN "commit" ELSE "copy"
  /\ UNCHANGED <<wOff, wFlag, wLeft, wChunk, written, reader, heard>>

(* ma_rb_commit_write, and the loop's test.                                *)
CommitWrite ==
  /\ wpc = "commit"
  /\ IF wOff + wChunk = Capacity
       THEN wOff' = 0 /\ wFlag' = 1 - wFlag
       ELSE wOff' = wOff + wChunk /\ UNCHANGED wFlag
  /\ written' = written + wChunk
  /\ wLeft' = wLeft - wChunk
  /\ wpc' = IF wLeft' > 0 THEN "acquire" ELSE "idle"
  /\ UNCHANGED <<mem, wChunk, wDone, reader, heard>>

-------------------------------------------------------------------------------
(* read.                                                                   *)
BeginRead ==
  /\ rpc = "idle"
  /\ \E n \in 0..MaxRequest :
       /\ rLeft' = Least(n, Distance)
       /\ rpc' = IF rLeft' = 0 THEN "idle" ELSE "acquire"
  /\ UNCHANGED <<mem, writer, rOff, rFlag, rChunk, rDone, consumed, heard>>

(* ma_rb_acquire_read: up to the writer, or up to the end of the ring.     *)
AcquireRead ==
  /\ rpc = "acquire"
  /\ rChunk' = Least(rLeft, IF rFlag = wFlag THEN wOff - rOff ELSE Capacity - rOff)
  /\ rDone' = 0
  /\ rpc' = IF rChunk' = 0 THEN "idle" ELSE "copy"
  /\ UNCHANGED <<mem, writer, rOff, rFlag, rLeft, consumed, heard>>

(* Mutant: the second chunk is taken from the start of the first.          *)
CopyOutRewound ==
  /\ rpc = "copy"
  /\ heard' = mem[rDone]
  /\ rDone' = rDone + 1
  /\ rpc' = IF rDone' = rChunk THEN "commit" ELSE "copy"
  /\ UNCHANGED <<mem, writer, rOff, rFlag, rLeft, rChunk, consumed>>

CopyOut ==
  /\ rpc = "copy"
  /\ heard' = mem[rOff + rDone]
  /\ rDone' = rDone + 1
  /\ rpc' = IF rDone' = rChunk THEN "commit" ELSE "copy"
  /\ UNCHANGED <<mem, writer, rOff, rFlag, rLeft, rChunk, consumed>>

(* ma_rb_commit_read.                                                      *)
CommitRead ==
  /\ rpc = "commit"
  /\ IF rOff + rChunk = Capacity
       THEN rOff' = 0 /\ rFlag' = 1 - rFlag
       ELSE rOff' = rOff + rChunk /\ UNCHANGED rFlag
  /\ consumed' = consumed + rChunk
  /\ rLeft' = rLeft - rChunk
  /\ rpc' = IF rLeft' > 0 THEN "acquire" ELSE "idle"
  /\ UNCHANGED <<mem, writer, rChunk, rDone, heard>>

Write == BeginWrite \/ AcquireWrite \/ CopyIn \/ CommitWrite
Read  == BeginRead \/ AcquireRead \/ CopyOut \/ CommitRead

-------------------------------------------------------------------------------
RingSteps == {"idle", "acquire", "copy", "commit"}

(* Types and ranges: no chunk leaves the ring.                             *)
RingTypeOK ==
  /\ mem \in [Cells -> Int]
  /\ wOff \in Cells /\ rOff \in Cells /\ wFlag \in {0, 1} /\ rFlag \in {0, 1}
  /\ wpc \in RingSteps /\ rpc \in RingSteps
  /\ wLeft \in Nat /\ rLeft \in Nat
  /\ wChunk \in 0..Capacity /\ rChunk \in 0..Capacity
  /\ wDone \in 0..wChunk /\ rDone \in 0..rChunk
  /\ written \in Nat /\ consumed \in Nat /\ heard \in Int
  /\ wpc \in {"copy", "commit"} => wOff + wChunk <= Capacity
  /\ rpc \in {"copy", "commit"} => rOff + rChunk <= Capacity

(* The cells that the producer is filling and the cells that the consumer  *)
(* is copying never meet: no data race on the samples.                     *)
NoOverlap ==
  wpc \in {"copy", "commit"} /\ rpc \in {"copy", "commit"} =>
    wOff + wChunk <= rOff \/ rOff + rChunk <= wOff

(* The consumer hears every stored frame once and in order, whatever wraps *)
(* and short calls there are: the frame copied last is the one due.        *)
InOrder == rpc \in {"copy", "commit"} /\ rDone > 0 => heard = consumed + rDone - 1

================================================================================
