-------------------------- MODULE HardwareDeviceProofs --------------------------
(***************************************************************************)
(* Proofs about PcmRingBuffer and HardwareDevice: for any capacity of the  *)
(* ring, requests of any size and behaviours of any length, any requested  *)
(* width and any widths that the backend may give a stream.                *)
(***************************************************************************)
EXTENDS HardwareDevice, TLAPS

(* The frames that were committed and are not consumed.                    *)
Stored == written - consumed

(* The cell i places after offset o.                                       *)
Cell(o, i) == IF o + i < Capacity THEN o + i ELSE o + i - Capacity

Moving == {"copy", "commit"}

(* Offsets and flags tell how many frames are stored; a full ring differs  *)
(* from an empty one by its flags.                                         *)
OffsetsTellStored ==
  /\ Stored \in 0..Capacity
  /\ rFlag = wFlag => wOff - rOff = Stored
  /\ rFlag # wFlag => wOff + (Capacity - rOff) = Stored

(* A side never takes on more than there was when it began, which the      *)
(* other side can only increase.                                           *)
WriterFits ==
  /\ wpc # "idle" => wLeft \in 1..Capacity - Stored
  /\ wpc \in Moving => wChunk \in 1..wLeft
  /\ wpc = "copy" => wDone < wChunk
  /\ wpc = "commit" => wDone = wChunk

ReaderFits ==
  /\ rpc # "idle" => rLeft \in 1..Stored
  /\ rpc \in Moving => rChunk \in 1..rLeft
  /\ rpc = "copy" => rDone < rChunk
  /\ rpc = "commit" => rDone = rChunk

(* Every stored frame is where the consumer will look for it, and what is  *)
(* copied so far is where the commit will put it.                          *)
FramesInPlace ==
  /\ \A i \in 0..Stored - 1 : mem[Cell(rOff, i)] = consumed + i
  /\ wpc \in Moving => \A i \in 0..wDone - 1 : mem[wOff + i] = written + i

RingInv == RingTypeOK /\ OffsetsTellStored /\ WriterFits /\ ReaderFits /\ FramesInPlace /\ InOrder

(* A new ring and one that init() made anew satisfy it.                    *)
LEMMA RingStarts ==
  /\ RingInit => RingInv
  /\ RingReset => RingInv'
<1> USE RingAssumption
    DEF RingInv, RingTypeOK, OffsetsTellStored, WriterFits, ReaderFits, FramesInPlace, InOrder,
        Stored, Moving, RingSteps, Cells
<1>1. RingInit => RingInv
  BY DEF RingInit
<1>2. RingReset => RingInv'
  BY DEF RingReset
<1> QED BY <1>1, <1>2

(* The producer's side.                                                    *)
LEMMA WriteKeepsRing == RingInv /\ Write => RingInv'
<1> SUFFICES ASSUME RingInv, Write PROVE RingInv'
  OBVIOUS
<1> USE RingAssumption DEF writer, reader
<1>1. /\ Capacity \in Nat \ {0} /\ written \in Nat /\ consumed \in Nat
      /\ wOff \in Cells /\ rOff \in Cells /\ wLeft \in Nat /\ wChunk \in 0..Capacity
      /\ wDone \in 0..wChunk /\ mem \in [Cells -> Int] /\ Stored \in 0..Capacity
  BY DEF RingInv, RingTypeOK, OffsetsTellStored
<1>2. UNCHANGED reader /\ UNCHANGED heard
  BY DEF Write, BeginWrite, AcquireWrite, CopyIn, CommitWrite
<1>3. CASE BeginWrite
  <2>1. UNCHANGED <<mem, wOff, wFlag, wChunk, wDone, written>>
    BY <1>3 DEF BeginWrite
  <2>2. wLeft' \in 0..Capacity - Stored /\ wpc' = IF wLeft' = 0 THEN "idle" ELSE "acquire"
    <3>1. Distance = Stored
      BY <1>1 DEF Distance, RingInv, RingTypeOK, OffsetsTellStored, Cells
    <3> QED BY <1>1, <1>3, <3>1 DEF BeginWrite, Least
  <2>3. RingTypeOK'
    BY <1>1, <1>2, <2>1, <2>2 DEF RingInv, RingTypeOK, RingSteps
  <2>4. OffsetsTellStored' /\ WriterFits' /\ ReaderFits'
    BY <1>1, <1>2, <2>1, <2>2 DEF RingInv, OffsetsTellStored, WriterFits, ReaderFits, Stored, Moving
  <2>5. FramesInPlace' /\ InOrder'
    BY <1>2, <2>1, <2>2 DEF RingInv, FramesInPlace, InOrder, Stored, Cell, Moving
  <2> QED BY <2>3, <2>4, <2>5 DEF RingInv
<1>4. CASE AcquireWrite
  <2>1. UNCHANGED <<mem, wOff, wFlag, wLeft, written>> /\ wDone' = 0 /\ wpc = "acquire"
    BY <1>4 DEF AcquireWrite
  <2>2. wChunk' \in 1..wLeft /\ wOff + wChunk' <= Capacity /\ wChunk' \in 0..Capacity
    BY <1>1, <1>4 DEF AcquireWrite, Least, RingInv, RingTypeOK, OffsetsTellStored, WriterFits, Cells
  <2>3. wpc' = "copy"
    BY <1>4, <2>2 DEF AcquireWrite
  <2>4. RingTypeOK'
    BY <1>1, <1>2, <2>1, <2>2, <2>3 DEF RingInv, RingTypeOK, RingSteps
  <2>5. OffsetsTellStored' /\ WriterFits' /\ ReaderFits'
    BY <1>1, <1>2, <2>1, <2>2, <2>3
    DEF RingInv, OffsetsTellStored, WriterFits, ReaderFits, Stored, Moving
  <2>6. FramesInPlace' /\ InOrder'
    BY <1>2, <2>1, <2>2, <2>3 DEF RingInv, FramesInPlace, InOrder, Stored, Cell, Moving
  <2> QED BY <2>4, <2>5, <2>6 DEF RingInv
<1>5. CASE CopyIn
  <2>1. UNCHANGED <<wOff, wFlag, wLeft, wChunk, written>>
        /\ mem' = [mem EXCEPT ![wOff + wDone] = written + wDone]
        /\ wDone' = wDone + 1 /\ wpc = "copy"
        /\ wpc' = IF wDone' = wChunk THEN "commit" ELSE "copy"
    BY <1>5 DEF CopyIn
  <2>2. /\ wDone < wChunk /\ wChunk \in 1..Capacity - Stored /\ wOff + wChunk <= Capacity
        /\ wOff + wDone \in Cells
    BY <1>1, <2>1 DEF RingInv, RingTypeOK, WriterFits, Moving, Cells
  <2>3. RingTypeOK'
    BY <1>1, <1>2, <2>1, <2>2 DEF RingInv, RingTypeOK, RingSteps
  <2>4. OffsetsTellStored' /\ WriterFits' /\ ReaderFits'
    BY <1>1, <1>2, <2>1, <2>2
    DEF RingInv, OffsetsTellStored, WriterFits, ReaderFits, Stored, Moving
  <2>5. ASSUME NEW i \in 0..Stored - 1 PROVE mem'[Cell(rOff, i)] = consumed + i
    <3>1. Cell(rOff, i) \in Cells /\ Cell(rOff, i) # wOff + wDone
      BY <1>1, <2>2 DEF Cell, Cells, RingInv, OffsetsTellStored
    <3> QED BY <1>1, <2>1, <3>1 DEF RingInv, FramesInPlace
  <2>6. ASSUME NEW i \in 0..wDone PROVE mem'[wOff + i] = written + i
    <3>1. wOff + i \in Cells
      BY <1>1, <2>2 DEF Cells
    <3>2. CASE i = wDone
      BY <1>1, <2>1, <3>1, <3>2
    <3>3. CASE i \in 0..wDone - 1
      <4>1. mem[wOff + i] = written + i
        BY <2>1, <3>3 DEF RingInv, FramesInPlace, Moving
      <4>2. wOff + i # wOff + wDone
        BY <1>1, <3>3 DEF Cells
      <4> QED BY <1>1, <2>1, <3>1, <4>1, <4>2
    <3> QED BY <1>1, <3>2, <3>3
  <2>7. FramesInPlace' /\ InOrder'
    <3>1. Stored' = Stored /\ UNCHANGED <<rOff, consumed, rpc, rDone, heard>>
      BY <1>2, <2>1 DEF Stored
    <3>2. \A i \in 0..Stored' - 1 : mem'[Cell(rOff', i)] = consumed' + i
      BY <2>5, <3>1 DEF Cell
    <3>3. \A i \in 0..wDone' - 1 : mem'[wOff' + i] = written' + i
      BY <1>1, <2>1, <2>6
    <3> QED BY <3>1, <3>2, <3>3 DEF RingInv, FramesInPlace, InOrder, Cell
  <2> QED BY <2>3, <2>4, <2>7 DEF RingInv
<1>6. CASE CommitWrite
  <2>1. /\ wpc = "commit" /\ wDone = wChunk /\ wChunk \in 1..wLeft /\ wLeft \in 1..Capacity - Stored
        /\ wOff + wChunk <= Capacity
    BY <1>1, <1>6 DEF CommitWrite, RingInv, RingTypeOK, WriterFits, Moving
  <2>2. /\ IF wOff + wChunk = Capacity
             THEN wOff' = 0 /\ wFlag' = 1 - wFlag
             ELSE wOff' = wOff + wChunk /\ UNCHANGED wFlag
        /\ written' = written + wChunk /\ wLeft' = wLeft - wChunk
        /\ wpc' = IF wLeft' > 0 THEN "acquire" ELSE "idle"
        /\ UNCHANGED <<mem, wChunk, wDone>>
    BY <1>6 DEF CommitWrite
  <2>3. Stored' = Stored + wChunk
    BY <1>1, <1>2, <2>2 DEF Stored
  <2>4. RingTypeOK'
    BY <1>1, <1>2, <2>1, <2>2 DEF RingInv, RingTypeOK, RingSteps, Cells
  <2>5. OffsetsTellStored'
    <3>1. Stored' \in 0..Capacity
      BY <1>1, <2>1, <2>3
    <3>2. wFlag \in {0, 1} /\ rFlag \in {0, 1} /\ UNCHANGED <<rOff, rFlag>>
      BY <1>2 DEF RingInv, RingTypeOK
    <3>3. CASE wOff + wChunk = Capacity
      <4>1. wFlag = rFlag
        BY <1>1, <2>1, <3>2, <3>3 DEF RingInv, OffsetsTellStored, Cells
      <4> QED BY <1>1, <2>1, <2>2, <2>3, <3>1, <3>2, <3>3, <4>1 DEF RingInv, OffsetsTellStored, Cells
    <3>4. CASE wOff + wChunk # Capacity
      <4>1. wOff' = wOff + wChunk /\ wFlag' = wFlag
        BY <2>2, <3>4
      <4> QED BY <1>1, <2>1, <2>3, <3>1, <3>2, <4>1 DEF RingInv, OffsetsTellStored, Cells
    <3> QED BY <3>3, <3>4
  <2>6. WriterFits' /\ ReaderFits'
    BY <1>1, <1>2, <2>1, <2>2, <2>3 DEF RingInv, RingTypeOK, WriterFits, ReaderFits, Moving
  <2>7. ASSUME NEW i \in 0..Stored' - 1 PROVE mem'[Cell(rOff', i)] = consumed' + i
    <3>1. CASE i \in 0..Stored - 1
      BY <1>2, <2>2, <3>1 DEF RingInv, FramesInPlace, Cell
    <3>2. CASE i \in Stored..Stored + wChunk - 1
      <4>1. /\ Cell(rOff, i) = wOff + (i - Stored) /\ i - Stored \in 0..wDone - 1
            /\ written + (i - Stored) = consumed + i
        BY <1>1, <2>1, <3>2 DEF RingInv, OffsetsTellStored, Cell, Cells, Stored
      <4>2. mem[wOff + (i - Stored)] = written + (i - Stored)
        BY <2>1, <4>1 DEF RingInv, FramesInPlace, Moving
      <4> QED BY <1>2, <2>2, <4>1, <4>2 DEF Cell
    <3> QED BY <1>1, <2>1, <2>3, <3>1, <3>2
  <2>8. wpc' \notin Moving
    BY <2>2 DEF Moving
  <2>9. FramesInPlace' /\ InOrder'
    BY <1>2, <2>7, <2>8 DEF RingInv, FramesInPlace, InOrder
  <2> QED BY <2>4, <2>5, <2>6, <2>9 DEF RingInv
<1> QED BY <1>3, <1>4, <1>5, <1>6 DEF Write

(* The consumer's side.                                                    *)
LEMMA ReadKeepsRing == RingInv /\ Read => RingInv'
<1> SUFFICES ASSUME RingInv, Read PROVE RingInv'
  OBVIOUS
<1> USE RingAssumption DEF writer, reader
<1>1. /\ Capacity \in Nat \ {0} /\ written \in Nat /\ consumed \in Nat
      /\ wOff \in Cells /\ rOff \in Cells /\ rLeft \in Nat /\ rChunk \in 0..Capacity
      /\ rDone \in 0..rChunk /\ mem \in [Cells -> Int] /\ Stored \in 0..Capacity
  BY DEF RingInv, RingTypeOK, OffsetsTellStored
<1>2. UNCHANGED writer /\ UNCHANGED mem
  BY DEF Read, BeginRead, AcquireRead, CopyOut, CommitRead
<1>3. CASE BeginRead
  <2>1. UNCHANGED <<rOff, rFlag, rChunk, rDone, consumed, heard>> /\ rpc = "idle"
    BY <1>3 DEF BeginRead
  <2>2. rLeft' \in 0..Stored /\ rpc' = IF rLeft' = 0 THEN "idle" ELSE "acquire"
    <3>1. Distance = Stored
      BY <1>1 DEF Distance, RingInv, RingTypeOK, OffsetsTellStored, Cells
    <3> QED BY <1>1, <1>3, <3>1 DEF BeginRead, Least
  <2>3. RingTypeOK'
    BY <1>1, <1>2, <2>1, <2>2 DEF RingInv, RingTypeOK, RingSteps
  <2>4. OffsetsTellStored' /\ WriterFits' /\ ReaderFits'
    BY <1>1, <1>2, <2>1, <2>2 DEF RingInv, OffsetsTellStored, WriterFits, ReaderFits, Stored, Moving
  <2>5. FramesInPlace' /\ InOrder'
    BY <1>2, <2>1, <2>2 DEF RingInv, FramesInPlace, InOrder, Stored, Cell
  <2> QED BY <2>3, <2>4, <2>5 DEF RingInv
<1>4. CASE AcquireRead
  <2>1. UNCHANGED <<rOff, rFlag, rLeft, consumed, heard>> /\ rDone' = 0 /\ rpc = "acquire"
    BY <1>4 DEF AcquireRead
  <2>2. rChunk' \in 1..rLeft /\ rOff + rChunk' <= Capacity /\ rChunk' \in 0..Capacity
    BY <1>1, <1>4 DEF AcquireRead, Least, RingInv, RingTypeOK, OffsetsTellStored, ReaderFits, Cells
  <2>3. rpc' = "copy"
    BY <1>4, <2>2 DEF AcquireRead
  <2>4. RingTypeOK'
    BY <1>1, <1>2, <2>1, <2>2, <2>3 DEF RingInv, RingTypeOK, RingSteps
  <2>5. OffsetsTellStored' /\ WriterFits' /\ ReaderFits'
    BY <1>1, <1>2, <2>1, <2>2, <2>3
    DEF RingInv, OffsetsTellStored, WriterFits, ReaderFits, Stored, Moving
  <2>6. FramesInPlace' /\ InOrder'
    BY <1>2, <2>1, <2>2, <2>3 DEF RingInv, FramesInPlace, InOrder, Stored, Cell
  <2> QED BY <2>4, <2>5, <2>6 DEF RingInv
<1>5. CASE CopyOut
  <2>1. UNCHANGED <<rOff, rFlag, rLeft, rChunk, consumed>> /\ rDone' = rDone + 1 /\ rpc = "copy"
        /\ heard' = mem[rOff + rDone] /\ rpc' = IF rDone' = rChunk THEN "commit" ELSE "copy"
    BY <1>5 DEF CopyOut
  <2>2. rDone < rChunk /\ rChunk \in 1..Stored /\ rOff + rChunk <= Capacity
    BY <1>1, <2>1 DEF RingInv, RingTypeOK, ReaderFits, Moving
  <2>3. rOff + rDone = Cell(rOff, rDone) /\ rDone \in 0..Stored - 1
    BY <1>1, <2>2 DEF Cell, Cells
  <2>4. heard' = consumed + rDone
    BY <2>1, <2>3 DEF RingInv, FramesInPlace
  <2>5. RingTypeOK'
    BY <1>1, <1>2, <2>1, <2>2, <2>4 DEF RingInv, RingTypeOK, RingSteps
  <2>6. OffsetsTellStored' /\ WriterFits' /\ ReaderFits'
    BY <1>1, <1>2, <2>1, <2>2
    DEF RingInv, OffsetsTellStored, WriterFits, ReaderFits, Stored, Moving
  <2>7. FramesInPlace' /\ InOrder'
    BY <1>1, <1>2, <2>1, <2>4 DEF RingInv, FramesInPlace, InOrder, Stored, Cell
  <2> QED BY <2>5, <2>6, <2>7 DEF RingInv
<1>6. CASE CommitRead
  <2>1. /\ rpc = "commit" /\ rDone = rChunk /\ rChunk \in 1..rLeft /\ rLeft \in 1..Stored
        /\ rOff + rChunk <= Capacity
    BY <1>1, <1>6 DEF CommitRead, RingInv, RingTypeOK, ReaderFits, Moving
  <2>2. /\ IF rOff + rChunk = Capacity
             THEN rOff' = 0 /\ rFlag' = 1 - rFlag
             ELSE rOff' = rOff + rChunk /\ UNCHANGED rFlag
        /\ consumed' = consumed + rChunk /\ rLeft' = rLeft - rChunk
        /\ rpc' = IF rLeft' > 0 THEN "acquire" ELSE "idle"
        /\ UNCHANGED <<rChunk, rDone, heard>>
    BY <1>6 DEF CommitRead
  <2>3. Stored' = Stored - rChunk
    BY <1>1, <1>2, <2>2 DEF Stored
  <2>4. RingTypeOK'
    BY <1>1, <1>2, <2>1, <2>2 DEF RingInv, RingTypeOK, RingSteps, Cells
  <2>5. OffsetsTellStored'
    <3>1. Stored' \in 0..Capacity
      BY <1>1, <2>1, <2>3
    <3>2. wFlag \in {0, 1} /\ rFlag \in {0, 1} /\ UNCHANGED <<wOff, wFlag>>
      BY <1>2 DEF RingInv, RingTypeOK
    <3>3. CASE rOff + rChunk = Capacity
      <4>1. wFlag # rFlag
        BY <1>1, <2>1, <3>2, <3>3 DEF RingInv, OffsetsTellStored, Cells
      <4> QED BY <1>1, <2>1, <2>2, <2>3, <3>1, <3>2, <3>3, <4>1 DEF RingInv, OffsetsTellStored, Cells
    <3>4. CASE rOff + rChunk # Capacity
      <4>1. rOff' = rOff + rChunk /\ rFlag' = rFlag
        BY <2>2, <3>4
      <4> QED BY <1>1, <2>1, <2>3, <3>1, <3>2, <4>1 DEF RingInv, OffsetsTellStored, Cells
    <3> QED BY <3>3, <3>4
  <2>6. WriterFits' /\ ReaderFits'
    BY <1>1, <1>2, <2>1, <2>2, <2>3 DEF RingInv, RingTypeOK, WriterFits, ReaderFits, Moving
  <2>7. ASSUME NEW i \in 0..Stored' - 1 PROVE mem'[Cell(rOff', i)] = consumed' + i
    <3>1. Cell(rOff', i) = Cell(rOff, i + rChunk) /\ i + rChunk \in 0..Stored - 1
      <4>1. /\ i \in Nat /\ rChunk \in Nat /\ rOff \in 0..Capacity - 1 /\ Stored \in 0..Capacity
            /\ i + rChunk \in 0..Stored - 1
        BY <1>1, <2>1, <2>3 DEF Cells
      <4>2. CASE rOff + rChunk = Capacity
        <5>1. rOff' = 0
          BY <2>2, <4>2
        <5> QED BY <4>1, <4>2, <5>1 DEF Cell
      <4>3. CASE rOff + rChunk # Capacity
        <5>1. rOff' = rOff + rChunk
          BY <2>2, <4>3
        <5> QED BY <4>1, <5>1 DEF Cell
      <4> QED BY <4>1, <4>2, <4>3
    <3>2. mem[Cell(rOff, i + rChunk)] = consumed + (i + rChunk)
      BY <3>1 DEF RingInv, FramesInPlace
    <3> QED BY <1>1, <1>2, <2>1, <2>2, <3>1, <3>2
  <2>8. FramesInPlace' /\ InOrder'
    BY <1>2, <2>2, <2>7 DEF RingInv, FramesInPlace, InOrder
  <2> QED BY <2>4, <2>5, <2>6, <2>8 DEF RingInv
<1> QED BY <1>3, <1>4, <1>5, <1>6 DEF Read

(* The cells being filled and the cells being copied are apart.            *)
LEMMA SidesApart == RingInv => NoOverlap
  BY RingAssumption
  DEF RingInv, RingTypeOK, OffsetsTellStored, WriterFits, ReaderFits, NoOverlap, Moving, Cells

-------------------------------------------------------------------------------
Prepared == width # 0 /\ width = internal /\ ringWidth = width /\ ioWidth = width
Running  == {"fill", "uncork", "announce", "loop", "poll", "callback", "copying", "cork",
             "corked", "store"}

(* What a ma_device_init that failed after connecting the stream leaves.   *)
Stranded == [ZeroDevice EXCEPT !.stream = TRUE, !.setUpFailed = TRUE]

(* Who owns what: before ma_device_init, or after the join, there is no    *)
(* worker and either nothing or a stream whose set-up failed; the flag is  *)
(* on from the end of ma_device_init to the join.                          *)
Ownership ==
  /\ opc = "open" \/ (opc = "idle" /\ ~initialized) =>
       tpc = "none" /\ dev \in {ZeroDevice, Stranded}
  /\ opc = "setUp" => tpc = "none" /\ dev = [ZeroDevice EXCEPT !.stream = TRUE]
  /\ opc \in {"open", "setUp", "awaitStop"} => ~initialized
  /\ opc \notin {"idle", "open", "setUp", "awaitStop"} => initialized
  /\ result => initialized

(* While the rings are made and the width is settled, nothing runs.        *)
QuietWhileOpening ==
  opc \in {"open", "setUp", "awaitStop", "prepare"} =>
    tpc \notin Running /\ dev.state \notin {"starting", "started"} /\ ~inGraph

WidthSettles ==
  /\ opc = "awaitStop" => internal # 0
  /\ opc = "prepare" => width # 0 /\ width = internal

(* A device that was, is or is about to be started is prepared.            *)
StartedIsPrepared ==
  /\ opc \in {"start", "awaitStart", "restart", "awaitRestart"} \/ (opc = "idle" /\ initialized) => Prepared
  /\ tpc \in Running \/ dev.state \in {"starting", "started"} => Prepared
  /\ inGraph => Prepared /\ initialized /\ opc \in {"idle", "restart", "awaitRestart"}

DeviceInv == TypeOK /\ RingInv /\ Ownership /\ QuietWhileOpening /\ WidthSettles /\ StartedIsPrepared

(* The steps of the device that leave the ring alone.                      *)
RingKept ==
  \/ CallInit \/ CallStop \/ OpenFails \/ ConnectStream \/ SetUpFails \/ OpenDevice
  \/ Negotiate \/ StartDevice \/ StartReturns \/ SetUninitialized \/ WakeDataLoop \/ SignalWorker \/ JoinWorker
  \/ Boot \/ Wake \/ Fill \/ StartFails \/ Started \/ Announce \/ DataLoop
  \/ PollWoken \/ Corked \/ LeaveOrStop \/ StoreStopped \/ PostStopped \/ CallbackReturns
  \/ PollFails \/ OnRead \/ OnWrite \/ Publish \/ Retire

(* The steps in which the callback or the engine moves frames.             *)
FramesMove == CallBack \/ CallbackCopies \/ ProcessBlock

(* A step is one of these, or the preparation, or nothing happens.         *)
LEMMA KindsOfStep == [Next]_vars => RingKept \/ FramesMove \/ Prepare \/ UNCHANGED vars
  BY DEF Next, OwnerStep, WorkerStep, RingKept, FramesMove, Aborted

LEMMA RingKeptKeeps == RingKept => UNCHANGED ringVars
  BY DEF RingKept, CallInit, CallStop, OpenFails, ConnectStream, SetUpFails, OpenDevice, Negotiate, StartDevice,
         StartReturns, SetUninitialized, WakeDataLoop, SignalWorker, JoinWorker,
         Boot, Wake, Fill, StartFails, Started, Announce, DataLoop, PollWoken, Corked,
         LeaveOrStop, StoreStopped, PostStopped, CallbackReturns, PollFails, OnRead,
         OnWrite, Handler, WorkerGoes, Publish, Retire

LEMMA FramesMoveBySides ==
  FramesMove => /\ Write \/ Read
                /\ UNCHANGED <<object, opc, result, info, inGraph, dev, back>>
                /\ tpc' = tpc \/ (tpc = "callback" /\ tpc' = "copying")
  BY DEF FramesMove, CallBack, CallbackCopies, ProcessBlock, Write, Read, worker

(* Whatever a step of the device is, the ring stays right.                 *)
LEMMA DeviceKeepsRing == RingInv /\ [Next]_vars => RingInv'
<1> SUFFICES ASSUME RingInv, [Next]_vars PROVE RingInv'
  OBVIOUS
<1>1. CASE UNCHANGED ringVars
  BY <1>1 DEF ringVars, writer, reader, RingInv, RingTypeOK, OffsetsTellStored, WriterFits,
              ReaderFits, FramesInPlace, InOrder, Stored, Moving, RingSteps, Cells, Cell
<1>2. CASE FramesMove
  BY <1>2, FramesMoveBySides, WriteKeepsRing, ReadKeepsRing
<1>3. CASE Prepare
  BY <1>3, RingStarts DEF Prepare
<1> QED BY <1>1, <1>2, <1>3, KindsOfStep, RingKeptKeeps DEF vars

(* The device's own part of the invariant.                                 *)
DeviceTypes ==
  /\ capture \in BOOLEAN /\ requested \in Nat
  /\ opc \in OwnerSteps /\ result \in BOOLEAN /\ initialized \in BOOLEAN
  /\ width \in Nat /\ internal \in Nat /\ ringWidth \in Nat /\ ioWidth \in Nat
  /\ inGraph \in BOOLEAN
  /\ dev \in [state : {"uninitialized", "stopped", "starting", "started"},
              wakeupEvent : BOOLEAN, startEvent : BOOLEAN, stopEvent : BOOLEAN,
              workOk : BOOLEAN, stream : BOOLEAN, wakeup : BOOLEAN, setUpFailed : BOOLEAN]
  /\ tpc \in WorkerSteps /\ back \in {"uncork", "loop", "cork"}

OwnInv == DeviceTypes /\ Ownership /\ QuietWhileOpening /\ WidthSettles /\ StartedIsPrepared

LEMMA PartsOfInv ==
  /\ DeviceInv <=> OwnInv /\ RingInv
  /\ DeviceInv' <=> OwnInv' /\ RingInv'
  BY DEF DeviceInv, OwnInv, DeviceTypes, TypeOK, RingInv

LEMMA DeviceStarts == Init => DeviceInv
<1> SUFFICES ASSUME Init PROVE OwnInv
  BY RingStarts, PartsOfInv DEF Init
<1> QED
  BY DeviceAssumption
  DEF Init, OwnInv, DeviceTypes, Ownership, QuietWhileOpening, WidthSettles, StartedIsPrepared,
      ZeroDevice, OwnerSteps, WorkerSteps, Running

(* A device without a worker is in state "uninitialized".                  *)
LEMMA WithoutWorker ==
  ASSUME NEW d \in {ZeroDevice, Stranded, [ZeroDevice EXCEPT !.stream = TRUE]}
  PROVE  /\ d.state = "uninitialized"
         /\ d \in [state : {"uninitialized", "stopped", "starting", "started"},
                   wakeupEvent : BOOLEAN, startEvent : BOOLEAN, stopEvent : BOOLEAN,
                   workOk : BOOLEAN, stream : BOOLEAN, wakeup : BOOLEAN, setUpFailed : BOOLEAN]
         /\ d \in {ZeroDevice, Stranded} => d.stream = d.setUpFailed
<1>1. CASE d = ZeroDevice
  BY <1>1 DEF ZeroDevice
<1>2. CASE d = Stranded
  BY <1>2 DEF ZeroDevice, Stranded
<1>3. CASE d = [ZeroDevice EXCEPT !.stream = TRUE]
  <2>1. d # ZeroDevice /\ d # Stranded
    BY <1>3 DEF ZeroDevice, Stranded
  <2> QED BY <1>3, <2>1 DEF ZeroDevice
<1> QED BY <1>1, <1>2, <1>3

(* The owner's calls and steps.                                            *)
LEMMA OwnerKeepsOwn ==
  OwnInv /\ (CallInit \/ CallStop \/ OwnerStep) => OwnInv'
<1> SUFFICES ASSUME OwnInv, CallInit \/ CallStop \/ OwnerStep PROVE OwnInv'
  OBVIOUS
<1> USE DeviceAssumption
    DEF OwnInv, DeviceTypes, Ownership, QuietWhileOpening, WidthSettles, StartedIsPrepared,
        OwnerSteps, WorkerSteps, Running, Prepared, ZeroDevice, object, info, worker
<1>1. CASE CallInit
  <2>1. /\ opc = "idle" /\ opc' \in {"idle", "restart", "open"}
        /\ result' \in BOOLEAN /\ (result' => initialized)
        /\ opc' = "open" => ~initialized
        /\ opc' = "restart" => initialized
        /\ UNCHANGED <<capture, requested, initialized, width, internal, ringWidth, ioWidth, inGraph,
                       dev, tpc, back>>
    BY <1>1 DEF CallInit
  <2>2. ~initialized => tpc = "none" /\ dev \in {ZeroDevice, Stranded}
                        /\ dev.state = "uninitialized"
    <3> HIDE DEF ZeroDevice
    <3> QED BY <2>1, WithoutWorker
  <2> HIDE DEF ZeroDevice
  <2> QED BY <2>1, <2>2
<1>2. CASE CallStop
  <2>1. /\ opc = "idle" /\ opc' \in {"idle", "uninit"} /\ ~result' /\ result' \in BOOLEAN
        /\ opc' = "uninit" <=> initialized
    BY <1>2 DEF CallStop
  <2>2. UNCHANGED <<capture, requested, initialized, width, internal, ringWidth, ioWidth, inGraph,
                    dev, tpc, back>> /\ ~inGraph
    BY <1>2 DEF CallStop
  <2> QED BY <2>1, <2>2
<1>3. CASE OpenFails \/ ConnectStream \/ SetUpFails
  <2>1. /\ opc' \in {"idle", "setUp"} /\ opc \in {"open", "setUp"}
        /\ opc' = "setUp" => dev' = [ZeroDevice EXCEPT !.stream = TRUE]
        /\ opc' = "idle" => dev' \in {ZeroDevice, Stranded}
    BY <1>3 DEF OpenFails, ConnectStream, SetUpFails, Stranded
  <2>2. UNCHANGED <<capture, requested, result, initialized, width, internal, ringWidth, ioWidth,
                    inGraph, tpc, back>>
    BY <1>3 DEF OpenFails, ConnectStream, SetUpFails
  <2>3. /\ dev'.state = "uninitialized"
        /\ dev' \in [state : {"uninitialized", "stopped", "starting", "started"},
                     wakeupEvent : BOOLEAN, startEvent : BOOLEAN, stopEvent : BOOLEAN,
                     workOk : BOOLEAN, stream : BOOLEAN, wakeup : BOOLEAN, setUpFailed : BOOLEAN]
    <3> HIDE DEF ZeroDevice
    <3> QED BY <2>1, WithoutWorker
  <2> HIDE DEF ZeroDevice
  <2> QED BY <2>1, <2>2, <2>3
<1>4. CASE OpenDevice
  <2>1. /\ internal' \in Nat /\ internal' # 0
        /\ opc = "setUp" /\ opc' = "awaitStop" /\ tpc' = "boot"
    BY <1>4 DEF OpenDevice
  <2>2. UNCHANGED <<capture, requested, result, initialized, width, ringWidth, ioWidth, inGraph,
                    dev, back>>
    BY <1>4 DEF OpenDevice
  <2> QED BY <2>1, <2>2
<1>5. CASE Negotiate
  BY <1>5 DEF Negotiate
<1>6. CASE Prepare
  BY <1>6 DEF Prepare
<1>7. CASE StartDevice
  <2>1. /\ opc \in {"start", "restart"} /\ opc' \in {"awaitStart", "awaitRestart"}
        /\ opc = "start" => opc' = "awaitStart"
        /\ opc = "restart" => opc' = "awaitRestart"
        /\ UNCHANGED <<capture, requested, result, initialized, width, internal, ringWidth, ioWidth,
                       inGraph, tpc, back>>
    BY <1>7 DEF StartDevice
  <2>2. dev'.state = "starting"
        /\ dev' \in [state : {"uninitialized", "stopped", "starting", "started"},
                     wakeupEvent : BOOLEAN, startEvent : BOOLEAN, stopEvent : BOOLEAN,
                     workOk : BOOLEAN, stream : BOOLEAN, wakeup : BOOLEAN, setUpFailed : BOOLEAN]
    BY <1>7 DEF StartDevice
  <2> QED BY <2>1, <2>2
<1>8. CASE StartReturns
  <2>1. /\ dev' = [dev EXCEPT !.startEvent = FALSE, !.state = IF dev.workOk THEN @ ELSE "stopped"]
        /\ opc \in {"awaitStart", "awaitRestart"} /\ result' \in BOOLEAN
        /\ opc' \in {"idle", "uninit"} /\ initialized
    BY <1>8 DEF StartReturns
  <2>2. UNCHANGED <<capture, requested, initialized, width, internal, ringWidth, ioWidth, inGraph,
                    tpc, back>>
    BY <1>8 DEF StartReturns
  <2>3. opc' = "uninit" => opc = "awaitStart"
    BY <1>8 DEF StartReturns
  <2>4. /\ dev'.state \in {dev.state, "stopped"}
        /\ dev' \in [state : {"uninitialized", "stopped", "starting", "started"},
                     wakeupEvent : BOOLEAN, startEvent : BOOLEAN, stopEvent : BOOLEAN,
                     workOk : BOOLEAN, stream : BOOLEAN, wakeup : BOOLEAN, setUpFailed : BOOLEAN]
    BY <2>1
  <2> QED BY <2>1, <2>2, <2>3, <2>4
<1>9. CASE SetUninitialized
  <2>1. opc = "uninit" /\ opc' = "wake"
        /\ UNCHANGED <<capture, requested, result, initialized, width, internal, ringWidth, ioWidth,
                       inGraph, tpc, back>>
    BY <1>9 DEF SetUninitialized
  <2>2. dev'.state = "uninitialized"
        /\ dev' \in [state : {"uninitialized", "stopped", "starting", "started"},
                     wakeupEvent : BOOLEAN, startEvent : BOOLEAN, stopEvent : BOOLEAN,
                     workOk : BOOLEAN, stream : BOOLEAN, wakeup : BOOLEAN, setUpFailed : BOOLEAN]
    BY <1>9 DEF SetUninitialized
  <2> QED BY <2>1, <2>2
<1>10. CASE WakeDataLoop
  <2>1. opc = "wake" /\ opc' = "signal"
        /\ UNCHANGED <<capture, requested, result, initialized, width, internal, ringWidth, ioWidth,
                       inGraph, tpc, back>>
    BY <1>10 DEF WakeDataLoop
  <2>2. dev'.state = dev.state
        /\ dev' \in [state : {"uninitialized", "stopped", "starting", "started"},
                     wakeupEvent : BOOLEAN, startEvent : BOOLEAN, stopEvent : BOOLEAN,
                     workOk : BOOLEAN, stream : BOOLEAN, wakeup : BOOLEAN, setUpFailed : BOOLEAN]
    BY <1>10 DEF WakeDataLoop
  <2> QED BY <2>1, <2>2
<1>11. CASE SignalWorker
  <2>1. opc = "signal" /\ opc' = "join"
        /\ UNCHANGED <<capture, requested, result, initialized, width, internal, ringWidth, ioWidth,
                       inGraph, tpc, back>>
    BY <1>11 DEF SignalWorker
  <2>2. dev'.state = dev.state
        /\ dev' \in [state : {"uninitialized", "stopped", "starting", "started"},
                     wakeupEvent : BOOLEAN, startEvent : BOOLEAN, stopEvent : BOOLEAN,
                     workOk : BOOLEAN, stream : BOOLEAN, wakeup : BOOLEAN, setUpFailed : BOOLEAN]
    BY <1>11 DEF SignalWorker
  <2> QED BY <2>1, <2>2
<1>12. CASE JoinWorker
  BY <1>12 DEF JoinWorker
<1> QED
  BY <1>1, <1>2, <1>3, <1>4, <1>5, <1>6, <1>7, <1>8, <1>9, <1>10, <1>11, <1>12 DEF OwnerStep

(* The worker's steps, and PulseAudio's.                                   *)
LEMMA WorkerKeepsOwn ==
  OwnInv /\ (WorkerStep \/ PollFails \/ OnRead \/ OnWrite) => OwnInv'
<1> SUFFICES ASSUME OwnInv, WorkerStep \/ PollFails \/ OnRead \/ OnWrite PROVE OwnInv'
  OBVIOUS
<1> USE DEF OwnInv, DeviceTypes, Ownership, QuietWhileOpening, WidthSettles, StartedIsPrepared,
        OwnerSteps, WorkerSteps, Running, Prepared, object, info, worker, WorkerGoes
<1>1. CASE Boot
  BY <1>1 DEF Boot, ZeroDevice
<1>2. CASE Wake
  <2>1. /\ dev.wakeupEvent /\ tpc = "wait"
        /\ dev' = [dev EXCEPT !.wakeupEvent = FALSE, !.workOk = TRUE]
        /\ UNCHANGED <<capture, requested, opc, result, initialized, width, internal, ringWidth,
                       ioWidth, inGraph, back>>
    BY <1>2 DEF Wake
  <2>2. /\ tpc' \in {"exited", "uncork", "fill", "aborted"}
        /\ tpc' \in {"uncork", "fill"} => dev.state = "starting"
    BY <1>2 DEF Wake
  <2>3. /\ dev'.state = dev.state
        /\ dev' \in [state : {"uninitialized", "stopped", "starting", "started"},
                     wakeupEvent : BOOLEAN, startEvent : BOOLEAN, stopEvent : BOOLEAN,
                     workOk : BOOLEAN, stream : BOOLEAN, wakeup : BOOLEAN, setUpFailed : BOOLEAN]
    BY <2>1
  <2>4. tpc' \in WorkerSteps /\ tpc # "none"
    BY <2>1, <2>2
  <2> QED BY <2>1, <2>2, <2>3, <2>4
<1>3. CASE Fill
  BY <1>3 DEF Fill
<1>4. CASE StartFails
  <2>1. /\ tpc = "uncork" /\ tpc' = "wait"
        /\ UNCHANGED <<capture, requested, opc, result, initialized, width, internal, ringWidth, ioWidth,
                       inGraph, back>>
    BY <1>4 DEF StartFails
  <2>2. dev'.state = dev.state
        /\ dev' \in [state : {"uninitialized", "stopped", "starting", "started"},
                     wakeupEvent : BOOLEAN, startEvent : BOOLEAN, stopEvent : BOOLEAN,
                     workOk : BOOLEAN, stream : BOOLEAN, wakeup : BOOLEAN, setUpFailed : BOOLEAN]
    BY <1>4 DEF StartFails
  <2> QED BY <2>1, <2>2
<1>5. CASE Started
  <2>1. tpc = "uncork" /\ tpc' = "announce"
        /\ UNCHANGED <<capture, requested, opc, result, initialized, width, internal, ringWidth, ioWidth,
                       inGraph, back>>
    BY <1>5 DEF Started
  <2>2. dev'.state = "started"
        /\ dev' \in [state : {"uninitialized", "stopped", "starting", "started"},
                     wakeupEvent : BOOLEAN, startEvent : BOOLEAN, stopEvent : BOOLEAN,
                     workOk : BOOLEAN, stream : BOOLEAN, wakeup : BOOLEAN, setUpFailed : BOOLEAN]
    BY <1>5 DEF Started
  <2> QED BY <2>1, <2>2
<1>6. CASE Announce
  <2>1. tpc = "announce" /\ tpc' = "loop"
        /\ UNCHANGED <<capture, requested, opc, result, initialized, width, internal, ringWidth, ioWidth,
                       inGraph, back>>
    BY <1>6 DEF Announce
  <2>2. dev'.state = dev.state
        /\ dev' \in [state : {"uninitialized", "stopped", "starting", "started"},
                     wakeupEvent : BOOLEAN, startEvent : BOOLEAN, stopEvent : BOOLEAN,
                     workOk : BOOLEAN, stream : BOOLEAN, wakeup : BOOLEAN, setUpFailed : BOOLEAN]
    BY <1>6 DEF Announce
  <2> QED BY <2>1, <2>2
<1>7. CASE DataLoop
  BY <1>7 DEF DataLoop
<1>8. CASE PollWoken
  <2>1. tpc = "poll" /\ tpc' = "loop"
        /\ UNCHANGED <<capture, requested, opc, result, initialized, width, internal, ringWidth, ioWidth,
                       inGraph, back>>
    BY <1>8 DEF PollWoken
  <2>2. dev'.state = dev.state
        /\ dev' \in [state : {"uninitialized", "stopped", "starting", "started"},
                     wakeupEvent : BOOLEAN, startEvent : BOOLEAN, stopEvent : BOOLEAN,
                     workOk : BOOLEAN, stream : BOOLEAN, wakeup : BOOLEAN, setUpFailed : BOOLEAN]
    BY <1>8 DEF PollWoken
  <2> QED BY <2>1, <2>2
<1>9. CASE Corked
  BY <1>9 DEF Corked
<1>10. CASE LeaveOrStop
  BY <1>10 DEF LeaveOrStop
<1>11. CASE StoreStopped
  <2>1. tpc = "store" /\ tpc' = "post"
        /\ UNCHANGED <<capture, requested, opc, result, initialized, width, internal, ringWidth, ioWidth,
                       inGraph, back>>
    BY <1>11 DEF StoreStopped
  <2>2. dev'.state = "stopped"
        /\ dev' \in [state : {"uninitialized", "stopped", "starting", "started"},
                     wakeupEvent : BOOLEAN, startEvent : BOOLEAN, stopEvent : BOOLEAN,
                     workOk : BOOLEAN, stream : BOOLEAN, wakeup : BOOLEAN, setUpFailed : BOOLEAN]
    BY <1>11 DEF StoreStopped
  <2> QED BY <2>1, <2>2
<1>12. CASE PostStopped
  <2>1. tpc = "post" /\ tpc' = "wait"
        /\ UNCHANGED <<capture, requested, opc, result, initialized, width, internal, ringWidth, ioWidth,
                       inGraph, back>>
    BY <1>12 DEF PostStopped
  <2>2. dev'.state = dev.state
        /\ dev' \in [state : {"uninitialized", "stopped", "starting", "started"},
                     wakeupEvent : BOOLEAN, startEvent : BOOLEAN, stopEvent : BOOLEAN,
                     workOk : BOOLEAN, stream : BOOLEAN, wakeup : BOOLEAN, setUpFailed : BOOLEAN]
    BY <1>12 DEF PostStopped
  <2> QED BY <2>1, <2>2
<1>13. CASE CallBack \/ CallbackCopies
  BY <1>13, FramesMoveBySides DEF FramesMove
<1>14. CASE CallbackReturns
  BY <1>14 DEF CallbackReturns
<1>15. CASE PollFails
  BY <1>15 DEF PollFails
<1>16. CASE OnRead \/ OnWrite
  BY <1>16 DEF OnRead, OnWrite, Handler
<1> QED
  BY <1>1, <1>2, <1>3, <1>4, <1>5, <1>6, <1>7, <1>8, <1>9, <1>10, <1>11, <1>12, <1>13, <1>14,
     <1>15, <1>16 DEF WorkerStep

(* The engine's steps.                                                     *)
LEMMA EngineKeepsOwn == OwnInv /\ (Publish \/ ProcessBlock \/ Retire) => OwnInv'
<1> SUFFICES ASSUME OwnInv, Publish \/ ProcessBlock \/ Retire PROVE OwnInv'
  OBVIOUS
<1> USE DEF OwnInv, DeviceTypes, Ownership, QuietWhileOpening, WidthSettles, StartedIsPrepared,
        Running, Prepared, object, info, worker
<1>1. CASE Publish
  BY <1>1 DEF Publish
<1>2. CASE ProcessBlock
  BY <1>2 DEF ProcessBlock
<1>3. CASE Retire
  <2>1. inGraph /\ ~inGraph' /\ inGraph' \in BOOLEAN
    BY <1>3 DEF Retire
  <2>2. UNCHANGED <<capture, requested, opc, result, initialized, width, internal, ringWidth, ioWidth,
                    dev, tpc, back>>
    BY <1>3 DEF Retire
  <2> QED BY <2>1, <2>2
<1> QED BY <1>1, <1>2, <1>3

LEMMA DeviceNext == DeviceInv /\ [Next]_vars => DeviceInv'
<1> SUFFICES ASSUME DeviceInv, [Next]_vars PROVE OwnInv' /\ RingInv'
  BY PartsOfInv
<1>1. OwnInv /\ RingInv'
  BY PartsOfInv, DeviceKeepsRing
<1>2. CASE UNCHANGED vars
  <2>1. UNCHANGED <<capture, requested, opc, result, initialized, width, internal, ringWidth, ioWidth,
                    inGraph, dev, tpc, back>>
    BY <1>2 DEF vars, object, info, worker
  <2> QED
    BY <1>1, <2>1
    DEF OwnInv, DeviceTypes, Ownership, QuietWhileOpening, WidthSettles, StartedIsPrepared, Prepared
<1>3. CASE Next
  BY <1>1, <1>2, <1>3, OwnerKeepsOwn, WorkerKeepsOwn, EngineKeepsOwn DEF Next, Aborted
<1> QED BY <1>1, <1>2, <1>3

LEMMA DeviceAlways == Spec => []DeviceInv
  BY DeviceStarts, DeviceNext, PTL DEF Spec

(* Every value of every variable stays in its type; no chunk of a write or *)
(* a read leaves the ring.                                                 *)
THEOREM TypeCorrect == Spec => []TypeOK
<1>1. DeviceInv => TypeOK
  BY DEF DeviceInv
<1> QED BY <1>1, DeviceAlways, PTL

(* The cells that PcmRingBuffer::write is filling and those that read is   *)
(* copying never meet, whichever of the callback and the engine is which.  *)
THEOREM SidesNeverMeet == Spec => []NoOverlap
<1>1. DeviceInv => NoOverlap
  BY SidesApart DEF DeviceInv
<1> QED BY <1>1, DeviceAlways, PTL

(* The consumer hears each stored frame once and in order.                 *)
THEOREM FramesInOrder == Spec => []InOrder
<1>1. DeviceInv => InOrder
  BY DEF DeviceInv, RingInv
<1> QED BY <1>1, DeviceAlways, PTL

(* init() prepares the rings and io_buffer before anyone uses them, and    *)
(* not again while someone does.                                           *)
THEOREM PreparedFirst == Spec => []PreparedWhileUsed
<1>1. DeviceInv => PreparedWhileUsed
  BY DEF DeviceInv, StartedIsPrepared, QuietWhileOpening, Prepared, Running, PreparedWhileUsed
<1> QED BY <1>1, DeviceAlways, PTL

(* Of a device whose ma_device_init succeeded no worker and no stream      *)
(* outlives the flag; what is still connected without it is a stream whose *)
(* ma_device_init failed after connecting it, and that one always is.      *)
THEOREM OnlyFailedSetUpsStay == Spec => []HeldIsOwned
<1>1. DeviceInv => HeldIsOwned
  BY WithoutWorker DEF DeviceInv, Ownership, HeldIsOwned
<1> QED BY <1>1, DeviceAlways, PTL
===============================================================================
