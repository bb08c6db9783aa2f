---------------------------- MODULE DspEngineProofs ----------------------------
(***************************************************************************)
(* Proofs about the audio engine: RouteDspSlots, for any set of writers    *)
(* and any number of publications, and AudioGraph, for any finite graph    *)
(* and any schedule of changes.                                            *)
(*                                                                         *)
(* RouteDspSlots.  A writer holds the lock from before it loads the current*)
(* index until after it stores it, so its copy stays exact and its target  *)
(* is never the current slot (WriterExcludesCurrent).  A slot validated by *)
(* the audio worker is the current one, so no writer under way fills it;   *)
(* a later writer sees the pin (PinIsVisible).  Hence NoSlotRace, and the  *)
(* slot in use keeps the whole publication it held when it was validated.  *)
(*                                                                         *)
(* AudioGraph.  While it sorts, inDegree counts the routes a node still    *)
(* waits for (Sorting), so in the finished order sources come first and    *)
(* what is left out waits for something left out (Ordered): of its left-out*)
(* ancestors one with the fewest is its own ancestor, on a cycle.  While a *)
(* block is played a node still to come holds what the nodes before it     *)
(* sent (Playing); when its turn comes all its sources have sent, and that *)
(* is, by the least-set definition of Reaching, what it should hear.       *)
(***************************************************************************)
EXTENDS RouteDspSlots, AudioGraph, FiniteSetTheorems, SequenceTheorems, WellFoundedInduction, TLAPS

-------------------------------------------------------------------------------
(* Part one: RouteDspSlots.                                                *)

(* Only the holder of writer_lock is inside update_route_dsp.              *)
LockHeld == \A w \in Writers : wpc[w] # "idle" => writer_lock = w

(* The lock holder's copy of the current index is exact until it publishes,*)
(* and it never fills the current slot.                                    *)
WriterExcludesCurrent ==
  \A w \in Writers :
    /\ wpc[w] \in Filling \cup {"loadReader"} => wcur = current_idx
    /\ wpc[w] \in Filling => widx # current_idx

(* From its store on, the audio worker's pin is what writers load.         *)
PinIsVisible == rpc \in Using \cup {"validate"} => reader_idx = ridx

(* The lock holder has written the fields that precede its step.           *)
Filled(w) ==
  LET c == slots[widx]
      n == published + 1
  IN /\ wpc[w] \in {"processors", "gain", "active", "store"} => c.length = n
     /\ wpc[w] \in {"gain", "active", "store"} => c.processors = n
     /\ wpc[w] \in {"active", "store"} => c.gain = n
     /\ wpc[w] = "store" => c.active = n /\ c.on = won

FilledInOrder == \A w \in Writers : Filled(w)

(* The fields of slot s come from one publication, number n.               *)
WholeSlot(s, n) == slots[s] = Pub!Whole(n, slots[s].on)

CurrentIsWhole == WholeSlot(current_idx, published)

UsedIsWhole ==
  /\ rpc \in Using => \E n \in Nat : WholeSlot(ridx, n) /\ seen \subseteq {n}
  /\ rpc \notin Using => seen = {}

(* The inductive invariant.                                                *)
SlotsInv == /\ SlotsTypeOK /\ LockHeld /\ WriterExcludesCurrent /\ PinIsVisible
        /\ FilledInOrder /\ NoSlotRace /\ CurrentIsWhole /\ UsedIsWhole

(* The search for a spare slot finds a slot of the array that is neither   *)
(* the current one nor the pinned one (update_route_dsp's while loop).     *)
LEMMA SpareIsFree ==
  ASSUME NEW c \in Slots, NEW r \in Slots \cup {Unpinned}
  PROVE  Spare(c, r) \in Slots \ {c, r}
<1> DEFINE P(s) == /\ s \notin {c, r}
                   /\ \A t \in 0..3 : t < s => t \in {c, r}
<1>1. \E s \in 0..2 : P(s)
  <2>1. CASE 0 \notin {c, r}
    BY <2>1
  <2>2. CASE 0 \in {c, r} /\ 1 \notin {c, r}
    BY <2>2
  <2>3. CASE 0 \in {c, r} /\ 1 \in {c, r}
    BY <2>3
  <2> QED BY <2>1, <2>2, <2>3
<1>2. Spare(c, r) \in 0..3 /\ P(Spare(c, r))
  <2>1. \E s \in 0..3 : P(s)
    BY <1>1
  <2> QED BY <2>1, Zenon DEF Spare
<1>3. Spare(c, r) # 3
  BY <1>1, <1>2
<1> QED BY <1>2, <1>3 DEF Slots

LEMMA SlotsStart == SlotsInit => SlotsInv
<1> SUFFICES ASSUME SlotsInit PROVE SlotsInv
  OBVIOUS
<1> USE DEF SlotsInit, Slots, Unpinned, Chain, Stamps, WriterSteps, Filling, Using
<1>1. SlotsTypeOK
  <2> DEFINE c0 == [processors |-> 0, length |-> 0, gain |-> 0, active |-> 0, on |-> FALSE]
  <2>1. c0 \in Chain
    OBVIOUS
  <2>2. slots = [s \in Slots |-> c0]
    OBVIOUS
  <2>3. slots \in [Slots -> Chain]
    <3> HIDE DEF c0, Chain, SlotsInit
    <3> QED BY <2>1, <2>2
  <2>4. wpc \in [Writers -> WriterSteps]
    OBVIOUS
  <2>5. wcur \in Slots /\ widx \in Slots /\ ridx \in Slots /\ current_idx \in Slots
    OBVIOUS
  <2>8. won \in BOOLEAN
    BY Zenon
  <2>6. seen \in SUBSET Stamps /\ published \in Nat /\ writer_lock \in Writers \cup {NoWriter}
    OBVIOUS
  <2>7. rpc \in {"idle", "pin", "validate"} \cup Using /\ reader_idx \in Slots \cup {Unpinned}
    OBVIOUS
  <2> QED
    <3> HIDE DEF c0, Chain, SlotsInit, Slots, Using, WriterSteps, Stamps
    <3> QED BY <2>3, <2>4, <2>5, <2>6, <2>7, <2>8 DEF SlotsTypeOK
<1>2. LockHeld /\ WriterExcludesCurrent /\ PinIsVisible /\ NoSlotRace
  BY DEF LockHeld, WriterExcludesCurrent, PinIsVisible, NoSlotRace
<1>3. FilledInOrder
  BY DEF FilledInOrder, Filled
<1>4. CurrentIsWhole /\ UsedIsWhole
  BY DEF CurrentIsWhole, UsedIsWhole, WholeSlot, Pub!Whole
<1> QED BY <1>1, <1>2, <1>3, <1>4 DEF SlotsInv

(* Every step of update_route_dsp and of the audio worker keeps SlotsInv.      *)
LEMMA SlotsStep == SlotsInv /\ [SlotsNext]_slotsVars => SlotsInv'
<1> SUFFICES ASSUME SlotsInv, [SlotsNext]_slotsVars PROVE SlotsInv'
  OBVIOUS
<1> USE SlotsAssumption
    DEF SlotsInv, SlotsTypeOK, LockHeld, WriterExcludesCurrent, PinIsVisible, FilledInOrder,
        Filled, NoSlotRace, CurrentIsWhole, UsedIsWhole, WholeSlot, Pub!Whole,
        Slots, Unpinned, Chain, Stamps, WriterSteps, Filling, Using,
        WriterGoto, ReaderGoto, wvars, rvars
<1>1. ASSUME NEW w \in Writers, Lock(w) PROVE SlotsInv'
  BY <1>1 DEF Lock
<1>2. ASSUME NEW w \in Writers, LoadCurrent(w) PROVE SlotsInv'
  BY <1>2 DEF LoadCurrent
<1>3. ASSUME NEW w \in Writers, LoadReader(w) PROVE SlotsInv'
  <2>1. Spare(wcur, reader_idx) \in Slots \ {wcur, reader_idx}
    BY SpareIsFree
  <2> QED BY <1>3, <2>1 DEF LoadReader
<1>4. ASSUME NEW w \in Writers, Reset(w) PROVE SlotsInv'
  <2>1. /\ widx # current_idx
        /\ rpc \in Using => widx # ridx
    BY <1>4 DEF Reset
  <2>2. \A s \in Slots \ {widx} : slots'[s] = slots[s]
    BY <1>4 DEF Reset
  <2>3. CurrentIsWhole' /\ UsedIsWhole'
    BY <1>4, <2>1, <2>2 DEF Reset
  <2>4. SlotsTypeOK'
    BY <1>4 DEF Reset, Destroyed
  <2>5. FilledInOrder'
    BY <1>4 DEF Reset
  <2>6. (LockHeld /\ WriterExcludesCurrent /\ PinIsVisible /\ NoSlotRace)'
    BY <1>4 DEF Reset
  <2> QED BY <2>3, <2>4, <2>5, <2>6
<1>5. ASSUME NEW w \in Writers, FillLength(w) PROVE SlotsInv'
  <2>1. /\ widx # current_idx
        /\ rpc \in Using => widx # ridx
    BY <1>5 DEF FillLength
  <2>2. \A s \in Slots \ {widx} : slots'[s] = slots[s]
    BY <1>5 DEF FillLength
  <2>3. CurrentIsWhole' /\ UsedIsWhole'
    BY <1>5, <2>1, <2>2 DEF FillLength
  <2>4. SlotsTypeOK'
    BY <1>5 DEF FillLength
  <2>5. FilledInOrder'
    BY <1>5 DEF FillLength
  <2>6. (LockHeld /\ WriterExcludesCurrent /\ PinIsVisible /\ NoSlotRace)'
    BY <1>5 DEF FillLength
  <2> QED BY <2>3, <2>4, <2>5, <2>6
<1>6. ASSUME NEW w \in Writers, FillProcessors(w) PROVE SlotsInv'
  <2>1. /\ widx # current_idx
        /\ rpc \in Using => widx # ridx
    BY <1>6 DEF FillProcessors
  <2>2. \A s \in Slots \ {widx} : slots'[s] = slots[s]
    BY <1>6 DEF FillProcessors
  <2>3. CurrentIsWhole' /\ UsedIsWhole'
    BY <1>6, <2>1, <2>2 DEF FillProcessors
  <2>4. SlotsTypeOK'
    BY <1>6 DEF FillProcessors
  <2>5. FilledInOrder'
    BY <1>6 DEF FillProcessors
  <2>6. (LockHeld /\ WriterExcludesCurrent /\ PinIsVisible /\ NoSlotRace)'
    BY <1>6 DEF FillProcessors
  <2> QED BY <2>3, <2>4, <2>5, <2>6
<1>7. ASSUME NEW w \in Writers, FillGain(w) PROVE SlotsInv'
  <2>1. /\ widx # current_idx
        /\ rpc \in Using => widx # ridx
    BY <1>7 DEF FillGain
  <2>2. \A s \in Slots \ {widx} : slots'[s] = slots[s]
    BY <1>7 DEF FillGain
  <2>3. CurrentIsWhole' /\ UsedIsWhole'
    BY <1>7, <2>1, <2>2 DEF FillGain
  <2>4. SlotsTypeOK'
    BY <1>7 DEF FillGain
  <2>5. FilledInOrder'
    BY <1>7 DEF FillGain
  <2>6. (LockHeld /\ WriterExcludesCurrent /\ PinIsVisible /\ NoSlotRace)'
    BY <1>7 DEF FillGain
  <2> QED BY <2>3, <2>4, <2>5, <2>6
<1>8. ASSUME NEW w \in Writers, FillActive(w) PROVE SlotsInv'
  <2>1. /\ widx # current_idx
        /\ rpc \in Using => widx # ridx
    BY <1>8 DEF FillActive
  <2>2. \A s \in Slots \ {widx} : slots'[s] = slots[s]
    BY <1>8 DEF FillActive
  <2>3. CurrentIsWhole' /\ UsedIsWhole'
    BY <1>8, <2>1, <2>2 DEF FillActive
  <2>4. SlotsTypeOK'
    BY <1>8 DEF FillActive
  <2>5. FilledInOrder'
    BY <1>8 DEF FillActive
  <2>6. (LockHeld /\ WriterExcludesCurrent /\ PinIsVisible /\ NoSlotRace)'
    BY <1>8 DEF FillActive
  <2> QED BY <2>3, <2>4, <2>5, <2>6
<1>9. ASSUME NEW w \in Writers, StoreCurrent(w) PROVE SlotsInv'
  BY <1>9 DEF StoreCurrent
<1>10. ASSUME NEW w \in Writers, Unlock(w) PROVE SlotsInv'
  BY <1>10 DEF Unlock
<1>11. CASE PinLoad
  BY <1>11 DEF PinLoad
<1>12. CASE PinStore
  BY <1>12 DEF PinStore
<1>13. CASE Validate
  BY <1>13 DEF Validate
<1>14. CASE ReadActive
  BY <1>14 DEF ReadActive
<1>15. CASE ReadLength
  <2>1. PICK n \in Nat : WholeSlot(ridx, n) /\ seen \subseteq {n}
    BY <1>15 DEF ReadLength
  <2>2. WholeSlot(ridx, n)' /\ seen' \subseteq {n}
    <3>1. slots[ridx].length = n
      BY <2>1
    <3>2. UNCHANGED <<slots, ridx>> /\ seen' = seen \cup {slots[ridx].length}
      BY <1>15 DEF ReadLength
    <3>3. seen' \subseteq {n}
      BY <2>1, <3>1, <3>2
    <3>4. WholeSlot(ridx, n)'
      BY <2>1, <3>2
    <3> QED BY <3>3, <3>4
  <2>3. UsedIsWhole'
    BY <1>15, <2>2 DEF ReadLength
  <2> QED BY <1>15, <2>1, <2>3 DEF ReadLength
<1>16. CASE RunProcessors
  <2>1. PICK n \in Nat : WholeSlot(ridx, n) /\ seen \subseteq {n}
    BY <1>16 DEF RunProcessors
  <2>2. WholeSlot(ridx, n)' /\ seen' \subseteq {n}
    <3>1. slots[ridx].processors = n
      BY <2>1
    <3>2. UNCHANGED <<slots, ridx>> /\ seen' = seen \cup {slots[ridx].processors}
      BY <1>16 DEF RunProcessors
    <3>3. seen' \subseteq {n}
      BY <2>1, <3>1, <3>2
    <3>4. WholeSlot(ridx, n)'
      BY <2>1, <3>2
    <3> QED BY <3>3, <3>4
  <2>3. UsedIsWhole'
    BY <1>16, <2>2 DEF RunProcessors
  <2> QED BY <1>16, <2>1, <2>3 DEF RunProcessors
<1>17. CASE ReadGain
  <2>1. PICK n \in Nat : WholeSlot(ridx, n) /\ seen \subseteq {n}
    BY <1>17 DEF ReadGain
  <2>2. WholeSlot(ridx, n)' /\ seen' \subseteq {n}
    <3>1. slots[ridx].gain = n
      BY <2>1
    <3>2. UNCHANGED <<slots, ridx>> /\ seen' = seen \cup {slots[ridx].gain}
      BY <1>17 DEF ReadGain
    <3>3. seen' \subseteq {n}
      BY <2>1, <3>1, <3>2
    <3>4. WholeSlot(ridx, n)'
      BY <2>1, <3>2
    <3> QED BY <3>3, <3>4
  <2>3. UsedIsWhole'
    BY <1>17, <2>2 DEF ReadGain
  <2> QED BY <1>17, <2>1, <2>3 DEF ReadGain
<1>18. CASE Unpin
  BY <1>18 DEF Unpin
<1>19. CASE UNCHANGED slotsVars
  BY <1>19 DEF slotsVars
<1> QED
  BY <1>1, <1>2, <1>3, <1>4, <1>5, <1>6, <1>7, <1>8, <1>9, <1>10, <1>11, <1>12,
     <1>13, <1>14, <1>15, <1>16, <1>17, <1>18, <1>19 DEF SlotsNext, Update, UseRoute

(* The type invariant holds: in particular update_route_dsp always finds a *)
(* slot among the three to write to.                                       *)
THEOREM SlotsTypeCorrect == SlotsSpec => []SlotsTypeOK
<1>1. SlotsInv => SlotsTypeOK
  BY DEF SlotsInv
<1> QED BY SlotsStart, SlotsStep, <1>1, PTL DEF SlotsSpec

(* No slot is written or destroyed by a control thread while the audio     *)
(* worker uses it.                                                         *)
THEOREM SlotsRaceFree == SlotsSpec => []NoSlotRace
<1>1. SlotsInv => NoSlotRace
  BY DEF SlotsInv
<1> QED BY SlotsStart, SlotsStep, <1>1, PTL DEF SlotsSpec

(* What the audio worker reads during a block stems from one publication.  *)
THEOREM BlockSeesOnePublication == SlotsSpec => []OnePublicationPerBlock
<1>1. SlotsInv => OnePublicationPerBlock
  <2> SUFFICES ASSUME SlotsInv PROVE OnePublicationPerBlock
    OBVIOUS
  <2>1. seen = {} \/ \E n \in Nat : seen = {n}
    BY DEF SlotsInv, UsedIsWhole
  <2>2. Cardinality({}) = 0 /\ \A n \in Nat : Cardinality({n}) = 1
    BY FS_EmptySet, FS_Singleton
  <2> QED BY <2>1, <2>2 DEF OnePublicationPerBlock, Destroyed
<1> QED BY SlotsStart, SlotsStep, <1>1, PTL DEF SlotsSpec

(* A step of the slot protocol is a step of the indivisible publication or *)
(* leaves it alone.                                                        *)
LEMMA StepImplements == SlotsInv /\ SlotsInv' /\ [SlotsNext]_slotsVars => [Pub!Next]_Pub!vars
<1> SUFFICES ASSUME SlotsInv, SlotsInv', [SlotsNext]_slotsVars PROVE [Pub!Next]_Pub!vars
  OBVIOUS
<1> USE DEF SlotsInv, SlotsTypeOK, WriterGoto, ReaderGoto, wvars, rvars, Slots, Using, Filling
<1>1. ASSUME NEW w \in Writers,
             Reset(w) \/ FillLength(w) \/ FillProcessors(w) \/ FillGain(w) \/ FillActive(w)
      PROVE  UNCHANGED Pub!vars
  <2>1. /\ widx # current_idx
        /\ rpc \in Using => widx # ridx
    BY <1>1 DEF WriterExcludesCurrent, NoSlotRace, Reset, FillLength, FillProcessors,
                FillGain, FillActive
  <2>2. \A s \in Slots \ {widx} : slots'[s] = slots[s]
    BY <1>1 DEF Reset, FillLength, FillProcessors, FillGain, FillActive
  <2>3. UNCHANGED <<current_idx, rpc, ridx>>
    BY <1>1 DEF Reset, FillLength, FillProcessors, FillGain, FillActive
  <2> QED BY <2>1, <2>2, <2>3 DEF Pub!vars
<1>2. ASSUME NEW w \in Writers, StoreCurrent(w) PROVE Pub!Publish
  <2>1. slots'[current_idx'] = Pub!Whole(slots[current_idx].active + 1, won)
    BY <1>2 DEF StoreCurrent, FilledInOrder, Filled, CurrentIsWhole, WholeSlot, Pub!Whole, Chain
  <2>2. UNCHANGED <<slots, rpc, ridx>>
    BY <1>2 DEF StoreCurrent
  <2> QED BY <2>1, <2>2 DEF Pub!Publish
<1>3. ASSUME NEW w \in Writers, Lock(w) \/ LoadCurrent(w) \/ LoadReader(w) \/ Unlock(w)
      PROVE  UNCHANGED Pub!vars
  BY <1>3 DEF Lock, LoadCurrent, LoadReader, Unlock, Pub!vars
<1>4. CASE Validate
  BY <1>4 DEF Validate, Pub!Next, Pub!Take, Pub!vars
<1>5. CASE Unpin
  BY <1>5 DEF Unpin, Pub!Next, Pub!Drop
<1>6. CASE PinLoad \/ PinStore \/ ReadActive \/ ReadLength \/ RunProcessors \/ ReadGain
  BY <1>6 DEF PinLoad, PinStore, ReadActive, ReadLength, RunProcessors, ReadGain, Pub!vars
<1>7. CASE UNCHANGED slotsVars
  BY <1>7 DEF slotsVars, Pub!vars
<1> QED
  BY <1>1, <1>2, <1>3, <1>4, <1>5, <1>6, <1>7 DEF SlotsNext, Update, UseRoute, Pub!Next

(* The three-slot protocol implements the indivisible publication.         *)
THEOREM SlotsImplementPublication == SlotsSpec => ImplementsPublication
<1>1. SlotsInit => Pub!Init
  BY DEF SlotsInit, Slots, Using, Pub!Init, Pub!Whole
<1> QED BY SlotsStart, SlotsStep, StepImplements, <1>1, PTL DEF SlotsSpec, ImplementsPublication, Pub!Spec

-------------------------------------------------------------------------------
(* Part two: AudioGraph.                                                   *)

(* The steps of rebuild_graph, and what a finished rebuild leaves.         *)
Records == [src : Int, sch : Nat, dst : Int, dch : Nat, on : BOOLEAN]

Occurs(seq, n)    == \E i \in 1..Len(seq) : seq[i] = n
Before(seq, m, n) == \E i, j \in 1..Len(seq) : i < j /\ seq[i] = m /\ seq[j] = n
Distinct(seq)     == \A i, j \in 1..Len(seq) : i # j => seq[i] # seq[j]

GraphTypes ==
  /\ pc \in {"idle", "widths", "edges", "sort", "clear", "process"}
  /\ listed \in BOOLEAN /\ media_ready \in BOOLEAN /\ unmarked \in BOOLEAN /\ dirty \in BOOLEAN
  /\ routes \in RouteLists /\ open \in SUBSET Nodes /\ block \in Nat
  /\ IsFiniteSet(snap.routes) /\ snap.routes \in SUBSET Records /\ snap.listed \in BOOLEAN
  /\ width \in [Nodes -> 0..MaxChannels] /\ direction \in [Nodes -> {-1, 0, 1}]
  /\ inDegree \in [Nodes -> Nat] /\ queue \in SUBSET Nodes /\ sorted \in Seq(Nodes)
  /\ order \in Seq(Nodes) /\ todo \in Seq(Nodes) /\ current \in SUBSET Records
  /\ IsFiniteSet(current)

(* The first block rebuilds.                                               *)
FirstIsDirty == block = 0 => pc = "idle" /\ dirty

(* A node that the rebuild takes for a destination is bound, and stays so: *)
(* a session that was ready when the widths were read is not made unready. *)
SinkIsBound(n) ==
  /\ n # Tone /\ Bound(n, snap.open, SeesReady) /\ Endpoint[n].direction = -1
  /\ width[n] = Min({Endpoint[n].channels, MaxChannels})

SinksAreBound ==
  pc \in {"edges", "sort"} => /\ width[Tone] = 1
                             /\ \A n \in Nodes : direction[n] = -1 => SinkIsBound(n)

(* Kahn's algorithm.  Every node of the order comes after its sources; a   *)
(* node outside the order and the queue waits for a source.                *)
Linked(n, list) == direction[n] = -1 \/ \E r \in list : n \in {r.src, r.dst}

Waiting(n) == {r \in Valid : r.dst = n /\ ~Occurs(sorted, r.src)}

Sorting ==
  /\ Distinct(sorted) /\ \A n \in queue : ~Occurs(sorted, n)
  /\ \A n \in Nodes : inDegree[n] = Cardinality(Waiting(n))
  /\ \A n \in queue : inDegree[n] = 0
  /\ \A r \in Valid : Occurs(sorted, r.dst) => Before(sorted, r.src, r.dst)
  /\ \A n \in Nodes : inDegree[n] = 0 /\ Linked(n, Valid) => n \in queue \/ Occurs(sorted, n)
  /\ \A n \in Nodes : n \in queue \/ Occurs(sorted, n) => width[n] > 0

KahnInv == pc = "sort" => Sorting

(* The finished graph.                                                     *)
Ordered ==
  /\ Distinct(order)
  /\ \A r \in current : ValidRoute(r, width, direction)
  /\ \A r \in current : Occurs(order, r.dst) => Before(order, r.src, r.dst)
  /\ \A n \in Nodes : Linked(n, current) /\ ~Occurs(order, n) =>
                        \E r \in current : r.dst = n /\ ~Occurs(order, r.src)
  /\ \A n \in Nodes : Occurs(order, n) => handlers[n].kind # "none"
  /\ \A n \in Nodes : Occurs(order, n) /\ direction[n] = -1 =>
                        handlers[n].kind = "playback" /\ Agrees(n)

OrderInv == Built => Ordered

(* A block.  What left a jack is what it heard and, of a source, its own   *)
(* input; a node that is still to come has everything that the nodes before*)
(* it sent.                                                                *)
Own(n, c)    == IF handlers[n].kind = "source" /\ Agrees(n) /\ c < width[n] THEN {<<n, c, block>>} ELSE {}
Signal(n, c) == Heard(n, c) \cup Own(n, c)

Behind == Len(order) - Len(todo)
Past(n)   == \E i \in 1..Behind : order[i] = n
Arrived(x, m, c) == \E r \in current : /\ r.dst = m /\ r.dch = c /\ Past(r.src)
                                       /\ x \in Signal(r.src, r.sch)
Served(n) == Past(n) /\ handlers[n].kind = "playback" /\ Agrees(n)

Playing ==
  /\ Behind \in Nat /\ \A i \in 1..Len(todo) : todo[i] = order[Behind + i]
  /\ \A m \in Nodes, c \in Channels : Occurs(order, m) /\ ~Past(m) =>
       \A x : x \in buf[m][c] <=> Arrived(x, m, c)
  /\ played = [n \in Nodes |-> IF Served(n) THEN <<[c \in Channels |-> Heard(n, c)]>> ELSE <<>>]

BlockInv == pc = "process" => Playing

(* When all is marked and no rebuild is due, a rebuild under way, or the   *)
(* graph, is about what is published.                                      *)
Ready   == listed /\ media_ready
Settled == ~dirty /\ ~unmarked
WidthsFor(list, devices, ready) == [n \in Nodes |-> Width(n, list, devices, ready)]
DirectionsFor(devices, ready)   == [n \in Nodes |-> Direction(n, devices, ready)]

Resolved == width = WidthsFor(routes, open, Ready) /\ direction = DirectionsFor(open, Ready)
Snapped  == Resolved /\ snap = [routes |-> routes, open |-> open, listed |-> listed]
Matches  ==
  /\ Resolved /\ current = {r \in routes : ValidRoute(r, width, direction)}
  /\ \A n \in Nodes : InOrder(n) => handlers[n] = Handler(n, width, open, Ready)

SettledInv == Settled => /\ pc \in {"edges", "sort"} => Snapped
                         /\ pc \in {"idle", "clear", "process"} => Matches

GraphInv == /\ GraphTypes /\ FirstIsDirty /\ SinksAreBound /\ KahnInv /\ OrderInv
            /\ BlockInv /\ SettledInv

-------------------------------------------------------------------------------
(* Extremes of sets of numbers.                                            *)
LEMMA LeastElement ==
  ASSUME NEW T, T \subseteq Nat, T # {}
  PROVE  \E x \in T : \A y \in T : x <= y
<1>1. IsWellFoundedOn(OpToRel(<, Nat), Nat)
  BY NatLessThanWellFounded
<1>2. \E x \in T : \A y \in T : ~ (<<y, x>> \in OpToRel(<, Nat))
  BY <1>1, WFMin
<1>3. \A x, y \in Nat : <<y, x>> \in OpToRel(<, Nat) <=> y < x
  BY DEF OpToRel
<1>4. PICK x \in T : \A y \in T : ~ (<<y, x>> \in OpToRel(<, Nat))
  BY <1>2
<1>5. ASSUME NEW y \in T PROVE x <= y
  <2>1. ~ (y < x)
    BY <1>3, <1>4
  <2> QED BY <2>1
<1> QED BY <1>5

LEMMA MinIsIn ==
  ASSUME NEW T, T \subseteq Nat, T # {} PROVE Min(T) \in T
<1>1. \E x \in T : \A y \in T : x <= y
  BY LeastElement
<1> QED BY <1>1 DEF Min

LEMMA MaxIsIn ==
  ASSUME NEW N \in Nat, NEW T, T \subseteq 0..N, T # {} PROVE Max(T) \in T
<1> DEFINE U == {N - x : x \in T}
<1>1. U \subseteq Nat /\ U # {}
  <2>1. \A x \in T : N - x \in Nat
    OBVIOUS
  <2> QED BY <2>1
<1>2. PICK u \in U : \A v \in U : u <= v
  BY <1>1, LeastElement
<1>3. PICK x \in T : u = N - x
  BY <1>2
<1>4. ASSUME NEW y \in T PROVE x >= y
  <2>1. N - x <= N - y
    BY <1>2, <1>3
  <2> QED BY <2>1
<1> QED BY <1>4 DEF Max

(* Widths.                                                                 *)
LEMMA WidthIsNumber ==
  ASSUME NEW n \in Nodes, NEW list, list \subseteq Records, NEW devices, NEW ready
  PROVE  Width(n, list, devices, ready) \in 0..MaxChannels
<1> USE GraphAssumption
<1>1. CASE n = Tone
  BY <1>1 DEF Width
<1>2. CASE n # Tone /\ Bound(n, devices, ready)
  <2>1. Endpoint[n].channels \in Nat
    BY <1>2
  <2> DEFINE T == {Endpoint[n].channels, MaxChannels}
  <2>2. Min(T) \in T
    BY <2>1, MinIsIn
  <2>3. \E x \in T : \A y \in T : x <= y
    BY <2>1
  <2>4. \A y \in T : Min(T) <= y
    BY <2>3 DEF Min
  <2>5. Min(T) \in 0..MaxChannels
    BY <2>1, <2>2, <2>4
  <2> QED BY <1>2, <2>5 DEF Width
<1>3. CASE n # Tone /\ ~Bound(n, devices, ready)
  <2> DEFINE T == {0} \cup {r.sch + 1 : r \in {q \in list : q.on /\ q.src = n /\ q.sch < MaxChannels}}
                      \cup {r.dch + 1 : r \in {q \in list : q.on /\ q.dst = n /\ q.dch < MaxChannels}}
  <2>1. \A r \in list : r.sch \in Nat /\ r.dch \in Nat
    BY DEF Records
  <2>2. T \subseteq 0..MaxChannels
    BY <2>1
  <2>3. Max(T) \in T
    BY <2>2, MaxIsIn
  <2>4. Width(n, list, devices, ready) = Max(T)
    BY <1>3 DEF Width
  <2> HIDE DEF T
  <2> QED BY <2>2, <2>3, <2>4
<1> QED BY <1>1, <1>2, <1>3

LEMMA BoundIsWide ==
  ASSUME NEW n \in Nodes \ {Tone}
  PROVE  Min({Endpoint[n].channels, MaxChannels}) \in Nat \ {0}
<1>1. Endpoint[n].channels \in Nat \ {0} /\ MaxChannels \in Nat \ {0}
  BY GraphAssumption
<1>2. Min({Endpoint[n].channels, MaxChannels}) \in {Endpoint[n].channels, MaxChannels}
  BY <1>1, MinIsIn
<1> QED BY <1>1, <1>2

-------------------------------------------------------------------------------
(* Routes followed backwards.                                              *)
LEMMA FeedersAre ==
  ASSUME NEW S, NEW m
  PROVE  m \in Feeders(S) <=> \E r \in current : r.dst \in S /\ r.src = m
BY DEF Feeders

LEMMA AncestorsLeast ==
  ASSUME NEW n, NEW T, Feeders({n}) \subseteq T, Feeders(T) \subseteq T
  PROVE  Ancestors(n) \subseteq T
<1> DEFINE U == T \cap Senders
<1>1. \A S : Feeders(S) \subseteq Senders
  BY DEF Feeders, Senders
<1>2. Feeders(U) \subseteq Feeders(T)
  BY DEF Feeders
<1>3. U \in SUBSET Senders /\ Feeders({n}) \subseteq U /\ Feeders(U) \subseteq U
  BY <1>1, <1>2
<1> HIDE DEF U
<1>4. Ancestors(n) \subseteq U
  BY <1>3 DEF Ancestors
<1> QED BY <1>4 DEF U

LEMMA AncestorsClosed ==
  ASSUME NEW n
  PROVE  /\ Ancestors(n) \subseteq Senders
         /\ Feeders({n}) \subseteq Ancestors(n) /\ Feeders(Ancestors(n)) \subseteq Ancestors(n)
<1> DEFINE closed == {T \in SUBSET Senders : Feeders({n}) \subseteq T /\ Feeders(T) \subseteq T}
<1>1. Ancestors(n) = {m \in Senders : \A T \in closed : m \in T}
  BY DEF Ancestors
<1>2. \A S : Feeders(S) \subseteq Senders
  BY DEF Feeders, Senders
<1>3. ASSUME NEW T \in closed PROVE Feeders({n}) \subseteq T /\ Feeders(Ancestors(n)) \subseteq T
  <2>1. Ancestors(n) \subseteq T
    BY <1>1, <1>3
  <2>2. Feeders(Ancestors(n)) \subseteq Feeders(T)
    BY <2>1 DEF Feeders
  <2> QED BY <2>2
<1> HIDE DEF closed
<1> QED BY <1>1, <1>2, <1>3

LEMMA AncestorsGrow ==
  ASSUME NEW n, NEW m, m \in Ancestors(n) PROVE Ancestors(m) \subseteq Ancestors(n)
<1>1. Feeders({m}) \subseteq Feeders(Ancestors(n))
  BY DEF Feeders
<1> QED BY <1>1, AncestorsClosed, AncestorsLeast

(* An order that respects the routes has no cycle in it or behind it.      *)
LEMMA BeforeIsOrder ==
  ASSUME NEW seq, Len(seq) \in Nat, Distinct(seq)
  PROVE  /\ \A n : ~Before(seq, n, n)
         /\ \A k, m, n : Before(seq, k, m) /\ Before(seq, m, n) => Before(seq, k, n)
         /\ \A m, n : Before(seq, m, n) => Occurs(seq, m) /\ Occurs(seq, n)
<1>1. ASSUME NEW n PROVE ~Before(seq, n, n)
  BY DEF Before, Distinct
<1>2. ASSUME NEW k, NEW m, NEW n, Before(seq, k, m), Before(seq, m, n) PROVE Before(seq, k, n)
  <2>1. PICK i, j \in 1..Len(seq) : i < j /\ seq[i] = k /\ seq[j] = m
    BY <1>2 DEF Before
  <2>2. PICK p, q \in 1..Len(seq) : p < q /\ seq[p] = m /\ seq[q] = n
    BY <1>2 DEF Before
  <2>3. j = p
    BY <2>1, <2>2 DEF Distinct
  <2>4. i < q
    BY <2>1, <2>2, <2>3
  <2> QED BY <2>1, <2>2, <2>4 DEF Before
<1>3. ASSUME NEW m, NEW n, Before(seq, m, n) PROVE Occurs(seq, m) /\ Occurs(seq, n)
  BY <1>3 DEF Before, Occurs
<1> QED BY <1>1, <1>2, <1>3

LEMMA OrderedNotCyclic ==
  ASSUME Len(order) \in Nat, Ordered, NEW n, Occurs(order, n) PROVE ~Cyclic(n)
<1>1. ASSUME NEW m, Occurs(order, m)
      PROVE  \A k \in Ancestors(m) : Before(order, k, m)
  <2> DEFINE T == {k \in Senders : Before(order, k, m)}
  <2>1. ASSUME NEW r \in current, r.dst = m \/ r.dst \in T PROVE r.src \in T
    <3>1. Occurs(order, r.dst)
      BY <1>1, <2>1, BeforeIsOrder DEF Ordered
    <3>2. Before(order, r.src, r.dst)
      BY <3>1 DEF Ordered
    <3>3. Before(order, r.src, m)
      BY <2>1, <3>2, BeforeIsOrder DEF Ordered
    <3> QED BY <3>3 DEF Senders
  <2>2. Feeders({m}) \subseteq T /\ Feeders(T) \subseteq T
    BY <2>1, FeedersAre
  <2> HIDE DEF T
  <2>3. Ancestors(m) \subseteq T
    BY <2>2, AncestorsLeast
  <2> QED BY <2>3 DEF T
<1>2. SUFFICES ASSUME NEW m \in Ancestors(n) \cup {n}, m \in Ancestors(m) PROVE FALSE
  BY DEF Cyclic
<1>3. Occurs(order, m)
  BY <1>1, BeforeIsOrder DEF Ordered
<1>4. Before(order, m, m)
  BY <1>1, <1>2, <1>3
<1> QED BY <1>4, BeforeIsOrder DEF Ordered

(* What the order leaves out is on or behind a cycle: among the ancestors  *)
(* that were left out one with the fewest ancestors is its own.            *)
LEMMA UnorderedIsCyclic ==
  ASSUME GraphTypes, Ordered, NEW n \in Nodes, Linked(n, current), ~Occurs(order, n)
  PROVE  Cyclic(n)
<1>1. ASSUME NEW m \in Nodes, Linked(m, current), ~Occurs(order, m)
      PROVE  \E k \in Feeders({m}) : k \in Nodes /\ Linked(k, current) /\ ~Occurs(order, k)
  <2>1. PICK r \in current : r.dst = m /\ ~Occurs(order, r.src)
    BY <1>1 DEF Ordered
  <2>2. r.src \in Nodes
    BY DEF Ordered, ValidRoute
  <2> QED BY <2>1, <2>2, FeedersAre DEF Linked
<1> DEFINE Out == {m \in Ancestors(n) : m \in Nodes /\ Linked(m, current) /\ ~Occurs(order, m)}
           Size(m) == Cardinality(Ancestors(m))
<1>2. ASSUME NEW m \in Out PROVE \E k \in Out : k \in Ancestors(m)
  <2>1. PICK k \in Feeders({m}) : k \in Nodes /\ Linked(k, current) /\ ~Occurs(order, k)
    BY <1>1, <1>2
  <2>2. k \in Ancestors(m)
    BY <2>1, AncestorsClosed
  <2>3. k \in Ancestors(n)
    BY <2>2, AncestorsGrow
  <2> QED BY <2>1, <2>2, <2>3
<1>3. Out # {}
  <2>1. PICK k \in Feeders({n}) : k \in Nodes /\ Linked(k, current) /\ ~Occurs(order, k)
    BY <1>1
  <2>2. k \in Ancestors(n)
    BY <2>1, AncestorsClosed
  <2> QED BY <2>1, <2>2
<1>4. \A m : IsFiniteSet(Ancestors(m)) /\ Size(m) \in Nat
  <2>1. IsFiniteSet(Senders)
    <3> DEFINE source == [r \in current |-> r.src]
    <3>1. source \in Surjection(current, Senders)
      BY DEF Surjection, Senders
    <3> QED BY <3>1, FS_Surjection DEF GraphTypes
  <2>2. ASSUME NEW m PROVE IsFiniteSet(Ancestors(m)) /\ Size(m) \in Nat
    BY <2>1, AncestorsClosed, FS_Subset, FS_CardinalityType
  <2> QED BY <2>2
<1>5. PICK m \in Out : \A k \in Out : Size(m) <= Size(k)
  <2> DEFINE T == {Size(k) : k \in Out}
  <2>1. T \subseteq Nat /\ T # {}
    BY <1>3, <1>4
  <2>2. PICK x \in T : \A y \in T : x <= y
    BY <2>1, LeastElement
  <2> QED BY <2>2
<1>6. PICK k \in Out : k \in Ancestors(m)
  BY <1>2
<1>7. Ancestors(k) \subseteq Ancestors(m)
  BY <1>6, AncestorsGrow
<1>8. Ancestors(k) = Ancestors(m)
  <2>1. Size(m) <= Size(k)
    BY <1>5
  <2>2. Size(k) <= Size(m) /\ (Size(k) = Size(m) => Ancestors(k) = Ancestors(m))
    BY <1>4, <1>7, FS_Subset
  <2> QED BY <1>4, <2>1, <2>2
<1> QED BY <1>6, <1>8 DEF Cyclic

-------------------------------------------------------------------------------
(* What the invariant says of the properties.                              *)
LEMMA PositionIs ==
  ASSUME Len(order) \in Nat, Distinct(order), NEW i \in 1..Len(order)
  PROVE  Position(order[i]) = i
BY DEF Distinct, Position, InOrder

LEMMA OrderedIsTopological == GraphInv => OrderIsTopological
<1> SUFFICES ASSUME GraphTypes, Ordered, NEW r \in current
             PROVE  /\ InOrder(r.dst) => Position(r.src) \in 1..Position(r.dst) - 1
                    /\ ~Cyclic(r.dst) => InOrder(r.src) /\ InOrder(r.dst)
                    /\ \A n \in Nodes : InOrder(n) => ~Cyclic(n)
  <2>1. ASSUME GraphTypes, Ordered, NEW n \in Nodes, InOrder(n) PROVE ~Cyclic(n)
    <3>1. Len(order) \in Nat /\ Occurs(order, n)
      BY <2>1 DEF GraphTypes, InOrder, Occurs
    <3> QED BY <2>1, <3>1, OrderedNotCyclic
  <2> QED BY <2>1 DEF GraphInv, OrderInv, OrderIsTopological
<1>1. Len(order) \in Nat /\ \A n : InOrder(n) <=> Occurs(order, n)
  BY DEF GraphTypes, InOrder, Occurs
<1>2. r.dst \in Nodes /\ Linked(r.dst, current)
  BY DEF Ordered, ValidRoute, Linked
<1>3. ASSUME InOrder(r.dst) PROVE Position(r.src) \in 1..Position(r.dst) - 1 /\ InOrder(r.src)
  <2>1. Before(order, r.src, r.dst)
    BY <1>1, <1>3 DEF Ordered
  <2>2. PICK i, j \in 1..Len(order) : i < j /\ order[i] = r.src /\ order[j] = r.dst
    BY <2>1 DEF Before
  <2>3. Position(r.src) = i /\ Position(r.dst) = j
    BY <1>1, <2>2, PositionIs DEF Ordered
  <2> QED BY <1>1, <2>2, <2>3 DEF InOrder
<1>4. ASSUME ~Cyclic(r.dst) PROVE InOrder(r.src) /\ InOrder(r.dst)
  <2>1. InOrder(r.dst)
    BY <1>1, <1>2, <1>4, UnorderedIsCyclic
  <2> QED BY <1>3, <2>1
<1>5. ASSUME NEW n \in Nodes, InOrder(n) PROVE ~Cyclic(n)
  BY <1>1, <1>5, OrderedNotCyclic
<1> QED BY <1>3, <1>4, <1>5

LEMMA PlayingServes == GraphInv => EndpointsServed /\ BlockHearsRoutes
<1> SUFFICES ASSUME GraphTypes, Ordered, Playing, todo = <<>>, NEW n \in Nodes
             PROVE  /\ Len(played[n]) <= 1
                    /\ direction[n] = -1 /\ ~Cyclic(n) => Len(played[n]) = 1
                    /\ played[n] # <<>> => \A c \in Channels : played[n][1][c] = Heard(n, c)
  BY DEF GraphInv, OrderInv, BlockInv, Built, Ended, EndpointsServed, BlockHearsRoutes
<1>1. played[n] = IF Served(n) THEN <<[c \in Channels |-> Heard(n, c)]>> ELSE <<>>
  BY DEF Playing
<1>2. ASSUME direction[n] = -1, ~Cyclic(n) PROVE Served(n)
  <2>1. Occurs(order, n)
    BY <1>2, UnorderedIsCyclic DEF Linked
  <2>2. Len(order) \in Nat /\ Behind = Len(order)
    BY DEF GraphTypes, Behind
  <2>3. Past(n)
    BY <2>1, <2>2 DEF Past, Occurs
  <2> QED BY <1>2, <2>1, <2>3 DEF Served, Ordered
<1> QED BY <1>1, <1>2

LEMMA SettledIsCurrent == GraphInv => SettledGraphIsCurrent
BY DEF GraphInv, SettledInv, Settled, Matches, Resolved, Ready, WidthsFor, DirectionsFor,
       SettledGraphIsCurrent

-------------------------------------------------------------------------------
(* Initially.                                                              *)
LEMMA GraphStart == Init => GraphInv
<1> SUFFICES ASSUME Init PROVE GraphInv
  OBVIOUS
<1> USE GraphAssumption DEF Init
<1>1. GraphTypes
  <2>1. IsFiniteSet(snap.routes) /\ IsFiniteSet(current)
    BY FS_EmptySet
  <2>2. open \in SUBSET Nodes
    BY DEF Hardware
  <2>3. width \in [Nodes -> 0..MaxChannels] /\ direction \in [Nodes -> {-1, 0, 1}]
        /\ inDegree \in [Nodes -> Nat]
    OBVIOUS
  <2>4. sorted \in Seq(Nodes) /\ order \in Seq(Nodes) /\ todo \in Seq(Nodes)
    OBVIOUS
  <2>5. snap.routes \in SUBSET Records /\ current \in SUBSET Records /\ queue \in SUBSET Nodes
    OBVIOUS
  <2>6. snap.listed \in BOOLEAN
    OBVIOUS
  <2>7. listed \in BOOLEAN /\ media_ready \in BOOLEAN /\ unmarked \in BOOLEAN /\ dirty \in BOOLEAN
    OBVIOUS
  <2>8. routes \in RouteLists /\ block \in Nat
    OBVIOUS
  <2>9. pc = "idle"
    OBVIOUS
  <2> HIDE DEF Init
  <2> QED BY <2>1, <2>2, <2>3, <2>4, <2>5, <2>6, <2>7, <2>8, <2>9 DEF GraphTypes
<1>2. FirstIsDirty /\ SinksAreBound /\ KahnInv /\ OrderInv /\ BlockInv /\ SettledInv
  BY DEF FirstIsDirty, SinksAreBound, KahnInv, OrderInv, Built, BlockInv, SettledInv, Settled
<1> QED BY <1>1, <1>2 DEF GraphInv

-------------------------------------------------------------------------------
(* What a step that leaves the variables of a part alone leaves of it.     *)
LEMMA ValidFrame ==
  ASSUME UNCHANGED <<snap, width, direction>> PROVE Valid' = Valid
BY DEF Valid, ValidRoute

LEMMA KahnFrame ==
  ASSUME UNCHANGED <<snap, width, direction, kahn>> PROVE Sorting' <=> Sorting
<1>1. Valid' = Valid
  BY ValidFrame
<1>2. UNCHANGED <<inDegree, queue, sorted>>
  BY DEF kahn
<1> QED BY <1>1, <1>2 DEF Sorting, Distinct, Occurs, Before, Waiting, Linked

LEMMA OrderFrame ==
  ASSUME UNCHANGED <<width, direction, graph>> PROVE Ordered' <=> Ordered
<1>1. UNCHANGED <<order, current, handlers>>
  BY DEF graph
<1> QED BY <1>1 DEF Ordered, Distinct, Occurs, Before, Linked, ValidRoute, Agrees

LEMMA HeardFrame ==
  ASSUME UNCHANGED <<current, handlers, width, block>>
  PROVE  \A n, c : /\ Heard(n, c)' = Heard(n, c) /\ Own(n, c)' = Own(n, c)
                   /\ Signal(n, c)' = Signal(n, c) /\ Agrees(n)' = Agrees(n)
<1>1. \A S : Sources(S)' = Sources(S)
  BY DEF Sources
<1>2. Jacks' = Jacks
  BY DEF Jacks
<1>3. \A S : Reaching(S)' = Reaching(S)
  BY <1>1, <1>2 DEF Reaching
<1>4. \A n : Agrees(n)' = Agrees(n)
  BY DEF Agrees
<1>5. \A n, c : Heard(n, c)' = Heard(n, c)
  BY <1>3, <1>4 DEF Heard
<1>6. \A n, c : Own(n, c)' = Own(n, c)
  BY <1>4 DEF Own
<1> QED BY <1>4, <1>5, <1>6 DEF Signal

LEMMA PlayingFrame ==
  ASSUME UNCHANGED <<width, graph, block, buf, todo, played>> PROVE Playing' <=> Playing
<1>1. UNCHANGED <<order, current, handlers>>
  BY DEF graph
<1>2. \A n, c : /\ Heard(n, c)' = Heard(n, c) /\ Signal(n, c)' = Signal(n, c)
                /\ Agrees(n)' = Agrees(n)
  BY <1>1, HeardFrame
<1>3. Behind' = Behind /\ \A n : Past(n)' = Past(n)
  BY <1>1 DEF Behind, Past
<1>4. \A x, m, c : Arrived(x, m, c)' = Arrived(x, m, c)
  BY <1>1, <1>2, <1>3 DEF Arrived
<1>5. \A n : Served(n)' = Served(n)
  BY <1>1, <1>2, <1>3 DEF Served
<1> QED BY <1>1, <1>2, <1>3, <1>4, <1>5 DEF Playing, Occurs

(* The control threads.                                                    *)
LEMMA ControlKeeps == GraphInv /\ (Publish \/ Mark \/ Close) => GraphInv'
<1> SUFFICES ASSUME GraphInv, Publish \/ Mark \/ Close PROVE GraphInv'
  OBVIOUS
<1>1. UNCHANGED <<block, pc, snap, width, direction, kahn, graph, audio>>
  BY DEF Publish, Mark, Close
<1>2. /\ dirty => dirty'
      /\ listed' \in BOOLEAN /\ media_ready' \in BOOLEAN /\ unmarked' \in BOOLEAN /\ dirty' \in BOOLEAN
      /\ media_ready => media_ready'
  BY DEF Publish, Mark, Close, GraphInv, GraphTypes
<1>3. routes' \in RouteLists /\ open' \in SUBSET Nodes
  BY GraphAssumption DEF Publish, Mark, Close, GraphInv, GraphTypes, Hardware
<1>4. ~Settled'
  BY DEF Publish, Mark, Close, Settled
<1>5. GraphTypes'
  BY <1>1, <1>2, <1>3 DEF GraphInv, GraphTypes, kahn, graph, audio
<1>6. FirstIsDirty'
  BY <1>1, <1>2 DEF GraphInv, FirstIsDirty
<1>7. SinksAreBound'
  <2>1. SeesReady => SeesReady'
    BY <1>1, <1>2 DEF SeesReady
  <2>2. \A n : SinkIsBound(n) => SinkIsBound(n)'
    BY <1>1, <2>1 DEF SinkIsBound, Bound
  <2> QED BY <1>1, <2>2 DEF GraphInv, SinksAreBound
<1>8. KahnInv'
  BY <1>1, KahnFrame DEF GraphInv, KahnInv
<1>9. OrderInv'
  BY <1>1, OrderFrame DEF GraphInv, OrderInv, Built
<1>10. BlockInv'
  BY <1>1, PlayingFrame DEF GraphInv, BlockInv, audio
<1>11. SettledInv'
  BY <1>4 DEF SettledInv
<1> QED BY <1>5, <1>6, <1>7, <1>8, <1>9, <1>10, <1>11 DEF GraphInv

LEMMA MatchesFrame ==
  ASSUME UNCHANGED <<control, width, direction, graph>> PROVE Matches' <=> Matches
<1>1. UNCHANGED <<routes, open, listed, media_ready, order, handlers, current>>
  BY DEF control, graph
<1>2. Resolved' <=> Resolved
  BY <1>1 DEF Resolved, Ready, WidthsFor, DirectionsFor, Width, Direction, Bound
<1>3. \A n : Handler(n, width, open, Ready)' = Handler(n, width, open, Ready) /\ (InOrder(n)' <=> InOrder(n))
  BY <1>1 DEF Handler, Bound, Ready, InOrder
<1> QED BY <1>1, <1>2, <1>3 DEF Matches, ValidRoute

-------------------------------------------------------------------------------
(* rebuild_graph and process_audio, step by step.                          *)
LEMMA EntryKeeps == GraphInv /\ BlockEntry => GraphInv'
<1> SUFFICES ASSUME GraphInv, BlockEntry PROVE GraphInv'
  OBVIOUS
<1>1. /\ pc = "idle" /\ block' = block + 1 /\ dirty' = FALSE
      /\ (dirty /\ pc' = "widths") \/ (~dirty /\ pc' = "clear")
      /\ UNCHANGED <<control, snap, width, direction, kahn, graph, audio>>
  BY DEF BlockEntry
<1>2. GraphTypes'
  <2>1. /\ UNCHANGED <<routes, open, listed, media_ready, unmarked, snap, width, direction>>
        /\ UNCHANGED <<inDegree, queue, sorted, order, todo, current>>
    BY <1>1 DEF control, kahn, graph, audio
  <2>2. pc' \in {"idle", "widths", "edges", "sort", "clear", "process"}
    BY <1>1
  <2>3. block' \in Nat
    <3>1. block \in Nat
      BY DEF GraphInv, GraphTypes
    <3> QED BY <1>1, <3>1
  <2>4. dirty' \in BOOLEAN
    BY <1>1
  <2> QED BY <2>1, <2>2, <2>3, <2>4 DEF GraphInv, GraphTypes
<1>3. FirstIsDirty' /\ SinksAreBound' /\ KahnInv' /\ BlockInv'
  BY <1>1 DEF GraphInv, GraphTypes, FirstIsDirty, SinksAreBound, KahnInv, BlockInv
<1>4. OrderInv'
  <2>1. pc' = "clear" => Built
    BY <1>1 DEF GraphInv, GraphTypes, FirstIsDirty, Built
  <2>2. Built' => pc' = "clear"
    BY <1>1 DEF Built
  <2> QED BY <1>1, <2>1, <2>2, OrderFrame DEF GraphInv, OrderInv
<1>5. SettledInv'
  <2>1. ASSUME Settled', pc' = "clear" PROVE Matches'
    <3>1. Settled
      BY <1>1, <2>1 DEF Settled, control
    <3>2. Matches
      BY <1>1, <3>1 DEF GraphInv, SettledInv
    <3> QED BY <1>1, <3>2, MatchesFrame DEF control
  <2> QED BY <1>1, <2>1 DEF SettledInv
<1> QED BY <1>2, <1>3, <1>4, <1>5 DEF GraphInv

LEMMA SnapshotKeeps == GraphInv /\ SnapshotAndWidths => GraphInv'
<1> SUFFICES ASSUME GraphInv, SnapshotAndWidths PROVE GraphInv'
  OBVIOUS
<1>1. /\ pc = "widths" /\ pc' = "edges"
      /\ snap' = [routes |-> routes, open |-> open, listed |-> listed]
      /\ width' = WidthsFor(routes, open, Ready) /\ direction' = DirectionsFor(open, Ready)
      /\ UNCHANGED <<control, dirty, block, kahn, graph, audio>>
  BY DEF SnapshotAndWidths, Ready, WidthsFor, DirectionsFor
<1>2. routes \subseteq Records /\ IsFiniteSet(routes)
  BY GraphAssumption DEF GraphInv, GraphTypes, Records
<1>3. GraphTypes'
  <2>1. width' \in [Nodes -> 0..MaxChannels]
    BY <1>1, <1>2, WidthIsNumber DEF WidthsFor
  <2>2. direction' \in [Nodes -> {-1, 0, 1}]
    <3>1. \A n \in Nodes : Direction(n, open, Ready) \in {-1, 0, 1}
      BY GraphAssumption DEF Direction
    <3> QED BY <1>1, <3>1 DEF DirectionsFor
  <2>3. IsFiniteSet(snap'.routes) /\ snap'.routes \in SUBSET Records /\ snap'.listed \in BOOLEAN
    BY <1>1, <1>2 DEF GraphInv, GraphTypes
  <2> QED BY <1>1, <2>1, <2>2, <2>3 DEF GraphInv, GraphTypes, control, kahn, graph, audio
<1>4. FirstIsDirty'
  BY <1>1 DEF GraphInv, FirstIsDirty
<1>5. SinksAreBound'
  <2>1. SeesReady' = Ready
    BY <1>1 DEF SeesReady, Ready, control
  <2>2. width'[Tone] = 1
    BY <1>1, GraphAssumption DEF WidthsFor, Width
  <2>3. ASSUME NEW n \in Nodes, direction'[n] = -1 PROVE SinkIsBound(n)'
    <3>1. Direction(n, open, Ready) = -1
      BY <1>1, <2>3 DEF DirectionsFor
    <3>2. n # Tone /\ Bound(n, open, Ready) /\ Endpoint[n].direction = -1
      BY <3>1 DEF Direction
    <3>3. width'[n] = Min({Endpoint[n].channels, MaxChannels})
      BY <1>1, <3>2 DEF WidthsFor, Width
    <3>4. Bound(n, snap.open, SeesReady)'
      BY <1>1, <2>1, <3>2 DEF Bound
    <3> QED BY <3>2, <3>3, <3>4 DEF SinkIsBound
  <2> QED BY <2>2, <2>3 DEF SinksAreBound
<1>6. KahnInv' /\ OrderInv' /\ BlockInv'
  BY <1>1 DEF KahnInv, OrderInv, BlockInv, Built
<1>7. SettledInv'
  <2>1. UNCHANGED <<routes, open, listed, media_ready>>
    BY <1>1 DEF control
  <2>2. Ready' = Ready
    BY <2>1 DEF Ready
  <2>3. Resolved'
    BY <1>1, <2>1, <2>2 DEF Resolved, WidthsFor, DirectionsFor, Width, Direction, Bound
  <2>4. Snapped'
    BY <1>1, <2>1, <2>3 DEF Snapped
  <2> QED BY <1>1, <2>4 DEF SettledInv
<1> QED BY <1>3, <1>4, <1>5, <1>6, <1>7 DEF GraphInv

(* The routes that count.                                                  *)
LEMMA ValidRoutes ==
  ASSUME GraphTypes
  PROVE  /\ IsFiniteSet(Valid) /\ Valid \subseteq Records
         /\ \A r \in Valid : /\ r.src \in Nodes /\ r.dst \in Nodes
                             /\ width[r.src] > 0 /\ width[r.dst] > 0
<1>1. Valid \subseteq snap.routes
  BY DEF Valid
<1>2. IsFiniteSet(Valid)
  BY <1>1, FS_Subset DEF GraphTypes
<1>3. ASSUME NEW r \in Valid
      PROVE  r.src \in Nodes /\ r.dst \in Nodes /\ width[r.src] > 0 /\ width[r.dst] > 0
  <2>1. r.src \in Nodes /\ r.dst \in Nodes /\ r.sch < width[r.src] /\ r.dch < width[r.dst]
    BY DEF Valid, ValidRoute
  <2>2. r.sch \in Nat /\ r.dch \in Nat
    BY <1>1 DEF GraphTypes, Records
  <2>3. width[r.src] \in Nat /\ width[r.dst] \in Nat
    <3>1. width[r.src] \in 0..MaxChannels /\ width[r.dst] \in 0..MaxChannels
      BY <2>1 DEF GraphTypes
    <3> QED BY <3>1
  <2> QED BY <2>1, <2>2, <2>3
<1> QED BY <1>1, <1>2, <1>3 DEF GraphTypes

LEMMA EdgesKeeps == GraphInv /\ Edges => GraphInv'
<1> SUFFICES ASSUME GraphInv, Edges PROVE GraphInv'
  OBVIOUS
<1>1. /\ pc = "edges" /\ pc' = "sort" /\ sorted' = <<>>
      /\ inDegree' = [n \in Nodes |-> Cardinality({r \in Valid : r.dst = n})]
      /\ queue' = {n \in ActiveNodes : inDegree'[n] = 0}
      /\ UNCHANGED <<control, dirty, block, snap, width, direction, graph, audio>>
  BY DEF Edges
<1>2. GraphTypes /\ Valid' = Valid /\ SinksAreBound
  BY <1>1, ValidFrame DEF GraphInv
<1>3. \A n : ~Occurs(sorted, n)'
  BY <1>1 DEF Occurs
<1>4. \A n : Waiting(n)' = {r \in Valid : r.dst = n}
  BY <1>2, <1>3 DEF Waiting
<1>5. inDegree' \in [Nodes -> Nat] /\ \A n \in Nodes : inDegree'[n] = Cardinality(Waiting(n)')
  <2>1. ASSUME NEW n \in Nodes PROVE Cardinality({r \in Valid : r.dst = n}) \in Nat
    BY <1>2, ValidRoutes, FS_Subset, FS_CardinalityType
  <2> QED BY <1>1, <1>4, <2>1
<1>6. ActiveNodes \subseteq Nodes /\ \A n \in ActiveNodes : width[n] > 0
  <2>1. ASSUME NEW n \in ActiveNodes PROVE n \in Nodes /\ width[n] > 0
    <3>1. CASE n = Tone
      BY <1>1, <1>2, <3>1, GraphAssumption DEF SinksAreBound
    <3>2. CASE \E r \in Valid : n \in {r.src, r.dst}
      BY <1>2, <3>2, ValidRoutes
    <3> QED BY <3>1, <3>2 DEF ActiveNodes
  <2> QED BY <2>1
<1>7. GraphTypes'
  BY <1>1, <1>2, <1>5, <1>6 DEF GraphTypes, control, graph, audio
<1>8. ASSUME NEW n \in Nodes, Linked(n, Valid) PROVE n \in ActiveNodes
  <2>1. CASE direction[n] = -1
    <3>1. SinkIsBound(n)
      BY <1>1, <1>2, <2>1 DEF SinksAreBound
    <3>2. width[n] > 0
      BY <3>1, BoundIsWide DEF SinkIsBound
    <3> QED BY <3>1, <3>2 DEF SinkIsBound, ActiveNodes
  <2>2. CASE \E r \in Valid : n \in {r.src, r.dst}
    BY <2>2 DEF ActiveNodes
  <2> QED BY <1>8, <2>1, <2>2 DEF Linked
<1>9. Sorting'
  <2>1. Distinct(sorted)' /\ \A n \in queue' : ~Occurs(sorted, n)'
    BY <1>1, <1>3 DEF Distinct
  <2>2. \A n \in Nodes : Linked(n, Valid)' => Linked(n, Valid)
    BY <1>1, <1>2 DEF Linked
  <2>3. \A n \in Nodes : inDegree'[n] = 0 /\ Linked(n, Valid)' => n \in queue'
    BY <1>1, <1>8, <2>2
  <2>4. \A n \in queue' : width'[n] > 0 /\ inDegree'[n] = 0
    BY <1>1, <1>6
  <2> QED BY <1>2, <1>3, <1>5, <2>1, <2>3, <2>4 DEF Sorting
<1>10. FirstIsDirty' /\ OrderInv' /\ BlockInv' /\ KahnInv'
  BY <1>1, <1>9 DEF GraphInv, FirstIsDirty, OrderInv, BlockInv, Built, KahnInv
<1>11. SinksAreBound'
  BY <1>1, <1>2 DEF SinksAreBound, SinkIsBound, Bound, SeesReady, control
<1>12. SettledInv'
  <2>1. Snapped' <=> Snapped
    BY <1>1 DEF Snapped, Resolved, Ready, WidthsFor, DirectionsFor, Width, Direction, Bound, control
  <2>2. Settled' <=> Settled
    BY <1>1 DEF Settled, control
  <2> QED BY <1>1, <2>1, <2>2 DEF GraphInv, SettledInv
<1> QED BY <1>7, <1>10, <1>11, <1>12 DEF GraphInv

LEMMA AppendedIs ==
  ASSUME NEW T, NEW seq \in Seq(T), NEW x \in T
  PROVE  /\ \A n : Occurs(Append(seq, x), n) <=> Occurs(seq, n) \/ n = x
         /\ \A m, n : Before(seq, m, n) => Before(Append(seq, x), m, n)
         /\ \A m : Occurs(seq, m) => Before(Append(seq, x), m, x)
         /\ Distinct(seq) /\ ~Occurs(seq, x) => Distinct(Append(seq, x))
<1> DEFINE next == Append(seq, x)
<1>1. /\ Len(seq) \in Nat /\ Len(next) = Len(seq) + 1 /\ next[Len(seq) + 1] = x
      /\ \A i \in 1..Len(seq) : next[i] = seq[i]
  OBVIOUS
<1> HIDE DEF next
<1>2. \A i \in 1..Len(next) : i \in 1..Len(seq) \/ i = Len(seq) + 1
  BY <1>1
<1>3. \A i \in 1..Len(seq) : i \in 1..Len(next) /\ i < Len(seq) + 1
  BY <1>1
<1>4. Len(seq) + 1 \in 1..Len(next)
  BY <1>1
<1>5. ASSUME NEW n PROVE Occurs(next, n) <=> Occurs(seq, n) \/ n = x
  BY <1>1, <1>2, <1>3, <1>4 DEF Occurs
<1>6. ASSUME NEW m, NEW n, Before(seq, m, n) PROVE Before(next, m, n)
  BY <1>1, <1>3, <1>6 DEF Before
<1>7. ASSUME NEW m, Occurs(seq, m) PROVE Before(next, m, x)
  BY <1>1, <1>3, <1>4, <1>7 DEF Before, Occurs
<1>8. ASSUME Distinct(seq), ~Occurs(seq, x) PROVE Distinct(next)
  BY <1>1, <1>2, <1>8 DEF Distinct, Occurs
<1> QED BY <1>5, <1>6, <1>7, <1>8 DEF next

LEMMA KahnPopKeeps == GraphInv /\ KahnPop => GraphInv'
<1> SUFFICES ASSUME GraphInv, KahnPop PROVE GraphInv'
  OBVIOUS
<1> DEFINE u           == Min(queue)
           Released(n) == {r \in Valid : r.src = u /\ r.dst = n}
<1>1. /\ pc = "sort" /\ pc' = pc /\ queue # {} /\ sorted' = Append(sorted, u)
      /\ inDegree' = [n \in Nodes |-> inDegree[n] - Cardinality(Released(n))]
      /\ queue' = (queue \ {u}) \cup {n \in Nodes : inDegree[n] > 0 /\ inDegree'[n] = 0}
      /\ UNCHANGED <<control, dirty, block, snap, width, direction, graph, audio>>
  BY DEF KahnPop
<1>2. GraphTypes /\ Sorting /\ Valid' = Valid
  BY <1>1, ValidFrame DEF GraphInv, KahnInv
<1>3. u \in queue /\ u \in Nodes
  <2>1. queue \subseteq Nodes
    BY <1>2 DEF GraphTypes
  <2>2. queue \subseteq Nat
    BY <2>1, GraphAssumption
  <2> QED BY <1>1, <2>1, <2>2, MinIsIn
<1> HIDE DEF u
<1>4. ASSUME NEW n PROVE /\ IsFiniteSet(Waiting(n)) /\ Cardinality(Waiting(n)) \in Nat
                         /\ Cardinality(Waiting(n)) = 0 <=> Waiting(n) = {}
  <2>1. Waiting(n) \subseteq Valid
    BY DEF Waiting
  <2>2. IsFiniteSet(Waiting(n))
    BY <1>2, <2>1, ValidRoutes, FS_Subset
  <2> QED BY <2>2, FS_CardinalityType, FS_EmptySet
<1>5. \A n \in Nodes : inDegree[n] = 0 <=> Waiting(n) = {}
  BY <1>2, <1>4 DEF Sorting
<1>6. ~Occurs(sorted, u) /\ Waiting(u) = {}
  BY <1>2, <1>3, <1>5 DEF Sorting
<1>7. ASSUME NEW n PROVE Waiting(n)' = Waiting(n) \ Released(n) /\ Released(n) \subseteq Waiting(n)
  <2>1. \A m : Occurs(sorted', m) <=> Occurs(sorted, m) \/ m = u
    BY <1>1, <1>2, <1>3, AppendedIs DEF GraphTypes
  <2>2. \A m : Occurs(sorted, m)' <=> Occurs(sorted, m) \/ m = u
    BY <2>1 DEF Occurs
  <2> QED BY <1>2, <1>6, <2>2 DEF Waiting
<1>8. ASSUME NEW n \in Nodes
      PROVE  inDegree'[n] = Cardinality(Waiting(n)') /\ inDegree'[n] \in Nat
  <2>1. Waiting(n) \cap Released(n) = Released(n)
    BY <1>7
  <2>3. inDegree[n] = Cardinality(Waiting(n)) /\ IsFiniteSet(Waiting(n))
    BY <1>2, <1>4 DEF Sorting
  <2> HIDE DEF Released
  <2>2. /\ IsFiniteSet(Waiting(n) \ Released(n))
        /\ Cardinality(Waiting(n) \ Released(n))
             = Cardinality(Waiting(n)) - Cardinality(Waiting(n) \cap Released(n))
    BY <2>3, FS_Difference
  <2>4. inDegree'[n] = inDegree[n] - Cardinality(Released(n))
    BY <1>1
  <2> QED BY <1>7, <2>1, <2>2, <2>3, <2>4, FS_CardinalityType
<1>9. \A n \in Nodes : inDegree'[n] = 0 <=> Waiting(n)' = {}
  <2>1. ASSUME NEW n \in Nodes PROVE inDegree'[n] = 0 <=> Waiting(n)' = {}
    <3>1. IsFiniteSet(Waiting(n)')
      BY <1>4, <1>7, FS_Subset
    <3> QED BY <1>8, <3>1, FS_EmptySet
  <2> QED BY <2>1
<1>10. GraphTypes'
  <2>1. inDegree' \in [Nodes -> Nat]
    <3> HIDE DEF Released
    <3> QED BY <1>1, <1>8
  <2>2. queue' \in SUBSET Nodes
    BY <1>1, <1>2 DEF GraphTypes
  <2>3. sorted' \in Seq(Nodes)
    BY <1>1, <1>2, <1>3 DEF GraphTypes
  <2>4. UNCHANGED <<routes, open, listed, media_ready, unmarked, dirty, block, pc, snap, width,
                    direction, order, todo, current>>
    BY <1>1 DEF control, graph, audio
  <2> QED BY <1>2, <2>1, <2>2, <2>3, <2>4 DEF GraphTypes
<1>11. ASSUME NEW r \in Valid, Occurs(sorted, r.dst) PROVE Occurs(sorted, r.src)
  BY <1>2, <1>11 DEF Sorting, Before, Occurs
<1>12. ASSUME NEW n \in queue'
       PROVE  ~Occurs(sorted', n) /\ inDegree'[n] = 0 /\ width'[n] > 0
  <2>1. \A m : Occurs(sorted', m) <=> Occurs(sorted, m) \/ m = u
    BY <1>1, <1>2, <1>3, AppendedIs DEF GraphTypes
  <2>2. CASE n \in queue \ {u}
    <3>1. n \in Nodes /\ ~Occurs(sorted, n) /\ inDegree[n] = 0 /\ width[n] > 0
      BY <1>2, <2>2 DEF Sorting, GraphTypes
    <3>2. Waiting(n)' = {}
      BY <1>5, <1>7, <3>1
    <3> QED BY <1>1, <1>9, <2>1, <2>2, <3>1, <3>2
  <2>3. CASE n \in Nodes /\ inDegree[n] > 0 /\ inDegree'[n] = 0
    <3>1. n # u
      BY <1>2, <1>3, <2>3 DEF Sorting
    <3>2. PICK r \in Waiting(n) : TRUE
      BY <1>5, <2>3
    <3>3. ~Occurs(sorted, n)
      BY <1>11, <3>2 DEF Waiting
    <3>4. width[n] > 0
      BY <1>2, <3>2, ValidRoutes DEF Waiting
    <3> QED BY <1>1, <2>1, <2>3, <3>1, <3>3, <3>4
  <2> QED BY <1>1, <2>2, <2>3
<1>13. Sorting'
  <2>1. /\ \A n : Occurs(sorted', n) <=> Occurs(sorted, n) \/ n = u
        /\ \A m, n : Before(sorted, m, n) => Before(sorted', m, n)
        /\ \A m : Occurs(sorted, m) => Before(sorted', m, u)
        /\ Distinct(sorted')
    BY <1>1, <1>2, <1>3, <1>6, AppendedIs DEF GraphTypes, Sorting
  <2>2. ASSUME NEW r \in Valid, Occurs(sorted', r.dst) PROVE Before(sorted', r.src, r.dst)
    <3>1. CASE Occurs(sorted, r.dst)
      BY <1>2, <2>1, <3>1 DEF Sorting
    <3>2. CASE r.dst = u
      <4>1. Occurs(sorted, r.src)
        BY <1>6, <3>2 DEF Waiting
      <4> QED BY <2>1, <3>2, <4>1
    <3> QED BY <2>1, <2>2, <3>1, <3>2
  <2>3. ASSUME NEW n \in Nodes, inDegree'[n] = 0, Linked(n, Valid)
        PROVE  n \in queue' \/ Occurs(sorted', n)
    <3>1. CASE inDegree[n] = 0
      BY <1>1, <1>2, <2>1, <2>3, <3>1 DEF Sorting
    <3>2. CASE inDegree[n] # 0
      <4>1. inDegree[n] > 0
        BY <1>2, <3>2 DEF GraphTypes
      <4> QED BY <1>1, <2>3, <4>1
    <3> QED BY <3>1, <3>2
  <2>4. ASSUME NEW n \in Nodes, n \in queue' \/ Occurs(sorted', n) PROVE width'[n] > 0
    <3>1. CASE n \in queue'
      BY <1>12, <3>1
    <3>2. CASE Occurs(sorted, n) \/ n = u
      BY <1>1, <1>2, <1>3, <3>2 DEF Sorting
    <3> QED BY <2>1, <2>4, <3>1, <3>2
  <2>5. \A n : Linked(n, Valid)' <=> Linked(n, Valid)
    BY <1>1, <1>2 DEF Linked
  <2>6. \A n : Occurs(sorted, n)' <=> Occurs(sorted', n)
    BY DEF Occurs
  <2>7. \A m, n : Before(sorted, m, n)' <=> Before(sorted', m, n)
    BY DEF Before
  <2>8. Distinct(sorted)'
    BY <2>1 DEF Distinct
  <2>9. \A n \in queue' : ~Occurs(sorted, n)' /\ inDegree'[n] = 0
    BY <1>12, <2>6
  <2>10. \A r \in Valid' : Occurs(sorted, r.dst)' => Before(sorted, r.src, r.dst)'
    BY <1>2, <2>2, <2>6, <2>7
  <2>11. \A n \in Nodes : /\ inDegree'[n] = 0 /\ Linked(n, Valid)' => n \in queue' \/ Occurs(sorted, n)'
                          /\ n \in queue' \/ Occurs(sorted, n)' => width'[n] > 0
    BY <2>3, <2>4, <2>5, <2>6
  <2> QED BY <1>8, <2>8, <2>9, <2>10, <2>11 DEF Sorting
<1>14. FirstIsDirty' /\ OrderInv' /\ BlockInv' /\ KahnInv'
  BY <1>1, <1>13 DEF GraphInv, FirstIsDirty, OrderInv, BlockInv, Built, KahnInv
<1>15. SinksAreBound'
  BY <1>1 DEF GraphInv, SinksAreBound, SinkIsBound, Bound, SeesReady, control
<1>16. SettledInv'
  <2>1. Snapped' <=> Snapped
    BY <1>1 DEF Snapped, Resolved, Ready, WidthsFor, DirectionsFor, Width, Direction, Bound, control
  <2>2. Settled' <=> Settled
    BY <1>1 DEF Settled, control
  <2> QED BY <1>1, <2>1, <2>2 DEF GraphInv, SettledInv
<1> QED BY <1>10, <1>14, <1>15, <1>16 DEF GraphInv

LEMMA BindKeeps == GraphInv /\ Bind => GraphInv'
<1> SUFFICES ASSUME GraphInv, Bind PROVE GraphInv'
  OBVIOUS
<1>1. /\ pc = "sort" /\ pc' = "clear" /\ queue = {} /\ order' = sorted /\ current' = Valid
      /\ handlers' = [n \in Nodes |-> IF InOrder(n)' THEN Handler(n, width, snap.open, SeesReady)
                                                    ELSE Unbound]
      /\ UNCHANGED <<control, dirty, block, snap, width, direction, kahn, todo, played>>
  BY DEF Bind
<1>2. GraphTypes /\ Sorting /\ SinksAreBound
  BY <1>1 DEF GraphInv, KahnInv
<1>3. GraphTypes'
  <2>1. IsFiniteSet(current') /\ current' \in SUBSET Records
    BY <1>1, <1>2, ValidRoutes
  <2>2. order' \in Seq(Nodes)
    BY <1>1, <1>2 DEF GraphTypes
  <2>3. UNCHANGED <<routes, open, listed, media_ready, unmarked, dirty, block, snap, width,
                    direction, inDegree, queue, sorted, todo>>
    BY <1>1 DEF control, kahn
  <2> QED BY <1>1, <1>2, <2>1, <2>2, <2>3 DEF GraphTypes
<1>4. /\ \A n : (InOrder(n)' <=> Occurs(sorted, n)) /\ (Occurs(order, n)' <=> Occurs(sorted, n))
      /\ \A m, n : Before(order, m, n)' <=> Before(sorted, m, n)
  BY <1>1 DEF InOrder, Occurs, Before
<1>5. \A n \in Nodes : Occurs(sorted, n) => handlers'[n] = Handler(n, width, snap.open, SeesReady)
  BY <1>1, <1>4
<1>6. Ordered'
  <2>1. Distinct(order)'
    BY <1>1, <1>2 DEF Sorting, Distinct
  <2>2. \A r \in current' : ValidRoute(r, width, direction)'
    BY <1>1 DEF Valid, ValidRoute
  <2>3. \A r \in current' : Occurs(order, r.dst)' => Before(order, r.src, r.dst)'
    BY <1>1, <1>2, <1>4 DEF Sorting
  <2>4. ASSUME NEW n \in Nodes, Linked(n, current)', ~Occurs(order, n)'
        PROVE  \E r \in current' : r.dst = n /\ ~Occurs(order, r.src)'
    <3>1. Linked(n, Valid) /\ ~Occurs(sorted, n)
      BY <1>1, <1>4, <2>4 DEF Linked
    <3>2. inDegree[n] # 0
      BY <1>1, <1>2, <3>1 DEF Sorting
    <3>3. Waiting(n) # {}
      BY <1>2, <3>2, FS_EmptySet DEF Sorting
    <3> QED BY <1>1, <1>4, <3>3 DEF Waiting
  <2>5. ASSUME NEW n \in Nodes, Occurs(sorted, n) PROVE handlers'[n].kind # "none"
    <3>1. width[n] > 0
      BY <1>2, <2>5 DEF Sorting
    <3>2. width[n] # 0
      BY <3>1
    <3>3. Handler(n, width, snap.open, SeesReady).kind \in {"source", "playback", "virtual"}
      BY <3>2 DEF Handler
    <3> QED BY <1>5, <2>5, <3>3
  <2>6. ASSUME NEW n \in Nodes, Occurs(sorted, n), direction[n] = -1
        PROVE  handlers'[n].kind = "playback" /\ Agrees(n)'
    <3>1. SinkIsBound(n)
      BY <1>1, <1>2, <2>6 DEF SinksAreBound
    <3>2. width[n] > 0
      BY <1>2, <2>6 DEF Sorting
    <3>3. width[n] # 0
      BY <3>2
    <3>4. Handler(n, width, snap.open, SeesReady) = [kind |-> "playback", channels |-> width[n]]
      BY <3>1, <3>3 DEF SinkIsBound, Handler
    <3>5. handlers'[n] = [kind |-> "playback", channels |-> width[n]]
      BY <1>5, <2>6, <3>4
    <3> QED BY <1>1, <3>2, <3>5 DEF Agrees
  <2> QED BY <1>1, <1>4, <2>1, <2>2, <2>3, <2>4, <2>5, <2>6 DEF Ordered
<1>7. FirstIsDirty' /\ SinksAreBound' /\ KahnInv' /\ OrderInv' /\ BlockInv'
  <2>1. block' # 0
    BY <1>1 DEF GraphInv, FirstIsDirty
  <2> QED BY <1>1, <1>6, <2>1 DEF FirstIsDirty, SinksAreBound, KahnInv, OrderInv, BlockInv
<1>8. SettledInv'
  <2>1. SUFFICES ASSUME Settled' PROVE Matches'
    BY <1>1 DEF SettledInv
  <2>2. UNCHANGED <<routes, open, listed, media_ready, unmarked, dirty>>
    BY <1>1 DEF control
  <2>3. Snapped
    BY <1>1, <2>1, <2>2 DEF Settled, GraphInv, SettledInv
  <2>4. Resolved'
    BY <1>1, <2>2, <2>3 DEF Snapped, Resolved, Ready, WidthsFor, DirectionsFor, Width, Direction, Bound
  <2>5. current' = {r \in routes' : ValidRoute(r, width, direction)'}
    BY <1>1, <2>2, <2>3 DEF Valid, ValidRoute, Snapped
  <2>6. SeesReady = Ready /\ snap.open = open
    BY <2>3 DEF Snapped, SeesReady, Ready
  <2>7. \A n : Handler(n, width, open, Ready)' = Handler(n, width, open, Ready)
    BY <1>1, <2>2 DEF Handler, Bound, Ready
  <2>8. \A n \in Nodes : InOrder(n)' => handlers'[n] = Handler(n, width, open, Ready)'
    BY <1>4, <1>5, <2>6, <2>7
  <2> QED BY <2>4, <2>5, <2>8 DEF Matches
<1> QED BY <1>3, <1>7, <1>8 DEF GraphInv

LEMMA ClearKeeps == GraphInv /\ Clear => GraphInv'
<1> SUFFICES ASSUME GraphInv, Clear PROVE GraphInv'
  OBVIOUS
<1>1. /\ pc = "clear" /\ pc' = "process"
      /\ buf' = [n \in Nodes |-> IF InOrder(n) THEN Silence ELSE buf[n]]
      /\ todo' = order /\ played' = Nothing
      /\ UNCHANGED <<control, dirty, block, snap, width, direction, kahn, graph, feedback>>
  BY DEF Clear
<1>2. UNCHANGED <<routes, open, listed, media_ready, unmarked, inDegree, queue, sorted,
                  order, handlers, current>>
  BY <1>1 DEF control, kahn, graph
<1>3. GraphTypes /\ Ordered
  BY <1>1 DEF GraphInv, OrderInv, Built
<1>4. GraphTypes'
  BY <1>1, <1>2, <1>3 DEF GraphTypes
<1>5. Ordered'
  BY <1>1, <1>3, OrderFrame
<1>6. Playing'
  <2>1. Len(order) \in Nat /\ Behind' = 0
    BY <1>1, <1>2, <1>3 DEF GraphTypes, Behind
  <2>2. \A i \in 1..Len(todo') : todo'[i] = order'[Behind' + i]
    BY <1>1, <1>2, <2>1
  <2>3. \A n : ~Past(n)'
    BY <2>1 DEF Past
  <2>4. \A x, m, c : ~Arrived(x, m, c)'
    BY <2>3 DEF Arrived
  <2>5. ASSUME NEW m \in Nodes, NEW c \in Channels, Occurs(order, m)' PROVE buf'[m][c] = {}
    <3>1. InOrder(m)
      BY <1>2, <2>5 DEF InOrder, Occurs
    <3> QED BY <1>1, <3>1 DEF Silence
  <2>6. \A n : ~Served(n)'
    BY <2>3 DEF Served
  <2>7. played' = [n \in Nodes |-> IF Served(n)' THEN <<[c \in Channels |-> Heard(n, c)']>> ELSE <<>>]
    BY <1>1, <2>6 DEF Nothing
  <2> QED BY <2>1, <2>2, <2>4, <2>5, <2>7 DEF Playing
<1>7. FirstIsDirty' /\ SinksAreBound' /\ KahnInv' /\ OrderInv' /\ BlockInv'
  <2>1. block' # 0
    BY <1>1 DEF GraphInv, FirstIsDirty
  <2> QED BY <1>1, <1>5, <1>6, <2>1 DEF FirstIsDirty, SinksAreBound, KahnInv, OrderInv, BlockInv
<1>8. SettledInv'
  <2>1. Settled' <=> Settled
    BY <1>1, <1>2 DEF Settled
  <2> QED BY <1>1, <1>2, <2>1, MatchesFrame DEF GraphInv, SettledInv
<1> QED BY <1>4, <1>7, <1>8 DEF GraphInv

LEMMA EndKeeps == GraphInv /\ EndBlock => GraphInv'
<1> SUFFICES ASSUME GraphInv, EndBlock PROVE GraphInv'
  OBVIOUS
<1>1. /\ pc = "process" /\ pc' = "idle"
      /\ UNCHANGED <<control, dirty, block, snap, width, direction, kahn, graph, buf, todo, played>>
  BY DEF EndBlock
<1>2. UNCHANGED <<routes, open, listed, media_ready, unmarked, inDegree, queue, sorted,
                  order, handlers, current>>
  BY <1>1 DEF control, kahn, graph
<1>3. GraphTypes /\ Ordered /\ block # 0
  BY <1>1 DEF GraphInv, OrderInv, Built, FirstIsDirty
<1>4. GraphTypes'
  BY <1>1, <1>2, <1>3 DEF GraphTypes
<1>5. Ordered'
  BY <1>1, <1>3, OrderFrame
<1>6. FirstIsDirty' /\ SinksAreBound' /\ KahnInv' /\ OrderInv' /\ BlockInv'
  BY <1>1, <1>3, <1>5 DEF FirstIsDirty, SinksAreBound, KahnInv, OrderInv, BlockInv
<1>7. SettledInv'
  <2>1. Settled' <=> Settled
    BY <1>1, <1>2 DEF Settled
  <2> QED BY <1>1, <1>2, <2>1, MatchesFrame DEF GraphInv, SettledInv
<1> QED BY <1>4, <1>6, <1>7 DEF GraphInv

-------------------------------------------------------------------------------
(* What reaches a jack: what its routes bring, and what reaches those.     *)
LEMMA SourcesAre ==
  ASSUME NEW S, NEW j
  PROVE  j \in Sources(S) <=> \E r \in current : <<r.dst, r.dch>> \in S /\ <<r.src, r.sch>> = j
BY DEF Sources

LEMMA ReachingLeast ==
  ASSUME NEW S, NEW T, Sources(S) \subseteq T, Sources(T) \subseteq T
  PROVE  Reaching(S) \subseteq T
<1> DEFINE U == T \cap Jacks
<1>1. \A R : Sources(R) \subseteq Jacks
  BY DEF Sources, Jacks
<1>2. Sources(U) \subseteq Sources(T)
  BY DEF Sources
<1>3. U \in SUBSET Jacks /\ Sources(S) \subseteq U /\ Sources(U) \subseteq U
  BY <1>1, <1>2
<1> HIDE DEF U
<1>4. Reaching(S) \subseteq U
  BY <1>3 DEF Reaching
<1> QED BY <1>4 DEF U

LEMMA ReachingClosed ==
  ASSUME NEW S
  PROVE  /\ Reaching(S) \subseteq Jacks
         /\ Sources(S) \subseteq Reaching(S) /\ Sources(Reaching(S)) \subseteq Reaching(S)
<1> DEFINE closed == {T \in SUBSET Jacks : Sources(S) \subseteq T /\ Sources(T) \subseteq T}
<1>1. Reaching(S) = {j \in Jacks : \A T \in closed : j \in T}
  BY DEF Reaching
<1>2. \A R : Sources(R) \subseteq Jacks
  BY DEF Sources, Jacks
<1>3. ASSUME NEW T \in closed PROVE Sources(S) \subseteq T /\ Sources(Reaching(S)) \subseteq T
  <2>1. Reaching(S) \subseteq T
    BY <1>1, <1>3
  <2>2. Sources(Reaching(S)) \subseteq Sources(T)
    BY <2>1 DEF Sources
  <2> QED BY <2>2
<1> HIDE DEF closed
<1> QED BY <1>1, <1>2, <1>3

LEMMA ReachingUnrolls ==
  ASSUME NEW k, NEW j
  PROVE  j \in Reaching({k}) <=> \E i \in Sources({k}) : j = i \/ j \in Reaching({i})
<1> DEFINE T == {l \in Jacks : \E i \in Sources({k}) : l = i \/ l \in Reaching({i})}
<1>1. Sources({k}) \subseteq T
  BY ReachingClosed DEF Sources, Jacks
<1>2. ASSUME NEW l \in Sources(T) PROVE l \in T
  <2>1. PICK r \in current : <<r.dst, r.dch>> \in T /\ <<r.src, r.sch>> = l
    BY <1>2, SourcesAre
  <2>2. PICK i \in Sources({k}) : <<r.dst, r.dch>> = i \/ <<r.dst, r.dch>> \in Reaching({i})
    BY <2>1
  <2>3. CASE <<r.dst, r.dch>> = i
    <3>1. l \in Sources({i})
      BY <2>1, <2>3, SourcesAre
    <3>2. l \in Reaching({i}) /\ l \in Jacks
      BY <3>1, ReachingClosed
    <3> QED BY <3>2
  <2>4. CASE <<r.dst, r.dch>> \in Reaching({i})
    <3>1. l \in Sources(Reaching({i}))
      BY <2>1, <2>4, SourcesAre
    <3>2. l \in Reaching({i}) /\ l \in Jacks
      BY <3>1, ReachingClosed
    <3> QED BY <3>2
  <2> QED BY <2>2, <2>3, <2>4
<1>3. Reaching({k}) \subseteq T
  <2> HIDE DEF T
  <2> QED BY <1>1, <1>2, ReachingLeast
<1>4. ASSUME NEW i \in Sources({k}) PROVE i \in Reaching({k}) /\ Reaching({i}) \subseteq Reaching({k})
  <2>1. i \in Reaching({k})
    BY ReachingClosed
  <2>2. Sources({i}) \subseteq Sources(Reaching({k}))
    BY <2>1 DEF Sources
  <2>3. Sources({i}) \subseteq Reaching({k}) /\ Sources(Reaching({k})) \subseteq Reaching({k})
    BY <2>2, ReachingClosed
  <2> QED BY <2>1, <2>3, ReachingLeast
<1> QED BY <1>3, <1>4

LEMMA HeardUnrolls ==
  ASSUME NEW n, NEW c, NEW x
  PROVE  x \in Heard(n, c) <=> \E r \in current : r.dst = n /\ r.dch = c /\ x \in Signal(r.src, r.sch)
<1> DEFINE Emits(j) == handlers[j[1]].kind = "source" /\ Agrees(j[1]) /\ j[2] < width[j[1]]
           Is(j)    == Emits(j) /\ x = <<j[1], j[2], block>>
           Comes(i) == Is(i) \/ \E j \in Reaching({i}) : Is(j)
<1>1. \A m, e : x \in Heard(m, e) <=> \E j \in Reaching({<<m, e>>}) : Is(j)
  BY DEF Heard
<1>2. \A m, e : x \in Own(m, e) <=> Is(<<m, e>>)
  BY DEF Own
<1>3. \A m, e : x \in Signal(m, e) <=> Comes(<<m, e>>)
  BY <1>1, <1>2 DEF Signal
<1> HIDE DEF Is
<1>4. \A j : j \in Sources({<<n, c>>}) <=> \E r \in current : r.dst = n /\ r.dch = c /\ j = <<r.src, r.sch>>
  <2>1. \A r \in current : <<r.dst, r.dch>> \in {<<n, c>>} <=> r.dst = n /\ r.dch = c
    OBVIOUS
  <2> QED BY <2>1, SourcesAre
<1>5. x \in Heard(n, c) <=> \E i \in Sources({<<n, c>>}) : Comes(i)
  <2>1. \A j : j \in Reaching({<<n, c>>}) <=> \E i \in Sources({<<n, c>>}) : j = i \/ j \in Reaching({i})
    BY ReachingUnrolls
  <2> QED BY <1>1, <2>1
<1> HIDE DEF Comes
<1>6. ASSUME x \in Heard(n, c)
      PROVE  \E r \in current : r.dst = n /\ r.dch = c /\ x \in Signal(r.src, r.sch)
  <2>1. PICK i \in Sources({<<n, c>>}) : Comes(i)
    BY <1>5, <1>6
  <2>2. PICK r \in current : r.dst = n /\ r.dch = c /\ i = <<r.src, r.sch>>
    BY <1>4
  <2>3. Comes(<<r.src, r.sch>>)
    BY <2>1, <2>2
  <2>4. x \in Signal(r.src, r.sch)
    BY <1>3, <2>3
  <2> QED BY <2>2, <2>4
<1>7. ASSUME NEW r \in current, r.dst = n, r.dch = c, x \in Signal(r.src, r.sch)
      PROVE  x \in Heard(n, c)
  <2>1. Comes(<<r.src, r.sch>>)
    BY <1>3, <1>7
  <2>2. <<r.src, r.sch>> \in Sources({<<n, c>>})
    BY <1>4, <1>7
  <2> QED BY <1>5, <2>1, <2>2
<1> QED BY <1>6, <1>7

LEMMA MixedIs ==
  ASSUME NEW n, NEW input, NEW m, NEW c, NEW x,
         \A r \in current : r.src = n => ~IsFeedback(r)
  PROVE  x \in Mixed(n, input, m, c) <=>
           \E r \in current : /\ r.src = n /\ r.dst = m /\ r.dch = c
                              /\ r.sch < width[n] /\ c < width[m] /\ x \in input[r.sch]
<1> DEFINE T      == {q \in current : q.src = n /\ q.dst = m /\ q.dch = c
                                      /\ q.sch < width[n] /\ c < width[m]}
           Sent(r) == IF IsFeedback(r) THEN feedback[n][r.sch] ELSE input[r.sch]
<1>1. Mixed(n, input, m, c) = UNION {Sent(r) : r \in T}
  BY DEF Mixed
<1>2. \A r \in T : Sent(r) = input[r.sch]
  OBVIOUS
<1> HIDE DEF Sent
<1>3. x \in Mixed(n, input, m, c) <=> \E r \in T : x \in Sent(r)
  BY <1>1
<1> QED BY <1>2, <1>3

LEMMA ProcessKeeps == GraphInv /\ ProcessNode => GraphInv'
<1> SUFFICES ASSUME GraphInv, ProcessNode PROVE GraphInv'
  OBVIOUS
<1> DEFINE n     == Head(todo)
           input == Input(n)
           own   == [c \in Channels |-> input[c] \cup Mixed(n, input, n, c)]
<1>1. /\ pc = "process" /\ pc' = pc /\ todo # <<>> /\ todo' = Tail(todo)
      /\ buf' = [m \in Nodes |-> IF m = n THEN own
                   ELSE [c \in Channels |-> buf[m][c] \cup Mixed(n, input, m, c)]]
      /\ played' = IF handlers[n].kind = "playback" /\ Agrees(n)
                     THEN [played EXCEPT ![n] = Append(@, own)] ELSE played
      /\ UNCHANGED <<control, dirty, block, snap, width, direction, kahn, graph, feedback>>
  BY DEF ProcessNode
<1>2. UNCHANGED <<routes, open, listed, media_ready, unmarked, inDegree, queue, sorted,
                  order, handlers, current>>
  BY <1>1 DEF control, kahn, graph
<1>3. GraphTypes /\ Ordered /\ Playing /\ block # 0
  BY <1>1 DEF GraphInv, OrderInv, BlockInv, Built, FirstIsDirty
<1>4. todo' \in Seq(Nodes) /\ Len(todo') = Len(todo) - 1 /\ Len(todo) \in Nat \ {0} /\ n = todo[1]
      /\ n \in Nodes /\ \A i \in 1..Len(todo') : todo'[i] = todo[i + 1]
  BY <1>1, <1>3 DEF GraphTypes
<1> HIDE DEF n, input, own
<1>5. /\ Len(order) \in Nat /\ Behind \in Nat /\ Behind' = Behind + 1
      /\ Behind + 1 \in 1..Len(order) /\ order[Behind + 1] = n
  <2>1. Len(order) \in Nat
    BY <1>3 DEF GraphTypes
  <2>2. Behind \in Nat /\ \A i \in 1..Len(todo) : todo[i] = order[Behind + i]
    BY <1>3 DEF Playing
  <2>3. Behind = Len(order) - Len(todo) /\ Behind' = Len(order) - Len(todo')
    BY <1>2 DEF Behind
  <2> HIDE DEF Behind
  <2>4. Behind + 1 \in 1..Len(order) /\ Behind' = Behind + 1
    BY <1>4, <2>1, <2>2, <2>3
  <2>5. 1 \in 1..Len(todo)
    BY <1>4
  <2> QED BY <1>4, <2>1, <2>2, <2>4, <2>5
<1>6. /\ ~Past(n) /\ Occurs(order, n)
      /\ \A m : Past(m)' <=> Past(m) \/ m = n
  <2> HIDE DEF Behind
  <2>1. \A i \in 1..Behind : i \in 1..Len(order) /\ i # Behind + 1
    BY <1>5
  <2>2. ~Past(n)
    BY <1>3, <1>5, <2>1 DEF Past, Ordered, Distinct
  <2>3. Occurs(order, n)
    BY <1>5 DEF Occurs
  <2>4. \A i : i \in 1..Behind' <=> i \in 1..Behind \/ i = Behind + 1
    BY <1>5
  <2>5. \A m : Past(m)' <=> \E i \in 1..Behind' : order[i] = m
    BY <1>2 DEF Past
  <2> QED BY <1>5, <2>2, <2>3, <2>4, <2>5 DEF Past
<1>7. \A r \in current : /\ r.dst = n => Past(r.src)
                         /\ r.src = n => r.dst # n /\ ~IsFeedback(r)
  <2> HIDE DEF Behind
  <2>1. ASSUME NEW r \in current, r.dst = n PROVE Past(r.src)
    <3>1. Before(order, r.src, n)
      BY <1>3, <1>6, <2>1 DEF Ordered
    <3>2. PICK i, j \in 1..Len(order) : i < j /\ order[i] = r.src /\ order[j] = n
      BY <3>1 DEF Before
    <3>3. j = Behind + 1
      BY <1>3, <1>5, <3>2 DEF Ordered, Distinct
    <3>4. i \in 1..Behind
      BY <1>5, <3>2, <3>3
    <3> QED BY <3>2, <3>4 DEF Past
  <2>2. ASSUME NEW r \in current, r.src = n PROVE r.dst # n /\ ~IsFeedback(r)
    <3>1. r.dst # n
      BY <1>6, <2>1, <2>2
    <3>2. CASE Occurs(order, r.dst)
      <4>1. Before(order, r.src, r.dst)
        BY <1>3, <3>2 DEF Ordered
      <4>2. PICK i, j \in 1..Len(order) : i < j /\ order[i] = r.src /\ order[j] = r.dst
        BY <4>1 DEF Before
      <4>3. Position(r.src) = i /\ Position(r.dst) = j
        BY <1>3, <1>5, <4>2, PositionIs DEF Ordered
      <4>4. ~ (i >= j)
        BY <1>5, <4>2
      <4> QED BY <3>1, <4>3, <4>4 DEF IsFeedback
    <3>3. CASE ~Occurs(order, r.dst)
      <4>1. Position(r.dst) = -1
        BY <3>3 DEF Position, InOrder, Occurs
      <4> QED BY <3>1, <4>1 DEF IsFeedback
    <3> QED BY <3>2, <3>3
  <2> QED BY <2>1, <2>2
<1>8. \A c \in Channels : input[c] = Signal(n, c)
  <2>1. ASSUME NEW c \in Channels, NEW x PROVE x \in buf[n][c] <=> x \in Heard(n, c)
    <3>1. x \in buf[n][c] <=> Arrived(x, n, c)
      BY <1>3, <1>4, <1>6 DEF Playing
    <3>2. Arrived(x, n, c) <=> \E r \in current : r.dst = n /\ r.dch = c /\ x \in Signal(r.src, r.sch)
      BY <1>7 DEF Arrived
    <3> QED BY <3>1, <3>2, HeardUnrolls
  <2>2. ASSUME NEW c \in Channels PROVE input[c] = buf[n][c] \cup Own(n, c)
    BY DEF input, Input, Own
  <2>3. ASSUME NEW c \in Channels PROVE buf[n][c] = Heard(n, c)
    BY <2>1
  <2> QED BY <2>2, <2>3 DEF Signal
<1>9. ASSUME NEW m, NEW c, NEW x
      PROVE  x \in Mixed(n, input, m, c) <=>
               \E r \in current : r.src = n /\ r.dst = m /\ r.dch = c /\ x \in Signal(n, r.sch)
  <2>1. \A r \in current : r.src = n => ~IsFeedback(r)
    BY <1>7
  <2>2. x \in Mixed(n, input, m, c) <=>
          \E r \in current : /\ r.src = n /\ r.dst = m /\ r.dch = c
                             /\ r.sch < width[n] /\ c < width[m] /\ x \in input[r.sch]
    BY <2>1, MixedIs
  <2>3. ASSUME NEW r \in current, r.src = n
        PROVE  r.sch < width[n] /\ r.dch < width[r.dst] /\ r.sch \in Channels
    <3>1. r.sch < width[n] /\ r.dch < width[r.dst]
      BY <1>3, <2>3 DEF Ordered, ValidRoute
    <3>2. r.sch \in Nat
      BY <1>3 DEF GraphTypes, Records
    <3>3. width[n] \in 0..MaxChannels
      BY <1>3, <1>4 DEF GraphTypes
    <3> QED BY <3>1, <3>2, <3>3, GraphAssumption DEF Channels
  <2> QED BY <1>8, <2>2, <2>3
<1>10. own = [c \in Channels |-> Signal(n, c)]
  <2>1. ASSUME NEW c \in Channels PROVE Mixed(n, input, n, c) = {}
    BY <1>7, <1>9
  <2> QED BY <1>8, <2>1 DEF own
<1>11. \A m, c : /\ Heard(m, c)' = Heard(m, c) /\ Signal(m, c)' = Signal(m, c)
                 /\ Agrees(m)' = Agrees(m)
  BY <1>1, <1>2, HeardFrame
<1>12. ASSUME NEW m \in Nodes, NEW c \in Channels, Occurs(order, m)', ~Past(m)', NEW x
       PROVE  x \in buf'[m][c] <=> Arrived(x, m, c)'
  <2>1. Occurs(order, m) /\ ~Past(m) /\ m # n
    BY <1>2, <1>6, <1>12 DEF Occurs
  <2>2. buf'[m][c] = buf[m][c] \cup Mixed(n, input, m, c)
    BY <1>1, <2>1
  <2>3. x \in buf[m][c] <=> Arrived(x, m, c)
    BY <1>3, <2>1 DEF Playing
  <2>4. Arrived(x, m, c)' <=> \E r \in current : /\ r.dst = m /\ r.dch = c /\ (Past(r.src) \/ r.src = n)
                                                /\ x \in Signal(r.src, r.sch)
    BY <1>2, <1>6, <1>11 DEF Arrived
  <2> QED BY <1>9, <2>2, <2>3, <2>4 DEF Arrived
<1>13. played' = [m \in Nodes |-> IF Served(m)' THEN <<[c \in Channels |-> Heard(m, c)']>> ELSE <<>>]
  <2>1. \A m : Served(m)' <=> Served(m) \/ (m = n /\ handlers[n].kind = "playback" /\ Agrees(n))
    BY <1>2, <1>6, <1>11 DEF Served
  <2>2. played = [m \in Nodes |-> IF Served(m) THEN <<[c \in Channels |-> Heard(m, c)]>> ELSE <<>>]
    BY <1>3 DEF Playing
  <2>3. CASE handlers[n].kind = "playback" /\ Agrees(n)
    <3>1. own = [c \in Channels |-> Heard(n, c)]
      <4>1. \A c : Own(n, c) = {}
        BY <2>3 DEF Own
      <4> QED BY <1>10, <4>1 DEF Signal
    <3>2. played[n] = <<>>
      BY <1>4, <1>6, <2>2 DEF Served
    <3>3. played' = [played EXCEPT ![n] = <<own>>]
      BY <1>1, <2>3, <3>2
    <3> QED BY <1>4, <1>11, <2>1, <2>2, <2>3, <3>1, <3>3
  <2>4. CASE ~ (handlers[n].kind = "playback" /\ Agrees(n))
    BY <1>1, <1>11, <2>1, <2>2, <2>4
  <2> QED BY <2>3, <2>4
<1>14. Playing'
  <2>1. \A i \in 1..Len(todo') : todo'[i] = order'[Behind' + i]
    <3> HIDE DEF Behind
    <3>1. \A i \in 1..Len(todo) : todo[i] = order[Behind + i]
      BY <1>3 DEF Playing
    <3>2. ASSUME NEW i \in 1..Len(todo') PROVE todo'[i] = order[Behind' + i]
      <4>1. i + 1 \in 1..Len(todo) /\ Behind + (i + 1) = Behind' + i
        BY <1>4, <1>5
      <4> QED BY <1>4, <3>1, <4>1
    <3> QED BY <1>2, <3>2
  <2> QED BY <1>5, <1>12, <1>13, <2>1 DEF Playing
<1>15. GraphTypes'
  BY <1>1, <1>2, <1>3, <1>4 DEF GraphTypes
<1>16. Ordered'
  BY <1>1, <1>3, OrderFrame
<1>17. FirstIsDirty' /\ SinksAreBound' /\ KahnInv' /\ OrderInv' /\ BlockInv'
  BY <1>1, <1>3, <1>14, <1>16 DEF FirstIsDirty, SinksAreBound, KahnInv, OrderInv, BlockInv
<1>18. SettledInv'
  <2>1. Settled' <=> Settled
    BY <1>1, <1>2 DEF Settled
  <2> QED BY <1>1, <1>2, <2>1, MatchesFrame DEF GraphInv, SettledInv
<1> QED BY <1>15, <1>17, <1>18 DEF GraphInv

LEMMA GraphStep == GraphInv /\ [Next]_vars => GraphInv'
<1> SUFFICES ASSUME GraphInv, [Next]_vars PROVE GraphInv'
  OBVIOUS
<1>1. CASE UNCHANGED vars
  <2>1. UNCHANGED <<routes, open, listed, media_ready, unmarked, dirty, block, pc, snap, width,
                    direction, inDegree, queue, sorted, order, handlers, current, buf, todo, played>>
    BY <1>1 DEF vars, control, kahn, graph, audio
  <2>2. UNCHANGED <<control, kahn, graph>>
    BY <1>1 DEF vars
  <2>3. GraphTypes' /\ FirstIsDirty'
    BY <2>1 DEF GraphInv, GraphTypes, FirstIsDirty
  <2>4. SinksAreBound'
    BY <2>1 DEF GraphInv, SinksAreBound, SinkIsBound, Bound, SeesReady
  <2>5. KahnInv' /\ OrderInv' /\ BlockInv'
    BY <2>1, <2>2, KahnFrame, OrderFrame, PlayingFrame DEF GraphInv, KahnInv, OrderInv, BlockInv, Built
  <2>6. SettledInv'
    <3>1. Snapped' <=> Snapped
      BY <2>1 DEF Snapped, Resolved, Ready, WidthsFor, DirectionsFor, Width, Direction, Bound
    <3>2. Settled' <=> Settled
      BY <2>1 DEF Settled
    <3>3. Matches' <=> Matches
      BY <2>1, <2>2, MatchesFrame
    <3> QED BY <2>1, <3>1, <3>2, <3>3 DEF GraphInv, SettledInv
  <2> QED BY <2>3, <2>4, <2>5, <2>6 DEF GraphInv
<1>2. CASE Next
  BY <1>2, ControlKeeps, EntryKeeps, SnapshotKeeps, EdgesKeeps, KahnPopKeeps, BindKeeps,
     ClearKeeps, ProcessKeeps, EndKeeps DEF Next, Worker
<1> QED BY <1>1, <1>2

THEOREM GraphInvariant == Spec => []GraphInv
BY GraphStart, GraphStep, PTL DEF Spec

(* After a rebuild the execution order is exactly the active nodes that    *)
(* are on no cycle of valid routes and behind none, each after all that    *)
(* feed it, whatever the routes, the devices and the session were: Kahn's  *)
(* algorithm in rebuild_graph, its snapshots taken while control threads   *)
(* change what they are taken of.                                          *)
THEOREM OrderCorrect == Spec => []OrderIsTopological
BY GraphInvariant, OrderedIsTopological, PTL

(* process_audio gives each playback endpoint, on each channel, exactly    *)
(* the inputs of this block that lead to it through valid routes of any    *)
(* length.                                                                 *)
THEOREM BlockCorrect == Spec => []BlockHearsRoutes
BY GraphInvariant, PlayingServes, PTL

(* Every open playback endpoint that is not behind a cycle is fed once in  *)
(* every block, and none is fed twice.                                     *)
THEOREM EveryEndpointServed == Spec => []EndpointsServed
BY GraphInvariant, PlayingServes, PTL

(* Once every change has been marked and no rebuild is due, the graph in   *)
(* use is the one that the published routes, devices and session ask for.  *)
THEOREM SettledCorrect == Spec => []SettledGraphIsCurrent
BY GraphInvariant, SettledIsCurrent, PTL

(* Types, for any graph; and no node is ever twice in the execution order, *)
(* nor, while one is in use, in it without a handler.                      *)
THEOREM GraphTypeCorrect == Spec => []TypeOK
<1>1. Init => Distinct(order)
  BY DEF Init, Distinct
<1>2. ASSUME GraphInv, Distinct(order), [Next]_vars PROVE Distinct(order)'
  <2>1. CASE Bind
    <3>1. Distinct(sorted) /\ order' = sorted
      BY <1>2, <2>1 DEF GraphInv, KahnInv, Sorting, Bind
    <3> QED BY <3>1 DEF Distinct
  <2>2. CASE UNCHANGED order
    BY <1>2, <2>2 DEF Distinct
  <2>3. [Next]_vars => Bind \/ UNCHANGED order
    BY DEF Next, Worker, Publish, Mark, Close, BlockEntry, SnapshotAndWidths, Edges, KahnPop, Clear,
           ProcessNode, EndBlock, vars, graph
  <2> QED BY <1>2, <2>1, <2>2, <2>3
<1>3. ASSUME GraphInv, Distinct(order) PROVE TypeOK
  <2>1. Built => \A i \in 1..Len(order) : handlers[order[i]].kind # "none"
    <3>1. \A i \in 1..Len(order) : order[i] \in Nodes /\ Occurs(order, order[i])
      BY <1>3 DEF GraphInv, GraphTypes, Occurs
    <3> QED BY <1>3, <3>1 DEF GraphInv, OrderInv, Ordered
  <2>2. /\ open \subseteq Nodes /\ queue \subseteq Nodes
        /\ direction \in [Nodes -> -1..1]
    <3>1. {-1, 0, 1} = -1..1
      OBVIOUS
    <3> QED BY <1>3, <3>1 DEF GraphInv, GraphTypes
  <2>3. \A i, j \in 1..Len(order) : i # j => order[i] # order[j]
    BY <1>3 DEF Distinct
  <2>4. /\ routes \in RouteLists /\ width \in [Nodes -> 0..MaxChannels] /\ inDegree \in [Nodes -> Nat]
        /\ listed \in BOOLEAN /\ media_ready \in BOOLEAN /\ unmarked \in BOOLEAN /\ dirty \in BOOLEAN
        /\ pc \in {"idle", "widths", "edges", "sort", "clear", "process"}
    BY <1>3 DEF GraphInv, GraphTypes
  <2> QED BY <2>1, <2>2, <2>3, <2>4 DEF TypeOK
<1> QED BY GraphInvariant, <1>1, <1>2, <1>3, PTL DEF Spec
===============================================================================
