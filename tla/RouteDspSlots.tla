----------------------------- MODULE RouteDspSlots -----------------------------
(***************************************************************************)
(* The three-slot publication of one route's DSP state (DspEngine::        *)
(* RouteDsp): control threads replace the processor chain, gain and bypass *)
(* flag of a route while the audio worker, which takes no lock, uses them. *)
(*                                                                         *)
(* The two indices are sequentially consistent atomics; the slots are      *)
(* plain memory.  Every load or store of an index and every access to a    *)
(* slot's field is a step of its own.  A slot field holds the number of    *)
(* the publication that wrote it (Destroyed after processor.reset()), and  *)
(* `on` the bypass flag that the audio worker branches on.                 *)
(***************************************************************************)
EXTENDS Integers, FiniteSets

CONSTANTS Writers,         \* threads that call update_route_dsp
          NoWriter,        \* writer_lock is free
          MaxPublications  \* bound: how many calls a behaviour has

ASSUME SlotsAssumption == /\ MaxPublications \in Nat
                          /\ NoWriter \notin Writers

VARIABLES slots,         \* RouteDsp::chains
          current_idx,   \* RouteDsp::current_idx
          reader_idx,    \* RouteDsp::reader_idx
          writer_lock,   \* RouteDsp::writer_lock: its holder, or NoWriter
          wpc,           \* the step each writer is at
          wcur, widx,    \* the lock holder's locals `current`, `write_idx`
          won,           \* the lock holder's argument `active`
          rpc, ridx,     \* the audio worker's step and its local `idx`
          seen,          \* the fields of the pinned slot it has read
          published      \* history: number of completed publications

slotsVars == <<slots, current_idx, reader_idx, writer_lock, wpc, wcur, widx, won,
               rpc, ridx, seen, published>>

Slots == 0..2
Destroyed == -1
Unpinned == -1

wvars == <<writer_lock, wpc, wcur, widx, won>>
rvars == <<rpc, ridx, seen>>

(* The audio worker is between its validated pin and its unpin.           *)
Using == {"active", "length", "processors", "gain", "unpin"}

Pub == INSTANCE RoutePublication
         WITH cell <- slots[current_idx],
              snapshot <- IF rpc \in Using THEN {slots[ridx]} ELSE {}

SlotsInit ==
  /\ slots = [s \in Slots |-> [processors |-> 0, length |-> 0, gain |-> 0,
                               active |-> 0, on |-> FALSE]]
  /\ current_idx = 0
  /\ reader_idx = Unpinned
  /\ writer_lock = NoWriter
  /\ wpc = [w \in Writers |-> "idle"]
  /\ wcur = 0 /\ widx = 0 /\ won = FALSE
  /\ rpc = "idle" /\ ridx = 0 /\ seen = {}
  /\ published = 0

-------------------------------------------------------------------------------
(* DspEngine::update_route_dsp.  The checks of the route id, the chain     *)
(* length and the gain throw before anything is touched: only a call that  *)
(* passed them is a step here.                                             *)

WriterGoto(w, from, to) == /\ wpc[w] = from
                           /\ wpc' = [wpc EXCEPT ![w] = to]

(* The caller's chain and flag are fixed; the writer lock is taken.        *)
Lock(w) ==
  /\ published < MaxPublications
  /\ writer_lock = NoWriter
  /\ WriterGoto(w, "idle", "loadCurrent")
  /\ writer_lock' = w
  /\ won' \in BOOLEAN
  /\ UNCHANGED <<slots, current_idx, reader_idx, wcur, widx, rvars, published>>

LoadCurrent(w) ==
  /\ WriterGoto(w, "loadCurrent", "loadReader")
  /\ wcur' = current_idx
  /\ UNCHANGED <<slots, current_idx, reader_idx, writer_lock, widx, won, rvars, published>>

(* `while (write_idx == current || write_idx == reader) ++write_idx`       *)
Spare(current, reader) ==
  CHOOSE s \in 0..3 : /\ s \notin {current, reader}
                      /\ \A t \in 0..3 : t < s => t \in {current, reader}

(* Mutant: double buffering, the audio worker's pin is not consulted.      *)
LoadReaderIgnoringPin(w) ==
  /\ WriterGoto(w, "loadReader", "reset")
  /\ widx' = Spare(wcur, Unpinned)
  /\ UNCHANGED <<slots, current_idx, reader_idx, writer_lock, wcur, won, rvars, published>>

LoadReader(w) ==
  /\ WriterGoto(w, "loadReader", "reset")
  /\ widx' = Spare(wcur, reader_idx)
  /\ UNCHANGED <<slots, current_idx, reader_idx, writer_lock, wcur, won, rvars, published>>

(* Destroy the processors of the slot that is being reused.                *)
Reset(w) ==
  /\ WriterGoto(w, "reset", "length")
  /\ slots' = [slots EXCEPT ![widx].processors = Destroyed]
  /\ UNCHANGED <<current_idx, reader_idx, writer_lock, wcur, widx, won, rvars, published>>

FillLength(w) ==
  /\ WriterGoto(w, "length", "processors")
  /\ slots' = [slots EXCEPT ![widx].length = published + 1]
  /\ UNCHANGED <<current_idx, reader_idx, writer_lock, wcur, widx, won, rvars, published>>

FillProcessors(w) ==
  /\ WriterGoto(w, "processors", "gain")
  /\ slots' = [slots EXCEPT ![widx].processors = published + 1]
  /\ UNCHANGED <<current_idx, reader_idx, writer_lock, wcur, widx, won, rvars, published>>

(* Mutant: the index is stored before the slot is complete.                *)
FillGainEarlyStore(w) ==
  /\ WriterGoto(w, "gain", "active")
  /\ slots' = [slots EXCEPT ![widx].gain = published + 1]
  /\ current_idx' = widx
  /\ UNCHANGED <<reader_idx, writer_lock, wcur, widx, won, rvars, published>>

FillGain(w) ==
  /\ WriterGoto(w, "gain", "active")
  /\ slots' = [slots EXCEPT ![widx].gain = published + 1]
  /\ UNCHANGED <<current_idx, reader_idx, writer_lock, wcur, widx, won, rvars, published>>

FillActive(w) ==
  /\ WriterGoto(w, "active", "store")
  /\ slots' = [slots EXCEPT ![widx].active = published + 1, ![widx].on = won]
  /\ UNCHANGED <<current_idx, reader_idx, writer_lock, wcur, widx, won, rvars, published>>

StoreCurrent(w) ==
  /\ WriterGoto(w, "store", "unlock")
  /\ current_idx' = widx
  /\ published' = published + 1
  /\ UNCHANGED <<slots, reader_idx, writer_lock, wcur, widx, won, rvars>>

Unlock(w) ==
  /\ WriterGoto(w, "unlock", "idle")
  /\ writer_lock' = NoWriter
  /\ UNCHANGED <<slots, current_idx, reader_idx, wcur, widx, won, rvars, published>>

Update(w) == \/ Lock(w) \/ LoadCurrent(w) \/ LoadReader(w) \/ Reset(w)
             \/ FillLength(w) \/ FillProcessors(w) \/ FillGain(w)
             \/ FillActive(w) \/ StoreCurrent(w) \/ Unlock(w)

-------------------------------------------------------------------------------
(* The audio worker, once per block and route (DspEngine::process_audio).  *)

ReaderGoto(from, to) == rpc = from /\ rpc' = to

(* First statement of the pinning loop.                                    *)
PinLoad ==
  /\ ReaderGoto("idle", "pin")
  /\ ridx' = current_idx
  /\ UNCHANGED <<slots, current_idx, reader_idx, wvars, seen, published>>

PinStore ==
  /\ ReaderGoto("pin", "validate")
  /\ reader_idx' = ridx
  /\ UNCHANGED <<slots, current_idx, wvars, ridx, seen, published>>

(* Mutants: the pin is used unvalidated; the retry keeps its stale index.  *)
ValidateNever ==
  /\ ReaderGoto("validate", "active")
  /\ UNCHANGED <<slots, current_idx, reader_idx, wvars, ridx, seen, published>>

ValidateWithoutReload ==
  /\ ReaderGoto("validate", IF ridx = current_idx THEN "active" ELSE "pin")
  /\ UNCHANGED <<slots, current_idx, reader_idx, wvars, ridx, seen, published>>

(* `while (idx != current_idx.load())`: use the slot, or go round again.   *)
Validate ==
  /\ ReaderGoto("validate", IF ridx = current_idx THEN "active" ELSE "idle")
  /\ UNCHANGED <<slots, current_idx, reader_idx, wvars, ridx, seen, published>>

(* A bypassed state is left at once; an active one runs its processors and *)
(* contributes its gain.                                                   *)
ReadActive ==
  /\ ReaderGoto("active", IF slots[ridx].on THEN "length" ELSE "unpin")
  /\ seen' = {slots[ridx].active}
  /\ UNCHANGED <<slots, current_idx, reader_idx, wvars, ridx, published>>

ReadLength ==
  /\ ReaderGoto("length", "processors")
  /\ seen' = seen \cup {slots[ridx].length}
  /\ UNCHANGED <<slots, current_idx, reader_idx, wvars, ridx, published>>

RunProcessors ==
  /\ ReaderGoto("processors", "gain")
  /\ seen' = seen \cup {slots[ridx].processors}
  /\ UNCHANGED <<slots, current_idx, reader_idx, wvars, ridx, published>>

ReadGain ==
  /\ ReaderGoto("gain", "unpin")
  /\ seen' = seen \cup {slots[ridx].gain}
  /\ UNCHANGED <<slots, current_idx, reader_idx, wvars, ridx, published>>

Unpin ==
  /\ ReaderGoto("unpin", "idle")
  /\ reader_idx' = Unpinned
  /\ seen' = {}
  /\ UNCHANGED <<slots, current_idx, wvars, ridx, published>>

UseRoute == \/ PinLoad \/ PinStore \/ Validate \/ ReadActive \/ ReadLength
            \/ RunProcessors \/ ReadGain \/ Unpin

-------------------------------------------------------------------------------
SlotsNext == (\E w \in Writers : Update(w)) \/ UseRoute

(* The audio worker runs on its own real-time thread, and a writer never   *)
(* waits for it.                                                           *)
Fairness == WF_slotsVars(UseRoute) /\ \A w \in Writers : WF_slotsVars(Update(w))

SlotsSpec == SlotsInit /\ [][SlotsNext]_slotsVars /\ Fairness

-------------------------------------------------------------------------------
WriterSteps == {"idle", "loadCurrent", "loadReader", "reset", "length",
                "processors", "gain", "active", "store", "unlock"}
Filling     == {"reset", "length", "processors", "gain", "active", "store"}

Stamps == Int
Chain  == [processors : Stamps, length : Stamps, gain : Stamps, active : Stamps,
           on : BOOLEAN]

(* Types; in particular the search for a spare slot never leaves the array.*)
SlotsTypeOK ==
  /\ slots \in [Slots -> Chain]
  /\ current_idx \in Slots
  /\ reader_idx \in Slots \cup {Unpinned}
  /\ writer_lock \in Writers \cup {NoWriter}
  /\ wpc \in [Writers -> WriterSteps]
  /\ wcur \in Slots /\ widx \in Slots /\ won \in BOOLEAN
  /\ rpc \in {"idle", "pin", "validate"} \cup Using
  /\ ridx \in Slots
  /\ seen \in SUBSET Stamps
  /\ published \in Nat

(* A control thread never writes or destroys the slot that the audio       *)
(* worker is using: the plain memory of the slots has no data race and no  *)
(* processor is destroyed while it runs.                                   *)
NoSlotRace ==
  \A w \in Writers : wpc[w] \in Filling /\ rpc \in Using => widx # ridx

(* Whatever the audio worker has read for the current block comes from one *)
(* publication: never the chain of one update with the gain or the bypass  *)
(* flag of another, nor a processor that was destroyed.                    *)
OnePublicationPerBlock ==
  /\ Cardinality(seen) <= 1
  /\ Destroyed \notin seen

(* The protocol implements the indivisible publication: the audio worker's *)
(* snapshot is the state that was current when it was validated, and does  *)
(* not change until the worker is done with it, whatever writers do.       *)
ImplementsPublication == Pub!Spec

(* Every publication reaches the audio worker, or a later one does.  The   *)
(* writers publish at most MaxPublications times: one that never stopped   *)
(* could invalidate every pin.                                             *)
EventuallyHeard ==
  \A n \in 1..MaxPublications :
    (published >= n) ~> (rpc \in Using /\ slots[ridx].active >= n)
===============================================================================
