----------------------------- MODULE HardwareDevice -----------------------------
(***************************************************************************)
(* One HardwareDevice: the owner's calls of init() and stop(), miniaudio's *)
(* worker thread with the PulseAudio main loop that it iterates, and the   *)
(* ring between the data callback and the DSP engine.                      *)
(*                                                                         *)
(* The context is opened on PulseAudio alone, so init() makes one attempt; *)
(* its ALSA fallback is never reached.  Sample format and rate are client  *)
(* side and come out as requested: the width is what may differ.           *)
(***************************************************************************)
EXTENDS PcmRingBuffer

CONSTANTS MaxChannels, \* MA_MAX_CHANNELS
          Requests,    \* bound: m_requested_channels, 0 for the native width
          Widths       \* bound: widths that the backend gives a stream

ASSUME DeviceAssumption ==
  /\ MaxChannels \in Nat \ {0}
  /\ Requests \subseteq Nat /\ Widths \subseteq 1..MaxChannels

VARIABLES
  capture, requested,    \* m_info.is_capture, m_requested_channels
  opc,                   \* the owner's step
  result,                \* what init() returned last; FALSE after stop()
  initialized,           \* m_device_initialized
  width, internal,       \* m_info.channels, m_info.internal_channels
  ringWidth, ioWidth,    \* channels of the rings (0: none) and of io_buffer
  inGraph,               \* a DSP graph owns the device
  dev,                   \* the ma_device
  tpc, back              \* the worker's step; where the data callback returns

object == <<capture, requested>>
info   == <<initialized, width, internal, ringWidth, ioWidth>>
worker == <<tpc, back>>
vars   == <<object, opc, result, info, inGraph, dev, worker, ringVars>>

(* The state of the device, its auto-reset events, workResult, whether the *)
(* PulseAudio stream is connected and whether pa_mainloop_wakeup, which    *)
(* ends the running poll or the next one, is pending.  setUpFailed keeps   *)
(* that this stream's ma_device_init failed after it had connected it.     *)
ZeroDevice ==
  [state |-> "uninitialized", wakeupEvent |-> FALSE, startEvent |-> FALSE,
   stopEvent |-> FALSE, workOk |-> TRUE, stream |-> FALSE, wakeup |-> FALSE,
   setUpFailed |-> FALSE]

Init ==
  /\ capture \in BOOLEAN /\ requested \in Requests
  /\ opc = "idle" /\ result = FALSE /\ initialized = FALSE
  /\ width = requested /\ internal = 0 /\ ringWidth = 0 /\ ioWidth = 0
  /\ inGraph = FALSE
  /\ dev = ZeroDevice
  /\ tpc = "none" /\ back = "loop"
  /\ RingInit

-------------------------------------------------------------------------------
(* The owner: init(), stop() and ~HardwareDevice, serialized by the owner. *)

(* Mutant: a second init() prepares the device once more.                  *)
CallInitAnew ==
  /\ opc = "idle"
  /\ opc' = CASE initialized -> "prepare"
              [] ~initialized -> IF requested > MaxChannels THEN "idle" ELSE "open"
  /\ result' = FALSE
  /\ UNCHANGED <<object, info, inGraph, dev, worker, ringVars>>

(* init: an initialized device is at most started again, never resized.    *)
CallInit ==
  /\ opc = "idle"
  /\ result' = (initialized /\ dev.state = "started")
  /\ opc' = CASE initialized -> IF dev.state = "started" THEN "idle" ELSE "restart"
              [] ~initialized -> IF requested > MaxChannels THEN "idle" ELSE "open"
  /\ UNCHANGED <<object, info, inGraph, dev, worker, ringVars>>

(* ma_device_init zeroes the object, so that a stream it still refers to   *)
(* is out of everyone's reach.  onDeviceInit connects a stream, or it      *)
(* fails and releases what it has made of it.                              *)
OpenFails ==
  /\ opc = "open"
  /\ opc' = "idle" /\ dev' = ZeroDevice
  /\ UNCHANGED <<object, result, info, inGraph, worker, ringVars>>

ConnectStream ==
  /\ opc = "open"
  /\ opc' = "setUp" /\ dev' = [ZeroDevice EXCEPT !.stream = TRUE]
  /\ UNCHANGED <<object, result, info, inGraph, worker, ringVars>>

(* The converter, the intermediary buffer or the thread cannot be made.    *)
(* The ma_device_uninit that is to undo onDeviceInit returns at once, for  *)
(* the state is still uninitialized: the stream stays connected, and init  *)
(* returns without m_device_initialized, so that stop() does nothing.      *)
SetUpFails ==
  /\ opc = "setUp"
  /\ opc' = "idle" /\ dev' = [dev EXCEPT !.setUpFailed = TRUE]
  /\ UNCHANGED <<object, result, info, inGraph, worker, ringVars>>

(* All of it is made, the worker last.                                     *)
OpenDevice ==
  /\ opc = "setUp"
  /\ internal' \in Widths
  /\ opc' = "awaitStop" /\ tpc' = "boot"
  /\ UNCHANGED <<object, result, initialized, width, ringWidth, ioWidth, inGraph,
                 dev, back, ringVars>>

(* ma_device_init waits for the worker; init() then copies the negotiated  *)
(* width and refuses a remix.                                              *)
Negotiate ==
  /\ opc = "awaitStop" /\ dev.stopEvent
  /\ dev' = [dev EXCEPT !.stopEvent = FALSE]
  /\ initialized' = TRUE
  /\ width' = IF requested = 0 THEN internal ELSE requested
  /\ opc' = IF width' = internal THEN "prepare" ELSE "uninit"
  /\ UNCHANGED <<object, result, internal, ringWidth, ioWidth, inGraph, worker,
                 ringVars>>

(* The rings, then io_buffer; either may fail for want of memory.          *)
Prepare ==
  /\ opc = "prepare"
  /\ RingReset
  /\ \/ ringWidth' = width /\ ioWidth' = width /\ opc' = "start"
     \/ ringWidth' \in {0, width} /\ UNCHANGED ioWidth /\ opc' = "uninit"
  /\ UNCHANGED <<object, result, initialized, width, internal, inGraph, dev, worker>>

(* ma_device_start: the request to the worker ...                          *)
StartDevice ==
  /\ opc \in {"start", "restart"}
  /\ dev' = [dev EXCEPT !.state = "starting", !.wakeupEvent = TRUE]
  /\ opc' = IF opc = "start" THEN "awaitStart" ELSE "awaitRestart"
  /\ UNCHANGED <<object, result, info, inGraph, worker, ringVars>>

(* ... and its answer.  init() stops a device that it opened and that does *)
(* not start.                                                              *)
StartReturns ==
  /\ opc \in {"awaitStart", "awaitRestart"} /\ dev.startEvent
  /\ dev' = [dev EXCEPT !.startEvent = FALSE,
                        !.state = IF dev.workOk THEN @ ELSE "stopped"]
  /\ result' = dev.workOk
  /\ opc' = IF dev.workOk \/ opc = "awaitRestart" THEN "idle" ELSE "uninit"
  /\ UNCHANGED <<object, info, inGraph, worker, ringVars>>

(* Mutant: stop() takes "not started" for "nothing to release".            *)
CallStopIfStarted ==
  /\ opc = "idle" /\ ~inGraph
  /\ opc' = IF initialized /\ dev.state = "started" THEN "uninit" ELSE "idle"
  /\ initialized' = (initialized /\ dev.state = "started")
  /\ result' = FALSE
  /\ UNCHANGED <<object, width, internal, ringWidth, ioWidth, inGraph, dev, worker,
                 ringVars>>

(* stop, which the destructor calls too once no graph owns the device.     *)
CallStop ==
  /\ opc = "idle" /\ ~inGraph
  /\ opc' = IF initialized THEN "uninit" ELSE "idle"
  /\ result' = FALSE
  /\ UNCHANGED <<object, info, inGraph, dev, worker, ringVars>>

(* ma_device_uninit: the terminal state, the two wake-ups, the join.       *)
SetUninitialized ==
  /\ opc = "uninit"
  /\ dev' = [dev EXCEPT !.state = "uninitialized"]
  /\ opc' = "wake"
  /\ UNCHANGED <<object, result, info, inGraph, worker, ringVars>>

(* Mutant: uninit without the repository's fix of miniaudio.               *)
LeaveDataLoop ==
  /\ opc = "wake"
  /\ opc' = "signal"
  /\ UNCHANGED <<object, result, info, inGraph, dev, worker, ringVars>>

WakeDataLoop ==
  /\ opc = "wake"
  /\ dev' = [dev EXCEPT !.wakeup = TRUE]
  /\ opc' = "signal"
  /\ UNCHANGED <<object, result, info, inGraph, worker, ringVars>>

SignalWorker ==
  /\ opc = "signal"
  /\ dev' = [dev EXCEPT !.wakeupEvent = TRUE]
  /\ opc' = "join"
  /\ UNCHANGED <<object, result, info, inGraph, worker, ringVars>>

(* The join, onDeviceUninit and the zeroed object; stop() returns.         *)
JoinWorker ==
  /\ opc = "join" /\ tpc = "exited"
  /\ tpc' = "none" /\ dev' = ZeroDevice /\ initialized' = FALSE
  /\ result' = FALSE /\ opc' = "idle"
  /\ UNCHANGED <<object, width, internal, ringWidth, ioWidth, inGraph, back, ringVars>>

OwnerStep ==
  \/ OpenFails \/ ConnectStream \/ SetUpFails \/ OpenDevice \/ Negotiate
  \/ Prepare \/ StartDevice \/ StartReturns \/ SetUninitialized
  \/ WakeDataLoop \/ SignalWorker \/ JoinWorker

-------------------------------------------------------------------------------
(* The worker thread, ma_worker_thread.                                    *)

WorkerGoes(from, to) ==
  /\ tpc = from /\ tpc' = to
  /\ UNCHANGED <<object, opc, result, info, inGraph, back, ringVars>>

Boot ==
  /\ WorkerGoes("boot", "post")
  /\ dev' = [dev EXCEPT !.state = "stopped"]

(* Woken to end, or woken to start: the assertion aborts the process if    *)
(* the device is in any other state.                                       *)
Wake ==
  /\ dev.wakeupEvent
  /\ dev' = [dev EXCEPT !.wakeupEvent = FALSE, !.workOk = TRUE]
  /\ WorkerGoes("wait", CASE dev.state = "uninitialized" -> "exited"
                          [] dev.state = "starting" -> IF capture THEN "uncork" ELSE "fill"
                          [] OTHER -> "aborted")

(* onDeviceStart of a playback stream asks for its first frames.           *)
Fill ==
  /\ tpc = "fill"
  /\ \/ tpc' = "callback" /\ back' = "uncork"
     \/ tpc' = "uncork" /\ UNCHANGED back
  /\ UNCHANGED <<object, opc, result, info, inGraph, dev, ringVars>>

(* The uncork operation ends, ...                                          *)
StartFails ==
  /\ WorkerGoes("uncork", "wait")
  /\ dev' = [dev EXCEPT !.workOk = FALSE, !.startEvent = TRUE]

Started ==
  /\ WorkerGoes("uncork", "announce")
  /\ dev' = [dev EXCEPT !.state = "started"]

(* ... and ma_device_start may return.                                     *)
Announce ==
  /\ WorkerGoes("announce", "loop")
  /\ dev' = [dev EXCEPT !.startEvent = TRUE]

(* ma_device_data_loop__pulse.                                             *)
DataLoop ==
  /\ WorkerGoes("loop", IF dev.state = "started" THEN "poll" ELSE "cork")
  /\ UNCHANGED dev

PollWoken ==
  /\ dev.wakeup
  /\ WorkerGoes("poll", "loop")
  /\ dev' = [dev EXCEPT !.wakeup = FALSE]

PollFails ==
  /\ WorkerGoes("poll", "cork")
  /\ UNCHANGED dev

(* The server delivers or wants frames while the main loop is iterated: in *)
(* the data loop, or while an operation is awaited.  The handlers look at  *)
(* the state before they call back.                                        *)
Handler(live) ==
  /\ tpc \in {"poll", "uncork", "cork"}
  /\ LET return == IF tpc = "poll" THEN "loop" ELSE tpc
     IN  IF live THEN tpc' = "callback" /\ back' = return
                 ELSE tpc' = return /\ UNCHANGED back
  /\ UNCHANGED <<object, opc, result, info, inGraph, dev, ringVars>>

OnRead  == capture /\ Handler(dev.state = "started")
OnWrite == ~capture /\ Handler(dev.state \in {"starting", "started"})

(* onDeviceStop corks the stream; its result is not used.                  *)
Corked ==
  /\ WorkerGoes("cork", "corked")
  /\ UNCHANGED dev

(* The state is looked at, ...                                             *)
LeaveOrStop ==
  /\ WorkerGoes("corked", IF dev.state = "uninitialized" THEN "exited" ELSE "store")
  /\ UNCHANGED dev

(* ... written, ...                                                        *)
StoreStopped ==
  /\ WorkerGoes("store", "post")
  /\ dev' = [dev EXCEPT !.state = "stopped"]

(* ... and announced.                                                      *)
PostStopped ==
  /\ WorkerGoes("post", "wait")
  /\ dev' = [dev EXCEPT !.stopEvent = TRUE]

(* data_callback: captured frames into the ring, or frames to play out of  *)
(* it.                                                                     *)
CallbackSide == IF capture THEN wpc ELSE rpc

CallBack ==
  /\ tpc = "callback"
  /\ IF capture THEN BeginWrite ELSE BeginRead
  /\ tpc' = "copying"
  /\ UNCHANGED <<object, opc, result, info, inGraph, dev, back>>

CallbackCopies ==
  /\ tpc = "copying" /\ CallbackSide # "idle"
  /\ IF capture THEN Write ELSE Read
  /\ UNCHANGED <<object, opc, result, info, inGraph, dev, worker>>

CallbackReturns ==
  /\ CallbackSide = "idle"
  /\ WorkerGoes("copying", back)
  /\ UNCHANGED dev

WorkerStep ==
  \/ Boot \/ Wake \/ Fill \/ StartFails \/ Started \/ Announce \/ DataLoop
  \/ PollWoken \/ Corked \/ LeaveOrStop \/ StoreStopped \/ PostStopped
  \/ CallBack \/ CallbackCopies \/ CallbackReturns

-------------------------------------------------------------------------------
(* The engine: a graph owns the device that init() has opened, each block  *)
(* reads or writes its ring, and a later graph lets go between blocks.     *)
EngineSide == IF capture THEN rpc ELSE wpc

Publish ==
  /\ opc = "idle" /\ result /\ ~inGraph
  /\ inGraph' = TRUE
  /\ UNCHANGED <<object, opc, result, info, dev, worker, ringVars>>

ProcessBlock ==
  /\ inGraph
  /\ IF capture THEN Read ELSE Write
  /\ UNCHANGED <<object, opc, result, info, inGraph, dev, worker>>

Retire ==
  /\ inGraph /\ EngineSide = "idle"
  /\ inGraph' = FALSE
  /\ UNCHANGED <<object, opc, result, info, dev, worker, ringVars>>

(* An aborted process does nothing more.                                   *)
Aborted == tpc = "aborted" /\ UNCHANGED vars

Next ==
  \/ tpc # "aborted" /\ (CallInit \/ CallStop \/ OwnerStep \/ WorkerStep
                          \/ PollFails \/ OnRead \/ OnWrite
                          \/ Publish \/ ProcessBlock \/ Retire)
  \/ Aborted

(* Threads run.  PulseAudio answers or drops a request to connect, cork or *)
(* uncork, however many callbacks are served before; that it has data, or  *)
(* that the poll fails, is not assumed.                                    *)
Fairness ==
  /\ WF_vars(tpc # "aborted" /\ OwnerStep)
  /\ WF_vars(tpc # "aborted" /\ WorkerStep)
  /\ SF_vars(StartFails \/ Started) /\ SF_vars(Corked)

Spec == Init /\ [][Next]_vars /\ Fairness

-------------------------------------------------------------------------------
OwnerSteps == {"idle", "open", "setUp", "awaitStop", "prepare", "start", "awaitStart",
               "restart", "awaitRestart", "uninit", "wake", "signal", "join"}
WorkerSteps == {"none", "boot", "post", "wait", "fill", "uncork", "announce", "loop",
                "poll", "callback", "copying", "cork", "corked", "store", "exited",
                "aborted"}

(* Types.                                                                  *)
TypeOK ==
  /\ RingTypeOK
  /\ capture \in BOOLEAN /\ requested \in Nat
  /\ opc \in OwnerSteps /\ result \in BOOLEAN /\ initialized \in BOOLEAN
  /\ width \in Nat /\ internal \in Nat /\ ringWidth \in Nat /\ ioWidth \in Nat
  /\ inGraph \in BOOLEAN
  /\ dev \in [state : {"uninitialized", "stopped", "starting", "started"},
              wakeupEvent : BOOLEAN, startEvent : BOOLEAN, stopEvent : BOOLEAN,
              workOk : BOOLEAN, stream : BOOLEAN, wakeup : BOOLEAN,
              setUpFailed : BOOLEAN]
  /\ tpc \in WorkerSteps /\ back \in {"uncork", "loop", "cork"}

(* Whoever is in the ring, the data callback or the engine, finds it and   *)
(* io_buffer at the width of the stream, and init() is not about to        *)
(* prepare them again: start may call back before init() returns, and a    *)
(* second init() must not resize what is in use.                           *)
PreparedWhileUsed ==
  tpc \in {"callback", "copying"} \/ inGraph =>
    /\ width # 0 /\ width = internal /\ ringWidth = width /\ ioWidth = width
    /\ opc # "prepare"

(* When m_device_initialized is off, and from there until the next         *)
(* ma_device_init zeroes the object, there is no worker, whichever step of *)
(* init() failed and however the device stopped; and a stream is still     *)
(* connected exactly when the last ma_device_init failed after connecting  *)
(* it.  Of a device whose ma_device_init succeeded nothing is left.        *)
HeldIsOwned ==
  opc \in {"idle", "open"} /\ ~initialized =>
    tpc = "none" /\ dev.stream = dev.setUpFailed

(* What ma_worker_thread asserts: a worker that is woken is woken to start *)
(* the device or to end.                                                   *)
WokenOnlyToStart == tpc # "aborted"

(* Every init() and stop() returns, even when the main loop never hears    *)
(* from the server again: the join in particular.                          *)
CallsReturn == []<>(opc = "idle" \/ tpc = "aborted")

================================================================================
