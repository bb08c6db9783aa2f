----------------------------- MODULE DeviceManager -----------------------------
(***************************************************************************)
(* DeviceManager: the devices the backend lists and the devices that are   *)
(* open.  activate_device runs in three phases: it decides under m_lock    *)
(* which directions of the id to open, opens them without the lock (a      *)
(* backend may block for seconds), and installs them under the lock again. *)
(* Other activations, deactivate_device, stop_all and enumerate_devices    *)
(* may run in between; m_activation_generation detects the removals.       *)
(***************************************************************************)
EXTENDS Integers

CONSTANTS Callers,      \* threads in activate_device
          Ids,          \* stable device ids
          MaxWidth,     \* MA_MAX_CHANNELS
          MaxRemovals   \* bound: calls of deactivate_device and stop_all

ASSUME DeviceAssumption == MaxWidth \in Nat \ {0} /\ MaxRemovals \in Nat

Directions == {"playback", "capture"}
Endpoints  == Ids \X Directions
Widths     == 1..MaxWidth
Closed     == [width |-> 0, since |-> 0]   \* no entry in m_active_devices

VARIABLES
  context,     \* m_context_initialized
  available,   \* m_available_devices: the endpoints found by the last enumeration
  active,      \* m_active_devices: width, and the generation its activation began in
  generation,  \* m_activation_generation
  pc,          \* phase of each caller: "idle", or "open" outside the lock
  id, request, \* its arguments: the id, and the channels asked of each direction
  began,       \* the generation it captured
  todo, ready, \* candidates not yet tried; widths of the ones it opened
  answer,      \* what its last call returned
  removed      \* history: the generation of the last removal of each endpoint

call == <<pc, id, request, began, todo, ready, answer>>
vars == <<context, available, active, generation, call, removed>>

Init ==
  /\ context \in BOOLEAN
  /\ available = {}
  /\ active = [e \in Endpoints |-> Closed]
  /\ generation = 0
  /\ pc = [p \in Callers |-> "idle"]
  /\ id \in [Callers -> Ids]
  /\ request = [p \in Callers |-> [d \in Directions |-> 0]]
  /\ began = [p \in Callers |-> 0]
  /\ todo = [p \in Callers |-> {}]
  /\ ready = [p \in Callers |-> [d \in Directions |-> 0]]
  /\ answer = [p \in Callers |-> "none"]
  /\ removed = [e \in Endpoints |-> 0]

IsOpen(e) == active[e].width # 0

(* An explicit width that an open direction of the id does not have.       *)
ActiveMismatch(i, req) ==
  \E d \in Directions : IsOpen(<<i, d>>) /\ req[d] # 0 /\ req[d] # active[<<i, d>>].width

-------------------------------------------------------------------------------
(* The backend's current endpoints replace the list.                       *)
EnumerateDevices ==
  /\ \E found \in SUBSET Endpoints : available' = IF context THEN found ELSE {}
  /\ UNCHANGED <<context, active, generation, call, removed>>

(* Phase 1.  Candidates are the listed directions that are not open.       *)
Candidates(i) == {d \in Directions : <<i, d>> \in available /\ ~IsOpen(<<i, d>>)}

Decision(i, req) ==
  LET known == {d \in Directions : <<i, d>> \in available \/ IsOpen(<<i, d>>)} IN
  IF \E d \in Directions : req[d] > MaxWidth                 THEN "limit"
  ELSE IF ~context                                            THEN "no context"
  ELSE IF ActiveMismatch(i, req)                              THEN "mismatch"
  ELSE IF \E d \in Directions : req[d] # 0 /\ d \notin known  THEN "unavailable"
  ELSE IF Candidates(i) # {}                                  THEN "none"
  ELSE IF known # {}                                          THEN "ok" ELSE "not found"

Begin(p) ==
  /\ pc[p] = "idle"
  /\ \E i \in Ids, req \in [Directions -> 0..MaxWidth + 1] :
       /\ id' = [id EXCEPT ![p] = i]
       /\ request' = [request EXCEPT ![p] = req]
       /\ began' = [began EXCEPT ![p] = generation]
       /\ answer' = [answer EXCEPT ![p] = Decision(i, req)]
       /\ IF answer'[p] = "none"
            THEN /\ pc' = [pc EXCEPT ![p] = "open"]
                 /\ todo' = [todo EXCEPT ![p] = Candidates(i)]
            ELSE UNCHANGED <<pc, todo>>
  /\ UNCHANGED <<context, available, active, generation, ready, removed>>

(* The call returns; the devices it holds and did not install are closed.  *)
Leave(p) ==
  /\ pc' = [pc EXCEPT ![p] = "idle"]
  /\ ready' = [ready EXCEPT ![p] = [d \in Directions |-> 0]]
  /\ todo' = [todo EXCEPT ![p] = {}]

(* Phase 2: HardwareDevice::init, playback first as it is listed first.  A *)
(* device that opens has the width asked for, or its own for zero.         *)
OpenNext(p, d) ==
  /\ pc[p] = "open" /\ d \in todo[p]
  /\ d = "capture" => "playback" \notin todo[p]

Opens(p, d) ==
  /\ OpenNext(p, d)
  /\ todo' = [todo EXCEPT ![p] = @ \ {d}]
  /\ \E w \in Widths :
       /\ request[p][d] \in {0, w}
       /\ ready' = [ready EXCEPT ![p][d] = w]
  /\ UNCHANGED <<context, available, active, generation, pc, id, request, began, answer, removed>>

Explicit(p) == \E d \in Directions : request[p][d] # 0

(* Mutant: a direction that cannot be opened is always skipped.            *)
OpenFailsSkipped(p, d) ==
  /\ OpenNext(p, d)
  /\ todo' = [todo EXCEPT ![p] = @ \ {d}]
  /\ UNCHANGED <<context, available, active, generation, pc, id, request, began, ready, answer, removed>>

(* A failure ends an explicit request, whose open devices are destroyed;   *)
(* an automatic one goes on with the directions that do open.              *)
OpenFails(p, d) ==
  /\ OpenNext(p, d)
  /\ IF Explicit(p)
       THEN Leave(p) /\ answer' = [answer EXCEPT ![p] = "failed"]
       ELSE todo' = [todo EXCEPT ![p] = @ \ {d}] /\ UNCHANGED <<pc, ready, answer>>
  /\ UNCHANGED <<context, available, active, generation, id, request, began, removed>>

(* Phase 3.  A device opened meanwhile by somebody else is not replaced.   *)
Emplace(p) ==
  [e \in Endpoints |->
    IF e[1] = id[p] /\ ready[p][e[2]] # 0 /\ ~IsOpen(e)
      THEN [width |-> ready[p][e[2]], since |-> began[p]]
      ELSE active[e]]

(* Mutant: insert_or_assign.                                               *)
InstallReplacing(p) ==
  /\ pc[p] = "open" /\ todo[p] = {} /\ began[p] = generation
  /\ active' = [e \in Endpoints |-> IF e[1] = id[p] /\ ready[p][e[2]] # 0
                                      THEN [width |-> ready[p][e[2]], since |-> began[p]]
                                      ELSE active[e]]
  /\ answer' = [answer EXCEPT ![p] = "ok"]
  /\ Leave(p)
  /\ UNCHANGED <<context, available, generation, id, request, began, removed>>

(* Mutant: the generation is not compared.                                 *)
InstallUncancelled(p) ==
  /\ pc[p] = "open" /\ todo[p] = {}
  /\ active' = Emplace(p)
  /\ answer' = [answer EXCEPT ![p] = "ok"]
  /\ Leave(p)
  /\ UNCHANGED <<context, available, generation, id, request, began, removed>>

Install(p) ==
  /\ pc[p] = "open" /\ todo[p] = {}
  /\ IF began[p] # generation \/ ActiveMismatch(id[p], request[p])
       THEN /\ answer' = [answer EXCEPT ![p] = IF began[p] # generation THEN "cancelled" ELSE "mismatch"]
            /\ UNCHANGED active
       ELSE /\ active' = Emplace(p)
            /\ answer' = [answer EXCEPT ![p] =
                 IF \E d \in Directions : active'[<<id[p], d>>] # Closed THEN "ok" ELSE "failed"]
  /\ Leave(p)
  /\ UNCHANGED <<context, available, generation, id, request, began, removed>>

-------------------------------------------------------------------------------
(* deactivate_device and stop_all.                                         *)
Remove(gone) ==
  /\ generation < MaxRemovals
  /\ generation' = generation + 1
  /\ active' = [e \in Endpoints |-> IF e \in gone THEN Closed ELSE active[e]]
  /\ removed' = [e \in Endpoints |-> IF e \in gone THEN generation' ELSE removed[e]]
  /\ UNCHANGED <<context, available, call>>

DeactivateDevice(i) == Remove({i} \X Directions)

StopAll == Remove(Endpoints)

ActivateDevice(p) == \/ Begin(p) \/ Install(p)
                     \/ \E d \in Directions : Opens(p, d) \/ OpenFails(p, d)

Next == \/ \E p \in Callers : ActivateDevice(p)
        \/ \E i \in Ids : DeactivateDevice(i)
        \/ StopAll \/ EnumerateDevices

Spec == Init /\ [][Next]_vars

-------------------------------------------------------------------------------
Answers == {"none", "ok", "limit", "no context", "mismatch", "unavailable", "not found",
            "failed", "cancelled"}

(* Types; nothing is listed or open without a backend.                     *)
TypeOK ==
  /\ context \in BOOLEAN
  /\ available \in SUBSET Endpoints
  /\ active \in [Endpoints -> [width : 0..MaxWidth, since : 0..generation]]
  /\ generation \in Nat
  /\ pc \in [Callers -> {"idle", "open"}]
  /\ id \in [Callers -> Ids]
  /\ request \in [Callers -> [Directions -> 0..MaxWidth + 1]]
  /\ began \in [Callers -> 0..generation]
  /\ todo \in [Callers -> SUBSET Directions]
  /\ ready \in [Callers -> [Directions -> 0..MaxWidth]]
  /\ answer \in [Callers -> Answers]
  /\ removed \in [Endpoints -> 0..generation]
  /\ ~context => available = {} /\ \A e \in Endpoints : ~IsOpen(e)

(* "Activation cancelled by device removal or stop": a device that         *)
(* deactivate_device or stop_all removed is not brought back by an         *)
(* activation that was already under way.                                  *)
NoResurrection == \A e \in Endpoints : IsOpen(e) => active[e].since >= removed[e]

Own(p) == <<pc[p], id[p], request[p], began[p], answer[p]>>

Grants(p) == \A d \in Directions :
               request[p][d] # 0 => active[<<id[p], d>>].width = request[p][d]

(* When activate_device says yes, every direction whose width was given is *)
(* open with exactly that width, whoever opened it and whatever happened   *)
(* while the backend was busy.                                             *)
WidthHonoured == [][\A p \in Callers : Own(p)' # Own(p) /\ answer'[p] = "ok" => Grants(p)']_vars

(* An open device is never replaced or resized: it has to be removed in a  *)
(* step of its own, so the audio graph never loses it unnoticed.           *)
NoReplacement ==
  [][\A e \in Endpoints : IsOpen(e) => active'[e] \in {active[e], Closed}]_vars
================================================================================
