-------------------------- MODULE DeviceManagerProofs --------------------------
(***************************************************************************)
(* Proofs about DeviceManager, for any callers, ids, widths and number of  *)
(* removals.                                                               *)
(***************************************************************************)
EXTENDS DeviceManager, TLAPS

(* What an activation that has not been cancelled can still rely on: every *)
(* width that was asked for is to be opened, has been opened, or is the    *)
(* width of a device that was open already.                                *)
Promised ==
  \A p \in Callers : pc[p] = "open" /\ began[p] = generation =>
    \A d \in Directions : request[p][d] # 0 =>
      \/ d \in todo[p]
      \/ ready[p][d] = request[p][d]
      \/ active[<<id[p], d>>].width = request[p][d]

(* A caller without a backend gets no further than its first decision.     *)
OpenHasContext == \A p \in Callers : pc[p] = "open" => context

IInv == TypeOK /\ NoResurrection /\ Promised /\ OpenHasContext

LEMMA InitIInv == Init => IInv
BY DeviceAssumption DEF Init, IInv, TypeOK, NoResurrection, Promised, OpenHasContext, IsOpen, Answers, Closed

LEMMA BeginIInv == ASSUME IInv, NEW p \in Callers, Begin(p) PROVE IInv'
<1> USE DeviceAssumption DEF IInv, Begin
<1>1. PICK i \in Ids, req \in [Directions -> 0..MaxWidth + 1] :
        /\ id' = [id EXCEPT ![p] = i]
        /\ request' = [request EXCEPT ![p] = req]
        /\ began' = [began EXCEPT ![p] = generation]
        /\ answer' = [answer EXCEPT ![p] = Decision(i, req)]
        /\ IF answer'[p] = "none"
             THEN /\ pc' = [pc EXCEPT ![p] = "open"]
                  /\ todo' = [todo EXCEPT ![p] = Candidates(i)]
             ELSE UNCHANGED <<pc, todo>>
  OBVIOUS
<1>2. TypeOK'
  <2>1. Decision(i, req) \in Answers
    BY DEF Decision, Answers
  <2>2. Candidates(i) \in SUBSET Directions
    BY DEF Candidates
  <2>3. pc' \in [Callers -> {"idle", "open"}] /\ todo' \in [Callers -> SUBSET Directions]
    <3>1. CASE answer'[p] = "none"
      <4>1. pc' = [pc EXCEPT ![p] = "open"] /\ todo' = [todo EXCEPT ![p] = Candidates(i)]
        BY <1>1, <3>1
      <4>2. pc' \in [Callers -> {"idle", "open"}]
        BY <4>1 DEF TypeOK
      <4>3. todo' \in [Callers -> SUBSET Directions]
        BY <2>2, <4>1 DEF TypeOK
      <4> QED BY <4>2, <4>3
    <3>2. CASE answer'[p] # "none"
      BY <1>1, <3>2 DEF TypeOK
    <3> QED BY <3>1, <3>2
  <2>4. id' \in [Callers -> Ids] /\ request' \in [Callers -> [Directions -> 0..MaxWidth + 1]]
    BY <1>1 DEF TypeOK
  <2>5. began' \in [Callers -> 0..generation] /\ answer' \in [Callers -> Answers]
    BY <1>1, <2>1 DEF TypeOK
  <2> QED BY <2>3, <2>4, <2>5 DEF TypeOK, IsOpen
<1>3. NoResurrection'
  BY DEF NoResurrection, IsOpen
<1>4. Decision(i, req) = "none" =>
        context /\ \A d \in Directions : req[d] # 0 =>
                     d \in Candidates(i) \/ active[<<i, d>>].width = req[d]
  BY DEF Decision, Candidates, ActiveMismatch, IsOpen
<1>5. Promised'
  <2> SUFFICES ASSUME NEW q \in Callers, pc'[q] = "open", began'[q] = generation,
                      NEW d \in Directions, request'[q][d] # 0
               PROVE  d \in todo'[q] \/ ready[q][d] = request'[q][d]
                      \/ active[<<id'[q], d>>].width = request'[q][d]
    BY DEF Promised
  <2>1. CASE q = p
    <3>1. answer'[p] = Decision(i, req) /\ id'[p] = i /\ request'[p] = req
      BY <1>1 DEF TypeOK
    <3>2. Decision(i, req) = "none" /\ todo'[p] = Candidates(i)
      BY <1>1, <2>1, <3>1 DEF TypeOK
    <3> QED BY <1>4, <2>1, <3>1, <3>2
  <2>2. CASE q # p
    <3>1. /\ pc'[q] = pc[q] /\ began'[q] = began[q] /\ todo'[q] = todo[q]
          /\ id'[q] = id[q] /\ request'[q] = request[q]
      BY <1>1, <2>2 DEF TypeOK
    <3> QED BY <3>1 DEF Promised
  <2> QED BY <2>1, <2>2
<1>6. OpenHasContext'
  BY <1>1, <1>4 DEF OpenHasContext, TypeOK
<1> QED BY <1>2, <1>3, <1>5, <1>6

LEMMA OpensIInv == ASSUME IInv, NEW p \in Callers, NEW d \in Directions,
                          Opens(p, d) \/ OpenFails(p, d)
                   PROVE  IInv'
<1> USE DeviceAssumption DEF IInv, OpenNext
<1>1. CASE Opens(p, d)
  <2>1. PICK w \in Widths : request[p][d] \in {0, w} /\ ready' = [ready EXCEPT ![p][d] = w]
    BY <1>1 DEF Opens
  <2>2. ready'[p] = [ready[p] EXCEPT ![d] = w] /\ todo'[p] = todo[p] \ {d}
    BY <1>1, <2>1 DEF Opens, TypeOK
  <2>3. \A q \in Callers : q # p => ready'[q] = ready[q] /\ todo'[q] = todo[q]
    BY <1>1, <2>1 DEF Opens, TypeOK
  <2>4. TypeOK'
    <3>1. ready'[p] \in [Directions -> 0..MaxWidth]
      BY <2>2 DEF TypeOK, Widths
    <3>2. ready' \in [Callers -> [Directions -> 0..MaxWidth]]
      BY <2>1, <2>3, <3>1 DEF TypeOK
    <3>3. todo' \in [Callers -> SUBSET Directions]
      BY <1>1 DEF Opens, TypeOK
    <3> QED BY <1>1, <3>2, <3>3 DEF Opens, TypeOK, IsOpen
  <2>5. NoResurrection' /\ OpenHasContext'
    BY <1>1 DEF Opens, NoResurrection, OpenHasContext, IsOpen
  <2>6. Promised'
    <3> SUFFICES ASSUME NEW q \in Callers, pc[q] = "open", began[q] = generation,
                        NEW x \in Directions, request[q][x] # 0
                 PROVE  x \in todo'[q] \/ ready'[q][x] = request[q][x]
                        \/ active[<<id[q], x>>].width = request[q][x]
      BY <1>1 DEF Opens, Promised
    <3>1. CASE q = p /\ x = d
      BY <2>1, <2>2, <3>1 DEF TypeOK
    <3>2. CASE q = p /\ x # d
      <4>1. ready'[p][x] = ready[p][x] /\ (x \in todo[p] => x \in todo'[p])
        BY <2>2, <3>2 DEF TypeOK
      <4> QED BY <3>2, <4>1 DEF Promised
    <3>3. CASE q # p
      BY <2>3, <3>3 DEF Promised
    <3> QED BY <3>1, <3>2, <3>3
  <2> QED BY <2>4, <2>5, <2>6
<1>2. CASE OpenFails(p, d) /\ Explicit(p)
  <2>1. TypeOK'
    <3>1. [x \in Directions |-> 0] \in [Directions -> 0..MaxWidth]
      OBVIOUS
    <3>2. ready' \in [Callers -> [Directions -> 0..MaxWidth]]
      BY <1>2, <3>1 DEF OpenFails, Leave, TypeOK
    <3>3. todo' \in [Callers -> SUBSET Directions] /\ pc' \in [Callers -> {"idle", "open"}]
      BY <1>2 DEF OpenFails, Leave, TypeOK
    <3>4. answer' \in [Callers -> Answers]
      BY <1>2 DEF OpenFails, TypeOK, Answers
    <3> QED BY <1>2, <3>2, <3>3, <3>4 DEF OpenFails, TypeOK, IsOpen
  <2>2. NoResurrection' /\ OpenHasContext'
    BY <1>2 DEF OpenFails, Leave, NoResurrection, OpenHasContext, IsOpen, TypeOK
  <2>3. \A q \in Callers : pc'[q] = "open" =>
          pc[q] = "open" /\ ready'[q] = ready[q] /\ todo'[q] = todo[q]
    BY <1>2 DEF OpenFails, Leave, TypeOK
  <2>4. Promised'
    BY <1>2, <2>3 DEF OpenFails, Promised
  <2> QED BY <2>1, <2>2, <2>4
<1>3. CASE OpenFails(p, d) /\ ~Explicit(p)
  <2>1. TypeOK'
    <3>1. todo' \in [Callers -> SUBSET Directions]
      <4>1. todo[p] \ {d} \in SUBSET Directions
        BY DEF TypeOK
      <4>2. todo' = [todo EXCEPT ![p] = todo[p] \ {d}]
        BY <1>3 DEF OpenFails
      <4> QED BY <4>1, <4>2 DEF TypeOK
    <3> QED BY <1>3, <3>1 DEF OpenFails, TypeOK, IsOpen
  <2>2. NoResurrection' /\ OpenHasContext'
    BY <1>3 DEF OpenFails, NoResurrection, OpenHasContext, IsOpen
  <2>3. \A q \in Callers : q # p => todo'[q] = todo[q]
    BY <1>3 DEF OpenFails, TypeOK
  <2>4. \A x \in Directions : request[p][x] = 0
    BY <1>3 DEF Explicit
  <2>5. Promised'
    BY <1>3, <2>3, <2>4 DEF OpenFails, Promised
  <2> QED BY <2>1, <2>2, <2>5
<1> QED BY <1>1, <1>2, <1>3

(* Installing changes no open device.                                      *)
LEMMA EmplaceKeeps ==
  ASSUME TypeOK, NEW p \in Callers
  PROVE  /\ Emplace(p) \in [Endpoints -> [width : 0..MaxWidth, since : 0..generation]]
         /\ \A e \in Endpoints : IsOpen(e) => Emplace(p)[e] = active[e]
         /\ \A e \in Endpoints : Emplace(p)[e] = active[e] \/ Emplace(p)[e].since = began[p]
BY DEF Emplace, TypeOK, IsOpen, Endpoints

LEMMA InstallIInv == ASSUME IInv, NEW p \in Callers, Install(p) PROVE IInv'
<1> USE DeviceAssumption DEF IInv
<1>1. active' = active \/ (active' = Emplace(p) /\ began[p] = generation)
  BY DEF Install
<1>2. UNCHANGED <<context, available, generation, id, request, began, removed>> /\ context
  BY DEF Install, OpenHasContext
<1>3. TypeOK'
  <2>1. active' \in [Endpoints -> [width : 0..MaxWidth, since : 0..generation]]
    BY <1>1, EmplaceKeeps DEF TypeOK
  <2>2. ready' \in [Callers -> [Directions -> 0..MaxWidth]]
    <3>1. [x \in Directions |-> 0] \in [Directions -> 0..MaxWidth]
      OBVIOUS
    <3> QED BY <3>1 DEF Install, Leave, TypeOK
  <2>3. todo' \in [Callers -> SUBSET Directions] /\ pc' \in [Callers -> {"idle", "open"}]
    BY DEF Install, Leave, TypeOK
  <2>4. answer' \in [Callers -> Answers]
    BY DEF Install, TypeOK, Answers
  <2> QED BY <1>2, <2>1, <2>2, <2>3, <2>4 DEF TypeOK
<1>4. NoResurrection'
  <2> SUFFICES ASSUME NEW e \in Endpoints, active'[e].width # 0
               PROVE  active'[e].since >= removed[e]
    BY <1>2 DEF NoResurrection, IsOpen
  <2>1. CASE active'[e] = active[e]
    BY <2>1 DEF NoResurrection, IsOpen
  <2>2. CASE active'[e] # active[e]
    <3>1. active'[e].since = generation
      BY <1>1, <2>2, EmplaceKeeps
    <3> QED BY <3>1 DEF TypeOK
  <2> QED BY <2>1, <2>2
<1>5. Promised'
  <2>1. \A e \in Endpoints : active[e].width # 0 => active'[e] = active[e]
    BY <1>1, EmplaceKeeps DEF IsOpen
  <2>2. \A q \in Callers : pc'[q] = "open" =>
          q # p /\ pc[q] = "open" /\ todo'[q] = todo[q] /\ ready'[q] = ready[q]
    BY DEF Install, Leave, TypeOK
  <2>3. \A q \in Callers, d \in Directions : <<id[q], d>> \in Endpoints
    BY DEF TypeOK, Endpoints
  <2> QED BY <1>2, <2>1, <2>2, <2>3 DEF Promised
<1>6. OpenHasContext'
  BY <1>2 DEF Install, Leave, OpenHasContext, TypeOK
<1> QED BY <1>3, <1>4, <1>5, <1>6

LEMMA RemoveIInv == ASSUME IInv, NEW gone \in SUBSET Endpoints, Remove(gone) PROVE IInv'
<1> USE DeviceAssumption DEF IInv, Remove, call, Closed
<1>1. TypeOK'
  <2>1. active' \in [Endpoints -> [width : 0..MaxWidth, since : 0..generation']]
    BY DEF TypeOK
  <2>2. removed' \in [Endpoints -> 0..generation'] /\ generation' \in Nat
    BY DEF TypeOK
  <2>3. began' \in [Callers -> 0..generation']
    BY DEF TypeOK
  <2>4. ~context => \A e \in Endpoints : active'[e].width = 0
    BY DEF TypeOK, IsOpen
  <2> QED BY <2>1, <2>2, <2>3, <2>4 DEF TypeOK, IsOpen
<1>2. NoResurrection'
  BY DEF NoResurrection, TypeOK, IsOpen
<1>3. Promised' /\ OpenHasContext'
  BY DEF Promised, OpenHasContext, TypeOK
<1> QED BY <1>1, <1>2, <1>3

LEMMA NextIInv == IInv /\ [Next]_vars => IInv'
<1> SUFFICES ASSUME IInv, [Next]_vars PROVE IInv'
  OBVIOUS
<1>1. ASSUME NEW p \in Callers, ActivateDevice(p) PROVE IInv'
  BY <1>1, BeginIInv, OpensIInv, InstallIInv DEF ActivateDevice
<1>2. ASSUME NEW i \in Ids, DeactivateDevice(i) PROVE IInv'
  BY <1>2, RemoveIInv DEF DeactivateDevice, Endpoints
<1>3. CASE StopAll
  BY <1>3, RemoveIInv DEF StopAll
<1>4. CASE EnumerateDevices
  BY <1>4 DEF EnumerateDevices, call, IInv, TypeOK, NoResurrection, Promised, OpenHasContext, IsOpen
<1>5. CASE UNCHANGED vars
  BY <1>5 DEF vars, call, IInv, TypeOK, NoResurrection, Promised, OpenHasContext, IsOpen
<1> QED BY <1>1, <1>2, <1>3, <1>4, <1>5 DEF Next

(* Types, and nothing is open without a backend.                           *)
THEOREM TypeCorrect == Spec => []TypeOK
BY InitIInv, NextIInv, PTL DEF Spec, IInv

(* A removed device stays removed until an activation that began later.    *)
THEOREM RemovalsPrevail == Spec => []NoResurrection
BY InitIInv, NextIInv, PTL DEF Spec, IInv

(* A yes from activate_device means the widths that were asked for.        *)
THEOREM WidthsHonoured == Spec => WidthHonoured
<1>1. ASSUME IInv, [Next]_vars, NEW p \in Callers, Own(p)' # Own(p), answer'[p] = "ok"
      PROVE  Grants(p)'
  <2> USE DeviceAssumption DEF IInv
  <2>1. ASSUME Begin(p) PROVE Grants(p)'
    <3>1. PICK i \in Ids, req \in [Directions -> 0..MaxWidth + 1] :
            /\ id' = [id EXCEPT ![p] = i]
            /\ request' = [request EXCEPT ![p] = req]
            /\ answer' = [answer EXCEPT ![p] = Decision(i, req)]
      BY <2>1 DEF Begin
    <3>2. Decision(i, req) = "ok" /\ id'[p] = i /\ request'[p] = req /\ active' = active
      BY <1>1, <2>1, <3>1 DEF TypeOK, Begin
    <3>3. \A d \in Directions : req[d] # 0 => active[<<i, d>>].width = req[d]
      BY <3>2 DEF Decision, Candidates, ActiveMismatch, IsOpen
    <3> QED BY <3>2, <3>3 DEF Grants
  <2>2. ASSUME Install(p) PROVE Grants(p)'
    <3>1. /\ active' = Emplace(p) /\ began[p] = generation /\ todo[p] = {} /\ pc[p] = "open"
          /\ ~ActiveMismatch(id[p], request[p]) /\ id' = id /\ request' = request
      BY <1>1, <2>2 DEF Install, TypeOK
    <3>2. ASSUME NEW d \in Directions, request[p][d] # 0
          PROVE  Emplace(p)[<<id[p], d>>].width = request[p][d]
      <4>1. ready[p][d] = request[p][d] \/ active[<<id[p], d>>].width = request[p][d]
        BY <1>1, <3>1, <3>2 DEF Promised
      <4>2. <<id[p], d>> \in Endpoints
        BY <1>1 DEF TypeOK, Endpoints
      <4> QED BY <3>1, <3>2, <4>1, <4>2 DEF Emplace, ActiveMismatch, IsOpen
    <3> QED BY <3>1, <3>2 DEF Grants
  <2>3. ASSUME NEW d \in Directions, Opens(p, d) \/ OpenFails(p, d) PROVE FALSE
    BY <1>1, <2>3 DEF Opens, OpenFails, OpenNext, Leave, Own, TypeOK
  <2>4. ASSUME NEW q \in Callers, q # p, ActivateDevice(q) PROVE FALSE
    BY <1>1, <2>4 DEF ActivateDevice, Begin, Install, Opens, OpenFails, OpenNext, Leave, Own, TypeOK
  <2>5. ASSUME ~ \E q \in Callers : ActivateDevice(q) PROVE FALSE
    BY <1>1, <2>5 DEF Next, DeactivateDevice, StopAll, Remove, EnumerateDevices, vars, call, Own
  <2> QED BY <2>1, <2>2, <2>3, <2>4, <2>5 DEF ActivateDevice
<1>2. IInv /\ [Next]_vars =>
        [\A p \in Callers : Own(p)' # Own(p) /\ answer'[p] = "ok" => Grants(p)']_vars
  BY <1>1
<1> QED BY <1>2, InitIInv, NextIInv, PTL DEF Spec, WidthHonoured

(* An open device is only ever removed, never replaced.                    *)
THEOREM NeverReplaced == Spec => NoReplacement
<1>1. ASSUME IInv, [Next]_vars, NEW e \in Endpoints, IsOpen(e)
      PROVE  active'[e] \in {active[e], Closed}
  <2>1. ASSUME NEW p \in Callers, Install(p) PROVE active'[e] = active[e]
    BY <1>1, <2>1, EmplaceKeeps DEF Install, IInv
  <2>2. ASSUME NEW gone, Remove(gone) PROVE active'[e] \in {active[e], Closed}
    BY <2>2 DEF Remove
  <2> QED BY <1>1, <2>1, <2>2 DEF Next, ActivateDevice, Begin, Opens, OpenFails, OpenNext,
            DeactivateDevice, StopAll, EnumerateDevices, vars, call
<1>2. IInv /\ [Next]_vars =>
        [\A e \in Endpoints : IsOpen(e) => active'[e] \in {active[e], Closed}]_vars
  BY <1>1
<1> QED BY <1>2, InitIInv, NextIInv, PTL DEF Spec, NoReplacement
================================================================================
