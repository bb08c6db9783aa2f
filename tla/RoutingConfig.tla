---------------------------- MODULE RoutingConfig ----------------------------
(***************************************************************************)
(* ClientManager's configuration and the HTTP handlers that change it:     *)
(* endpoint identities and their node ids, routes and their ids, the DSP   *)
(* settings cache beside the engine's slots, activated devices, known      *)
(* clients, the tone and the global DSP, and what a save and a restart     *)
(* make of them.                                                           *)
(*                                                                         *)
(* Handlers run one at a time under the control mutex.  Three steps of     *)
(* theirs are apart because readers that do not take that mutex can see    *)
(* them: a route list without the cache entry being erased, a route level  *)
(* without its DSP, an engine slot without its cache entry.  GET of a      *)
(* route's DSP takes the cache lock only.  A rejected request that changes *)
(* nothing is not a step.                                                  *)
(***************************************************************************)
EXTENDS Integers, Sequences, FiniteSets, SequencesExt

CONSTANTS Devices, Keys,  \* hardware ids; keys that clients claim
          Provisional,    \* keys of connections that have not said hello
          NodeCapacity,   \* nodes beside the tone generator (255)
          MaxRouteId,     \* largest route id, never assigned (2^32 - 1)
          DspCapacity,    \* ids below it have a DSP slot (1024)
          Chains, Empty,  \* processor chains; the one without processors
          Levels,         \* gain and enabled flag of a route; settings of
                          \* the tone and of the global DSP, 0 from the start
          Widths,         \* channel selections of a device, 0 is automatic
          FormerSettings  \* files that may be there at the first start

ASSUME ConfigAssumption ==
  /\ NodeCapacity \in Nat /\ DspCapacity \in Nat /\ MaxRouteId \in Nat \ {0}
  /\ Empty \in Chains /\ 0 \in Widths /\ 0 \in Levels
  /\ Keys \cap Provisional = {} /\ "tone" \notin Devices \cup Keys

VARIABLES
  nodes,                    \* m_id_to_endpoint: the endpoint of node n is nodes[n]
  online,                   \* endpoints with an open device or a live session
  activated, streams,       \* m_activatedDevices, m_deviceChannels
  connected, known,         \* keys of m_sessions, m_known_client_names
  routes, next_route_id,    \* m_routes, m_next_route_id
  cache, engine,            \* g_dspSettingsCache; what each engine slot plays
  tone, global,             \* ToneControls; the engine's gain and compressor
  registry,                 \* chains that ProcessorRegistry can build
  file,                     \* the settings file
  pc, job,                  \* handler under the control mutex: step, route and DSP
  cacheLock,                \* holder of g_dspCacheLock
  get                       \* the GET handler: [pc, route, dsp]

clientVars == <<nodes, online, connected, known>>
deviceVars == <<activated, streams>>
routeVars == <<routes, next_route_id>>
dspVars == <<cache, engine>>
masterVars == <<tone, global>>
handlerVars == <<pc, job, cacheLock>>
vars == <<clientVars, deviceVars, routeVars, dspVars, masterVars, handlerVars, registry, file, get>>

-------------------------------------------------------------------------------
(* Endpoints and nodes.  Node 0 is the tone generator.                     *)

Owners == Devices \cup Keys
Endpoints == Owners \X {"capture", "playback"}
Tone == <<"tone", "capture">>
Pair(owner) == <<<<owner, "capture">>, <<owner, "playback">>>>
EndpointOf(n) == IF n = 0 THEN Tone ELSE nodes[n]
NodesNow == 0..Len(nodes)

(* register_node: an endpoint keeps its node for the life of the process;  *)
(* a full table refuses.                                                   *)
Register(table, e) ==
  IF e = Tone \/ e \in ToSet(table) \/ Len(table) >= NodeCapacity THEN table ELSE Append(table, e)

(* Both of a pair, or many pairs, one after the other, whatever becomes of *)
(* each.                                                                   *)
RegisterPair(table, pair) == Register(Register(table, pair[1]), pair[2])
RegisterPairs(table, pairs) ==
  LET after[n \in 0..Len(pairs)] == IF n = 0 THEN table ELSE RegisterPair(after[n - 1], pairs[n])
  IN  after[Len(pairs)]

Registered(table, owner) == \A i \in 1..2 : Pair(owner)[i] \in ToSet(table)

(* A list without the elements that are not in a set.                      *)
Among(list, set) ==
  LET taken[n \in 0..Len(list)] ==
        IF n = 0 THEN <<>>
        ELSE IF list[n] \in set THEN Append(taken[n - 1], list[n]) ELSE taken[n - 1]
  IN  taken[Len(list)]

-------------------------------------------------------------------------------
(* DSP settings.  A cached state that could not be built is kept with a    *)
(* warning.                                                                *)

Ids == 1..MaxRouteId
Supported(id) == id < DspCapacity
NoDsp == [set |-> FALSE, active |-> FALSE, chain |-> Empty, warned |-> FALSE]
DspStates ==
  {dsp \in [set : BOOLEAN, active : BOOLEAN, chain : Chains, warned : BOOLEAN] : dsp.set \/ dsp = NoDsp}
Dsp(active, chain, warned) == [set |-> TRUE, active |-> active, chain |-> chain, warned |-> warned]
Playing(active, chain) == [active |-> active, chain |-> chain]

(* What update_route_dsp is given for a state.                             *)
Publication(dsp) == Playing(dsp.active, IF dsp.warned THEN Empty ELSE dsp.chain)

-------------------------------------------------------------------------------
(* save_settings writes names, not node ids; the warning is not kept.      *)
(*                                                                         *)
(* A file may come from elsewhere.  A route in it is "valid"; or has no    *)
(* usable id; or has a value out of range; or a value of a type that the   *)
(* JSON library refuses to convert, by an exception.  Such a type error    *)
(* may also be in the sections before the devices ("head") or among the    *)
(* clients.                                                                *)

SavedRoute(r) ==
  [form |-> "valid", id |-> r.id, source |-> EndpointOf(r.src), destination |-> EndpointOf(r.dst), level |-> r.level,
   dsp |-> [set |-> cache[r.id].set, active |-> cache[r.id].active, chain |-> cache[r.id].chain]]

Document ==
  [fault |-> "none", global |-> global, tone |-> tone,
   devices |-> activated, streams |-> streams,
   clients |-> known \cup connected,
   routes |-> [i \in DOMAIN routes |-> SavedRoute(routes[i])]]

NoSettings ==
  [fault |-> "none", global |-> 0, tone |-> 0, devices |-> <<>>, streams |-> [d \in Devices |-> 0],
   clients |-> {}, routes |-> <<>>]

Persist == file' = Document' \/ UNCHANGED file

SavedDsps ==
  {dsp \in [set : BOOLEAN, active : BOOLEAN, chain : Chains] : dsp.set \/ (~dsp.active /\ dsp.chain = Empty)}
SavedRoutes ==
  [form : {"valid", "id", "range", "type"}, id : Ids, source : Endpoints \cup {Tone}, destination : Endpoints \cup {Tone},
   level : Levels, dsp : SavedDsps]
Files ==
  [fault : {"none", "head", "clients"}, global : Levels, tone : Levels, devices : Seq(Devices), streams : [Devices -> Widths],
   clients : SUBSET (Keys \cup Provisional), routes : Seq(SavedRoutes)]

(* The endpoints that a file names, and files that this program can have   *)
(* written: their endpoints fit into the table, and ids are not repeated.  *)
EndpointsIn(settings) ==
  {e \in Endpoints : \/ \E d \in ToSet(settings.devices) : e \in ToSet(Pair(d))
                    \/ \E r \in ToSet(settings.routes) : r.form # "id" /\ e \in {r.source, r.destination}}
Writable(settings) ==
  /\ IsFiniteSet(EndpointsIn(settings)) /\ Cardinality(EndpointsIn(settings)) <= NodeCapacity
  /\ \A i, j \in DOMAIN settings.routes :
       settings.routes[i].form = "valid" /\ settings.routes[j].form = "valid" /\ i # j
         => settings.routes[i].id # settings.routes[j].id

ASSUME FormerAssumption == \A settings \in FormerSettings : settings \in Files /\ Writable(settings)

-------------------------------------------------------------------------------
(* load_settings.  Devices are registered, then the ends of every route,   *)
(* in the order of the file; a route that is not valid or finds no node is *)
(* skipped.  Its DSP is published and cached with each route, the list and *)
(* the id counter after the last one: an exception in between leaves the   *)
(* former and drops the latter, and main goes on with what there is.  A    *)
(* bad client name leaves those before it.                                 *)

(* Mutant: an invalid chain is dropped instead of kept.                    *)
RestoredDspDroppingChain(id, dsp) ==
  IF ~dsp.set THEN NoDsp
  ELSE IF Supported(id) /\ dsp.chain \in registry' THEN Dsp(dsp.active, dsp.chain, FALSE)
  ELSE Dsp(FALSE, Empty, TRUE)

RestoredDsp(id, dsp) ==
  IF ~dsp.set THEN NoDsp
  ELSE IF Supported(id) /\ dsp.chain \in registry' THEN Dsp(dsp.active, dsp.chain, FALSE)
  ELSE Dsp(FALSE, dsp.chain, TRUE)

EndsOf(saved) == [i \in DOMAIN saved |-> <<saved[i].source, saved[i].destination>>]
NodeIn(table, e) == IF e = Tone THEN 0 ELSE SelectInSeq(table, LAMBDA x : x = e)

NextId(saved) ==
  LET after == {1} \cup {IF r.id = MaxRouteId THEN MaxRouteId ELSE r.id + 1 : r \in ToSet(saved)}
  IN  CHOOSE n \in after : \A m \in after : m <= n

(* The routes that are looked at: all, or those up to a type error.        *)
Reached(saved) ==
  LET fault == SelectInSeq(saved, LAMBDA r : r.form = "type")
  IN  IF fault = 0 THEN saved ELSE SubSeq(saved, 1, fault)

LoadedTable(settings) ==
  LET devices == [i \in DOMAIN settings.devices |-> Pair(settings.devices[i])]
      named   == Among(Reached(settings.routes), {r \in ToSet(settings.routes) : r.form # "id"})
  IN  RegisterPairs(RegisterPairs(<<>>, devices), EndsOf(named))

LoadedRoutes(settings, table) ==
  Among(Reached(settings.routes),
        {r \in ToSet(settings.routes) : /\ r.form = "valid"
                                       /\ {r.source, r.destination} \subseteq ToSet(table) \cup {Tone}})

LoadDsp(kept) ==
  LET last(id) == SelectLastInSeq(kept, LAMBDA r : r.id = id /\ r.dsp.set)
  IN  /\ cache' = [id \in Ids |-> IF last(id) = 0 THEN NoDsp ELSE RestoredDsp(id, kept[last(id)].dsp)]
      /\ engine' = [id \in Ids |-> IF Supported(id) /\ cache'[id].set
                                     THEN Publication(cache'[id]) ELSE Playing(FALSE, Empty)]

LoadRoutes(kept, table) ==
  /\ routes' = [i \in DOMAIN kept |->
                  [id |-> kept[i].id, src |-> NodeIn(table, kept[i].source),
                   dst |-> NodeIn(table, kept[i].destination), level |-> kept[i].level]]
  /\ next_route_id' = NextId(kept)

(* An error before the devices: with the tone half applied at most.        *)
LoadNothing(settings) ==
  /\ \/ global' = 0 /\ tone' = 0
     \/ global' = settings.global /\ tone' \in Levels
  /\ nodes' = <<>> /\ activated' = <<>> /\ streams' = [d \in Devices |-> 0]
  /\ LoadDsp(<<>>) /\ LoadRoutes(<<>>, <<>>) /\ known' = {}

LoadSettings(settings) ==
  LET table   == LoadedTable(settings)
      kept    == LoadedRoutes(settings, table)
      aborted == \E r \in ToSet(settings.routes) : r.form = "type"
  IN  IF settings.fault = "head" THEN LoadNothing(settings)
      ELSE /\ global' = settings.global /\ tone' = settings.tone
           /\ nodes' = table
           /\ activated' = settings.devices /\ streams' = settings.streams
           /\ LoadDsp(kept)
           /\ LoadRoutes(IF aborted THEN <<>> ELSE kept, table)
           /\ \/ aborted /\ known' = {}
              \/ ~aborted /\ settings.fault = "none" /\ known' = settings.clients
              \/ ~aborted /\ settings.fault = "clients" /\ known' \in SUBSET settings.clients

NoJob == [route |-> 0, dsp |-> NoDsp]
NoGet == [pc |-> "idle", route |-> 0, dsp |-> NoDsp]

(* A new process, with the processors of its build; a device may fail to   *)
(* open again and stays in the list.                                       *)
Start(settings) ==
  /\ \E available \in SUBSET Chains : Empty \in available /\ registry' = available
  /\ LoadSettings(settings)
  /\ online' \in SUBSET UNION {ToSet(Pair(d)) : d \in ToSet(activated')}
  /\ connected' = {}
  /\ pc' = "idle" /\ job' = NoJob
  /\ cacheLock' = "none"
  /\ get' = NoGet

(* Whatever was under way is lost; the file is one that a save has left.   *)
Restart == Start(file) /\ UNCHANGED file

Init ==
  /\ nodes = <<>> /\ online = {} /\ activated = <<>> /\ streams = [d \in Devices |-> 0]
  /\ connected = {} /\ known = {}
  /\ routes = <<>> /\ next_route_id = 1
  /\ cache = [id \in Ids |-> NoDsp] /\ engine = [id \in Ids |-> Playing(FALSE, Empty)]
  /\ tone = 0 /\ global = 0 /\ registry = {Empty}
  /\ file \in {NoSettings} \cup FormerSettings
  /\ pc = "off" /\ job = NoJob /\ cacheLock = "none"
  /\ get = NoGet

-------------------------------------------------------------------------------
(* Routes.                                                                 *)

Exists(id) == \E r \in ToSet(routes) : r.id = id
WithLevel(id, level) == [routes EXCEPT ![SelectInSeq(routes, LAMBDA r : r.id = id)].level = level]

(* An endpoint that is online must face the right way; one that is not     *)
(* cannot be checked.                                                      *)
Faces(n, direction) == EndpointOf(n) \in online => EndpointOf(n)[2] = direction

Acceptable(s, d) ==
  /\ pc = "idle"
  /\ s \in NodesNow /\ d \in NodesNow \ {0}
  /\ Faces(s, "capture") /\ Faces(d, "playback")
  /\ \A r \in ToSet(routes) : r.src # s \/ r.dst # d

Added(s, d, level, id) ==
  /\ routes' = Append(routes, [id |-> id, src |-> s, dst |-> d, level |-> level])
  /\ UNCHANGED <<clientVars, deviceVars, dspVars, handlerVars, masterVars, registry, file, get>>

(* Mutant: the smallest free id is given out again.                        *)
AddRouteReusingId(s, d, level) ==
  /\ Acceptable(s, d)
  /\ \E id \in 1..MaxRouteId - 1 :
       /\ ~Exists(id) /\ \A lower \in 1..id - 1 : Exists(lower)
       /\ Added(s, d, level, id)
       /\ next_route_id' = IF id < next_route_id THEN next_route_id ELSE id + 1

AddRoute(s, d, level) ==
  /\ Acceptable(s, d)
  /\ next_route_id # MaxRouteId
  /\ next_route_id' = next_route_id + 1
  /\ Added(s, d, level, next_route_id)

UpdateRoute(id, level) ==
  /\ pc = "idle" /\ Exists(id)
  /\ routes' = WithLevel(id, level)
  /\ UNCHANGED <<clientVars, deviceVars, next_route_id, dspVars, handlerVars, masterVars, registry, file, get>>

(* The list is published first; the engine's slot is left as it is.        *)
RemoveRoute(id) ==
  /\ pc = "idle" /\ Exists(id)
  /\ routes' = Among(routes, {r \in ToSet(routes) : r.id # id})
  /\ pc' = "erase" /\ job' = [job EXCEPT !.route = id]
  /\ UNCHANGED <<clientVars, deviceVars, next_route_id, dspVars, cacheLock, masterVars, registry, file, get>>

EraseCache ==
  /\ pc = "erase" /\ cacheLock = "none"
  /\ cache' = [cache EXCEPT ![job.route] = NoDsp]
  /\ pc' = "idle" /\ job' = NoJob
  /\ UNCHANGED <<clientVars, deviceVars, routeVars, engine, cacheLock, masterVars, registry, file, get>>

-------------------------------------------------------------------------------
(* Route DSP.  Everything is parsed and built before anything is changed.  *)

PrepareRouteDsp(id, dsp) ==
  /\ pc = "idle" /\ Exists(id) /\ Supported(id)
  /\ dsp.chain \in registry
  /\ pc' = "publish" /\ job' = [route |-> id, dsp |-> dsp]
  /\ UNCHANGED <<clientVars, deviceVars, next_route_id, dspVars, cacheLock, masterVars, registry, file, get>>

PostDsp(id, dsp) == PrepareRouteDsp(id, dsp) /\ UNCHANGED routes

ApplyRoute(id, level, dsp) == PrepareRouteDsp(id, dsp) /\ routes' = WithLevel(id, level)

PublishDsp ==
  /\ pc = "publish" /\ cacheLock = "none"
  /\ cacheLock' = "post"
  /\ engine' = [engine EXCEPT ![job.route] = Publication(job.dsp)]
  /\ pc' = "store"
  /\ UNCHANGED <<clientVars, deviceVars, routeVars, cache, job, masterVars, registry, file, get>>

StoreCache ==
  /\ pc = "store"
  /\ cache' = [cache EXCEPT ![job.route] = job.dsp]
  /\ cacheLock' = "none" /\ pc' = "idle" /\ job' = NoJob
  /\ UNCHANGED <<clientVars, deviceVars, routeVars, engine, masterVars, registry, file, get>>

(* Mutant: the cache is read without its lock.                             *)
GetDspUnlocked(id) ==
  /\ pc # "off" /\ get.pc = "idle" /\ Exists(id) /\ Supported(id)
  /\ get' = [pc |-> "answer", route |-> id, dsp |-> cache[id]]
  /\ UNCHANGED <<clientVars, deviceVars, routeVars, dspVars, handlerVars, masterVars, registry, file>>

(* GET looks at the routes and at the cache under the cache lock, and      *)
(* keeps it until the answer is made.                                      *)
GetDsp(id) ==
  /\ pc # "off" /\ get.pc = "idle" /\ Exists(id) /\ Supported(id)
  /\ cacheLock = "none" /\ cacheLock' = "get"
  /\ get' = [pc |-> "answer", route |-> id, dsp |-> cache[id]]
  /\ UNCHANGED <<clientVars, deviceVars, routeVars, dspVars, pc, job, masterVars, registry, file>>

GetAnswer ==
  /\ get.pc = "answer"
  /\ get' = NoGet
  /\ cacheLock' = IF cacheLock = "get" THEN "none" ELSE cacheLock
  /\ UNCHANGED <<clientVars, deviceVars, routeVars, dspVars, pc, job, masterVars, registry, file>>

-------------------------------------------------------------------------------
(* Devices and clients.  Both nodes of an owner are registered one after   *)
(* the other; the first is kept even if the second is refused.             *)

Opened(d, w) ==
  /\ \E more \in (SUBSET ToSet(Pair(d))) : /\ online' = online \cup more
                                           /\ \E e \in ToSet(Pair(d)) : e \in online'
  /\ streams' = [streams EXCEPT ![d] = w]
  /\ activated' = IF d \in ToSet(activated) THEN activated ELSE Append(activated, d)

Selectable(d, w) == pc = "idle" /\ (ToSet(Pair(d)) \cap online # {} => w = streams[d])

(* Mutant: a full table is not noticed.                                    *)
ActivateDeviceUnchecked(d, w) ==
  /\ Selectable(d, w)
  /\ nodes' = RegisterPair(nodes, Pair(d))
  /\ Opened(d, w)
  /\ UNCHANGED <<connected, known, routeVars, dspVars, handlerVars, masterVars, registry, get>>
  /\ Persist

ActivateDevice(d, w) ==
  /\ Selectable(d, w)
  /\ nodes' = RegisterPair(nodes, Pair(d))
  /\ UNCHANGED <<connected, known, routeVars, dspVars, handlerVars, masterVars, registry, get>>
  /\ \/ Registered(nodes', d) /\ Opened(d, w) /\ Persist
     \/ UNCHANGED <<online, deviceVars, file>>

DeactivateDevice(d) ==
  /\ pc = "idle"
  /\ online' = online \ ToSet(Pair(d))
  /\ activated' = Among(activated, Devices \ {d})
  /\ UNCHANGED <<nodes, connected, known, streams, routeVars, dspVars, handlerVars, masterVars, registry, get>>
  /\ Persist

CreateSession(p) ==
  /\ pc = "idle" /\ p \notin connected
  /\ connected' = connected \cup {p}
  /\ UNCHANGED <<nodes, online, known, deviceVars, routeVars, dspVars, handlerVars, masterVars, registry, file, get>>

(* claim_identity; a refused connection is closed.                         *)
ClaimIdentity(p, k) ==
  /\ pc = "idle" /\ p \in connected /\ k \notin connected
  /\ nodes' = RegisterPair(nodes, Pair(k))
  /\ IF Registered(nodes', k)
       THEN /\ connected' = (connected \ {p}) \cup {k}
            /\ known' = known \cup {k}
            /\ online' = online \cup ToSet(Pair(k))
       ELSE connected' = connected \ {p} /\ UNCHANGED <<known, online>>
  /\ UNCHANGED <<deviceVars, routeVars, dspVars, handlerVars, masterVars, registry, file, get>>

(* remove_session does not take the control mutex.                         *)
RemoveSession(k) ==
  /\ k \in connected
  /\ connected' = connected \ {k}
  /\ online' = online \ ToSet(Pair(k))
  /\ UNCHANGED <<nodes, known, deviceVars, routeVars, dspVars, handlerVars, masterVars, registry, file, get>>

-------------------------------------------------------------------------------
(* The tone and the global DSP are applied at once and saved with the next *)
(* save of anything.                                                       *)

PostTone(level) ==
  /\ pc = "idle" /\ tone' = level
  /\ UNCHANGED <<clientVars, deviceVars, routeVars, dspVars, global, handlerVars, registry, file, get>>

PostGlobalDsp(level) ==
  /\ pc = "idle" /\ global' = level
  /\ UNCHANGED <<clientVars, deviceVars, routeVars, dspVars, tone, handlerVars, registry, file, get>>

SaveSettings ==
  /\ pc = "idle"
  /\ file' = Document
  /\ UNCHANGED <<clientVars, deviceVars, routeVars, dspVars, handlerVars, masterVars, registry, get>>

-------------------------------------------------------------------------------
Requests == {dsp \in DspStates : dsp.set /\ ~dsp.warned}

Next ==
  \/ Restart
  \/ \E s, d \in 0..NodeCapacity, level \in Levels : AddRoute(s, d, level)
  \/ \E id \in Ids, level \in Levels :
       UpdateRoute(id, level) \/ \E dsp \in Requests : ApplyRoute(id, level, dsp)
  \/ \E id \in Ids : RemoveRoute(id) \/ GetDsp(id) \/ \E dsp \in Requests : PostDsp(id, dsp)
  \/ EraseCache \/ PublishDsp \/ StoreCache \/ GetAnswer
  \/ \E d \in Devices : DeactivateDevice(d) \/ \E w \in Widths : ActivateDevice(d, w)
  \/ \E p \in Provisional : CreateSession(p) \/ \E k \in Keys : ClaimIdentity(p, k)
  \/ \E k \in Keys \cup Provisional : RemoveSession(k)
  \/ \E level \in Levels : PostTone(level) \/ PostGlobalDsp(level)
  \/ SaveSettings

Spec == Init /\ [][Next]_vars

-------------------------------------------------------------------------------
(* Types, and the limits of the node table and of the route ids.           *)
TypeOK ==
  /\ nodes \in Seq(Endpoints) /\ Len(nodes) <= NodeCapacity
  /\ online \subseteq Endpoints
  /\ activated \in Seq(Devices) /\ streams \in [Devices -> Widths]
  /\ connected \subseteq Keys \cup Provisional /\ known \subseteq Keys \cup Provisional
  /\ routes \in Seq([id : Ids, src : Nat, dst : Nat, level : Levels])
  /\ \A r \in ToSet(routes) : r.src \in NodesNow /\ r.dst \in NodesNow
  /\ next_route_id \in Ids
  /\ cache \in [Ids -> DspStates] /\ engine \in [Ids -> [active : BOOLEAN, chain : Chains]]
  /\ tone \in Levels /\ global \in Levels /\ registry \subseteq Chains /\ file \in Files
  /\ pc \in {"off", "idle", "erase", "publish", "store"}
  /\ job \in [route : Nat, dsp : DspStates]
  /\ cacheLock \in {"none", "post", "get"}
  /\ get \in [pc : {"idle", "answer"}, route : Nat, dsp : DspStates]

(* The cache tells what the engine plays: for every route in the list,     *)
(* outside a publication, the slot holds the cached settings, or nothing   *)
(* if there are none or they carry a warning.  A route never inherits the  *)
(* processors of one that was removed before.                              *)
CacheMatchesEngine ==
  cacheLock # "post" =>
    \A r \in ToSet(routes) : IF Supported(r.id) THEN engine[r.id] = Publication(cache[r.id])
                                                ELSE ~cache[r.id].active

(* What GET answers is what the engine plays when it answers.              *)
GetTellsWhatPlays ==
  get.pc = "answer" => engine[get.route] = Publication(get.dsp)

(* An owner that was accepted has both of its nodes, however full the      *)
(* table was, and no endpoint has two.                                     *)
OwnersHaveNodes ==
  /\ \A k \in connected \ Provisional : Registered(nodes, k)
  /\ \A d \in ToSet(activated) : Registered(nodes, d)
  /\ \A i, j \in DOMAIN nodes : i # j => nodes[i] # nodes[j]

(* A restart keeps the settings: what it would save is what it has loaded, *)
(* route for route, with the chains that this build cannot make; only such *)
(* a chain is switched off, and only routes that are not valid are left    *)
(* out.  A file with a type error is another matter, see below.            *)
SameRoute(now, saved) ==
  /\ [now EXCEPT !.dsp.active = FALSE] = [saved EXCEPT !.dsp.active = FALSE]
  /\ Supported(saved.id) /\ saved.dsp.chain \in registry => now.dsp.active = saved.dsp.active
SettingsKept(now, saved) ==
  LET valid == Among(saved.routes, {r \in ToSet(saved.routes) : r.form = "valid"})
  IN  /\ [now EXCEPT !.routes = <<>>] = [saved EXCEPT !.routes = <<>>]
      /\ Len(now.routes) = Len(valid)
      /\ \A i \in DOMAIN valid : SameRoute(now.routes[i], valid[i])
Convertible(saved) == saved.fault = "none" /\ \A r \in ToSet(saved.routes) : r.form # "type"
RestartKeepsSettings ==
  [][Restart /\ Convertible(file) => SettingsKept(Document, file)']_vars

(* What the documentation says of a loaded file: a saved route that is     *)
(* invalid is skipped, and the others are restored.                        *)
InvalidRouteSkipped ==
  [][Restart /\ file.fault = "none" =>
       \A r \in ToSet(file.routes) : r.form = "valid" => Exists(r.id)']_vars
===============================================================================
