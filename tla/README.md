# TLA+ development for the CM5 audio server

The program is an audio router for a Raspberry Pi: it mixes PCM between sound
cards (miniaudio), browser clients (WebSocket) and a tone generator, along routes
that are edited over HTTP while the audio runs. Its difficulty is not the mixing
but everything around it: a real-time worker that takes no lock for its DSP state
and must never free anything, HTTP handlers that promise that a change *has been
heard*, WebSocket callbacks that run on threads of the library, and devices whose
opening may block for seconds. The modules here model those parts, TLC checks them
on small instances, and TLAPS proves every safety property of the passing runs for
every value of the constants.

Paths below are relative to the repository.

## 1. Inventory

| Part | Where | State | Operations | Hard because |
|---|---|---|---|---|
| Route DSP publication | `src/dsp_engine.cpp` 101-124, 427-439 | per route three slots (processors, length, gain, active), `current_idx`, `reader_idx`, `writer_lock` | `update_route_dsp`; pin, validate, use, unpin in `process_audio` | lock-free reader, plain memory, processors destroyed on reuse |
| Revisions and adoption | `src/dsp_engine.cpp` 40-89, 351-360, 468-478 | `m_graphDirty`, `m_requestedRevision`, `m_adoptedRevision`, `m_builtRevision`, `m_running` | `mark_graph_dirty`, `request_adoption`, `wait_for_revision`, `start`, `stop`, the loop | two flags published and read in separate steps; timeouts; restart |
| Graph and block | `src/dsp_engine.cpp` 153-325, 361-478 | widths, execution order, handlers, adjacency, node and feedback buffers | `rebuild_graph`, mixing | torn reads of a session that is becoming ready; cycles; parallel, disabled, invalid routes; buffers that outlive a graph |
| Endpoint ownership | `src/dsp_engine.cpp` 91-99, 318-322 | `m_endpointOwners`, `m_retiredEndpointOwners` | rebuild, `collect_retired_endpoints` | the last owner decides which thread joins and closes |
| Client sessions | `src/web_server.cpp` 224-295, 364-426, 1395-1480 | `m_sessions`, `m_retired_sessions`, `active`, `media_ready`, `client_key`, sender thread | open, hello, close, reap, stop | callbacks on IX worker or sender threads; joins; identity conflicts |
| Nodes, routes, DSP cache | `src/web_server.cpp` 297-362, 694-809, 1218-1329 | endpoint/id maps, route list (immutable snapshot), next ids, `g_dspSettingsCache` | register, add, update, remove, apply | capacity limits, two-step registrations, cache versus engine |
| Settings file | `src/web_server.cpp` 428-687 | file, temporary file, `m_persistedRevision` | load, save | crash between steps; exception half-way through a load |
| HTTP API | `src/web_server.cpp` 848-1377 | control mutex, response | every POST and DELETE: lock, test, mutate, wait, save | one transaction across four components |
| DeviceManager | `src/device_manager.cpp` 234-475 | available and active devices, activation generation | enumerate, activate, deactivate, stop_all | opening happens outside the lock |
| HardwareDevice | `src/device_manager.cpp` 85-232, `include/miniaudio.h` (device life cycle, PulseAudio backend) | `ma_device` with its state, events and worker; stream; rings and widths | init, start, stop, data_callback | staged initialisation; a worker thread that fails by itself while the owner stops or starts it; a callback from another thread |
| PcmRingBuffer | `include/ring_buffer.h` | `ma_rb` offsets with wrap flags | init, reset, write, read | producer and consumer move at the same time |
| WebSocket and HTTP servers | `include/reliable_websocket_server.h`, `include/reliable_http_server.h` | worker count, connection set, stopping flag | accept, run, cancel, shutdown | connections that register during shutdown |
| main | `src/main.cpp` | self-pipe | signal, start, stop | order of construction and destruction |
| ProcessorRegistry, plugins, meters | `src/processor_registry.cpp`, `src/plugins/`, `src/dsp_engine.cpp` 126-151 | factories; filter state | create, process | arithmetic only |
| Browser client, ALSA tools, set-up scripts | `web_client/`, `bridge.c`, `src/alsa_*.cpp`, `scripts/`, `etc/` | | | not part of the server process |

How they interact. An HTTP thread holds `ClientManager::m_control_lock` for the whole
request: it changes routes or devices, calls `mark_graph_dirty`, requests a revision and
waits until the audio worker has adopted it; some requests then save. The worker picks
the change up at the start of a block, takes snapshots of routes, devices and sessions,
rebuilds, plays the block and only then stores the adopted revision. WebSocket threads
create and configure sessions under the control mutex but retire them under `m_lock`
alone, since IX may hold transport locks during Close. A reaper thread joins senders and
drops retired owners every 10 ms. `WebServer::stop` joins HTTP threads, the engine,
the WebSocket workers and the reaper, in this order.

What makes each part correct: a block uses one publication of a route's DSP state; a
confirmed change has been heard and stays heard; the graph is the one the configuration
asks for and a block carries exactly the routed inputs; a session is destroyed once, with
its sender joined, never by the audio worker, and nothing is left after stop; a removed
device does not come back and an explicit width is honoured; frames cross a ring once and
in order; the DSP cache tells what the engine plays, a restart restores what was saved, and the
settings file is whole at every moment; a device that was opened is usable or released after every call, and every call returns; stop reaches every connection and ends. `PROJECT.json` lists the hazards behind these, each at its line.

## 2. Modules

**RoutePublication** states what `include/dsp_engine.h` promises: "Chain, gain and bypass
state are one indivisible audio-side publication". **RouteDspSlots** is the code: every load
and store of an index and every access to a slot field is a step. A field holds the number
of the publication that wrote it, so a mixture is visible. The two indices are
sequentially consistent in the code (default memory order), which is what interleaving
assumes. One route is modelled: slots of different routes share nothing.

**Adoption** has the audio worker (`LoopTest` … `Adopt`), the HTTP threads (`Arrive` …
`Save`, one action per step of the `post` wrapper), the WebSocket threads (`HelloLock` …
`CloseErase`) and the owner (`Start` … `JoinWorker`). The configuration is a version number
for routes, devices and sessions; the graph, the last block and the file are described by
the versions they were made from. `issued[r]` records what revision `r` vouches for: the
versions published when it was taken, including the erase that `remove_session` performs
before it lets go of `m_lock`. The marks that a handler makes repeatedly for one change
(`register_node`, `claim_identity`, `update_activated_device`) are one mark here: an earlier
mark vouches for less than the last one. Deadlines are not clocks: a wait may give up at any test
at which the revision is not adopted.

**AudioGraph** is `rebuild_graph` and the data flow of `process_audio`. A sample is the set of
inputs (node, channel, block) mixed into it. Publications of routes, devices and
`media_ready` interleave with the rebuild, which reads readiness three times. Marking is
reduced to the dirty flag, since Adoption covers the revision. What a jack should hear and which
nodes are behind a cycle are defined apart from the algorithm, as the least sets closed under
"is the source of a valid route to". **MCAudioGraph** gives it endpoints and a pool of routes.

**ClientSessions** follows the ownership of each session: `m_sessions`, `m_retired_sessions`, the
reaper's batch, the engine's owners and retired owners, and the socket (held by the IX
worker and by the sender's closure), whose callback holds the session. Every action names
the thread that takes it; `DropsOn` records the thread that drops the last reference. How
IX behaves (Close on the worker that polls, or on a sender whose send fails; `close()` only
starts the handshake) is taken from how the code uses it and marked external.

**DeviceManager** splits `activate_device` into the decision, the opening of each candidate and
the install, with removals and enumerations in between. An opened device has the requested
width or, for an automatic request, one of its own.

**PcmRingBuffer** moves numbered frames through a ring with ma_rb's offsets and flags, one
frame per step while copying. It has no specification of its own: it is the part of **HardwareDevice** that the data
callback and the engine share. HardwareDevice follows one object of that class. Its owner (the device manager, which never runs two calls on one
object at a time) goes through the stages of `init` (stream, the rest of `ma_device_init` with the worker thread, width check, rings, io buffer, start), each of
which may fail, and through `stop` and the destructor. Beside it run miniaudio's worker thread, from its wait for work to the
main loop that it iterates and the stop of its own accord when an iteration fails, and the PulseAudio server, which may answer a cork or an uncork,
ask for data or stay silent. `dev` is the `ma_device`: state, events, work result, stream.
`ma_device_init` is split where its failures differ: before or in `onDeviceInit` (`OpenFails`) nothing stays connected; after it (`SetUpFails`: converter,
intermediary buffer or thread) the stream does, because the `ma_device_uninit` that should undo it returns at once in state `uninitialized`, and `init` returns without
`m_device_initialized`. `setUpFailed` is the one field that the code does not have: it keeps why such a stream is there. The three parts of miniaudio that matter
(`ma_device_init/start/stop/uninit`, `ma_worker_thread`, the PulseAudio backend) are translated from `include/miniaudio.h`, which is part of the
repository and carries a patch of its own. Only the PulseAudio backend is modelled, because the constructor of
DeviceManager enables no other; the ALSA fallback in `init` is never reached.

**RoutingConfig** is the configuration that `ClientManager` keeps and the handlers that change it: the
node table (a sequence of endpoints; the index is the node id), the route list, the DSP cache beside what
each engine slot plays, activated devices, known clients and the file. Handlers are serialised by the control
mutex, so most are one step; the ones that readers outside that mutex can catch half-way are split
(`RemoveRoute`/`EraseCache`, `ApplyRoute`/`PublishDsp`/`StoreCache`). `Restart` may happen between any two
steps: it forgets the memory and runs `load_settings` on the last file with a registry that may know other
processors. A connection is a pair of nodes (one channel each); gain and enabled flag are one level; a chain
is a value that the registry can or cannot build. The live layout of an endpoint is reduced to its direction, which is
what `add_route` can refuse beside an index. Tone and global DSP are one level each. `load_settings` is modelled by its sections: a route in a file is valid,
has no usable id, a value out of range, or a value whose type makes the JSON library throw; such a value may also be in a section
before the devices, or among the clients. What was applied before the exception stays, and the program goes on.
`Files` is the type of a file; `Writable` says of one that this program can have written it: the endpoints it names fit into the node table
and no id is repeated.
`engine` here is the publication of RouteDspSlots. **MCRoutingConfig** gives the files that an earlier run, an earlier build or someone else may have left, and the scenarios that the run explores.

**SettingsFile** is the second half of `save_settings`, one action per system call, with every failure,
kills, power loss and a second process. A file knows how much of its document is written and how much
is on stable storage; the directory entry reaches stable storage when the system likes, since the code does not flush it.
**AtomicFile** is what a reader may rely on: one whole document at any moment, possibly an earlier one
after a power loss (the repository's README says the same of the missing directory flush). RoutingConfig uses the
file as AtomicFile promises it.

**ServerLifecycle** has `main` with its boot stages and signal flag, start and its two ways to fail, the HTTP
listener and worker pool (external, as `httplib` uses them), and `ReliableHttpServer`. Descriptor numbers
come from a finite pool and are given out again, so that a `shutdown` of a stale number would hit another connection.
The WebSocket half of stop is in ClientSessions, the engine's in Adoption.

The theorems are in modules of their own, which extend the component's: **DspEngineProofs** (RouteDspSlots and AudioGraph), **AdoptionProofs**, **HardwareDeviceProofs**
(with the ring), **RoutingConfigProofs**, **ClientSessionsProofs**, **ServerLifecycleProofs**, **DeviceManagerProofs** and **SettingsFileProofs**.

## 3. Runs

| Run | Instance | Shows |
|---|---|---|
| route_dsp_slots | 2 writers, 4 publications | no slot is written while in use, one publication per block, refinement of RoutePublication, every publication or a later one is heard, for a bounded number of publications |
| adoption_sessions | 1 HTTP thread, 1 connection, 2 starts | acknowledgements are honest with closes outside the control mutex and across a restart; requests are answered, revisions adopted, stop completes |
| adoption_requests | 2 HTTP threads, 3 requests, 2 starts | a confirmed change has been heard, and the file holds an adopted revision, with concurrent requests |
| client_sessions | 2 connections, 1 key | no destructor on the audio worker, senders joined, identities unique; retired sessions are destroyed, stop leaves nothing |
| device_manager | 2 callers, 1 id, widths to 2, 1 removal | removals win, widths are honoured, nothing is replaced |
| audio_graph | every subset of 9 routes and every set of open devices, then 1 change and 1 close at any point of 2 blocks | Kahn's order and the mixing against reference definitions; endpoints are fed; torn rebuilds are repaired |
| hardware_device | capacity 3, requests of up to 4 frames, 8 frames, requested widths 0, 2 and 3 against streams of 1 or 2 channels | no buffer is used unprepared or prepared while used, nothing outlives a device whose `ma_device_init` succeeded, and an unowned stream is one whose `ma_device_init` failed after connecting it, frames cross the ring once and in order, every call returns |
| hardware_device_wake | capacity 2, 2 frames, one width | finding 1 below |
| routing | 3 route ids of which 2 have a DSP slot, 1 chain that a build may lack, 1 device and 1 client for 3 nodes, 7 files, any number of saves and restarts | cache, engine and GET agree; who is accepted has both nodes; restarts lose nothing that is valid |
| routing_foreign_file | the same | finding 2 below |
| settings_file | 2 processes, documents of 2 units, 3 saves | whole file at every moment, honest results, calls clean up, refinement of AtomicFile |
| lifecycle | 3 connections, 4 descriptors, 2 workers | cancellation reaches all and only own connections, nothing leaks, a signal ends the program |

Bounds. Four publications exceed the three slots, so every slot is reused while the others
are pinned or current. Two starts include one restart. Two HTTP threads and three requests let one
request publish while another is between adoption and save. Two connections with one key give every
order of claim, conflict, close and reuse. One id with two directions and one removal is enough
for the device manager because ids do not interact and one removal already separates
generations; two callers race. The pool of routes has chains, fans, a self loop, a two-node
cycle, parallel routes, a disabled route and routes that become invalid when an endpoint is
open; two blocks suffice for stale samples to show. Eight frames wrap a ring of three twice, so both
flags take both values on both sides; requests larger than the ring are cut, and a reset may happen in every position. A width of 3 exceeds the
channels of every stream, 0 asks for the native one, 2 is granted or refused. In `routing` a CONSTRAINT keeps TLC to three scenarios, since the
parts hardly interact and their product is too large: routes and DSP on the endpoint of a saved route whose client stays away (the last
id is the first without a slot, and then ids run out); a device and a client against three nodes, one short of two owners, with one route and no DSP;
tone and global DSP alone. Two units make a short write possible; three saves
let each process save while the other is half-way, and one more. Three connections want six descriptors and three workers: both
run out, and numbers are reused.

Liveness is stated as `[]<>` of a state predicate where the code's progress is one-way (a thread is idle again and again; what was
taken out of a list is destroyed again and again), which says the same as leads-to and keeps TLC's graphs small.

`CHECK_DEADLOCK FALSE` is set where the bounds or the end of the program let everything stop.

Fairness is weak fairness of each thread's steps when it has work: operating system threads
are scheduled, mutex holders release, and the audio worker has its own thread. Peers, users, new
requests, new connections and the decision to stop are never assumed. `StopEngine` and `JoinWorker` are
fair because the owner is already inside `stop`. A peer that vanishes is covered by the library's closing
timeout, hence a connection in the closing state is eventually noticed by its worker. In ServerLifecycle a request is
only sure to end on a socket that was shut: silent or trickling HTTP peers are allowed to last for ever.
In RouteDspSlots the audio worker's loop of pin and validation is lock-free, not wait-free: `EventuallyHeard` holds because publications are bounded, and says nothing of a
writer that publishes for ever.
In HardwareDevice the owner and the worker are fair; the server is assumed to answer a cork or an uncork that stays possible again and again (strong
fairness), never to deliver data and never to fail. `pa_mainloop_wakeup` is taken to end the poll that is running or the next one; the library
documents it for a running poll only, and were a wake-up between the test of the state and the poll lost, `CallsReturn` would need some
later event of the server.

## 4. Proofs

| Theorem | Statement | Argument |
|---|---|---|
| DspEngineProofs: SlotsTypeCorrect, SlotsRaceFree, BlockSeesOnePublication | `SlotsSpec => []SlotsTypeOK`, `[]NoSlotRace`, `[]OnePublicationPerBlock` | The inductive invariant ties the writer's slot to both indices: from the moment it is chosen it differs from `current_idx` and, if the reader is using a slot, from the reader's. The point is a pin made *after* the writer loaded `reader_idx`: it can only be validated on `current_idx`, which the writer avoids and which cannot change while the writer holds the lock. A second part says that slots that are current or in use are whole. |
| SlotsImplementPublication | the slots implement `RoutePublication!Spec` | Init maps to Init; only `StoreCurrent`, `Validate` and `Unpin` are visible steps. |
| DspEngineProofs: GraphTypeCorrect, OrderCorrect | `Spec => []TypeOK`, `[]OrderIsTopological` | While the rebuild sorts, `inDegree[n]` is the number of valid routes to `n` whose source is not yet in the order (`Sorting`); so a node is popped after its sources, and when the queue is empty a routed node that was left out waits for another that was (`Ordered`). The ancestors of an ordered node precede it, so none is its own. Conversely, of the left-out ancestors of a left-out node take one with the fewest ancestors: it waits for a left-out node with no fewer, hence the same, ancestors, which is then its own. Any finite graph. |
| DspEngineProofs: BlockCorrect, EveryEndpointServed | `Spec => []BlockHearsRoutes`, `[]EndpointsServed` | In a block, a node that is still to come holds exactly what the nodes before it sent to it (`Playing`). When its turn comes all its sources have been, so it holds what all its routes bring; `HeardUnrolls` says that this is what reaches it through routes of any length. No route of an ordered node is a feedback route, and none writes to a node that has been. A destination in `direction` is an endpoint that is still bound with that width when handlers are made (`SinksAreBound`), since a session never becomes unready again, so its handler plays. |
| DspEngineProofs: SettledCorrect | `Spec => []SettledGraphIsCurrent` | When no mark is due and the graph is not dirty, a rebuild under way has snapshots of what is published, and a finished one was made from them (`SettledInv`). A change is unmarked, or has marked, from the moment it is published; the flag is taken before the snapshots are. |
| AdoptionProofs: TypeCorrect, AdoptionIsHonest, NoOldBlockInFlight | `Spec => []TypeOK`, `[]AdoptedWasPlayed`, `[]NoStaleBlock` | The invariant follows a revision through a block: what revision `target` vouches for is in `config`, or is being erased by the holder of `m_lock`; so it is in each snapshot once taken, in the graph once committed, in the block once played. Revisions at most `built` are in the graph. `m_lock` is what carries the step of the session snapshot. |
| AdoptionProofs: ConfirmedChangesAreHeard, SavedFileIsAdopted | `Spec => []ConfirmedIsHeard`, `[]PersistedIsAdopted` | On top of the invariant above: a handler that waits or saves holds the control mutex, has published its change before it took its revision, and what that revision vouches for includes the change; an answer is confirmed only after that revision was adopted, and adopted revisions only grow in what they vouch for, also over a restart. A hello holds the control mutex while it marks. The file was written by a holder of the mutex whose revision had been adopted. |
| HardwareDeviceProofs: TypeCorrect, SidesNeverMeet, FramesInOrder | `Spec => []TypeOK`, `[]NoOverlap`, `[]InOrder` | The two offsets and flags tell how many frames are stored, a full ring from an empty one by its flags. Neither side takes on more than there was when it began, and the other side can only add to that; so the chunk being written lies in free cells and the chunk being read in stored ones. Every stored frame is where the consumer will look for it. Any capacity, any sizes of requests. |
| HardwareDeviceProofs: PreparedFirst, OnlyFailedSetUpsStay | `Spec => []PreparedWhileUsed`, `[]HeldIsOwned` | The stage of the owner tells what exists (device, worker, flag, width); without the flag and a call under way it is either nothing or a stream left by a `ma_device_init` that failed after connecting it, never a worker; until the width is settled and the rings are made neither the worker nor the graph runs, and whatever runs later finds them prepared. |
| RoutingConfigProofs: TypeCorrect, CacheTellsSlots, GetIsTrue | `Spec => []TypeOK`, `[]CacheMatchesEngine`, `[]GetTellsWhatPlays` | Slot and cache agree for every id that is in the list *or may still be given out*: a removed route leaves its slot as it is, so agreement is lost for its id, and it takes that ids are never given out twice (`RouteIdsInv`). The exception is the id between publication and store, exactly while the POST handler has the cache lock, which a GET in progress excludes. After a load they agree for every id, wherever an exception ended it. |
| RoutingConfigProofs: OwnersKeepNodes, RestartRestores | `Spec => []OwnersHaveNodes`, `RestartKeepsSettings` | The table has no endpoint twice and only grows. What a save names has a node in the table of the process that saves, so it fits into the table of the one that loads, and no registration is refused there; therefore every valid route is found, with the endpoints it had, and its DSP is the last one cached under its id because ids differ. |
| ClientSessionsProofs: TypeCorrect, AudioDestroysNone, IdentitiesDiffer, JoinedFirst | `Spec => []TypeOK`, `[]NotDestroyedByAudio`, `[]UniqueIdentity`, `[]JoinedBeforeDestroyed` | The destructor has run exactly for the sessions that nobody refers to; what the engine drops in a rebuild goes to the retired owners first. A sender that is not joined belongs to a session in a list or in a batch; the reaper and stop never share a batch. A session may be started only while it is listed, and it is listed with the provisional key of its own connection before it claims one. |
| ServerLifecycleProofs: TypeCorrect, OnlyOwnAreTracked, CancelIsComplete, NothingLeftOpen | `Spec => []TypeOK`, `[]TrackedIsOwn`, `[]CancelReachesAll`, `[]StopReleasesDescriptors` | An open descriptor is known to the connection it refers to and forgotten by it when closed; the tracked numbers are exactly the duplicates of connections being served. While main cancels, what is served unshut is still to do. A listener that has ended leaves no connection in hand. |
| DeviceManagerProofs: TypeCorrect, RemovalsPrevail, WidthsHonoured, NeverReplaced | `Spec => []TypeOK`, `[]NoResurrection`, `WidthHonoured`, `NoReplacement` | A caller that opened a direction has the requested width in hand, a caller with an explicit request has skipped none of its candidates, and in an unchanged generation nothing that was open when it began has been removed. |
| SettingsFileProofs: TypeCorrect, PathAlwaysWhole, ResultAlwaysHonest, CallsCleanUp | `Spec => []TypeOK`, `[]PathIsWhole`, `[]ResultIsHonest`, `[]CallCleansUp` | A temporary file is complete from fsync on and on stable storage from close on, so what is renamed can no longer be lost: path and directory entry always name flushed files. Documents of different calls differ, and none is installed before its rename. An open descriptor has been opened once and not closed. |
| WriterImplementsAtomicFile | the writer implements `AtomicFile!Spec` | `Rename` is Replace, `FlushDirectory` is Settle, `PowerLoss` is Lose; every other step leaves path and directory entry alone. |

Assumptions are the named `ASSUME`s on constants: free-lock markers are not threads or connections, threads of
different kinds are distinct, the tone generator is not the name of an owner, bounds are naturals. The bounds on publications, requests and removals are
arbitrary naturals, so the theorems hold for behaviours of every length. `GraphAssumption` says that route lists are finite
sets of records of numbers, as `AudioRoute` (`include/web_server.h` 86-94) has them, and that an endpoint has at least one channel: a client's are clamped to 1 and up
(`src/web_server.cpp` 1431-1432), and a device that reports none is not opened (`src/device_manager.cpp` 163-167). Without it an endpoint of width 0 would be open and never served. `FormerAssumption` says of the files that may be there at the first
start that they are `Writable`. It is needed: `load_settings` keeps a device in the list whether or not it found nodes for it, and
accepts a repeated id. For the files that the program itself writes, `DocumentKeeps` proves it.

Induction over the length of a sequence does without the library's induction theorems, which take operators. A set of naturals that is not empty has a least element (`LeastElement`); with it a set
that has 0 and with each number the next one has all (`Counting`), and a recursive function equals any function that satisfies its equation (`Recursion`). RoutingConfigProofs
uses these for the node table after many registrations and for the list without the removed routes. DspEngineProofs takes the least element
for the popped node, for widths and for the left-out ancestor with the fewest ancestors. The closures over the graph are defined as least closed sets and not by
recursion, so that a set with the two closure properties is all that a proof has to name (`AncestorsLeast`, `ReachingLeast`).

The runs do not repeat the type invariants, which are proved.

Only model-checked: liveness, where fairness and ENABLED are out of the prover's reach (`EventuallyHeard`, `RequestsAnswered`, `RevisionsAdopted`, `StopCompletes`,
`RetiredIsDestroyed`, `StopReleasesAll`, `SignalStops`, `CallsReturn`). Every invariant, action property and refinement of a passing run is a theorem. RoutePublication, AtomicFile
and the ring (PcmRingBuffer) have no theorems of their own: what is proved of them is in the modules that use them.

## 5. Findings

1. `hardware_device_wake` (`include/miniaudio.h` 42853-42858). When its data loop ends because an iteration of the main loop failed, the worker
   looks whether the state is `uninitialized` and, if not, stores `stopped` in a second step. If `ma_device_uninit` sets the terminal state in between,
   it is overwritten; the wake-up that the join depends on finds the worker in `stopped`, and
   `MA_ASSERT(ma_device_get_state(pDevice) == ma_device_state_starting)` (42804) fails. `WokenOnlyToStart` states the assertion. The comment of the repository's patch (44134)
   relies on the state being terminal at that point.
2. `routing_foreign_file` (`src/web_server.cpp` 508-572). The repository's README (746) says that invalid saved routes are skipped. This is so for a wrong id or a value out of range;
   a value of the wrong JSON type ends the load instead: no route is restored, ids start at 1 again, and the DSP of the routes before it remains published under ids
   that new routes will get. `CacheMatchesEngine` still holds, since cache and slot were set together.

Modelled as it is, but not stated as a violated property, since neither a comment nor a document of the repository speaks of this path: a `ma_device_init` that fails after
`onDeviceInit` connected the stream (`include/miniaudio.h` 43858-43861, 43887-43890, 43914-43916, 43932-43934) calls `ma_device_uninit`, which returns at once in state
`uninitialized` (44104-44106). `HardwareDevice::init` (`src/device_manager.cpp` 142-143) then returns without setting `m_device_initialized`, so neither `stop` nor the destructor releases
the stream, and the next `ma_device_init` zeroes the object that refers to it. In `hardware_device` this is the action `SetUpFails`; `HeldIsOwned` is therefore no claim that nothing leaks,
but that this is the only way it happens.

Observed on the way, and not part of a run: a settings file edited by hand may give two routes one id, and `load_settings`
accepts both; it also ignores whether `register_node` found room for an activated device, so a file edited by hand that names more endpoints than there are nodes
leaves devices listed that no route can reach.

## 6. Not modelled

Floating-point processing (gains, plugins, tone, meters) and the layout of JSON; `ProcessorRegistry`, a map filled before `main` and only read later; the meters, which
the worker computes and handlers read or reset under one mutex; read-only HTTP handlers; the hardware gain banks, which are loaded and saved back but
connected to nothing; the browser client; the stand-alone tools (`bridge.c`, a single-threaded copy loop, and the probes) and set-up scripts. Clocks appear only as
"the deadline may have passed".
Enabled cycles of routes are documented as unsupported by the program; the model includes them and the properties say
what happens to the nodes that are not on or behind one.

Of the lines under `include/`, 118,500 are two vendored libraries, `miniaudio.h` and `httplib.h`. The modules translate the parts of them that the server's correctness hangs
on (ring buffer, device life cycle, PulseAudio backend, accept loop). The rest is other backends, decoders, encoders, clients and protocol code that this
program does not call or that has no interleaving of its own, and it is left out. Of the program's own 3,300 lines of server code about half are modelled;
the other half formats answers, parses parameters or computes samples.

## 7. What could be added

Modelling is complete in the sense above, and every safety property is proved. Open are liveness, for which the provers would need
ENABLED, and the arithmetic on samples (gains, processors, tone), which needs real numbers.
