------------------------------- MODULE Library -------------------------------
(***************************************************************************)
(* The life of the library: the global logger that getLogger creates and   *)
(* shutdown deletes (src/audio_io/logging.cpp), the factories that         *)
(* getOutputDeviceFactory finds, the devices they open, and the threads of *)
(* these devices, all of which log through the global pointer without      *)
(* looking at it.  Several threads of the client use the library at once,  *)
(* and may let its logger forward to a logger of their own.                *)
(*                                                                         *)
(* The client keeps to audio_io.hpp:13-16: it calls shutdown last, when it *)
(* has deleted its factories and devices; a reference from getLogger may   *)
(* live longer.  A device's I/O thread is reduced to its life and its log  *)
(* calls, and the scan of a factory to what it finds.                      *)
(***************************************************************************)
EXTENDS Integers, Sequences, FiniteSets

CONSTANTS
  Clients,            \* threads of the client
  Players,            \* those of them that use factories and devices
  Devices,            \* bound: devices there can be at a time
  Builds,             \* what outputDeviceFactoryCreators can be compiled to
  Endpoints,          \* what the system may have plugged in, with ALSA's IOID
  GetsLoggerFirst,    \* whether the client calls getLogger before all else
  MaxQueued           \* bound: messages counted in the logger's queue

ASSUME LibraryAssumption ==
  /\ IsFiniteSet(Clients) /\ "none" \notin Clients /\ Players \subseteq Clients
  /\ Builds \subseteq Seq({"Wasapi", "alsa"})
  /\ Endpoints \in Seq({"nullptr", "Input", "Output"})
  /\ GetsLoggerFirst \in BOOLEAN /\ MaxQueued \in Nat \ {0}

Loggers == {"audio_io", "app"}   \* the library's, and the one forwarded to
Ids     == DOMAIN Endpoints

VARIABLES
  logger,             \* the global pointer, by what it points to
  init_logger_flag,
  logger_object,      \* the life of the library's Logger
  queued, callback, cb,  \* inside it; cb is its thread's copy of callback
  references,         \* use counts of the two loggers
  holds,              \* the client threads with a reference to the first
  app,                \* whether the client has a reference to its own
  client_pc,          \* the call each client thread is in
  creators,           \* this build's outputDeviceFactoryCreators
  attempt,            \* a thread's place in the loop of getOutputDeviceFactory
  factory,            \* a thread's factory
  device, io_pc,      \* the devices, and their I/O threads
  present,            \* endpoints plugged in
  over,               \* shutdown has been called
  crashed             \* a log call went through a bad pointer

object   == <<logger_object, queued, callback, cb>>
pointer  == <<logger, init_logger_flag>>
shares   == <<references, holds, app>>
place    == <<creators, attempt>>
client   == <<client_pc, place>>
outputs  == <<factory, device, io_pc>>
world    == <<present, over>>
rest     == <<pointer, logger_object, callback, cb, shares>>  \* but for a log call
vars     == <<pointer, object, shares, client, outputs, world, crashed>>

NoFactory == [backend |-> "none", names |-> <<>>, ids |-> <<>>]
NoDevice  == [state |-> "none", owner |-> "none", backend |-> "none",
              wanted |-> 0, opened |-> 0]

\* The client has a logger of its own.
Init ==
  /\ logger = "nullptr" /\ init_logger_flag = "unset"
  /\ logger_object = "none" /\ queued = 0 /\ callback = "none" /\ cb = "none"
  /\ references = [o \in Loggers |-> IF o = "app" THEN 1 ELSE 0]
  /\ holds = {} /\ app = TRUE
  /\ client_pc = [c \in Clients |-> "idle"]
  /\ creators \in Builds /\ attempt = [c \in Clients |-> 1]
  /\ factory = [c \in Clients |-> NoFactory]
  /\ device = [d \in Devices |-> NoDevice] /\ io_pc = [d \in Devices |-> "none"]
  /\ present = Ids /\ over = FALSE /\ crashed = FALSE

-----------------------------------------------------------------------------
(* Logging, and the references to a logger.                                *)

\* logDebug, logInfo, logCritical: (*logger)->...
Log ==
  IF logger = "live"
    THEN /\ queued' = IF queued < MaxQueued THEN queued + 1 ELSE queued
         /\ UNCHANGED crashed
    ELSE crashed' = TRUE /\ UNCHANGED queued

Goto(c, where) == client_pc' = [client_pc EXCEPT ![c] = where]

\* A call of c drops a reference to the library's logger.  With the last one it
\* is destroyed by the caller, which waits for its thread.
Release(c) ==
  /\ references' = [references EXCEPT !["audio_io"] = @ - 1]
  /\ IF references["audio_io"] = 1
       THEN logger_object' = "dying" /\ Goto(c, "join")
       ELSE UNCHANGED logger_object /\ Goto(c, "idle")

\* References to the client's logger that replacing callback f by g adds.
Replaced(f, g) == (IF g = "app" THEN 1 ELSE 0) - (IF f = "app" THEN 1 ELSE 0)

Idle(c) == client_pc[c] = "idle"

\* getLogger: call_once waits while another thread is initializing.
GetLogger(c) ==
  /\ Idle(c) /\ ~over /\ c \notin holds
  /\ Goto(c, "once")
  /\ UNCHANGED <<pointer, object, shares, place, outputs, world, crashed>>

\* Mutant: a flag of the library's own, set before the work is done.
InitializeLogger_FlagFirst(c) ==
  /\ client_pc[c] = "once" /\ init_logger_flag = "unset"
  /\ init_logger_flag' = "done" /\ logger' = "empty"
  /\ Goto(c, "create")
  /\ UNCHANGED <<object, shares, place, outputs, world, crashed>>

\* initializeLogger: the pointer to an empty shared_ptr first ...
InitializeLogger(c) ==
  /\ client_pc[c] = "once" /\ init_logger_flag = "unset"
  /\ init_logger_flag' = "running" /\ logger' = "empty"
  /\ Goto(c, "create")
  /\ UNCHANGED <<object, shares, place, outputs, world, crashed>>

\* ... and then the logger, unless its thread cannot be started: call_once lets
\* the next caller try again.
CreateLogger(c) ==
  /\ client_pc[c] = "create"
  /\ \/ /\ logger' = "live" /\ init_logger_flag' = "done"
        /\ logger_object' = "alive"
        /\ references' = [references EXCEPT !["audio_io"] = 1]
        /\ Goto(c, "once")
     \/ /\ init_logger_flag' = "unset"
        /\ Goto(c, "idle")
        /\ UNCHANGED <<logger, logger_object, references>>
  /\ UNCHANGED <<queued, callback, cb, holds, app, place, outputs, world,
                 crashed>>

GotLogger(c) ==
  /\ client_pc[c] = "once" /\ init_logger_flag = "done"
  /\ IF logger = "live"
       THEN /\ holds' = holds \cup {c}
            /\ references' = [references EXCEPT !["audio_io"] = @ + 1]
            /\ UNCHANGED crashed
       ELSE crashed' = TRUE /\ UNCHANGED <<references, holds>>
  /\ Goto(c, "idle")
  /\ UNCHANGED <<pointer, object, app, place, outputs, world>>

\* A client thread is done with the library's logger ...
DropLogger(c) ==
  /\ Idle(c) /\ c \in holds
  /\ holds' = holds \ {c}
  /\ Release(c)
  /\ UNCHANGED <<pointer, queued, callback, cb, app, place, outputs, world,
                 crashed>>

\* ... and the client with its own.
DropApp ==
  /\ app
  /\ app' = FALSE
  /\ references' = [references EXCEPT !["app"] = @ - 1]
  /\ UNCHANGED <<pointer, object, holds, client, outputs, world, crashed>>

\* setAsForwarder(the client's logger), or setLoggingCallback(nullptr).
SetCallback(c, f) ==
  /\ Idle(c) /\ c \in holds
  /\ f = "app" => app
  /\ callback' = f
  /\ references' = [references EXCEPT !["app"] = @ + Replaced(callback, f)]
  /\ UNCHANGED <<pointer, logger_object, queued, cb, holds, app, client,
                 outputs, world, crashed>>

-----------------------------------------------------------------------------
(* The logging thread of the library's logger.                             *)

\* Mutant: the callback is called through a pointer, and not copied.
Copied_Not(f) == 0

Copied(f) == IF f = "app" THEN 1 ELSE 0

\* Mutant: the thread stops when the destructor runs, messages or not.
TakeMessage_Alive ==
  /\ logger_object = "alive" /\ queued > 0 /\ cb = "none"
  /\ queued' = queued - 1
  /\ cb' = callback
  /\ references' = [references EXCEPT !["app"] = @ + Copied(callback)]
  /\ UNCHANGED <<pointer, logger_object, callback, holds, app, client,
                 outputs, world, crashed>>

TakeMessage ==
  /\ logger_object \in {"alive", "dying"} /\ queued > 0 /\ cb = "none"
  /\ queued' = queued - 1
  /\ cb' = callback
  /\ references' = [references EXCEPT !["app"] = @ + Copied(callback)]
  /\ UNCHANGED <<pointer, logger_object, callback, holds, app, client,
                 outputs, world, crashed>>

\* The call to->submitMessage, and the end of the iteration, which destroys cb.
CallbackReturns ==
  /\ cb = "app"
  /\ cb' = "none"
  /\ references' = [references EXCEPT !["app"] = @ - Copied(cb)]
  /\ crashed' = (crashed \/ references["app"] = 0)
  /\ UNCHANGED <<pointer, logger_object, queued, callback, holds, app, client,
                 outputs, world>>

LoggingThread == TakeMessage \/ CallbackReturns

\* ~Logger has waited for the thread, and the members are destroyed.
LoggerDestroyed(c) ==
  /\ client_pc[c] = "join" /\ queued = 0 /\ cb = "none"
  /\ logger_object' = "dead" /\ callback' = "none"
  /\ references' = [references EXCEPT !["app"] = @ + Replaced(callback, "none")]
  /\ Goto(c, "idle")
  /\ UNCHANGED <<pointer, queued, cb, holds, app, place, outputs, world,
                 crashed>>

-----------------------------------------------------------------------------
(* Factories.                                                              *)

MayUse == ~over /\ (GetsLoggerFirst => init_logger_flag = "done")

\* Endpoints that ALSA has a hint for and rescan keeps (line 54).
AlsaKeeps == {id \in present : Endpoints[id] # "Output"}

\* Active endpoints that WASAPI can render to.
WasapiKeeps == {id \in present : Endpoints[id] # "Input"}

\* What is kept, in the order of the system's list.
Listings(kept) ==
  {s \in [1 .. Cardinality(kept) -> kept] : \A i, j \in DOMAIN s : i < j => s[i] < s[j]}

\* createAlsaOutputDeviceFactory: if the hints cannot be read, no devices are
\* advertised.  The name of a device is what it is opened by.
AlsaFactories ==
  {[backend |-> "alsa", names |-> found, ids |-> found] :
     found \in {<<>>} \cup Listings(AlsaKeeps)}

\* Mutant: rescan goes on to the next endpoint, and ids_to_id_strings is filled
\* by position in the collection all the same.
WasapiScan_Continues(collection, unreadable) ==
  [backend |-> "Wasapi", ids |-> collection,
   names |-> SelectSeq(collection, LAMBDA id : id \notin unreadable)]

\* The constructor and its rescan: an endpoint that does not tell its
\* properties is an exception.
WasapiScan(collection, unreadable) ==
  IF \E i \in DOMAIN collection : collection[i] \in unreadable
    THEN NoFactory
    ELSE [backend |-> "Wasapi", names |-> collection, ids |-> collection]

\* createWasapiOutputDeviceFactory: an error while probing the default device,
\* or an exception, makes it nullptr.
WasapiFactories ==
  {NoFactory} \cup {WasapiScan(collection, unreadable) :
                     collection \in Listings(WasapiKeeps), unreadable \in SUBSET Ids}

GetOutputDeviceFactory(c) ==
  /\ c \in Players /\ Idle(c) /\ MayUse /\ factory[c] = NoFactory
  /\ Goto(c, "attempt")
  /\ UNCHANGED <<pointer, object, shares, place, outputs, world, crashed>>

\* One round of the loop.
Attempt(c) ==
  /\ client_pc[c] = "attempt" /\ attempt[c] <= Len(creators)
  /\ Log
  /\ \E f \in IF creators[attempt[c]] = "alsa" THEN AlsaFactories
                                             ELSE WasapiFactories :
       /\ factory' = [factory EXCEPT ![c] = f]
       /\ IF f = NoFactory
            THEN attempt' = [attempt EXCEPT ![c] = @ + 1] /\ UNCHANGED client_pc
            ELSE attempt' = [attempt EXCEPT ![c] = 1] /\ Goto(c, "idle")
  /\ UNCHANGED <<rest, creators, device, io_pc, world>>

\* logCritical, and NoBackendError is thrown.
NoBackend(c) ==
  /\ client_pc[c] = "attempt" /\ attempt[c] > Len(creators)
  /\ Log
  /\ attempt' = [attempt EXCEPT ![c] = 1]
  /\ Goto(c, "idle")
  /\ UNCHANGED <<rest, creators, outputs, world>>

\* ~OutputDeviceFactoryImplementation: nothing was ever put in created_devices.
DestroyFactory(c) ==
  /\ Idle(c) /\ factory[c] # NoFactory
  /\ Log
  /\ factory' = [factory EXCEPT ![c] = NoFactory]
  /\ UNCHANGED <<rest, client, device, io_pc, world>>

-----------------------------------------------------------------------------
(* Devices.                                                                *)

\* Mutant: the device is looked up in a list that is as old as the call.
Named_Now(c, index) ==
  LET now == {s \in Listings(WasapiKeeps) : index + 1 \in DOMAIN s}
  IN  IF index = -1 THEN Ids ELSE {s[index + 1] : s \in now}

\* What createDevice(index) asks the system for; -1 is the default device.
Named(c, index) ==
  IF index = -1 THEN Ids ELSE {factory[c].ids[index + 1]}

\* What the client takes it for, who knows the positions in getOutputNames.
Wanted(c, index) == IF index = -1 THEN 0 ELSE factory[c].names[index + 1]

CreateDevice(c, d) ==
  /\ Idle(c) /\ factory[c] # NoFactory /\ device[d] = NoDevice
  /\ \E index \in -1 .. Len(factory[c].names) - 1 : \E id \in Named(c, index) :
       device' = [device EXCEPT ![d] =
         [state |-> "opening", owner |-> c, backend |-> factory[c].backend,
          wanted |-> Wanted(c, index), opened |-> id]]
  /\ Goto(c, "open")
  /\ UNCHANGED <<pointer, object, shares, place, factory, io_pc, world,
                 crashed>>

Opening(c, d, backend) ==
  /\ client_pc[c] = "open" /\ device[d].owner = c
  /\ device[d].state = "opening" /\ device[d].backend = backend

\* An exception from the constructor, and no device.
OpenFails(c, d) ==
  /\ device' = [device EXCEPT ![d] = NoDevice]
  /\ Goto(c, "idle")
  /\ UNCHANGED <<rest, place, factory, io_pc, world>>

\* The endpoint could be opened, and in the end the I/O thread is started.
OpenSucceeds(c, d) ==
  /\ device[d].opened \in present
  /\ device' = [device EXCEPT ![d].state = "playing"]
  /\ io_pc' = [io_pc EXCEPT ![d] = "await"]
  /\ Goto(c, "idle")
  /\ UNCHANGED <<rest, place, factory, world>>

\* The constructor of a WASAPI device logs whatever happens; any of its calls
\* may fail.
OpenWasapi(c, d) ==
  /\ Opening(c, d, "Wasapi")
  /\ Log
  /\ OpenFails(c, d) \/ OpenSucceeds(c, d)

\* That of an ALSA device logs when it has set the period size.
OpenAlsa(c, d) ==
  /\ Opening(c, d, "alsa")
  /\ \/ OpenFails(c, d) /\ UNCHANGED <<queued, crashed>>
     \/ Log /\ (OpenFails(c, d) \/ OpenSucceeds(c, d))

\* stop(), on its own or in the destructor.
StopDevice(c, d) ==
  /\ Idle(c) /\ device[d].owner = c /\ device[d].state = "playing"
  /\ IF device[d].backend = "Wasapi" THEN Log ELSE UNCHANGED <<queued, crashed>>
  /\ device' = [device EXCEPT ![d].state = "stopping"]
  /\ Goto(c, "stop")
  /\ UNCHANGED <<rest, place, factory, io_pc, world>>

\* Mutant: stop does not wait for the I/O thread.
StopJoin_NoWait(c, d) ==
  /\ client_pc[c] = "stop" /\ device[d].owner = c /\ device[d].state = "stopping"
  /\ device' = [device EXCEPT ![d].state = "stopped"]
  /\ Goto(c, "idle")
  /\ UNCHANGED <<pointer, object, shares, place, factory, io_pc, world,
                 crashed>>

StopJoin(c, d) ==
  /\ client_pc[c] = "stop" /\ device[d].owner = c /\ device[d].state = "stopping"
  /\ io_pc[d] = "exited"
  /\ device' = [device EXCEPT ![d].state = "stopped"]
  /\ Goto(c, "idle")
  /\ UNCHANGED <<pointer, object, shares, place, factory, io_pc, world,
                 crashed>>

\* What the destructor does when stop() has returned.
DestroyDevice(c, d) ==
  /\ Idle(c) /\ device[d].owner = c /\ device[d].state = "stopped"
  /\ device' = [device EXCEPT ![d] = NoDevice]
  /\ io_pc' = [io_pc EXCEPT ![d] = IF @ = "exited" THEN "none" ELSE @]
  /\ UNCHANGED <<pointer, object, shares, client, factory, world, crashed>>

-----------------------------------------------------------------------------
(* A device's I/O thread, as far as it logs.                               *)

IoLog(d, where) ==
  /\ Log
  /\ io_pc' = [io_pc EXCEPT ![d] = where]
  /\ UNCHANGED <<rest, client, factory, device, world>>

\* awaitInitialMix.
IoAwait(d) == io_pc[d] = "await" /\ IoLog(d, "play")

\* CoInitializeEx has failed, or an ALSA device cannot be recovered.
IoFail(d) ==
  /\ io_pc[d] = "play"
  /\ device[d].backend = "Wasapi" \/ device[d].opened \notin present
  /\ IoLog(d, "exited")

\* The flag was cleared; an ALSA device goes without a word.
IoExit(d) ==
  /\ io_pc[d] = "play" /\ device[d].state = "stopping"
  /\ IF device[d].backend = "Wasapi"
       THEN IoLog(d, "exited")
       ELSE /\ io_pc' = [io_pc EXCEPT ![d] = "exited"]
            /\ UNCHANGED <<pointer, object, shares, client, factory, device,
                           world, crashed>>

Io(d) == IoAwait(d) \/ IoExit(d)

-----------------------------------------------------------------------------

\* Mutant: the pointer is reset, and what it points to is not deleted.
Shutdown_Leaks(c) ==
  /\ ~over /\ \A other \in Clients : Idle(other) /\ factory[other] = NoFactory
  /\ \A d \in Devices : device[d] = NoDevice
  /\ over' = TRUE
  /\ logger' = "nullptr"
  /\ UNCHANGED <<init_logger_flag, object, shares, client, outputs, present,
                 crashed>>

\* shutdown: "if(logger) delete logger".
Shutdown(c) ==
  /\ ~over /\ \A other \in Clients : Idle(other) /\ factory[other] = NoFactory
  /\ \A d \in Devices : device[d] = NoDevice
  /\ over' = TRUE
  /\ logger' = IF logger = "nullptr" THEN "nullptr" ELSE "dangling"
  /\ IF logger = "live" THEN Release(c)
                        ELSE UNCHANGED <<logger_object, references, client_pc>>
  /\ UNCHANGED <<init_logger_flag, queued, callback, cb, holds, app, place,
                 outputs, present, crashed>>

\* Endpoints come and go.
Plug(id) ==
  /\ present' = IF id \in present THEN present \ {id} ELSE present \cup {id}
  /\ UNCHANGED <<pointer, object, shares, client, outputs, over, crashed>>

\* The calls a client thread has begun.
ClientStep(c) ==
  \/ InitializeLogger(c) \/ CreateLogger(c) \/ GotLogger(c) \/ LoggerDestroyed(c)
  \/ Attempt(c) \/ NoBackend(c)
  \/ \E d \in Devices : OpenWasapi(c, d) \/ OpenAlsa(c, d) \/ StopJoin(c, d)

Client(c) ==
  \/ ClientStep(c)
  \/ GetLogger(c) \/ DropLogger(c) \/ Shutdown(c)
  \/ GetOutputDeviceFactory(c) \/ DestroyFactory(c)
  \/ \E f \in {"none", "app"} : SetCallback(c, f)
  \/ \E d \in Devices :
       CreateDevice(c, d) \/ StopDevice(c, d) \/ DestroyDevice(c, d)

Next ==
  \/ \E c \in Clients : Client(c)
  \/ \E d \in Devices : Io(d) \/ IoFail(d)
  \/ LoggingThread \/ DropApp
  \/ \E id \in Ids : Plug(id)

\* Every thread runs; no client owes a call, and no endpoint comes back.
Spec     == Init /\ [][Next]_vars
FairSpec ==
  /\ Spec
  /\ \A c \in Clients : WF_vars(ClientStep(c))
  /\ \A d \in Devices : WF_vars(Io(d))
  /\ WF_vars(LoggingThread)

-----------------------------------------------------------------------------
(* Properties.                                                             *)

\* Every variable keeps its type.
TypeOK ==
  /\ logger \in {"nullptr", "empty", "live", "dangling"}
  /\ init_logger_flag \in {"unset", "running", "done"}
  /\ logger_object \in {"none", "alive", "dying", "dead"}
  /\ queued \in 0 .. MaxQueued /\ {callback, cb} \subseteq {"none", "app"}
  /\ references \in [Loggers -> Nat] /\ holds \subseteq Clients /\ app \in BOOLEAN
  /\ client_pc \in [Clients ->
       {"idle", "once", "create", "join", "attempt", "open", "stop"}]
  /\ creators \in Builds /\ attempt \in [Clients -> 1 .. Len(creators) + 1]
  /\ factory \in [Clients ->
       [backend : {"none", "Wasapi", "alsa"}, names : Seq(Ids), ids : Seq(Ids)]]
  /\ device \in [Devices ->
       [state : {"none", "opening", "playing", "stopping", "stopped"},
        owner : Clients \cup {"none"}, backend : {"none", "Wasapi", "alsa"},
        wanted : Ids \cup {0}, opened : Ids \cup {0}]]
  /\ io_pc \in [Devices -> {"none", "await", "play", "exited"}]
  /\ present \subseteq Ids /\ over \in BOOLEAN /\ crashed \in BOOLEAN

\* The shared_ptrs to a logger that exist.
Holders(o) ==
  IF o = "audio_io"
    THEN Cardinality(holds) + (IF logger = "live" THEN 1 ELSE 0)
    ELSE (IF app THEN 1 ELSE 0) + Replaced("none", callback) + Replaced("none", cb)

\* No log call, from a client thread, a factory, a device or its I/O thread,
\* goes through a global pointer that is not (or no longer) the logger, and the
\* logging thread calls no forwarder that is gone: the references to each logger
\* are exactly the shared_ptrs that exist, and an I/O thread never outlives its
\* device (logging.hpp:16, logger_singleton.cpp:85).
NoDanglingUse ==
  /\ TypeOK
  /\ ~crashed
  /\ \A o \in Loggers : references[o] = Holders(o)
  /\ \A d \in Devices :
       io_pc[d] \in {"await", "play"} => device[d].state \in {"playing", "stopping"}

\* When shutdown has returned and the client has let go of its references, the
\* library's logger and its thread are gone, it holds no reference to the
\* client's logger, and no I/O thread runs (audio_io.hpp:13-16).
QuietAfterShutdown ==
  over /\ holds = {} /\ (\A c \in Clients : Idle(c)) =>
    /\ logger_object \in {"none", "dead"} /\ callback = "none" /\ cb = "none"
    /\ \A d \in Devices : io_pc[d] \in {"none", "exited"}

\* createDevice opens the endpoint whose name getOutputNames gives for that
\* index, however the scan went and whatever was plugged in or out since
\* (wasapi/output_factory.cpp:42, alsa/output_factory.cpp:33).
OpensWhatItNamed ==
  \A d \in Devices : device[d].wanted # 0 => device[d].opened = device[d].wanted

\* Every call of the library returns, with its result or with an exception: a
\* stop even if its I/O thread has failed, and the last release of the logger
\* once its thread has emptied the queue.  Only a getLogger that waits for its
\* turn to initialize may be overtaken by others for ever.
CallsReturn ==
  \A c \in Clients :
    ~Idle(c) /\ (client_pc[c] = "once" => init_logger_flag = "done") ~> Idle(c)

=============================================================================
