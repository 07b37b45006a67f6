--------------------------- MODULE LibraryProofs ---------------------------
(***************************************************************************)
(* Proofs about Library, for any finite set of client threads, any devices *)
(* and endpoints, and every build of the library, and about the            *)
(* SingleThreadedApartment in which its WASAPI factory makes its calls,    *)
(* for any set of callers.                                                 *)
(***************************************************************************)
EXTENDS Library, SingleThreadedApartment, FiniteSetTheorems, SequenceTheorems, TLAPS

(***************************************************************************)
(* One thread at most runs initializeLogger (logging.cpp:13-22), and the   *)
(* pointer is good from then until shutdown.  A thread in getLogger has no *)
(* reference yet.                                                          *)
(***************************************************************************)
Initialization ==
  /\ logger = "live" <=> init_logger_flag = "done" /\ ~over
  /\ logger_object = "none" <=> init_logger_flag # "done"
  /\ \A c \in Clients : client_pc[c] = "create" => init_logger_flag = "running"
  /\ \A c, e \in Clients : client_pc[c] = "create" /\ client_pc[e] = "create" => c = e
  /\ \A c \in Clients : client_pc[c] \in {"once", "create"} => c \notin holds
  /\ over => \A c \in Clients : client_pc[c] \in {"idle", "join"}

(***************************************************************************)
(* The library's logger is alive while there is a shared_ptr to it, and    *)
(* the one thread that dropped the last of them waits for its destructor.  *)
(***************************************************************************)
Destruction ==
  /\ logger_object = "alive" <=> logger = "live" \/ holds # {}
  /\ logger_object = "dying" <=> \E c \in Clients : client_pc[c] = "join"
  /\ \A c, e \in Clients : client_pc[c] = "join" /\ client_pc[e] = "join" => c = e
  /\ logger_object \in {"none", "dead"} => queued = 0 /\ callback = "none" /\ cb = "none"

(***************************************************************************)
(* Whoever has a factory or a device, or asks for one, may.                *)
(***************************************************************************)
UsersMay ==
  /\ \A c \in Clients : client_pc[c] = "attempt" \/ factory[c] # NoFactory => MayUse
  /\ \A d \in Devices : device[d].state # "none" => MayUse

References == \A o \in Loggers : references[o] = Holders(o)

(***************************************************************************)
(* A device's I/O thread lives within the device.                          *)
(***************************************************************************)
IoWithinDevice ==
  \A d \in Devices :
    io_pc[d] \in {"await", "play"} => device[d].state \in {"playing", "stopping"}

\* The client looks up an index in the list that createDevice looks it up in.
NamesAreIds == \A c \in Clients : factory[c].names = factory[c].ids

NeverCrashed == GetsLoggerFirst => ~crashed

IInv ==
  /\ TypeOK /\ Initialization /\ Destruction /\ UsersMay /\ References
  /\ IoWithinDevice /\ NamesAreIds /\ OpensWhatItNamed /\ NeverCrashed

-----------------------------------------------------------------------------
(***************************************************************************)
(* The steps, grouped by what they change.                                 *)
(***************************************************************************)
Begins(c)   == GetLogger(c) \/ InitializeLogger(c) \/ CreateLogger(c) \/ GotLogger(c)
Releases(c) == DropLogger(c) \/ Shutdown(c) \/ LoggerDestroyed(c)
Forwards    == LoggingThread \/ DropApp \/ \E c \in Clients, f \in {"none", "app"} : SetCallback(c, f)
Scans(c)    == GetOutputDeviceFactory(c) \/ Attempt(c) \/ NoBackend(c) \/ DestroyFactory(c)
Plays(c, d) == CreateDevice(c, d) \/ OpenWasapi(c, d) \/ OpenAlsa(c, d) \/ StopDevice(c, d)
                 \/ StopJoin(c, d) \/ DestroyDevice(c, d)

LEMMA StepKinds ==
  ASSUME [Next]_vars
  PROVE  \/ \E c \in Clients : Begins(c) \/ Releases(c) \/ Scans(c)
         \/ \E c \in Clients, d \in Devices : Plays(c, d)
         \/ \E d \in Devices : Io(d) \/ IoFail(d)
         \/ Forwards
         \/ \E id \in Ids : Plug(id)
         \/ UNCHANGED vars
  BY DEF Next, Client, ClientStep, Begins, Releases, Forwards, Scans, Plays

(***************************************************************************)
(* What a step of a factory, a device, its I/O thread or an endpoint may   *)
(* do to the logger: log, while that is allowed.                           *)
(***************************************************************************)
Uses ==
  /\ UNCHANGED <<rest, over>>
  /\ (MayUse /\ Log) \/ UNCHANGED <<queued, crashed>>
  /\ over => UNCHANGED client_pc
  /\ \A c \in Clients : client_pc'[c] = client_pc[c]
        \/ {client_pc[c], client_pc'[c]} \subseteq {"idle", "attempt", "open", "stop"}

LEMMA ScansUse == \A c \in Clients : IInv /\ Scans(c) => Uses
<1> SUFFICES ASSUME NEW c \in Clients, IInv, Scans(c) PROVE Uses
  OBVIOUS
<1>0. client_pc \in [Clients ->
        {"idle", "once", "create", "join", "attempt", "open", "stop"}]
  BY DEF IInv, TypeOK
<1> USE DEF rest, pointer, object, shares, world, client, place, Goto, Idle, Uses
<1>1. CASE GetOutputDeviceFactory(c)
  BY <1>0, <1>1 DEF GetOutputDeviceFactory, MayUse
<1>2. CASE Attempt(c)
  <2>1. MayUse
    BY <1>2 DEF Attempt, IInv, UsersMay
  <2> QED
    BY <1>0, <1>2, <2>1 DEF Attempt, MayUse
<1>3. CASE NoBackend(c)
  <2>1. MayUse
    BY <1>3 DEF NoBackend, IInv, UsersMay
  <2> QED
    BY <1>0, <1>3, <2>1 DEF NoBackend, MayUse
<1>4. CASE DestroyFactory(c)
  <2>1. MayUse
    BY <1>4 DEF DestroyFactory, IInv, UsersMay
  <2> QED
    BY <1>4, <2>1 DEF DestroyFactory
<1> QED
  BY <1>1, <1>2, <1>3, <1>4 DEF Scans

LEMMA PlaysUse == \A c \in Clients, d \in Devices : IInv /\ Plays(c, d) => Uses
<1> SUFFICES ASSUME NEW c \in Clients, NEW d \in Devices, IInv, Plays(c, d) PROVE Uses
  OBVIOUS
<1>0. client_pc \in [Clients ->
        {"idle", "once", "create", "join", "attempt", "open", "stop"}]
  BY DEF IInv, TypeOK
<1>1. MayUse
  BY DEF Plays, CreateDevice, OpenWasapi, OpenAlsa, Opening, StopDevice, StopJoin,
         DestroyDevice, IInv, UsersMay
<1>2. ~over
  BY <1>1 DEF MayUse
<1> USE DEF rest, pointer, object, shares, world, client, place, Goto, Idle, Uses
<1>3. CASE CreateDevice(c, d)
  BY <1>0, <1>2, <1>3 DEF CreateDevice
<1>4. CASE OpenWasapi(c, d)
  BY <1>0, <1>1, <1>2, <1>4 DEF OpenWasapi, Opening, OpenFails, OpenSucceeds
<1>5. CASE OpenAlsa(c, d)
  BY <1>0, <1>1, <1>2, <1>5 DEF OpenAlsa, Opening, OpenFails, OpenSucceeds
<1>6. CASE StopDevice(c, d)
  BY <1>0, <1>1, <1>2, <1>6 DEF StopDevice
<1>7. CASE StopJoin(c, d)
  BY <1>0, <1>2, <1>7 DEF StopJoin
<1>8. CASE DestroyDevice(c, d)
  BY <1>2, <1>8 DEF DestroyDevice
<1> QED
  BY <1>3, <1>4, <1>5, <1>6, <1>7, <1>8 DEF Plays

LEMMA IoUses == \A d \in Devices : IInv /\ (Io(d) \/ IoFail(d)) => Uses
<1> SUFFICES ASSUME NEW d \in Devices, IInv, Io(d) \/ IoFail(d) PROVE Uses
  OBVIOUS
<1>1. io_pc[d] \in {"await", "play"}
  BY DEF Io, IoAwait, IoExit, IoFail
<1>2. MayUse
  BY <1>1 DEF IInv, IoWithinDevice, UsersMay
<1> QED
  BY <1>2 DEF Io, IoAwait, IoExit, IoFail, IoLog, Uses, rest, pointer, object, shares,
              world, client, place

LEMMA PlugUses == \A id \in Ids : Plug(id) => Uses
  BY DEF Plug, Uses, rest, pointer, object, shares, world, client, place

\* For the logger, a step is one of its own or one that uses it.
LEMMA LoggerSteps ==
  ASSUME IInv, [Next]_vars
  PROVE  \/ \E c \in Clients : Begins(c) \/ Releases(c)
         \/ Forwards \/ Uses \/ UNCHANGED vars
  BY StepKinds, ScansUse, PlaysUse, IoUses, PlugUses

-----------------------------------------------------------------------------
(***************************************************************************)
(* The logger is initialized once.                                         *)
(***************************************************************************)
LEMMA InitializationStep == IInv /\ [Next]_vars => Initialization'
<1> SUFFICES ASSUME IInv, [Next]_vars PROVE Initialization'
  OBVIOUS
<1>0. /\ Initialization
      /\ client_pc \in [Clients ->
           {"idle", "once", "create", "join", "attempt", "open", "stop"}]
      /\ init_logger_flag \in {"unset", "running", "done"}
      /\ logger_object = "dying" <=> \E c \in Clients : client_pc[c] = "join"
      /\ logger_object = "alive" <=> logger = "live" \/ holds # {}
  BY DEF IInv, TypeOK, Destruction
<1> USE <1>0 DEF Initialization, Goto, Idle, pointer, object, shares, client, place,
                 outputs, world
<1>1. ASSUME NEW c \in Clients, Begins(c) PROVE Initialization'
  <2>1. CASE GetLogger(c)
    BY <2>1 DEF GetLogger
  <2>2. CASE InitializeLogger(c)
    BY <2>2 DEF InitializeLogger
  <2>3. CASE CreateLogger(c)
    BY <2>3 DEF CreateLogger
  <2>4. CASE GotLogger(c)
    BY <2>4 DEF GotLogger
  <2> QED
    BY <1>1, <2>1, <2>2, <2>3, <2>4 DEF Begins
<1>2. ASSUME NEW c \in Clients, Releases(c) PROVE Initialization'
  <2>1. CASE DropLogger(c)
    BY <2>1 DEF DropLogger, Release
  <2>2. CASE Shutdown(c)
    BY <2>2 DEF Shutdown, Release
  <2>3. CASE LoggerDestroyed(c)
    BY <2>3 DEF LoggerDestroyed
  <2> QED
    BY <1>2, <2>1, <2>2, <2>3 DEF Releases
<1>3. CASE Forwards
  BY <1>3 DEF Forwards, LoggingThread, TakeMessage, CallbackReturns, DropApp, SetCallback
<1>4. CASE Uses
  BY <1>4 DEF Uses, rest
<1>5. CASE UNCHANGED vars
  BY <1>5 DEF vars
<1> QED
  BY <1>1, <1>2, <1>3, <1>4, <1>5, LoggerSteps

(***************************************************************************)
(* How many client threads have a reference to the library's logger.       *)
(***************************************************************************)
LEMMA HoldsCount ==
  ASSUME holds \subseteq Clients
  PROVE  /\ Cardinality(holds) \in Nat
         /\ Cardinality(holds) = 0 <=> holds = {}
         /\ \A c \in Clients : /\ c \notin holds => Cardinality(holds \cup {c}) = Cardinality(holds) + 1
                               /\ c \in holds => /\ Cardinality(holds \ {c}) = Cardinality(holds) - 1
                                                 /\ Cardinality(holds) # 0
<1>1. IsFiniteSet(holds)
  BY LibraryAssumption, FS_Subset
<1>2. Cardinality(holds) \in Nat
  BY <1>1, FS_CardinalityType
<1>3. Cardinality(holds) = 0 <=> holds = {}
  BY <1>1, FS_EmptySet
<1>4. \A c \in Clients : c \notin holds => Cardinality(holds \cup {c}) = Cardinality(holds) + 1
  BY <1>1, FS_AddElement
<1>5. \A c \in Clients : c \in holds => Cardinality(holds \ {c}) = Cardinality(holds) - 1
  BY <1>1, FS_RemoveElement
<1> QED
  BY <1>2, <1>3, <1>4, <1>5

\* There are no references to a logger of the library that is not alive.
LEMMA SharesOfLive ==
  ASSUME IInv
  PROVE  /\ references["audio_io"] = Cardinality(holds) + (IF logger = "live" THEN 1 ELSE 0)
         /\ Cardinality(holds) \in Nat /\ (Cardinality(holds) = 0 <=> holds = {})
         /\ references["app"] = (IF app THEN 1 ELSE 0) + (IF callback = "app" THEN 1 ELSE 0)
                                  + (IF cb = "app" THEN 1 ELSE 0)
<1>1. holds \subseteq Clients
  BY DEF IInv, TypeOK
<1>2. /\ references["audio_io"] = Holders("audio_io")
      /\ references["app"] = Holders("app")
  BY DEF IInv, References, Loggers
<1>3. Holders("audio_io") = Cardinality(holds) + (IF logger = "live" THEN 1 ELSE 0)
  BY DEF Holders
<1>4. Holders("app") = (IF app THEN 1 ELSE 0) + (IF callback = "app" THEN 1 ELSE 0)
                         + (IF cb = "app" THEN 1 ELSE 0)
  BY DEF Holders, Replaced
<1> QED
  BY <1>1, <1>2, <1>3, <1>4, HoldsCount

(***************************************************************************)
(* The logger is destroyed once, by the last to let go of it.              *)
(***************************************************************************)
LEMMA DestructionStep == IInv /\ [Next]_vars => Destruction'
<1> SUFFICES ASSUME IInv, [Next]_vars PROVE Destruction'
  OBVIOUS
<1>0. /\ Destruction /\ Initialization
      /\ client_pc \in [Clients ->
           {"idle", "once", "create", "join", "attempt", "open", "stop"}]
      /\ logger_object \in {"none", "alive", "dying", "dead"} /\ queued \in 0 .. MaxQueued
      /\ holds \subseteq Clients
  BY DEF IInv, TypeOK
<1> USE <1>0 DEF Destruction, Goto, Idle, pointer, object, shares, client, place,
                 outputs, world
<1>1. ASSUME NEW c \in Clients, Begins(c) PROVE Destruction'
  <2>1. CASE GetLogger(c)
    BY <2>1 DEF GetLogger
  <2>2. CASE InitializeLogger(c)
    BY <2>2 DEF InitializeLogger, Initialization
  <2>3. CASE CreateLogger(c)
    BY <2>3 DEF CreateLogger, Initialization
  <2>4. CASE GotLogger(c)
    BY <2>4 DEF GotLogger, Initialization
  <2> QED
    BY <1>1, <2>1, <2>2, <2>3, <2>4 DEF Begins
<1>2. ASSUME NEW c \in Clients, Releases(c) PROVE Destruction'
  <2>1. CASE DropLogger(c)
    <3>1. /\ c \in holds /\ holds' = holds \ {c} /\ logger' = logger /\ Release(c)
          /\ UNCHANGED <<queued, callback, cb>>
      BY <2>1 DEF DropLogger
    <3>2. Cardinality(holds \ {c}) = Cardinality(holds) - 1
      BY <3>1, HoldsCount
    <3>3. holds \ {c} \subseteq Clients
      OBVIOUS
    <3>4. Cardinality(holds \ {c}) = 0 <=> holds \ {c} = {}
      <4>1. IsFiniteSet(holds \ {c})
        BY <3>3, LibraryAssumption, FS_Subset
      <4> QED
        BY <4>1, FS_EmptySet
    <3>5. references["audio_io"] = 1 <=> logger # "live" /\ holds' = {}
      BY <3>1, <3>2, <3>4, SharesOfLive
    <3> QED
      BY <2>1, <3>1, <3>5 DEF DropLogger, Release
  <2>2. CASE Shutdown(c)
    <3>1. logger' # "live"
      BY <2>2 DEF Shutdown
    <3>2. logger = "live" => (references["audio_io"] = 1 <=> holds = {})
      BY SharesOfLive
    <3> QED
      BY <2>2, <3>1, <3>2 DEF Shutdown, Release
  <2>3. CASE LoggerDestroyed(c)
    BY <2>3 DEF LoggerDestroyed
  <2> QED
    BY <1>2, <2>1, <2>2, <2>3 DEF Releases
<1>3. CASE Forwards
  BY <1>3 DEF Forwards, LoggingThread, TakeMessage, CallbackReturns, DropApp, SetCallback
<1>4. CASE Uses
  <2>1. logger # "live" => UNCHANGED queued
    BY <1>4 DEF Uses, Log
  <2> QED
    BY <1>4, <2>1 DEF Uses, rest
<1>5. CASE UNCHANGED vars
  BY <1>5 DEF vars
<1> QED
  BY <1>1, <1>2, <1>3, <1>4, <1>5, LoggerSteps

(***************************************************************************)
(* The use counts are the shared_ptrs there are.                           *)
(***************************************************************************)
LEMMA ReferencesStep == IInv /\ [Next]_vars => References'
<1> SUFFICES ASSUME IInv, [Next]_vars PROVE References'
  OBVIOUS
<1>0. /\ Destruction /\ Initialization
      /\ references \in [Loggers -> Nat] /\ holds \subseteq Clients
      /\ callback \in {"none", "app"} /\ cb \in {"none", "app"} /\ app \in BOOLEAN
  BY DEF IInv, TypeOK
<1> DEFINE Counted ==
        /\ references'["audio_io"] = Cardinality(holds') + (IF logger' = "live" THEN 1 ELSE 0)
        /\ references'["app"] = (IF app' THEN 1 ELSE 0)
             + (IF callback' = "app" THEN 1 ELSE 0) + (IF cb' = "app" THEN 1 ELSE 0)
<1>1. SUFFICES Counted
  BY DEF References, Holders, Replaced, Loggers
<1> USE <1>0, SharesOfLive, HoldsCount
    DEF Loggers, Goto, Idle, pointer, object, shares, client, place, outputs, world
<1>2. ASSUME NEW c \in Clients, Begins(c) PROVE Counted
  <2>1. CASE GetLogger(c)
    BY <2>1 DEF GetLogger
  <2>2. CASE InitializeLogger(c)
    BY <2>2 DEF InitializeLogger, Initialization
  <2>3. CASE CreateLogger(c)
    <3>1. holds = {} /\ logger # "live" /\ Cardinality(holds) = 0
      BY <2>3 DEF CreateLogger, Initialization, Destruction
    <3> QED
      BY <2>3, <3>1 DEF CreateLogger
  <2>4. CASE GotLogger(c)
    <3>1. logger = "live" /\ c \notin holds
      BY <2>4 DEF GotLogger, Initialization
    <3> QED
      BY <2>4, <3>1 DEF GotLogger
  <2> QED
    BY <1>2, <2>1, <2>2, <2>3, <2>4 DEF Begins
<1>3. ASSUME NEW c \in Clients, Releases(c) PROVE Counted
  <2>1. CASE DropLogger(c)
    BY <2>1 DEF DropLogger, Release
  <2>2. CASE Shutdown(c)
    BY <2>2 DEF Shutdown, Release
  <2>3. CASE LoggerDestroyed(c)
    BY <2>3 DEF LoggerDestroyed, Replaced
  <2> QED
    BY <1>3, <2>1, <2>2, <2>3 DEF Releases
<1>4. CASE Forwards
  <2>1. CASE TakeMessage
    BY <2>1 DEF TakeMessage, Copied
  <2>2. CASE CallbackReturns
    BY <2>2 DEF CallbackReturns, Copied
  <2>3. CASE DropApp
    BY <2>3 DEF DropApp
  <2>4. ASSUME NEW c \in Clients, NEW f \in {"none", "app"}, SetCallback(c, f) PROVE Counted
    BY <2>4 DEF SetCallback, Replaced
  <2> QED
    BY <1>4, <2>1, <2>2, <2>3, <2>4 DEF Forwards, LoggingThread
<1>5. CASE Uses
  BY <1>5 DEF Uses, rest
<1>6. CASE UNCHANGED vars
  BY <1>6 DEF vars
<1> QED
  BY <1>2, <1>3, <1>4, <1>5, <1>6, LoggerSteps

(***************************************************************************)
(* Whoever logs when the logger has been got first logs to a live one.     *)
(***************************************************************************)
LEMMA NeverCrashedStep == IInv /\ [Next]_vars => NeverCrashed'
<1> SUFFICES ASSUME IInv, [Next]_vars, GetsLoggerFirst PROVE crashed' = FALSE
  BY DEF NeverCrashed
<1>0. crashed = FALSE /\ Initialization
  BY DEF IInv, NeverCrashed, TypeOK
<1> USE <1>0
<1>1. ASSUME NEW c \in Clients, Begins(c) PROVE crashed' = FALSE
  <2>1. client_pc[c] = "once" => ~over
    BY DEF Initialization
  <2> QED
    BY <1>1, <2>1 DEF Begins, GetLogger, InitializeLogger, CreateLogger, GotLogger,
                      Initialization
<1>2. ASSUME NEW c \in Clients, Releases(c) PROVE crashed' = FALSE
  BY <1>2 DEF Releases, DropLogger, Shutdown, LoggerDestroyed
<1>3. CASE Forwards
  <2>1. cb = "app" => references["app"] # 0
    BY SharesOfLive DEF IInv, TypeOK
  <2> QED
    BY <1>3, <2>1 DEF Forwards, LoggingThread, TakeMessage, CallbackReturns, DropApp,
                      SetCallback
<1>4. CASE Uses
  BY <1>4 DEF Uses, Log, MayUse, Initialization
<1>5. CASE UNCHANGED vars
  BY <1>5 DEF vars
<1> QED
  BY <1>1, <1>2, <1>3, <1>4, <1>5, LoggerSteps

-----------------------------------------------------------------------------
(***************************************************************************)
(* What a scan finds is a list of endpoints, opened by their names.        *)
(***************************************************************************)
Factories == [backend : {"none", "Wasapi", "alsa"}, names : Seq(Ids), ids : Seq(Ids)]

LEMMA ListingsType == \A kept \in SUBSET Ids : Listings(kept) \subseteq Seq(Ids)
<1> SUFFICES ASSUME NEW kept \in SUBSET Ids, NEW s \in Listings(kept) PROVE s \in Seq(Ids)
  OBVIOUS
<1>1. Ids = 1 .. Len(Endpoints) /\ Len(Endpoints) \in Nat
  BY LibraryAssumption, LenProperties DEF Ids
<1>2. IsFiniteSet(Ids)
  BY <1>1, FS_Interval
<1>3. Cardinality(kept) \in Nat
  BY <1>2, FS_Subset, FS_CardinalityType
<1>4. s \in [1 .. Cardinality(kept) -> Ids]
  BY DEF Listings
<1> QED
  BY <1>3, <1>4, SeqDef

LEMMA ScanFinds ==
  ASSUME present \subseteq Ids
  PROVE  \A f \in AlsaFactories \cup WasapiFactories : f \in Factories /\ f.names = f.ids
<1>1. Listings(AlsaKeeps) \subseteq Seq(Ids) /\ Listings(WasapiKeeps) \subseteq Seq(Ids)
  BY ListingsType DEF AlsaKeeps, WasapiKeeps
<1>2. <<>> \in Seq(Ids)
  BY EmptySeq
<1>3. NoFactory \in Factories /\ NoFactory.names = NoFactory.ids
  BY <1>2 DEF NoFactory, Factories
<1>4. \A f \in AlsaFactories : f \in Factories /\ f.names = f.ids
  <2> SUFFICES ASSUME NEW found \in {<<>>} \cup Listings(AlsaKeeps)
               PROVE  LET f == [backend |-> "alsa", names |-> found, ids |-> found]
                      IN  f \in Factories /\ f.names = f.ids
    BY DEF AlsaFactories
  <2>1. found \in Seq(Ids)
    BY <1>1, <1>2
  <2> QED
    BY <2>1 DEF Factories
<1>5. \A f \in WasapiFactories : f \in Factories /\ f.names = f.ids
  BY <1>1, <1>3 DEF WasapiFactories, WasapiScan, Factories
<1> QED
  BY <1>4, <1>5

\* Nobody but these changes a factory, or a device and its thread.
LEMMA OtherSteps ==
  ASSUME [Next]_vars
  PROVE  \/ UNCHANGED outputs
         \/ \E c \in Clients : Scans(c) /\ UNCHANGED <<device, io_pc>>
         \/ \E c \in Clients, d \in Devices : Plays(c, d) /\ UNCHANGED factory
         \/ \E d \in Devices : (Io(d) \/ IoFail(d)) /\ UNCHANGED <<factory, device>>
<1> USE DEF outputs
<1>1. ASSUME NEW c \in Clients, Begins(c) \/ Releases(c) PROVE UNCHANGED outputs
  BY <1>1 DEF Begins, Releases, GetLogger, InitializeLogger, CreateLogger, GotLogger,
              DropLogger, Shutdown, LoggerDestroyed
<1>2. ASSUME Forwards PROVE UNCHANGED outputs
  BY <1>2 DEF Forwards, LoggingThread, TakeMessage, CallbackReturns, DropApp, SetCallback
<1>3. ASSUME NEW c \in Clients, Scans(c) PROVE UNCHANGED <<device, io_pc>>
  BY <1>3 DEF Scans, GetOutputDeviceFactory, Attempt, NoBackend, DestroyFactory
<1>4. ASSUME NEW c \in Clients, NEW d \in Devices, Plays(c, d) PROVE UNCHANGED factory
  BY <1>4 DEF Plays, CreateDevice, OpenWasapi, OpenAlsa, OpenFails, OpenSucceeds,
              StopDevice, StopJoin, DestroyDevice
<1>5. ASSUME NEW d \in Devices, Io(d) \/ IoFail(d) PROVE UNCHANGED <<factory, device>>
  BY <1>5 DEF Io, IoAwait, IoExit, IoFail, IoLog
<1>6. ASSUME NEW id \in Ids, Plug(id) PROVE UNCHANGED outputs
  BY <1>6 DEF Plug
<1>7. UNCHANGED vars => UNCHANGED outputs
  BY DEF vars
<1> QED
  BY <1>1, <1>2, <1>3, <1>4, <1>5, <1>6, <1>7, StepKinds

LEMMA NamesAreIdsStep == IInv /\ [Next]_vars => NamesAreIds'
<1> SUFFICES ASSUME IInv, [Next]_vars PROVE NamesAreIds'
  OBVIOUS
<1>0. NamesAreIds /\ present \subseteq Ids /\ DOMAIN factory = Clients
  BY DEF IInv, TypeOK
<1> USE <1>0 DEF NamesAreIds, outputs
<1>1. ASSUME NEW c \in Clients, Scans(c) PROVE NamesAreIds'
  <2>1. CASE GetOutputDeviceFactory(c) \/ NoBackend(c)
    BY <2>1 DEF GetOutputDeviceFactory, NoBackend
  <2>2. CASE Attempt(c)
    <3>1. PICK f \in AlsaFactories \cup WasapiFactories : factory' = [factory EXCEPT ![c] = f]
      BY <2>2 DEF Attempt
    <3>2. f.names = f.ids
      BY ScanFinds
    <3> QED
      BY <3>1, <3>2
  <2>3. CASE DestroyFactory(c)
    <3>1. NoFactory.names = NoFactory.ids
      BY DEF NoFactory
    <3> QED
      BY <2>3, <3>1 DEF DestroyFactory
  <2> QED
    BY <1>1, <2>1, <2>2, <2>3 DEF Scans
<1> QED
  BY <1>1, OtherSteps

-----------------------------------------------------------------------------
(***************************************************************************)
(* What a step of a client does to a device: it comes, with what the       *)
(* client asked for, it changes its state, or it goes.                     *)
(***************************************************************************)
States    == {"none", "opening", "playing", "stopping", "stopped"}
DeviceSet == [state : States, owner : Clients \cup {"none"},
              backend : {"none", "Wasapi", "alsa"},
              wanted : Ids \cup {0}, opened : Ids \cup {0}]

Comes(c, d) ==
  \E wanted, opened \in Ids \cup {0} :
    /\ wanted # 0 => opened = wanted
    /\ device' = [device EXCEPT ![d] =
         [state |-> "opening", owner |-> c, backend |-> factory[c].backend,
          wanted |-> wanted, opened |-> opened]]

Moves(d) == \E state \in States \ {"none"} : device' = [device EXCEPT ![d].state = state]

Goes(d) == device' = [device EXCEPT ![d] = NoDevice]

\* createDevice finds at the index what getOutputNames shows there.
LEMMA NamedIsWanted ==
  ASSUME IInv, NEW c \in Clients, NEW index \in -1 .. Len(factory[c].names) - 1,
         NEW id \in Named(c, index)
  PROVE  /\ id \in Ids /\ Wanted(c, index) \in Ids \cup {0}
         /\ Wanted(c, index) # 0 => id = Wanted(c, index)
<1>1. factory[c].names \in Seq(Ids) /\ factory[c].names = factory[c].ids
  BY DEF IInv, TypeOK, NamesAreIds
<1>2. CASE index = -1
  BY <1>2 DEF Named, Wanted
<1>3. CASE index # -1
  <2>1. index + 1 \in 1 .. Len(factory[c].names)
    <3>1. Len(factory[c].names) \in Nat
      BY <1>1, LenProperties
    <3> QED
      BY <1>3, <3>1
  <2>2. factory[c].names[index + 1] \in Ids
    BY <1>1, <2>1, ElementOfSeq
  <2> QED
    BY <1>1, <1>3, <2>2 DEF Named, Wanted
<1> QED
  BY <1>2, <1>3

LEMMA PlaysMoves ==
  ASSUME IInv, NEW c \in Clients, NEW d \in Devices, Plays(c, d)
  PROVE  Comes(c, d) \/ Moves(d) \/ Goes(d)
<1>1. CASE CreateDevice(c, d)
  <2>0. PICK index \in -1 .. Len(factory[c].names) - 1 : \E id \in Named(c, index) :
          device' = [device EXCEPT ![d] =
            [state |-> "opening", owner |-> c, backend |-> factory[c].backend,
             wanted |-> Wanted(c, index), opened |-> id]]
    BY <1>1 DEF CreateDevice
  <2>1. PICK id \in Named(c, index) :
          device' = [device EXCEPT ![d] =
            [state |-> "opening", owner |-> c, backend |-> factory[c].backend,
             wanted |-> Wanted(c, index), opened |-> id]]
    BY <2>0
  <2>2. /\ id \in Ids \cup {0} /\ Wanted(c, index) \in Ids \cup {0}
        /\ Wanted(c, index) # 0 => id = Wanted(c, index)
    BY NamedIsWanted
  <2> QED
    BY <2>1, <2>2 DEF Comes
<1>2. CASE OpenWasapi(c, d)
  BY <1>2 DEF OpenWasapi, OpenFails, OpenSucceeds, Moves, Goes, States
<1>3. CASE OpenAlsa(c, d)
  BY <1>3 DEF OpenAlsa, OpenFails, OpenSucceeds, Moves, Goes, States
<1>4. CASE StopDevice(c, d)
  BY <1>4 DEF StopDevice, Moves, States
<1>5. CASE StopJoin(c, d)
  BY <1>5 DEF StopJoin, Moves, States
<1>6. CASE DestroyDevice(c, d)
  BY <1>6 DEF DestroyDevice, Goes
<1> QED
  BY <1>1, <1>2, <1>3, <1>4, <1>5, <1>6 DEF Plays

LEMMA DeviceStep ==
  IInv /\ [Next]_vars => OpensWhatItNamed' /\ device' \in [Devices -> DeviceSet]
<1> SUFFICES ASSUME IInv, [Next]_vars
             PROVE  OpensWhatItNamed' /\ device' \in [Devices -> DeviceSet]
  OBVIOUS
<1>0. OpensWhatItNamed /\ device \in [Devices -> DeviceSet]
  BY DEF IInv, TypeOK, DeviceSet, States
<1> USE <1>0 DEF OpensWhatItNamed, outputs
<1>1. ASSUME NEW c \in Clients, NEW d \in Devices, Plays(c, d)
      PROVE  OpensWhatItNamed' /\ device' \in [Devices -> DeviceSet]
  <2>1. CASE Comes(c, d)
    <3>1. PICK wanted \in Ids \cup {0}, opened \in Ids \cup {0} :
            /\ wanted # 0 => opened = wanted
            /\ device' = [device EXCEPT ![d] =
                 [state |-> "opening", owner |-> c, backend |-> factory[c].backend,
                  wanted |-> wanted, opened |-> opened]]
      BY <2>1 DEF Comes
    <3>2. factory[c].backend \in {"none", "Wasapi", "alsa"}
      BY DEF IInv, TypeOK
    <3>3. [state |-> "opening", owner |-> c, backend |-> factory[c].backend,
           wanted |-> wanted, opened |-> opened] \in DeviceSet
      BY <3>2 DEF DeviceSet, States
    <3> QED
      BY <3>1, <3>3
  <2>2. CASE Moves(d)
    BY <2>2 DEF Moves, DeviceSet
  <2>3. CASE Goes(d)
    <3>1. NoDevice \in DeviceSet /\ NoDevice.wanted = 0
      BY DEF NoDevice, DeviceSet, States
    <3> QED
      BY <2>3, <3>1 DEF Goes
  <2> QED
    BY <1>1, <2>1, <2>2, <2>3, PlaysMoves
<1> QED
  BY <1>1, OtherSteps

(***************************************************************************)
(* stop() joins the I/O thread before the device can go.                   *)
(***************************************************************************)
LEMMA IoWithinDeviceStep == IInv /\ [Next]_vars => IoWithinDevice'
<1> SUFFICES ASSUME IInv, [Next]_vars PROVE IoWithinDevice'
  OBVIOUS
<1>0. /\ IoWithinDevice /\ device \in [Devices -> DeviceSet]
      /\ io_pc \in [Devices -> {"none", "await", "play", "exited"}]
  BY DEF IInv, TypeOK, DeviceSet, States
<1> USE <1>0 DEF IoWithinDevice, outputs
<1>1. ASSUME NEW c \in Clients, NEW d \in Devices, Plays(c, d) PROVE IoWithinDevice'
  <2> USE DEF DeviceSet
  <2>1. CASE CreateDevice(c, d)
    <3>1. io_pc[d] \notin {"await", "play"} /\ io_pc' = io_pc
      BY <2>1 DEF CreateDevice, NoDevice
    <3>2. \A e \in Devices \ {d} : device'[e] = device[e]
      BY <2>1 DEF CreateDevice
    <3> QED
      BY <3>1, <3>2
  <2>2. CASE OpenWasapi(c, d)
    BY <2>2 DEF OpenWasapi, Opening, OpenFails, OpenSucceeds
  <2>3. CASE OpenAlsa(c, d)
    BY <2>3 DEF OpenAlsa, Opening, OpenFails, OpenSucceeds
  <2>4. CASE StopDevice(c, d)
    BY <2>4 DEF StopDevice
  <2>5. CASE StopJoin(c, d)
    BY <2>5 DEF StopJoin
  <2>6. CASE DestroyDevice(c, d)
    BY <2>6 DEF DestroyDevice
  <2> QED
    BY <1>1, <2>1, <2>2, <2>3, <2>4, <2>5, <2>6 DEF Plays
<1>2. ASSUME NEW d \in Devices, Io(d) \/ IoFail(d), UNCHANGED <<factory, device>>
      PROVE  IoWithinDevice'
  BY <1>2 DEF Io, IoAwait, IoExit, IoFail, IoLog
<1>3. ASSUME NEW c \in Clients, Scans(c), UNCHANGED <<device, io_pc>> PROVE IoWithinDevice'
  BY <1>3
<1> QED
  BY <1>1, <1>2, <1>3, OtherSteps

(***************************************************************************)
(* shutdown comes when nobody has a factory or a device any more.          *)
(***************************************************************************)
LEMMA UsersMayStep == IInv /\ [Next]_vars => UsersMay'
<1> SUFFICES ASSUME IInv, [Next]_vars PROVE UsersMay'
  OBVIOUS
<1>0. /\ UsersMay /\ device \in [Devices -> DeviceSet] /\ DOMAIN factory = Clients
      /\ client_pc \in [Clients ->
           {"idle", "once", "create", "join", "attempt", "open", "stop"}]
  BY DEF IInv, TypeOK, DeviceSet, States
<1> USE <1>0
<1>1. ASSUME NEW c \in Clients, Shutdown(c) PROVE UsersMay'
  <2>1. \A e \in Clients : client_pc'[e] # "attempt" /\ factory'[e] = NoFactory
    BY <1>1 DEF Shutdown, Release, Goto, Idle, outputs
  <2>2. \A d \in Devices : device'[d].state = "none"
    BY <1>1 DEF Shutdown, NoDevice, outputs
  <2> QED
    BY <2>1, <2>2 DEF UsersMay
<1>2. ASSUME \A c \in Clients : ~Shutdown(c) PROVE MayUse => MayUse'
  <2>1. ASSUME NEW c \in Clients, Begins(c) \/ DropLogger(c) \/ LoggerDestroyed(c)
        PROVE  MayUse => MayUse'
    BY <2>1 DEF IInv, Initialization, Begins, GetLogger, InitializeLogger, CreateLogger,
         GotLogger, DropLogger, LoggerDestroyed, MayUse, pointer, world
  <2>2. CASE Forwards
    BY <2>2 DEF Forwards, LoggingThread, TakeMessage, CallbackReturns, DropApp, SetCallback,
         MayUse, pointer, world
  <2>3. CASE Uses \/ UNCHANGED vars
    BY <2>3 DEF Uses, rest, vars, MayUse, pointer, world
  <2> QED
    BY <1>2, <2>1, <2>2, <2>3, LoggerSteps DEF Releases
<1>3. ASSUME NEW c \in Clients, Scans(c), MayUse => MayUse' PROVE UsersMay'
  <2>1. UNCHANGED device /\ DOMAIN factory' = Clients
    BY <1>3 DEF Scans, GetOutputDeviceFactory, Attempt, NoBackend, DestroyFactory, outputs
  <2>2. \A e \in Clients \ {c} : factory'[e] = factory[e] /\ client_pc'[e] = client_pc[e]
    BY <1>3 DEF Scans, GetOutputDeviceFactory, Attempt, NoBackend, DestroyFactory, outputs,
                Goto, client, place
  <2>3. client_pc'[c] = "attempt" \/ factory'[c] # NoFactory => MayUse
    BY <1>3 DEF Scans, GetOutputDeviceFactory, Attempt, NoBackend, DestroyFactory, outputs,
                Goto, client, place, UsersMay
  <2> QED
    BY <1>3, <2>1, <2>2, <2>3 DEF UsersMay
<1>4. ASSUME NEW c \in Clients, NEW d \in Devices, Plays(c, d), UNCHANGED factory,
             MayUse => MayUse'
      PROVE  UsersMay'
  <2>1. MayUse
    BY <1>4 DEF Plays, CreateDevice, OpenWasapi, OpenAlsa, Opening, StopDevice, StopJoin,
                DestroyDevice, UsersMay
  <2> QED
    BY <1>4, <2>1 DEF UsersMay
<1>5. ASSUME UNCHANGED <<factory, device>>, MayUse => MayUse',
             \A c \in Clients : client_pc'[c] = "attempt" => client_pc[c] = "attempt"
      PROVE  UsersMay'
  BY <1>5 DEF UsersMay
<1>6. ASSUME NEW c \in Clients, Begins(c) \/ DropLogger(c) \/ LoggerDestroyed(c)
      PROVE  /\ UNCHANGED <<factory, device>>
             /\ \A e \in Clients : client_pc'[e] = "attempt" => client_pc[e] = "attempt"
  BY <1>6 DEF Begins, GetLogger, InitializeLogger, CreateLogger, GotLogger, DropLogger,
              Release, LoggerDestroyed, Goto, outputs
<1>7. ASSUME Forwards \/ (\E d \in Devices : Io(d) \/ IoFail(d))
               \/ (\E id \in Ids : Plug(id)) \/ UNCHANGED vars
      PROVE  UNCHANGED <<factory, device, client_pc>>
  BY <1>7 DEF Forwards, LoggingThread, TakeMessage, CallbackReturns, DropApp, SetCallback,
              Io, IoAwait, IoExit, IoFail, IoLog, Plug, vars, client, outputs
<1>8. CASE \E c \in Clients : Shutdown(c)
  BY <1>1, <1>8
<1>9. CASE \A c \in Clients : ~Shutdown(c)
  <2>1. MayUse => MayUse'
    BY <1>2, <1>9
  <2>2. \A c \in Clients : Scans(c) => UsersMay'
    BY <1>3, <2>1
  <2>3. \A c \in Clients, d \in Devices : Plays(c, d) => UNCHANGED factory
    BY DEF Plays, CreateDevice, OpenWasapi, OpenAlsa, OpenFails, OpenSucceeds,
           StopDevice, StopJoin, DestroyDevice
  <2>4. \A c \in Clients, d \in Devices : Plays(c, d) => UsersMay'
    BY <1>4, <2>1, <2>3
  <2>5. \A c \in Clients : Begins(c) \/ DropLogger(c) \/ LoggerDestroyed(c) => UsersMay'
    BY <1>5, <1>6, <2>1
  <2>6. ASSUME Forwards \/ (\E d \in Devices : Io(d) \/ IoFail(d))
                 \/ (\E id \in Ids : Plug(id)) \/ UNCHANGED vars
        PROVE  UsersMay'
    BY <1>5, <1>7, <2>1, <2>6
  <2> QED
    BY <1>9, <2>2, <2>4, <2>5, <2>6, StepKinds DEF Releases
<1> QED
  BY <1>8, <1>9

-----------------------------------------------------------------------------
(***************************************************************************)
(* Types.                                                                  *)
(***************************************************************************)
LoggerTypes ==
  /\ logger \in {"nullptr", "empty", "live", "dangling"}
  /\ init_logger_flag \in {"unset", "running", "done"}
  /\ logger_object \in {"none", "alive", "dying", "dead"}
  /\ queued \in 0 .. MaxQueued /\ {callback, cb} \subseteq {"none", "app"}
  /\ holds \subseteq Clients /\ app \in BOOLEAN
  /\ DOMAIN references = Loggers /\ references = [o \in Loggers |-> references[o]]
  /\ over \in BOOLEAN /\ crashed \in BOOLEAN /\ present \subseteq Ids

ClientTypes ==
  /\ client_pc \in [Clients ->
       {"idle", "once", "create", "join", "attempt", "open", "stop"}]
  /\ creators \in Builds /\ attempt \in [Clients -> 1 .. Len(creators) + 1]

IoTypes == io_pc \in [Devices -> {"none", "await", "play", "exited"}]

OutputTypes ==
  /\ IoTypes /\ factory \in [Clients -> Factories] /\ device \in [Devices -> DeviceSet]

LEMMA TypesSuffice == LoggerTypes /\ ClientTypes /\ References /\ OutputTypes => TypeOK
<1> SUFFICES ASSUME LoggerTypes, ClientTypes, References, OutputTypes PROVE TypeOK
  OBVIOUS
<1> USE DEF OutputTypes
<1>1. \A o \in Loggers : references[o] \in Nat
  <2>1. Cardinality(holds) \in Nat
    BY HoldsCount DEF LoggerTypes
  <2>2. \A o \in Loggers : Holders(o) \in Nat
    BY <2>1 DEF Loggers, Holders, Replaced, LoggerTypes
  <2> QED
    BY <2>2 DEF References
<1>2. references \in [Loggers -> Nat]
  BY <1>1 DEF LoggerTypes
<1>3. device \in [Devices ->
       [state : {"none", "opening", "playing", "stopping", "stopped"},
        owner : Clients \cup {"none"}, backend : {"none", "Wasapi", "alsa"},
        wanted : Ids \cup {0}, opened : Ids \cup {0}]]
  BY DEF DeviceSet, States
<1>4. factory \in [Clients ->
        [backend : {"none", "Wasapi", "alsa"}, names : Seq(Ids), ids : Seq(Ids)]]
  BY DEF Factories
<1> QED
  BY <1>2, <1>3, <1>4 DEF TypeOK, LoggerTypes, ClientTypes, IoTypes

LEMMA LoggerTypesStep == TypeOK /\ [Next]_vars => LoggerTypes'
<1> SUFFICES ASSUME TypeOK, [Next]_vars PROVE LoggerTypes'
  OBVIOUS
<1>0. LoggerTypes /\ MaxQueued \in Nat \ {0}
  BY LibraryAssumption DEF TypeOK, LoggerTypes
<1>1. ASSUME UNCHANGED rest, over' \in BOOLEAN, present' \subseteq Ids,
             Log \/ UNCHANGED <<queued, crashed>>
      PROVE  LoggerTypes'
  <2>1. queued' \in 0 .. MaxQueued
    <3>1. queued \in 0 .. MaxQueued
      BY <1>0 DEF LoggerTypes
    <3>2. queued' = queued \/ (queued < MaxQueued /\ queued' = queued + 1)
      BY <1>1 DEF Log
    <3> QED
      BY <1>0, <3>1, <3>2
  <2>2. crashed' \in BOOLEAN
    <3>1. crashed' = crashed \/ crashed' = TRUE
      BY <1>1 DEF Log
    <3> QED
      BY <1>0, <3>1 DEF LoggerTypes
  <2> QED
    BY <1>0, <1>1, <2>1, <2>2 DEF rest, pointer, shares, LoggerTypes
<1> USE <1>0 DEF pointer, object, shares, world, rest
<1>2. ASSUME NEW c \in Clients, Begins(c) PROVE LoggerTypes'
  BY <1>2 DEF Begins, GetLogger, InitializeLogger, CreateLogger, GotLogger, LoggerTypes
<1>3. ASSUME NEW c \in Clients, Releases(c) PROVE LoggerTypes'
  BY <1>3 DEF Releases, DropLogger, Shutdown, LoggerDestroyed, Release, LoggerTypes
<1>4. over \in BOOLEAN /\ present \subseteq Ids
  BY DEF LoggerTypes
<1>5. ASSUME NEW c \in Clients, Scans(c) PROVE LoggerTypes'
  <2>1. UNCHANGED <<rest, over, present>> /\ (Log \/ UNCHANGED <<queued, crashed>>)
    BY <1>5 DEF Scans, GetOutputDeviceFactory, Attempt, NoBackend, DestroyFactory
  <2> QED
    BY <1>1, <1>4, <2>1
<1>6. ASSUME NEW c \in Clients, NEW d \in Devices, Plays(c, d) PROVE LoggerTypes'
  <2>1. UNCHANGED <<rest, over, present>> /\ (Log \/ UNCHANGED <<queued, crashed>>)
    BY <1>6 DEF Plays, CreateDevice, OpenWasapi, OpenAlsa, OpenFails, OpenSucceeds,
                StopDevice, StopJoin, DestroyDevice
  <2> QED
    BY <1>1, <1>4, <2>1
<1>7. ASSUME NEW d \in Devices, Io(d) \/ IoFail(d) PROVE LoggerTypes'
  <2>1. UNCHANGED <<rest, over, present>> /\ (Log \/ UNCHANGED <<queued, crashed>>)
    BY <1>7 DEF Io, IoAwait, IoExit, IoFail, IoLog
  <2> QED
    BY <1>1, <1>4, <2>1
<1>8. CASE Forwards
  <2>1. CASE TakeMessage
    BY <2>1 DEF TakeMessage, LoggerTypes
  <2>2. CASE CallbackReturns
    BY <2>2 DEF CallbackReturns, LoggerTypes
  <2>3. CASE DropApp
    BY <2>3 DEF DropApp, LoggerTypes
  <2>4. ASSUME NEW c \in Clients, NEW f \in {"none", "app"}, SetCallback(c, f)
        PROVE  LoggerTypes'
    BY <2>4 DEF SetCallback, LoggerTypes
  <2> QED
    BY <1>8, <2>1, <2>2, <2>3, <2>4 DEF Forwards, LoggingThread
<1>9. ASSUME NEW i \in Ids, Plug(i) PROVE LoggerTypes'
  <2>1. UNCHANGED <<rest, over, queued, crashed>> /\ present' \subseteq Ids
    BY <1>4, <1>9 DEF Plug
  <2> QED
    BY <1>1, <1>4, <2>1
<1>10. CASE UNCHANGED vars
  BY <1>1, <1>4, <1>10 DEF vars
<1> QED
  BY <1>2, <1>3, <1>5, <1>6, <1>7, <1>8, <1>9, <1>10, StepKinds

LEMMA ClientTypesStep == TypeOK /\ [Next]_vars => ClientTypes'
<1> SUFFICES ASSUME TypeOK, [Next]_vars PROVE ClientTypes'
  OBVIOUS
<1>0. ClientTypes /\ Len(creators) \in Nat
  BY LibraryAssumption, LenProperties DEF TypeOK, ClientTypes
<1> USE <1>0 DEF ClientTypes, client, place, Goto
<1>1. ASSUME NEW c \in Clients, Begins(c) PROVE ClientTypes'
  BY <1>1 DEF Begins, GetLogger, InitializeLogger, CreateLogger, GotLogger
<1>2. ASSUME NEW c \in Clients, Releases(c) PROVE ClientTypes'
  BY <1>2 DEF Releases, DropLogger, Shutdown, LoggerDestroyed, Release
<1>3. ASSUME NEW c \in Clients, Scans(c) PROVE ClientTypes'
  BY <1>3 DEF Scans, GetOutputDeviceFactory, Attempt, NoBackend, DestroyFactory
<1>4. ASSUME NEW c \in Clients, NEW d \in Devices, Plays(c, d) PROVE ClientTypes'
  BY <1>4 DEF Plays, CreateDevice, OpenWasapi, OpenAlsa, OpenFails, OpenSucceeds,
              StopDevice, StopJoin, DestroyDevice
<1>5. ASSUME NEW d \in Devices, Io(d) \/ IoFail(d) PROVE ClientTypes'
  BY <1>5 DEF Io, IoAwait, IoExit, IoFail, IoLog
<1>6. CASE Forwards
  BY <1>6 DEF Forwards, LoggingThread, TakeMessage, CallbackReturns, DropApp, SetCallback
<1>7. ASSUME NEW i \in Ids, Plug(i) PROVE ClientTypes'
  BY <1>7 DEF Plug
<1>8. CASE UNCHANGED vars
  BY <1>8 DEF vars
<1> QED
  BY <1>1, <1>2, <1>3, <1>4, <1>5, <1>6, <1>7, <1>8, StepKinds

LEMMA OutputTypesStep == TypeOK /\ [Next]_vars => IoTypes' /\ factory' \in [Clients -> Factories]
<1> SUFFICES ASSUME TypeOK, [Next]_vars PROVE IoTypes' /\ factory' \in [Clients -> Factories]
  OBVIOUS
<1>0. IoTypes /\ factory \in [Clients -> Factories] /\ present \subseteq Ids
  BY DEF TypeOK, IoTypes, Factories
<1> USE <1>0 DEF IoTypes, outputs
<1>1. ASSUME NEW c \in Clients, Scans(c), UNCHANGED <<device, io_pc>>
      PROVE  factory' \in [Clients -> Factories]
  <2>1. NoFactory \in Factories
    BY EmptySeq DEF NoFactory, Factories
  <2>2. CASE Attempt(c)
    <3>1. PICK f \in AlsaFactories \cup WasapiFactories : factory' = [factory EXCEPT ![c] = f]
      BY <2>2 DEF Attempt
    <3>2. f \in Factories
      BY ScanFinds
    <3> QED
      BY <3>1, <3>2
  <2> QED
    BY <1>1, <2>1, <2>2 DEF Scans, GetOutputDeviceFactory, NoBackend, DestroyFactory
<1>2. ASSUME NEW c \in Clients, NEW d \in Devices, Plays(c, d) PROVE IoTypes'
  BY <1>2 DEF Plays, CreateDevice, OpenWasapi, OpenAlsa, OpenFails, OpenSucceeds,
              StopDevice, StopJoin, DestroyDevice
<1>3. ASSUME NEW d \in Devices, Io(d) \/ IoFail(d) PROVE IoTypes'
  BY <1>3 DEF Io, IoAwait, IoExit, IoFail, IoLog
<1> QED
  BY <1>1, <1>2, <1>3, OtherSteps

-----------------------------------------------------------------------------
LEMMA InitInvariant == Init => IInv
<1> SUFFICES ASSUME Init PROVE IInv
  OBVIOUS
<1> USE LibraryAssumption DEF Init
<1>1. Cardinality(holds) = 0
  BY FS_EmptySet
<1>2. References
  BY <1>1 DEF References, Holders, Replaced, Loggers
<1>3. LoggerTypes
  <2>1. queued \in 0 .. MaxQueued /\ {callback, cb} \subseteq {"none", "app"}
    OBVIOUS
  <2>2. DOMAIN references = Loggers /\ references = [o \in Loggers |-> references[o]]
    OBVIOUS
  <2>3. app \in BOOLEAN /\ over \in BOOLEAN /\ crashed \in BOOLEAN
    OBVIOUS
  <2> QED
    BY <2>1, <2>2, <2>3 DEF LoggerTypes
<1>4. ClientTypes
  <2>1. Len(creators) \in Nat
    BY LenProperties
  <2> QED
    BY <2>1 DEF ClientTypes
<1>5. factory \in [Clients -> Factories]
  BY EmptySeq DEF NoFactory, Factories
<1>6. device \in [Devices -> DeviceSet] /\ IoTypes
  BY DEF NoDevice, DeviceSet, States, IoTypes
<1>7. TypeOK
  BY <1>2, <1>3, <1>4, <1>5, <1>6, TypesSuffice DEF OutputTypes
<1>8. Initialization /\ Destruction
  BY DEF Initialization, Destruction
<1>9. UsersMay /\ IoWithinDevice /\ NamesAreIds /\ OpensWhatItNamed /\ NeverCrashed
  BY DEF UsersMay, IoWithinDevice, NamesAreIds, OpensWhatItNamed, NeverCrashed, NoDevice,
         NoFactory
<1> QED
  BY <1>2, <1>7, <1>8, <1>9 DEF IInv

LEMMA NextInvariant == IInv /\ [Next]_vars => IInv'
<1> SUFFICES ASSUME IInv, [Next]_vars PROVE IInv'
  OBVIOUS
<1>1. LoggerTypes' /\ ClientTypes' /\ IoTypes' /\ factory' \in [Clients -> Factories]
  BY LoggerTypesStep, ClientTypesStep, OutputTypesStep DEF IInv
<1>2. OpensWhatItNamed' /\ device' \in [Devices -> DeviceSet]
  BY DeviceStep
<1>3. References'
  BY ReferencesStep
<1>4. TypeOK'
  <2>1. (LoggerTypes /\ ClientTypes /\ References /\ OutputTypes => TypeOK)'
    BY TypesSuffice, PTL
  <2>2. OutputTypes'
    BY <1>1, <1>2 DEF OutputTypes
  <2> QED
    BY <1>1, <1>3, <2>1, <2>2
<1> QED
  BY <1>2, <1>3, <1>4, InitializationStep, DestructionStep, UsersMayStep,
     IoWithinDeviceStep, NamesAreIdsStep, NeverCrashedStep DEF IInv

THEOREM Invariant == Spec => []IInv
  BY InitInvariant, NextInvariant, PTL DEF Spec

(***************************************************************************)
(* A client that calls getLogger before all else, as the tests do, never   *)
(* makes the library use a logger that is not there: neither through the   *)
(* global pointer nor through a forwarder that the logging thread calls.   *)
(***************************************************************************)
THEOREM NothingDangles ==
  ASSUME GetsLoggerFirst
  PROVE  Spec => []NoDanglingUse
<1>1. IInv => NoDanglingUse
  BY DEF IInv, NoDanglingUse, NeverCrashed, References, IoWithinDevice
<1> QED
  BY <1>1, Invariant, PTL

(***************************************************************************)
(* After shutdown, when the last reference is gone, so are the library's   *)
(* logger and all threads, whatever was done before.                       *)
(***************************************************************************)
THEOREM ShutdownIsQuiet == Spec => []QuietAfterShutdown
<1>1. IInv => QuietAfterShutdown
  <2> SUFFICES ASSUME IInv, over, holds = {}, \A c \in Clients : Idle(c)
               PROVE  /\ logger_object \in {"none", "dead"} /\ callback = "none" /\ cb = "none"
                      /\ \A d \in Devices : io_pc[d] \in {"none", "exited"}
    BY DEF QuietAfterShutdown
  <2>1. logger_object \in {"none", "dead"}
    BY DEF IInv, TypeOK, Initialization, Destruction, Idle
  <2>2. callback = "none" /\ cb = "none"
    BY <2>1 DEF IInv, Destruction
  <2>3. \A d \in Devices : io_pc[d] \notin {"await", "play"}
    BY DEF IInv, IoWithinDevice, UsersMay, MayUse
  <2> QED
    BY <2>1, <2>2, <2>3 DEF IInv, TypeOK
<1> QED
  BY <1>1, Invariant, PTL

(***************************************************************************)
(* createDevice opens the endpoint that the client saw at its index.       *)
(***************************************************************************)
THEOREM DeviceIsTheNamed == Spec => []OpensWhatItNamed
<1>1. IInv => OpensWhatItNamed
  BY DEF IInv
<1> QED
  BY <1>1, Invariant, PTL

-----------------------------------------------------------------------------
(* SingleThreadedApartment.                                                *)

(***************************************************************************)
(* A call is live from when it has claimed the room until it is executed.  *)
(***************************************************************************)
Live(c) == caller_pc[c] = "send" \/ (caller_pc[c] = "wait" /\ ~future[c])

(***************************************************************************)
(* current_task is the live call, if there is one.  Only between set_value *)
(* and the store that clears current_task does it point to a call that is  *)
(* over, and whose caller may even have begun another.                     *)
(***************************************************************************)
RoomIsTheLiveCall ==
  /\ \A c \in Callers : Live(c) => current_task = c
  /\ apartment_pc \notin {"leave", "clear"} /\ current_task # nullptr => Live(current_task)
  /\ apartment_pc \in {"leave", "clear"} => \A c \in Callers : ~Live(c)
  /\ \A c \in Callers : caller_pc[c] \in {"claim", "send"} => ~future[c]

\* Where the apartment's thread has loaded a task and not cleared the room yet.
InHand == {"run", "set", "leave", "clear"}

(***************************************************************************)
(* There is at most one message: that of a live call which is not being    *)
(* run yet, or the quit message, when the calls are over.                  *)
(***************************************************************************)
OneMessage ==
  /\ queue \in {<<>>, <<"task">>, <<"quit">>}
  /\ queue = <<"task">> =>
       /\ current_task # nullptr /\ caller_pc[current_task] = "wait"
       /\ apartment_pc \notin InHand
  /\ queue = <<"quit">> => owner_pc = "join"
  /\ apartment_pc \in {"drain", "exited"} => queue = <<>>
  /\ apartment_pc \in InHand => task \in Callers /\ task = current_task
  /\ apartment_pc \in {"run", "set"} => caller_pc[task] = "wait"

(***************************************************************************)
(* Calls are made only between construction and destruction, and the       *)
(* thread has its queue from before the first until after the last.        *)
(***************************************************************************)
Lifetime ==
  /\ apartment_pc # "start" => has_queue
  /\ ready # 0 => apartment_pc \notin {"start", "init"}
  /\ owner_pc # "construct" => ready # 0
  /\ owner_pc # "using" => \A c \in Callers : caller_pc[c] = "idle"
  /\ apartment_pc \in {"drain", "exited"} => owner_pc \in {"join", "destroyed"}

\* STATypeOK but for the queue, which OneMessage describes.
STATyped ==
  /\ current_task \in Callers \cup {nullptr} /\ ready \in {0, 1}
  /\ has_queue \in BOOLEAN
  /\ apartment_pc \in {"start", "init", "get", "run", "set", "leave", "clear",
                       "drain", "exited"}
  /\ task \in Callers \cup {nullptr}
  /\ caller_pc \in [Callers -> {"idle", "claim", "send", "wait"}]
  /\ future \in [Callers -> BOOLEAN]
  /\ owner_pc \in {"construct", "using", "join", "destroyed"}

STAIInv == STATyped /\ RoomIsTheLiveCall /\ OneMessage /\ Lifetime

USE ApartmentAssumption DEF nullptr, apartment, callers

(***************************************************************************)
(* The message loop takes the only message there is.                       *)
(***************************************************************************)
LEMMA TailOfOne ==
  ASSUME NEW e PROVE Tail(<<e>>) = <<>>
<1>1. <<e>> \in Seq({e}) /\ <<e>> # <<>> /\ Len(<<e>>) = 1
  OBVIOUS
<1>2. Tail(<<e>>) \in Seq({e}) /\ Len(Tail(<<e>>)) = 0
  BY <1>1
<1> QED
  BY <1>2, EmptySeq

LEMMA STAInitInvariant == STAInit => STAIInv
<1> SUFFICES ASSUME STAInit PROVE STAIInv
  OBVIOUS
<1> USE DEF STAInit
<1>1. STATyped
  BY DEF STATyped
<1>2. RoomIsTheLiveCall /\ Lifetime
  BY DEF RoomIsTheLiveCall, Live, Lifetime
<1>3. OneMessage
  BY DEF OneMessage, InHand
<1> QED
  BY <1>1, <1>2, <1>3 DEF STAIInv

LEMMA STAStepInvariant == STAIInv /\ [STANext]_STAvars => STAIInv'
<1> SUFFICES ASSUME STAIInv, [STANext]_STAvars PROVE STAIInv'
  OBVIOUS
<1> USE DEF STAIInv, STATyped, RoomIsTheLiveCall, Live, OneMessage, InHand, Lifetime
\* The callers.
<1>1. ASSUME NEW c \in Callers, CallInApartment(c) PROVE STAIInv'
  <2>1. /\ \A b \in Callers : b # c => caller_pc'[b] = caller_pc[b] /\ future'[b] = future[b]
        /\ caller_pc'[c] = "claim" /\ ~future'[c] /\ caller_pc[c] = "idle"
        /\ UNCHANGED <<current_task, apartment_pc, task, queue>>
    BY <1>1 DEF CallInApartment
  <2>2. STATyped' /\ Lifetime'
    BY <1>1 DEF CallInApartment
  <2>3. RoomIsTheLiveCall'
    BY <2>1
  <2>4. queue' = <<"task">> =>
          /\ current_task' # nullptr /\ caller_pc'[current_task'] = "wait"
          /\ apartment_pc' \notin InHand
    BY <2>1
  <2>5. queue' = <<"quit">> => owner_pc' = "join"
    BY <1>1, <2>1 DEF CallInApartment
  <2>6. /\ apartment_pc' \in InHand => task' \in Callers /\ task' = current_task'
        /\ apartment_pc' \in {"run", "set"} => caller_pc'[task'] = "wait"
    BY <2>1
  <2> QED
    BY <2>1, <2>2, <2>3, <2>4, <2>5, <2>6
<1>2. ASSUME NEW c \in Callers, Claim(c) PROVE STAIInv'
  <2>1. queue # <<"task">> /\ queue # <<"quit">>
    BY <1>2 DEF Claim
  <2>2. apartment_pc \notin InHand /\ \A b \in Callers : ~Live(b)
    BY <1>2 DEF Claim
  <2>3. STATyped' /\ Lifetime'
    BY <1>2 DEF Claim
  <2>4. RoomIsTheLiveCall'
    BY <1>2, <2>2 DEF Claim
  <2> QED
    BY <1>2, <2>1, <2>2, <2>3, <2>4 DEF Claim
<1>3. ASSUME NEW c \in Callers, Send(c) PROVE STAIInv'
  <2>1. queue = <<>> /\ has_queue
    BY <1>3 DEF Send
  <2>2. queue' = <<"task">>
    BY <1>3, <2>1 DEF Send, SendMessage
  <2> QED
    BY <1>3, <2>2 DEF Send
<1>4. ASSUME NEW c \in Callers, Return(c) PROVE STAIInv'
  BY <1>4 DEF Return
\* The apartment's thread.
<1>5. CASE Start
  BY <1>5 DEF Start
<1>6. CASE GetMessage
  <2>1. queue' = <<>>
    <3>1. queue = <<"task">> \/ queue = <<"quit">>
      BY <1>6 DEF GetMessage
    <3>2. queue' = Tail(queue)
      BY <1>6 DEF GetMessage
    <3>3. Tail(<<"task">>) = <<>> /\ Tail(<<"quit">>) = <<>>
      BY TailOfOne
    <3> QED
      BY <3>1, <3>2, <3>3
  <2>2. CASE queue = <<"quit">>
    BY <1>6, <2>1, <2>2 DEF GetMessage
  <2>3. CASE queue = <<"task">>
    BY <1>6, <2>1, <2>3 DEF GetMessage
  <2> QED
    BY <1>6, <2>2, <2>3 DEF GetMessage
<1>7. CASE Run
  BY <1>7 DEF Run
<1>8. CASE SetValue
  BY <1>8 DEF SetValue
<1>9. CASE Leave
  BY <1>9 DEF Leave
<1>10. CASE Clear
  BY <1>10 DEF Clear
<1>11. CASE Drain
  BY <1>11 DEF Drain
\* The owner.
<1>12. CASE Constructed
  BY <1>12 DEF Constructed
<1>13. CASE Destroy
  <2>1. queue = <<>> /\ has_queue
    BY <1>13 DEF Destroy
  <2>2. queue' = <<"quit">>
    BY <1>13, <2>1 DEF Destroy, SendMessage
  <2> QED
    BY <1>13, <2>2 DEF Destroy
<1>14. CASE Join
  BY <1>14 DEF Join
<1>15. CASE UNCHANGED STAvars
  BY <1>15 DEF STAvars
<1> QED
  BY <1>1, <1>2, <1>3, <1>4, <1>5, <1>6, <1>7, <1>8, <1>9, <1>10, <1>11, <1>12, <1>13, <1>14, <1>15
  DEF STANext, Caller, Apartment, Destroyed

(***************************************************************************)
(* The inductive invariant holds throughout.                               *)
(***************************************************************************)
THEOREM STAInvariant == STASpec => []STAIInv
  BY STAInitInvariant, STAStepInvariant, PTL DEF STASpec

-----------------------------------------------------------------------------
(***************************************************************************)
(* Up to set_value the thread is in the call of a caller that waits for    *)
(* it, it clears the room of no task but that one, and it leaves no task   *)
(* message behind.                                                         *)
(***************************************************************************)
THEOREM ClaimedTasksRun == STASpec => []RunsClaimedTask
<1>1. ASSUME STAIInv PROVE RunsClaimedTask
  <2>1. queue \in Seq({"task", "quit"}) /\ Len(queue) <= 1
    <3>1. <<>> \in Seq({"task", "quit"}) /\ Len(<<>>) = 0
      OBVIOUS
    <3>2. /\ <<"task">> \in Seq({"task", "quit"}) /\ Len(<<"task">>) = 1
          /\ <<"quit">> \in Seq({"task", "quit"}) /\ Len(<<"quit">>) = 1
      OBVIOUS
    <3>3. queue = <<>> \/ queue = <<"task">> \/ queue = <<"quit">>
      BY <1>1 DEF STAIInv, OneMessage
    <3>4. CASE queue = <<>>
      BY <3>1, <3>4
    <3>5. CASE queue = <<"task">>
      BY <3>2, <3>5
    <3>6. CASE queue = <<"quit">>
      BY <3>2, <3>6
    <3> QED
      BY <3>3, <3>4, <3>5, <3>6
  <2>2. STATypeOK
    BY <1>1, <2>1 DEF STAIInv, STATyped, STATypeOK
  <2>3. apartment_pc \in {"run", "set"} =>
          task \in Callers /\ caller_pc[task] = "wait" /\ ~future[task]
    BY <1>1 DEF STAIInv, STATyped, OneMessage, InHand, RoomIsTheLiveCall, Live
  <2>4. apartment_pc = "drain" => ~Contains(queue, "task")
    BY <1>1 DEF STAIInv, OneMessage, Contains
  <2>5. apartment_pc \in {"leave", "clear"} => current_task = task
    BY <1>1 DEF STAIInv, OneMessage, InHand
  <2> QED
    BY <2>2, <2>3, <2>4, <2>5 DEF RunsClaimedTask
<1> QED
  BY <1>1, STAInvariant, PTL

(***************************************************************************)
(* Each call is executed exactly once, before it returns (the safety part  *)
(* of ImplementsCalls).                                                    *)
(***************************************************************************)
THEOREM IsApartmentCalls == STASpec => Calls!Spec
<1> DEFINE call == [c \in Callers |->
                      IF caller_pc[c] = "idle" THEN "none"
                      ELSE IF future[c] THEN "executed"
                      ELSE "begun"]
<1>1. STAInit => Calls!Init
  BY DEF STAInit, Calls!Init
<1>2. STAIInv /\ [STANext]_STAvars => [Calls!Next]_(Calls!vars)
  <2> SUFFICES ASSUME STAIInv, [STANext]_STAvars PROVE [Calls!Next]_(Calls!vars)
    OBVIOUS
  <2> USE DEF STAIInv, STATyped
  <2>1. ASSUME NEW c \in Callers, CallInApartment(c) PROVE Calls!Begin(c)
    BY <2>1 DEF CallInApartment, Calls!Begin
  <2>2. ASSUME NEW c \in Callers, Return(c) PROVE Calls!Return(c)
    BY <2>2 DEF Return, Calls!Return
  <2>3. ASSUME SetValue PROVE \E c \in Callers : Calls!Execute(c)
    <3>1. PICK c \in Callers : c = task /\ caller_pc[c] = "wait" /\ ~future[c]
      BY <2>3 DEF SetValue, OneMessage, InHand, RoomIsTheLiveCall, Live
    <3>2. caller_pc' = caller_pc /\ future' = [future EXCEPT ![c] = TRUE]
      BY <2>3, <3>1 DEF SetValue
    <3> QED
      BY <3>1, <3>2 DEF Calls!Execute
  <2>4. ASSUME NEW c \in Callers, Claim(c) \/ Send(c) PROVE UNCHANGED Calls!vars
    <3>1. \A b \in Callers : /\ future'[b] = future[b]
                             /\ caller_pc'[b] = "idle" <=> caller_pc[b] = "idle"
      BY <2>4 DEF Claim, Send
    <3> QED
      BY <3>1 DEF Calls!vars
  <2>5. CASE Start \/ GetMessage \/ Run \/ Leave \/ Clear \/ Drain \/ Constructed
             \/ Destroy \/ Join \/ UNCHANGED STAvars
    <3>1. UNCHANGED <<caller_pc, future>>
      BY <2>5 DEF Start, GetMessage, Run, Leave, Clear, Drain, Constructed, Destroy, Join, STAvars
    <3> QED
      BY <3>1 DEF Calls!vars
  <2>6. ASSUME NEW c \in Callers, Calls!Begin(c) \/ Calls!Return(c) \/ Calls!Execute(c)
        PROVE  Calls!Next
    BY <2>6 DEF Calls!Next, Calls!ExecuteSome
  <2> HIDE DEF call, STAIInv, STATyped
  <2>7. CASE \E c \in Callers : CallInApartment(c) \/ Caller(c)
    BY <2>1, <2>2, <2>4, <2>6, <2>7 DEF Caller
  <2>8. CASE SetValue
    BY <2>3, <2>6, <2>8
  <2> QED
    BY <2>5, <2>7, <2>8 DEF STANext, Apartment, Destroyed
<1> QED
  BY <1>1, <1>2, STAInvariant, PTL DEF STASpec, Calls!Spec

=============================================================================
