------------------------- MODULE WasapiOutputDevice -------------------------
(***************************************************************************)
(* WasapiOutputDevice (src/audio_io/wasapi/output_device.cpp): the mixing  *)
(* thread that copies frames from an OutputWorkerThread into the packets   *)
(* of a shared-mode WASAPI client, the client of the library that stops    *)
(* and destroys the device object, and the device, which plays at its own  *)
(* pace and may be invalidated, after which every call to it fails.        *)
(*                                                                         *)
(* The OutputWorkerThread appears as the FrameStream that it is proved to  *)
(* implement; only the number of its pending frames matters here.          *)
(***************************************************************************)
EXTENDS Integers

CONSTANTS
  mixahead, destination_frames,  \* the two parameters of the FrameStream
  bufferSize                     \* frames the device has room for

ASSUME WasapiAssumption ==
  /\ mixahead \in Nat \ {0} /\ destination_frames \in Nat \ {0}
  /\ bufferSize \in Nat \ {0}

VARIABLES
  pending, in_order, open,   \* the FrameStream
  should_continue,           \* the atomic flag
  stopped,                   \* stop() has completed
  mixer_pc,                  \* where the mixing thread is
  toRequest, written,        \* frames asked of write, and written so far
  renderClient,              \* result of GetService
  padding,                   \* frames in the device's buffer
  started,                   \* between client->Start and client->Stop
  valid,                     \* the device has not been invalidated
  lost,                      \* frames were mixed and not handed over
  owner_pc                   \* progress of stop() and the destructor

Stream == INSTANCE FrameStream

stream == <<pending, in_order, open>>
local  == <<mixer_pc, toRequest, written, renderClient>>
device == <<padding, started, valid>>
owner  == <<should_continue, stopped, owner_pc>>
vars   == <<stream, local, device, lost, owner>>

\* The constructor has initialized the client and started both threads.
Init ==
  /\ Stream!Init
  /\ mixer_pc = "await" /\ toRequest = 0 /\ written = 0 /\ renderClient = "none"
  /\ padding = 0 /\ started = FALSE /\ valid = TRUE /\ lost = FALSE
  /\ should_continue = TRUE /\ stopped = FALSE /\ owner_pc = "using"

-----------------------------------------------------------------------------
(* The mixing thread: wasapiMixingThreadFunction.                          *)

AwaitInitialMix ==
  /\ mixer_pc = "await"
  /\ pending = mixahead * destination_frames
  /\ mixer_pc' = "com"
  /\ UNCHANGED <<stream, toRequest, written, renderClient, device, lost, owner>>

\* CoInitializeEx may fail, and the thread ends.
CoInitialize ==
  /\ mixer_pc = "com"
  /\ mixer_pc' \in {"service", "finished"}
  /\ UNCHANGED <<stream, toRequest, written, renderClient, device, lost, owner>>

\* GetBufferSize and GetService, whose results are not checked: if the device
\* has failed already, the size is an uninitialized value, which the program
\* may not survive allocating, and the render client is a null pointer.
GetService ==
  /\ mixer_pc = "service"
  /\ renderClient' = IF valid THEN "valid" ELSE "null"
  /\ mixer_pc' \in IF valid THEN {"start"} ELSE {"start", "crashed"}
  /\ UNCHANGED <<stream, toRequest, written, device, lost, owner>>

Start ==
  /\ mixer_pc = "start"
  /\ started' = valid
  /\ mixer_pc' = "loop"
  /\ UNCHANGED <<stream, toRequest, written, renderClient, padding, valid, lost, owner>>

\* while(should_continue.test_and_set())
Loop ==
  /\ mixer_pc = "loop"
  /\ mixer_pc' = IF should_continue THEN "padding" ELSE "stop"
  /\ should_continue' = TRUE
  /\ UNCHANGED <<stream, toRequest, written, renderClient, device, lost, stopped,
                 owner_pc>>

\* Mutant: the whole buffer is asked for.
Room_Whole == {bufferSize}

\* padding stays 0 when GetCurrentPadding fails.
Room ==
  IF valid THEN {bufferSize - padding}
  ELSE IF renderClient = "null" THEN 0 .. bufferSize ELSE {bufferSize}

GetCurrentPadding ==
  /\ mixer_pc = "padding"
  /\ toRequest' \in Room /\ written' = 0
  /\ mixer_pc' = "write"
  /\ UNCHANGED <<stream, renderClient, device, lost, owner>>

\* Mutant: write copies whole blocks, whatever room there is.
Copy_WholeBlocks ==
  /\ mixer_pc = "write"
  /\ written < toRequest
  /\ Stream!Deliver(destination_frames)
  /\ written' = written + destination_frames
  /\ UNCHANGED <<mixer_pc, toRequest, renderClient, device, lost, owner>>

\* OutputWorkerThread::write copies piece after piece ...
Copy ==
  /\ mixer_pc = "write"
  /\ \E frames \in 1 .. toRequest - written :
       Stream!Deliver(frames) /\ written' = written + frames
  /\ UNCHANGED <<mixer_pc, toRequest, renderClient, device, lost, owner>>

\* ... until it has what was asked for or there is nothing left.
Written ==
  /\ mixer_pc = "write"
  /\ written = toRequest \/ pending = 0
  /\ mixer_pc' = IF written = 0 THEN "loop" ELSE "packet"
  /\ UNCHANGED <<stream, toRequest, written, renderClient, device, lost, owner>>

\* Mutant: the packet is not released.
ReleaseBuffer_Not == padding

ReleaseBuffer == padding + written

\* GetBuffer, which fails if the packet does not fit; the copy; ReleaseBuffer;
\* and the wait, which returns at once.
GetBuffer ==
  /\ mixer_pc = "packet"
  /\ IF renderClient = "null"
       THEN mixer_pc' = "crashed" /\ UNCHANGED <<padding, lost>>
     ELSE IF valid /\ written <= bufferSize - padding
       THEN mixer_pc' = "loop" /\ padding' = ReleaseBuffer /\ UNCHANGED lost
     ELSE mixer_pc' = "loop" /\ lost' = TRUE /\ UNCHANGED padding
  /\ UNCHANGED <<stream, toRequest, written, renderClient, started, valid, owner>>

StopAndReset ==
  /\ mixer_pc = "stop"
  /\ started' = FALSE /\ padding' = 0
  /\ mixer_pc' = "finished"
  /\ UNCHANGED <<stream, toRequest, written, renderClient, valid, lost, owner>>

Mixer ==
  \/ AwaitInitialMix \/ CoInitialize \/ GetService \/ Start \/ Loop
  \/ GetCurrentPadding \/ Copy \/ Written \/ GetBuffer \/ StopAndReset

-----------------------------------------------------------------------------
(* The worker thread, and the library's client.                            *)

Alive == mixer_pc # "crashed"

Mix == Alive /\ Stream!Mix /\ UNCHANGED <<local, device, lost, owner>>

\* Mutant: the flag is not cleared.
StopRequest_NoClear ==
  /\ Alive /\ owner_pc = "using"
  /\ owner_pc' = "join"
  /\ UNCHANGED <<should_continue, stream, local, device, lost, stopped>>

\* stop(), called by the client or by the destructor.
StopRequest ==
  /\ Alive /\ owner_pc = "using"
  /\ should_continue' = FALSE
  /\ owner_pc' = "join"
  /\ UNCHANGED <<stream, local, device, lost, stopped>>

\* Mutant: the mixing thread is not waited for.
StopJoin_NoWait ==
  /\ owner_pc = "join"
  /\ stopped' = TRUE /\ owner_pc' = "stopped"
  /\ UNCHANGED <<stream, local, device, lost, should_continue>>

StopJoin ==
  /\ owner_pc = "join"
  /\ mixer_pc = "finished"
  /\ stopped' = TRUE /\ owner_pc' = "stopped"
  /\ UNCHANGED <<stream, local, device, lost, should_continue>>

\* The destructor calls stop() before its base class releases the worker.
Destroy ==
  /\ owner_pc = "stopped"
  /\ Stream!Close
  /\ owner_pc' = "destroyed"
  /\ UNCHANGED <<local, device, lost, should_continue, stopped>>

Owner == StopRequest \/ StopJoin \/ Destroy

-----------------------------------------------------------------------------
(* The device.                                                             *)

Play ==
  /\ started /\ valid /\ padding > 0
  /\ padding' = padding - 1
  /\ UNCHANGED <<stream, local, started, valid, lost, owner>>

Invalidate ==
  /\ valid
  /\ valid' = FALSE
  /\ UNCHANGED <<stream, local, padding, started, lost, owner>>

\* The program has ended, or the device object has.
Finished == (owner_pc = "destroyed" \/ ~Alive) /\ UNCHANGED vars

Next == Mixer \/ Mix \/ Owner \/ Play \/ Invalidate \/ Finished

\* Both threads run, and a stop() that was called goes on; nothing is assumed
\* of the device.
Spec     == Init /\ [][Next]_vars
FairSpec == Spec /\ WF_vars(Mixer) /\ WF_vars(Mix) /\ WF_vars(StopJoin)

-----------------------------------------------------------------------------
(* Properties.                                                             *)

(***************************************************************************)
(* The values the code's variables take; write never returns more than it  *)
(* was asked for, and the device's buffer is never overrun.                *)
(***************************************************************************)
TypeOK ==
  /\ pending \in 0 .. mixahead * destination_frames
  /\ in_order = TRUE /\ open \in BOOLEAN
  /\ should_continue \in BOOLEAN /\ stopped \in BOOLEAN
  /\ mixer_pc \in {"await", "com", "service", "start", "loop", "padding", "write",
                   "packet", "stop", "finished", "crashed"}
  /\ toRequest \in 0 .. bufferSize /\ written \in 0 .. toRequest
  /\ renderClient \in {"none", "valid", "null"}
  /\ padding \in 0 .. bufferSize /\ started \in BOOLEAN
  /\ valid \in BOOLEAN /\ lost \in BOOLEAN
  /\ owner_pc \in {"using", "join", "stopped", "destroyed"}

(***************************************************************************)
(* Frames taken from the worker are gone if GetBuffer refuses the packet   *)
(* (line 140).  The device only plays between the look at the padding and  *)
(* GetBuffer, so that the packet fits and a valid device gets every frame. *)
(***************************************************************************)
NothingLost == TypeOK /\ (lost => ~valid)

(***************************************************************************)
(* When stop() has returned, the mixing thread, which calls the worker's   *)
(* object without any lock, has ended, and the device does not play what   *)
(* is left in its buffer; the worker is destroyed only then.               *)
(***************************************************************************)
StopEndsMixing ==
  /\ stopped => mixer_pc = "finished" /\ ~started
  /\ ~open => mixer_pc = "finished"

(***************************************************************************)
(* stop() returns, whatever the mixing thread was doing and whatever the   *)
(* device does, as long as the program goes on.                            *)
(***************************************************************************)
StopReturns == (owner_pc = "join") ~> (owner_pc = "stopped" \/ ~Alive)

(***************************************************************************)
(* A device that has run empty is fed again, until it is stopped, fails,   *)
(* or had no mixing thread in the first place.                             *)
(***************************************************************************)
FedAgain ==
  (padding = 0) ~> (padding > 0 \/ ~valid \/ owner_pc # "using" \/ mixer_pc = "finished")

=============================================================================
