-------------------------- MODULE AlsaOutputDevice --------------------------
(***************************************************************************)
(* AlsaOutputDevice (src/audio_io/alsa/output_device.cpp): the I/O thread  *)
(* that moves frames from an OutputWorkerThread to an ALSA device, the     *)
(* client that stops and destroys the device object, and the device        *)
(* itself, which plays, runs out of frames, and may be unplugged.          *)
(*                                                                         *)
(* The OutputWorkerThread appears as the FrameStream that it is proved to  *)
(* implement; only the number of its pending frames matters here.          *)
(***************************************************************************)
EXTENDS Integers

CONSTANTS
  mixahead, destination_frames,  \* the two parameters of the FrameStream
  alsa_buffer_frames             \* the device's buffer, and its start threshold

ASSUME AlsaAssumption ==
  /\ mixahead \in Nat \ {0} /\ destination_frames \in Nat \ {0}
  /\ alsa_buffer_frames \in Nat \ {0}

VARIABLES
  pending, in_order, open,  \* the FrameStream
  worker_running,           \* the atomic flag
  stopped,                  \* stop() has completed
  io_pc,                    \* where the I/O thread is
  available, written,       \* its locals
  pcm,                      \* state of the ALSA device
  queued,                   \* frames in the device's buffer
  handle,                   \* whether device_handle is open
  owner_pc                  \* progress of stop() and the destructor

Stream == INSTANCE FrameStream

stream == <<pending, in_order, open>>
local  == <<io_pc, available, written>>
device == <<pcm, queued, handle>>
owner  == <<worker_running, stopped, owner_pc>>
vars   == <<stream, local, device, owner>>

\* The constructor has prepared the device and started both threads.
Init ==
  /\ Stream!Init
  /\ io_pc = "await" /\ available = 0 /\ written = 0
  /\ pcm = "prepared" /\ queued = 0 /\ handle = "open"
  /\ worker_running = TRUE /\ stopped = FALSE /\ owner_pc = "using"

-----------------------------------------------------------------------------
(* The I/O thread: workerThreadFunction.                                   *)

IoAwaitInitialMix ==
  /\ io_pc = "await"
  /\ pending = mixahead * destination_frames
  /\ io_pc' = "loop"
  /\ UNCHANGED <<stream, available, written, device, owner>>

\* while(worker_running.test_and_set())
IoLoop ==
  /\ io_pc = "loop"
  /\ io_pc' = IF worker_running THEN "avail" ELSE "drain"
  /\ worker_running' = TRUE
  /\ UNCHANGED <<stream, available, written, device, stopped, owner_pc>>

\* What snd_pcm_avail_update, snd_pcm_writei and snd_pcm_wait do not fail in.
Usable == pcm \in {"prepared", "running"}

\* Mutant: snd_pcm_recover's work is not done.
Recover_Nothing(next) ==
  \/ /\ pcm = "xrun" /\ io_pc' = next
     /\ UNCHANGED device
  \/ /\ pcm = "unplugged" /\ io_pc' = "cleanup"
     /\ UNCHANGED device

\* ALSAREC: snd_pcm_recover prepares the device again, or gives up on it.
Recover(next) ==
  \/ /\ pcm = "xrun" /\ io_pc' = next
     /\ pcm' = "prepared" /\ queued' = 0
     /\ UNCHANGED handle
  \/ /\ pcm = "unplugged" /\ io_pc' = "cleanup"
     /\ UNCHANGED device

\* Mutant: the whole buffer is asked for.
Available_Whole == alsa_buffer_frames

Available == alsa_buffer_frames - queued

IoAvail ==
  /\ io_pc = "avail"
  /\ \/ /\ Usable
        /\ available' = Available /\ written' = 0 /\ io_pc' = "write"
        /\ UNCHANGED device
     \/ /\ Recover("loop")
        /\ UNCHANGED <<available, written>>
  /\ UNCHANGED <<stream, owner>>

\* Mutant: write copies whole blocks, whatever room there is.
IoCopy_WholeBlocks ==
  /\ io_pc = "write"
  /\ written < available
  /\ Stream!Deliver(destination_frames)
  /\ written' = written + destination_frames
  /\ UNCHANGED <<io_pc, available, device, owner>>

\* OutputWorkerThread::write copies piece after piece ...
IoCopy ==
  /\ io_pc = "write"
  /\ \E frames \in 1 .. available - written :
       Stream!Deliver(frames) /\ written' = written + frames
  /\ UNCHANGED <<io_pc, available, device, owner>>

\* ... until it has what was asked for or there is nothing left.
IoWritten ==
  /\ io_pc = "write"
  /\ written = available \/ pending = 0
  /\ io_pc' = "writei"
  /\ UNCHANGED <<stream, available, written, device, owner>>

\* The device starts once it is full.
IoWritei ==
  /\ io_pc = "writei"
  /\ \/ /\ Usable
        /\ queued' = IF queued + written <= alsa_buffer_frames THEN queued + written
                                                              ELSE alsa_buffer_frames
        /\ pcm' = IF queued' = alsa_buffer_frames THEN "running" ELSE pcm
        /\ io_pc' = "wait"
        /\ UNCHANGED handle
     \/ Recover("wait")
  /\ UNCHANGED <<stream, available, written, owner>>

\* snd_pcm_wait returns when there is room, and after 200ms if there is none.
IoWait ==
  /\ io_pc = "wait"
  /\ \/ /\ Usable /\ io_pc' = "loop"
        /\ UNCHANGED device
     \/ Recover("loop")
  /\ UNCHANGED <<stream, available, written, owner>>

\* snd_pcm_drain does not wait on a non-blocking device.
IoDrainAndClose ==
  /\ io_pc = "drain"
  /\ io_pc' = "cleanup"
  /\ handle' = "closed" /\ queued' = 0
  /\ UNCHANGED <<stream, available, written, pcm, owner>>

IoCleanup ==
  /\ io_pc = "cleanup"
  /\ io_pc' = "finished"
  /\ UNCHANGED <<stream, available, written, device, owner>>

Io ==
  \/ IoAwaitInitialMix \/ IoLoop \/ IoAvail \/ IoCopy \/ IoWritten \/ IoWritei
  \/ IoWait \/ IoDrainAndClose \/ IoCleanup

-----------------------------------------------------------------------------
(* The worker thread, and the client.                                      *)

Mix == Stream!Mix /\ UNCHANGED <<local, device, owner>>

\* Mutant: the flag is not cleared.
StopRequest_NoClear ==
  /\ owner_pc = "using" /\ ~stopped
  /\ owner_pc' = "join"
  /\ UNCHANGED <<worker_running, stream, local, device, stopped>>

\* stop(), called by the client or by the destructor.
StopRequest ==
  /\ owner_pc = "using" /\ ~stopped
  /\ worker_running' = FALSE
  /\ owner_pc' = "join"
  /\ UNCHANGED <<stream, local, device, stopped>>

\* Mutant: the I/O thread is not waited for.
StopJoin_NoWait ==
  /\ owner_pc = "join"
  /\ stopped' = TRUE /\ owner_pc' = "stopped"
  /\ UNCHANGED <<stream, local, device, worker_running>>

StopJoin ==
  /\ owner_pc = "join"
  /\ io_pc = "finished"
  /\ stopped' = TRUE /\ owner_pc' = "stopped"
  /\ UNCHANGED <<stream, local, device, worker_running>>

\* The destructor calls stop() before its base class releases the worker.
Destroy ==
  /\ owner_pc = "stopped"
  /\ Stream!Close
  /\ owner_pc' = "destroyed"
  /\ UNCHANGED <<local, device, worker_running, stopped>>

Owner == StopRequest \/ StopJoin \/ Destroy

-----------------------------------------------------------------------------
(* The device.                                                             *)

Play ==
  /\ pcm = "running" /\ handle = "open"
  /\ IF queued > 0 THEN queued' = queued - 1 /\ UNCHANGED pcm
                   ELSE pcm' = "xrun" /\ UNCHANGED queued
  /\ UNCHANGED <<stream, local, handle, owner>>

Unplug ==
  /\ pcm # "unplugged"
  /\ pcm' = "unplugged"
  /\ UNCHANGED <<stream, local, queued, handle, owner>>

Finished == owner_pc = "destroyed" /\ UNCHANGED vars

Next == Io \/ Mix \/ Owner \/ Play \/ Unplug \/ Finished

\* Both threads run, and a stop() that was called goes on; nothing is assumed
\* of the device, which may keep pace or fail at any time.
Spec     == Init /\ [][Next]_vars
FairSpec == Spec /\ WF_vars(Io) /\ WF_vars(Mix) /\ WF_vars(StopJoin)

-----------------------------------------------------------------------------
(* Properties.                                                             *)

(***************************************************************************)
(* The values the code's variables take.                                   *)
(***************************************************************************)
TypeOK ==
  /\ pending \in 0 .. mixahead * destination_frames
  /\ in_order = TRUE /\ open \in BOOLEAN
  /\ worker_running \in BOOLEAN /\ stopped \in BOOLEAN
  /\ io_pc \in {"await", "loop", "avail", "write", "writei", "wait", "drain",
                "cleanup", "finished"}
  /\ available \in 0 .. alsa_buffer_frames /\ written \in 0 .. available
  /\ pcm \in {"prepared", "running", "xrun", "unplugged"}
  /\ queued \in 0 .. alsa_buffer_frames /\ handle \in {"open", "closed"}
  /\ owner_pc \in {"using", "join", "stopped", "destroyed"}

(***************************************************************************)
(* The room seen by snd_pcm_avail_update is still there when the frames    *)
(* are mixed and written (lines 136-152), so snd_pcm_writei, whose result  *)
(* is only checked for errors, never takes fewer than it is given.         *)
(***************************************************************************)
WritesFit ==
  /\ TypeOK
  /\ io_pc = "writei" /\ Usable => written <= alsa_buffer_frames - queued

(***************************************************************************)
(* When stop() has returned, the I/O thread, which calls the worker's      *)
(* object without any lock, has ended, and the device is closed, unless it *)
(* failed and the thread ended at CLEANUP, past snd_pcm_close; the worker  *)
(* is destroyed only then, as ~OutputWorkerThread relies on when it says   *)
(* that nothing else manipulates the queues.                               *)
(***************************************************************************)
StopEndsIo ==
  /\ stopped => io_pc = "finished" /\ (pcm # "unplugged" => handle = "closed")
  /\ ~open => io_pc = "finished"

(***************************************************************************)
(* "This function makes sure that the output device is stopped, blocking   *)
(* until it stops" (audio_io.hpp:57): stop() returns, whatever the I/O     *)
(* thread was doing and whatever the device does.                          *)
(***************************************************************************)
StopReturns == (owner_pc = "join") ~> (owner_pc = "stopped")

(***************************************************************************)
(* Until it is stopped or unplugged, the device always plays again: it is  *)
(* filled up to its start threshold when the thread starts, and again      *)
(* after every underrun, also when the worker is behind.                   *)
(***************************************************************************)
PlaybackResumes ==
  (pcm # "running") ~> (pcm \in {"running", "unplugged"} \/ owner_pc # "using")

=============================================================================
