------------------------- MODULE OutputWorkerThread -------------------------
(***************************************************************************)
(* The mixing pipeline of src/audio_io/output_worker_thread.cpp.           *)
(*                                                                         *)
(* Three threads share one OutputWorkerThread object: the worker, which    *)
(* fills buffers by running the client's callback; the backend's I/O       *)
(* thread, which copies frames out of filled buffers; and the owner, which *)
(* runs the constructor and the destructor.  Buffers circulate between two *)
(* wait-free single-producer single-consumer queues, and a semaphore       *)
(* counts the commands the worker may take.                                *)
(*                                                                         *)
(* A frame is its position in the stream of frames the converter makes, so *)
(* a buffer's contents is the position of its first frame.  The semaphore  *)
(* is the one that LightweightSemaphore is shown to implement.             *)
(***************************************************************************)
EXTENDS Integers, Sequences, Functions

CONSTANTS
  mixahead,            \* number of buffers, and capacity of both queues
  destination_frames,  \* frames in one buffer, in the device's sample rate
  MaxRequest,          \* bound: the most frames one call of write asks for
  MaxWrites            \* bound: the number of calls of write

ASSUME ConstantsAssumption ==
  /\ mixahead \in Nat
  /\ destination_frames \in Nat
  /\ MaxRequest \in Nat
  /\ MaxWrites \in Nat

Buffers  == 1 .. mixahead   \* the AudioCommands of type buffer
Stop     == 0               \* the AudioCommand of type stop
NoBuffer == -1              \* nullptr

VARIABLES
  returned_buffers,     \* commands on their way to the worker
  prepared_buffers,     \* filled buffers on their way to the I/O thread
  semaphore,            \* permits left
  finished_initial_mix, \* the flag awaitInitialMix polls
  used,                 \* AudioCommand::used of every buffer
  data,                 \* first frame held by every buffer
  worker_pc, worker_cmd,\* where the worker is, the command it took
  mixed,                \* buffers counted towards the initial mix
  next_frame,           \* frames the converter has produced so far
  io_pc,                \* where the I/O thread is
  current_buffer,       \* the buffer the I/O thread is copying from
  count,                \* frames still to write in this call
  writtenThisTime,      \* result of the last writeHelper
  delivered,            \* frames copied out so far
  output,               \* what the last copy wrote to destination
  due,                  \* frames handed over by the worker when write was called
  calls,                \* calls of write so far
  owner_pc,             \* progress of the destructor
  freed                 \* buffers the destructor deleted

queues     == <<returned_buffers, prepared_buffers>>
shared     == <<semaphore, finished_initial_mix>>
contents   == <<used, data>>
workerVars == <<worker_pc, worker_cmd, mixed, next_frame>>
copyVars   == <<count, writtenThisTime, delivered, output>>
callVars   == <<due, calls>>
ioVars     == <<io_pc, current_buffer, copyVars, callVars>>
ownerVars  == <<owner_pc, freed>>
vars == <<queues, shared, contents, workerVars, ioVars, ownerVars>>

InitialPermits == mixahead

\* Mutant: the queues are one short of the number of buffers.
Capacity_OneTooFew == mixahead - 1

\* Both queues are constructed with room for every buffer.
Capacity == mixahead

(***************************************************************************)
(* What the constructor leaves behind once the worker thread is started.   *)
(***************************************************************************)
Init ==
  /\ returned_buffers = [i \in 1 .. mixahead |-> i]
  /\ prepared_buffers = <<>>
  /\ semaphore = InitialPermits
  /\ finished_initial_mix = 0
  /\ used = [b \in Buffers |-> 0]
  /\ data = [b \in Buffers |-> 0]
  /\ worker_pc = "wait" /\ worker_cmd = NoBuffer
  /\ mixed = 0 /\ next_frame = 0
  /\ io_pc = "await" /\ current_buffer = NoBuffer /\ due = 0 /\ calls = 0
  /\ count = 0 /\ writtenThisTime = 0 /\ delivered = 0
  /\ output = [first |-> 0, length |-> 0]
  /\ owner_pc = "using" /\ freed = {}

-----------------------------------------------------------------------------
(* The worker thread: OutputWorkerThread::workerThread.                    *)

\* semaphore.wait()
WorkerWait ==
  /\ worker_pc = "wait"
  /\ semaphore > 0
  /\ semaphore' = semaphore - 1
  /\ worker_pc' = "pop"
  /\ UNCHANGED <<queues, finished_initial_mix, contents, worker_cmd, mixed,
                 next_frame, ioVars, ownerVars>>

\* The pop loop; a failed pop changes nothing.
WorkerPop ==
  /\ worker_pc = "pop"
  /\ returned_buffers # <<>>
  /\ worker_cmd' = Head(returned_buffers)
  /\ returned_buffers' = Tail(returned_buffers)
  /\ worker_pc' = IF Head(returned_buffers) = Stop THEN "exited" ELSE "mix"
  /\ UNCHANGED <<prepared_buffers, shared, contents, mixed, next_frame, ioVars,
                 ownerVars>>

\* Mutant: cmd->used is not reset.
WorkerMix_NoReset ==
  /\ worker_pc = "mix"
  /\ data' = [data EXCEPT ![worker_cmd] = next_frame]
  /\ next_frame' = next_frame + destination_frames
  /\ worker_pc' = "push"
  /\ UNCHANGED <<queues, shared, used, worker_cmd, mixed, ioVars, ownerVars>>

\* Reset the buffer and fill it with the converter's next frames.
WorkerMix ==
  /\ worker_pc = "mix"
  /\ used' = [used EXCEPT ![worker_cmd] = 0]
  /\ data' = [data EXCEPT ![worker_cmd] = next_frame]
  /\ next_frame' = next_frame + destination_frames
  /\ worker_pc' = "push"
  /\ UNCHANGED <<queues, shared, worker_cmd, mixed, ioVars, ownerVars>>

\* The push loop; a push into a full queue fails and changes nothing.
WorkerPush ==
  /\ worker_pc = "push"
  /\ Len(prepared_buffers) < Capacity
  /\ prepared_buffers' = Append(prepared_buffers, worker_cmd)
  /\ worker_pc' = "count"
  /\ UNCHANGED <<returned_buffers, shared, contents, worker_cmd, mixed,
                 next_frame, ioVars, ownerVars>>

\* Mutant: the worker announces the initial mix one buffer early.
InitialMixSize_OneTooFew == mixahead - 1

InitialMixSize == mixahead

\* finishedInitialMix, the worker's local, is mixed = mixahead.
WorkerCount ==
  /\ worker_pc = "count"
  /\ mixed' = IF mixed = InitialMixSize THEN mixed ELSE mixed + 1
  /\ finished_initial_mix' =
       IF mixed' = InitialMixSize THEN 1 ELSE finished_initial_mix
  /\ worker_pc' = "wait"
  /\ UNCHANGED <<queues, semaphore, contents, worker_cmd, next_frame, ioVars,
                 ownerVars>>

Worker == WorkerWait \/ WorkerPop \/ WorkerMix \/ WorkerPush \/ WorkerCount

-----------------------------------------------------------------------------
(* The I/O thread: awaitInitialMix, then calls of write.                   *)

\* The frames the worker has handed over, by putting them in prepared_buffers.
Produced == IF worker_pc = "push" THEN next_frame - destination_frames ELSE next_frame

IoAwaitInitialMix ==
  /\ io_pc = "await"
  /\ finished_initial_mix # 0
  /\ io_pc' = "ready"
  /\ UNCHANGED <<queues, shared, contents, workerVars, current_buffer, copyVars,
                 callVars, ownerVars>>

IoWrite(n) ==
  /\ io_pc = "ready"
  /\ calls < MaxWrites
  /\ calls' = calls + 1 /\ due' = Produced
  /\ count' = n
  /\ io_pc' = "helper"
  /\ UNCHANGED <<queues, shared, contents, workerVars, current_buffer,
                 writtenThisTime, delivered, output, ownerVars>>

\* writeHelper, no current buffer: acquireBuffer finds one ...
IoAcquire ==
  /\ io_pc = "helper"
  /\ current_buffer = NoBuffer
  /\ prepared_buffers # <<>>
  /\ current_buffer' = Head(prepared_buffers)
  /\ prepared_buffers' = Tail(prepared_buffers)
  /\ UNCHANGED <<returned_buffers, shared, contents, workerVars, io_pc, copyVars,
                 callVars, ownerVars>>

\* ... or finds none, and write returns what it has.
IoUnderrun ==
  /\ io_pc = "helper"
  /\ current_buffer = NoBuffer
  /\ prepared_buffers = <<>>
  /\ writtenThisTime' = 0
  /\ io_pc' = "ready"
  /\ UNCHANGED <<queues, shared, contents, workerVars, current_buffer, count,
                 delivered, output, callVars, ownerVars>>

\* Mutant: write copies out of one buffer only.
AfterHelper_Once(written) == "ready"

\* The do-while of write goes on as long as writeHelper wrote something.
AfterHelper(written) == IF written > 0 THEN "helper" ELSE "ready"

\* Mutant: the copy is not cut at the end of the buffer.
WillWrite_Uncut(remaining) == count

WillWrite(remaining) == IF remaining < count THEN remaining ELSE count

\* Mutant: the last frame of a buffer is forgotten.
UsedUp_OneShort(frames) == frames >= destination_frames - 1

UsedUp(frames) == frames = destination_frames

\* writeHelper, the copy; a buffer that is used up is about to be released.
IoCopy ==
  LET start     == used[current_buffer]
      willWrite == WillWrite(destination_frames - start)
  IN  /\ io_pc = "helper"
      /\ current_buffer # NoBuffer
      /\ used' = [used EXCEPT ![current_buffer] = start + willWrite]
      /\ output' = [first |-> data[current_buffer] + start, length |-> willWrite]
      /\ delivered' = delivered + willWrite
      /\ count' = count - willWrite
      /\ writtenThisTime' = willWrite
      /\ io_pc' = IF UsedUp(start + willWrite) THEN "push"
                                               ELSE AfterHelper(willWrite)
      /\ UNCHANGED <<queues, shared, data, workerVars, current_buffer, callVars,
                     ownerVars>>

\* Mutant: the used up buffer is never put in the queue.
IoPush_Dropped ==
  /\ io_pc = "push"
  /\ io_pc' = "signal"
  /\ UNCHANGED <<queues, shared, contents, workerVars, current_buffer, copyVars,
                 callVars, ownerVars>>

\* releaseBuffer, the push loop.
IoPush ==
  /\ io_pc = "push"
  /\ Len(returned_buffers) < Capacity
  /\ returned_buffers' = Append(returned_buffers, current_buffer)
  /\ io_pc' = "signal"
  /\ UNCHANGED <<prepared_buffers, shared, contents, workerVars, current_buffer,
                 copyVars, callVars, ownerVars>>

\* Mutant: current_buffer is not reset to nullptr.
IoSignal_KeepsBuffer ==
  /\ io_pc = "signal"
  /\ semaphore' = semaphore + 1
  /\ io_pc' = AfterHelper(writtenThisTime)
  /\ UNCHANGED <<queues, finished_initial_mix, contents, workerVars,
                 current_buffer, copyVars, callVars, ownerVars>>

\* releaseBuffer, semaphore.signal(), and back in writeHelper.
IoSignal ==
  /\ io_pc = "signal"
  /\ semaphore' = semaphore + 1
  /\ current_buffer' = NoBuffer
  /\ io_pc' = AfterHelper(writtenThisTime)
  /\ UNCHANGED <<queues, finished_initial_mix, contents, workerVars, copyVars,
                 callVars, ownerVars>>

\* The backend's thread is finished with this object.
IoLeave ==
  /\ io_pc = "ready"
  /\ io_pc' = "gone"
  /\ UNCHANGED <<queues, shared, contents, workerVars, current_buffer, copyVars,
                 callVars, ownerVars>>

\* The steps of the I/O thread inside this object's functions.
IoStep == IoAcquire \/ IoUnderrun \/ IoCopy \/ IoPush \/ IoSignal

Io == IoAwaitInitialMix \/ (\E n \in 0 .. MaxRequest : IoWrite(n)) \/ IoStep \/ IoLeave

-----------------------------------------------------------------------------
(* The owner: OutputWorkerThread::~OutputWorkerThread.                     *)

\* A backend destroys the object only after it has joined its I/O thread.
OwnerDestroy ==
  /\ owner_pc = "using"
  /\ io_pc = "gone"
  /\ owner_pc' = "push"
  /\ UNCHANGED <<queues, shared, contents, workerVars, ioVars, freed>>

OwnerPushStop ==
  /\ owner_pc = "push"
  /\ Len(returned_buffers) < Capacity
  /\ returned_buffers' = Append(returned_buffers, Stop)
  /\ owner_pc' = "signal"
  /\ UNCHANGED <<prepared_buffers, shared, contents, workerVars, ioVars, freed>>

\* Mutant: the stop command is queued, the worker is not woken for it.
OwnerSignal_Silent ==
  /\ owner_pc = "signal"
  /\ owner_pc' = "join"
  /\ UNCHANGED <<queues, shared, contents, workerVars, ioVars, freed>>

OwnerSignal ==
  /\ owner_pc = "signal"
  /\ semaphore' = semaphore + 1
  /\ owner_pc' = "join"
  /\ UNCHANGED <<queues, finished_initial_mix, contents, workerVars, ioVars, freed>>

\* Mutant: the queues are drained without waiting for the worker.
OwnerJoin_NoWait ==
  /\ owner_pc = "join"
  /\ owner_pc' = "drain"
  /\ UNCHANGED <<queues, shared, contents, workerVars, ioVars, freed>>

OwnerJoin ==
  /\ owner_pc = "join"
  /\ worker_pc = "exited"
  /\ owner_pc' = "drain"
  /\ UNCHANGED <<queues, shared, contents, workerVars, ioVars, freed>>

\* Both drain loops: nothing else touches the queues any more.
OwnerDrain ==
  /\ owner_pc = "drain"
  /\ freed' = Range(returned_buffers) \cup Range(prepared_buffers)
  /\ returned_buffers' = <<>> /\ prepared_buffers' = <<>>
  /\ owner_pc' = "destroyed"
  /\ UNCHANGED <<shared, contents, workerVars, ioVars>>

OwnerStep == OwnerPushStop \/ OwnerSignal \/ OwnerJoin \/ OwnerDrain

Owner == OwnerDestroy \/ OwnerStep

\* The object is gone and all its threads have ended.
Destroyed == owner_pc = "destroyed" /\ UNCHANGED vars

Next == Worker \/ Io \/ Owner \/ Destroyed

(***************************************************************************)
(* The worker and whoever waits for it are scheduled; the client decides   *)
(* whether it calls write again and when it destroys the device.           *)
(***************************************************************************)
Fairness ==
  /\ WF_vars(Worker)
  /\ WF_vars(IoAwaitInitialMix) /\ WF_vars(IoStep)
  /\ WF_vars(OwnerStep)

Spec == Init /\ [][Next]_vars

FairSpec == Spec /\ Fairness

-----------------------------------------------------------------------------
(* Properties.                                                             *)

(***************************************************************************)
(* The values the code's variables can take; in particular used never runs *)
(* past the end of a buffer, whatever count the backend asks for.          *)
(***************************************************************************)
TypeOK ==
  /\ returned_buffers \in Seq(Buffers \cup {Stop})
  /\ prepared_buffers \in Seq(Buffers)
  /\ semaphore \in Nat /\ finished_initial_mix \in {0, 1}
  /\ used \in [Buffers -> 0 .. destination_frames]
  /\ data \in [Buffers -> Nat]
  /\ worker_pc \in {"wait", "pop", "mix", "push", "count", "exited"}
  /\ worker_cmd \in Buffers \cup {Stop, NoBuffer}
  /\ mixed \in 0 .. mixahead /\ next_frame \in Nat
  /\ io_pc \in {"await", "ready", "helper", "push", "signal", "gone"}
  /\ current_buffer \in Buffers \cup {NoBuffer}
  /\ count \in Nat /\ writtenThisTime \in Nat /\ delivered \in Nat
  /\ output \in [first : Nat, length : Nat]
  /\ due \in Int /\ calls \in 0 .. MaxWrites
  /\ owner_pc \in {"using", "push", "signal", "join", "drain", "destroyed"}
  /\ freed \subseteq Buffers

\* The thread that may read and write a buffer's samples and used field.
WorkerOwns == worker_pc \in {"mix", "push"}
IoOwns     == current_buffer # NoBuffer /\ io_pc # "signal"

Queued(b, queue) == \E i \in 1 .. Len(queue) : queue[i] = b

\* The stop command is in the queue from its push to the worker's exit.
StopQueued == owner_pc \in {"signal", "join"} /\ worker_pc # "exited"

One(condition) == IF condition THEN 1 ELSE 0

(***************************************************************************)
(* "If we got a buffer, there must be room to push the buffer, so this     *)
(* loop can't wait forever" (output_worker_thread.cpp:73), and the same    *)
(* for the I/O thread, which must never block: whenever either thread is   *)
(* at its push loop, the first push succeeds; and so does the first pop    *)
(* after semaphore.wait() (line 68), since a permit is only ever there for *)
(* a command that is already in the queue.                                 *)
(***************************************************************************)
LoopsNeverSpin ==
  /\ worker_pc = "push" => Len(prepared_buffers) < Capacity
  /\ io_pc = "push" => Len(returned_buffers) < Capacity
  /\ worker_pc = "pop" => returned_buffers # <<>>

(***************************************************************************)
(* No buffer is in two places, so the worker and the I/O thread never      *)
(* touch the samples of one buffer at once, and no buffer is queued twice. *)
(***************************************************************************)
OneOwner ==
  /\ \A i, j \in 1 .. Len(returned_buffers) :
       returned_buffers[i] = returned_buffers[j] => i = j
  /\ \A i, j \in 1 .. Len(prepared_buffers) :
       prepared_buffers[i] = prepared_buffers[j] => i = j
  /\ \A i \in 1 .. Len(returned_buffers) : ~Queued(returned_buffers[i], prepared_buffers)
  /\ WorkerOwns => ~Queued(worker_cmd, returned_buffers) /\ ~Queued(worker_cmd, prepared_buffers)
  /\ IoOwns => ~Queued(current_buffer, returned_buffers) /\ ~Queued(current_buffer, prepared_buffers)
  /\ WorkerOwns /\ IoOwns => worker_cmd # current_buffer

(***************************************************************************)
(* No buffer drops out of circulation: until the destructor deletes them,  *)
(* the queues, the worker and the I/O thread hold mixahead buffers.        *)
(***************************************************************************)
NoBufferLost ==
  owner_pc # "destroyed" =>
    Len(returned_buffers) + Len(prepared_buffers) + One(WorkerOwns) + One(IoOwns)
      = mixahead + One(StopQueued)

(***************************************************************************)
(* Every buffer is in exactly one place until the destructor deletes it.   *)
(***************************************************************************)
EachBufferOnce == OneOwner /\ NoBufferLost

(***************************************************************************)
(* Frames reach the device in the order the converter made them, none      *)
(* lost, none repeated, whatever the sizes of the requests (writeHelper):  *)
(* the next frame of the buffer being copied is the next one due, and the  *)
(* buffers waiting behind it continue the stream.                          *)
(***************************************************************************)
StreamInOrder ==
  /\ IoOwns => data[current_buffer] + used[current_buffer] = delivered
  /\ \A i \in 1 .. Len(prepared_buffers) :
       data[prepared_buffers[i]] =
         IF i > 1 THEN data[prepared_buffers[i - 1]] + destination_frames
         ELSE IF IoOwns THEN data[current_buffer] + destination_frames
         ELSE delivered

(***************************************************************************)
(* "The returned value is less than count if enough data isn't available.  *)
(* You can use this to detect underruns" (output_worker_thread.hpp:34):    *)
(* when write returns short, everything the worker had handed over when it *)
(* was called has been written.                                           *)
(***************************************************************************)
ShortOnlyOnUnderrun ==
  [][io_pc # "ready" /\ io_pc' = "ready" /\ io_pc # "await" =>
       count' = 0 \/ delivered' >= due]_vars

(***************************************************************************)
(* "Wait for us to have mixed enough audio to start up"                    *)
(* (output_worker_thread.hpp:37): when awaitInitialMix returns, mixahead   *)
(* buffers are prepared, and they stay there until the first write.        *)
(***************************************************************************)
InitialMixIsReady ==
  io_pc = "ready" /\ calls = 0 => Len(prepared_buffers) = mixahead

(***************************************************************************)
(* The worker takes every command queued before the stop command (lines    *)
(* 35-37), so after the join only prepared buffers are left to delete, and *)
(* the destructor deletes every buffer except the partly copied one that   *)
(* current_buffer still points to, which it never looks at.                *)
(***************************************************************************)
DestructorFreesQueued ==
  /\ owner_pc = "drain" => returned_buffers = <<>>
  /\ owner_pc = "destroyed" => freed = Buffers \ {current_buffer}

(***************************************************************************)
(* awaitInitialMix returns.                                                *)
(***************************************************************************)
AwaitReturns == <>(io_pc = "ready")

(***************************************************************************)
(* awaitInitialMix returns, and so does the destructor once it is called:  *)
(* the worker cannot sleep through the initial mix or the stop command.    *)
(***************************************************************************)
CallsReturn ==
  /\ AwaitReturns
  /\ (owner_pc = "push") ~> (owner_pc = "destroyed")

(***************************************************************************)
(* The worker and the I/O thread together implement a FrameStream: a block *)
(* counts as mixed once it is in prepared_buffers, the stream is closed    *)
(* when the destructor deletes the buffers.  Each copy hands out exactly   *)
(* the frames that follow the last copy's, mixing goes on while there is   *)
(* room, and stays within mixahead blocks: the latency that parameter      *)
(* stands for.                                                             *)
(***************************************************************************)
Stream == INSTANCE FrameStream WITH
  pending  <- Produced - delivered,
  in_order <- output.first + output.length = delivered,
  open     <- owner_pc # "destroyed"

ImplementsFrameStream == Stream!FairSpec

-----------------------------------------------------------------------------
(* What makes the properties above inductive; proved to be invariant in    *)
(* OutputWorkerThreadProofs.                                               *)

\* The stop command is behind every buffer, and nothing follows it.
StopIsLast ==
  \A i \in 1 .. Len(returned_buffers) :
    returned_buffers[i] = Stop <=> StopQueued /\ i = Len(returned_buffers)

\* Which thread is where when it holds a buffer, and during the destructor.
Holding ==
  /\ worker_pc \in {"mix", "push", "count"} => worker_cmd \in Buffers
  /\ io_pc = "await" => current_buffer = NoBuffer
  /\ io_pc \in {"push", "signal"} => current_buffer \in Buffers
  /\ owner_pc # "using" => io_pc = "gone"
  /\ StopQueued => returned_buffers # <<>>
  /\ worker_pc = "exited" =>
       owner_pc \in {"signal", "join", "drain", "destroyed"} /\ returned_buffers = <<>>
  /\ owner_pc \in {"drain", "destroyed"} => worker_pc = "exited"

\* Every permit, given or about to be given, stands for a queued command.
SemaphoreCounts ==
  semaphore + One(worker_pc = "pop") + One(io_pc = "signal") + One(owner_pc = "signal")
    = Len(returned_buffers)

\* How much of every filled buffer has been copied out.
UsedCounts ==
  /\ worker_pc = "push" => used[worker_cmd] = 0
  /\ \A i \in 1 .. Len(prepared_buffers) : used[prepared_buffers[i]] = 0
  /\ io_pc = "push" => used[current_buffer] = destination_frames

\* The last filled buffer ends the stream, and the worker's continues it.
StreamEnd ==
  /\ worker_pc = "push" => data[worker_cmd] = next_frame - destination_frames
  /\ owner_pc # "destroyed" =>
       Produced = IF prepared_buffers # <<>>
                    THEN data[prepared_buffers[Len(prepared_buffers)]] + destination_frames
                  ELSE IF IoOwns THEN data[current_buffer] + destination_frames
                  ELSE delivered

\* What the I/O thread can still copy out.
Pending ==
  owner_pc # "destroyed" =>
    Produced = delivered + Len(prepared_buffers) * destination_frames
                 + IF IoOwns THEN destination_frames - used[current_buffer] ELSE 0

\* Until the first write, the worker only fills buffers.
MixCounts ==
  /\ finished_initial_mix = 1 => mixed = mixahead
  /\ io_pc # "await" => finished_initial_mix = 1
  /\ io_pc \in {"helper", "push", "signal"} => calls > 0
  /\ io_pc = "await" \/ (io_pc = "ready" /\ calls = 0) =>
       /\ current_buffer = NoBuffer
       /\ Len(prepared_buffers) = mixed + One(worker_pc = "count")

\* A copy of nothing is the end of the call.
CallCounts ==
  /\ due <= Produced
  /\ IoOwns /\ io_pc # "push" => used[current_buffer] < destination_frames
                                \/ destination_frames = 0
  /\ io_pc \in {"push", "signal"} /\ writtenThisTime = 0 =>
       count = 0 \/ destination_frames = 0

(***************************************************************************)
(* The inductive invariant.                                                *)
(***************************************************************************)
IInv ==
  /\ TypeOK /\ StopIsLast /\ Holding
  /\ NoBufferLost /\ SemaphoreCounts /\ OneOwner
  /\ UsedCounts /\ StreamInOrder /\ StreamEnd /\ Pending
  /\ MixCounts /\ CallCounts

=============================================================================
