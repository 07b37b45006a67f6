# A verification project for audio_io

audio_io plays audio on Windows (WASAPI) and Linux (ALSA): a client supplies a
callback that fills blocks of samples, and the library runs it on a background
thread, converts the blocks to the device's sample rate and channels, and hands
them to the device in time. This directory holds TLA+ modules that model the
library's threads and algorithms, TLC configurations that check them on small
instances, and proofs, checked by TLAPS, of what matters most for every
instance.

Paths are relative to the root of the repository.

## The system

```
 client callback
      |  blocks of input_frames frames
 SampleFormatConverter  (+ ResamplerImplementation, Speex)
      |  destination_frames frames at the device's rate
 OutputWorkerThread     worker thread, two queues, LightweightSemaphore
      |  write(count): any number of frames
 AlsaOutputDevice / WasapiOutputDevice   I/O thread, stop()
      |
 the sound device

 around it:  factories, which open the devices;  the global Logger, which every
 component and every thread logs through;  SingleThreadedApartment (COM calls of
 WASAPI);  powercores (thread start, queue, thread pool, thread-local variables)
```

| Component | Source | State | Operations | What is hard |
|---|---|---|---|---|
| OutputWorkerThread | `src/audio_io/output_worker_thread.cpp` | two lock-free queues of buffers, a semaphore, a flag, the buffer being copied | mix (worker), awaitInitialMix, write (I/O thread), destructor (owner) | three threads without a lock; loops that must never spin; partial copies; shutdown through the queue |
| LightweightSemaphore | `include/audio_io/private/semaphore.hpp` | atomic count, kernel semaphore | wait, tryWait, signal(n) | a signal between the decision to sleep and the sleep |
| AlsaOutputDevice | `src/audio_io/alsa/output_device.cpp` | stop flag, PCM handle | I/O loop, stop, destructor | underruns, unplugging, room that is stale when used |
| WasapiOutputDevice | `src/audio_io/wasapi/output_device.cpp` | stop flag, render client | mixing loop, stop, destructor | invalidation at any call, unchecked results |
| SampleFormatConverter, ResamplerImplementation, Speex | `src/audio_io/format_conversion/sample_format_converter.cpp`, `speex_resampler_cpp/` | output buffer and position, queue of input blocks, position and fraction | write, refillOutputBuffer | five lengths that never match; drift; latency; overflow |
| Logger | `logger_singleton/` | queue, level, callback, format workspace | submit, set level and callback, logging thread, destructor | lost wakeups, draining at exit, data used after unlock |
| SingleThreadedApartment | `src/audio_io/helpers/windows/single_threaded_apartment.cpp` | one task slot, message queue | callInApartment, message loop, constructor, destructor | tasks on the callers' stacks, competing callers, quit |
| ThreadPool, ThreadsafeQueue | `powercores/` | a queue per thread, barrier counters | submit in five ways, barrier, stop, setThreadCount | barriers spread over batches, notification |
| Factories, common output | `src/audio_io/*/output_factory.cpp`, `src/audio_io/common/` | lists of devices | getOutputDeviceFactory, rescan, createDevice | lists that go stale; devices that outlive their factory |
| Logging lifecycle | `src/audio_io/logging.cpp`, `initialization.cpp` | the global pointer to the logger, a once flag, reference counts | getLogger, every log call, shutdown | a raw pointer that every thread uses unlocked; creation that fails half way |
| ThreadLocalVariable | `powercores/include/powercores/thread_local_variable.hpp`, `utilities.cpp` | a map of weak pointers, passed around by an atomic pointer; references per thread | operator\*, thread exit, destructor | throwing creators, entries of dead threads, variables that die first |
| LatencyPredictor | `src/audio_io/common/latency_predictor.cpp` | history of durations | endPass, hadUnderrun, predict | bounds; unused |
| Remixing | `src/audio_io/format_conversion/remix.cpp`, `mixing_matrices.cpp` | none | remix, interleaved or not | strides, tables of weights |

Properties that make a component correct are listed with its module below, and
the hazards each property is for, by line, in `PROJECT.json`.

## Modules

### OutputWorkerThread, FrameStream, OutputWorkerThreadProofs (the core)

`OutputWorkerThread` has the worker thread, the backend's I/O thread and the
owner as processes; each action is one queue, semaphore or flag operation with
the private computation up to the next. Variables keep the names of the code;
`worker_pc`, `io_pc` and `owner_pc` are the positions in `workerThread`,
`write`/`writeHelper`/`releaseBuffer` and the destructor. Samples are abstracted
to their position in the stream the converter produces, so that "in order, none
lost, none twice" can be stated: a buffer's `data` is the position of its first
frame. The semaphore is a counter, which `LightweightSemaphore` is shown to
implement. `due`, `delivered`, `output` and `freed` are history.

`FrameStream` is what the backends rely on: blocks are mixed at most `mixahead`
ahead, and frames are handed out in order in pieces of any size. The pipeline is
shown to implement it, and the two device modules use it in place of the
pipeline.

- `LoopsNeverSpin`: the loops around `push` and `pop` never wait.
- `EachBufferOnce`: no buffer is in two places (`OneOwner`), and every buffer is in
  some place (`NoBufferLost`).
- `StreamInOrder`, `ImplementsFrameStream`: delivery.
- `InitialMixIsReady`: what awaitInitialMix promises.
- `ShortOnlyOnUnderrun`: a short `write` means that everything mixed when it was
  called is delivered.
- `DestructorFreesQueued`: everything except a partly copied buffer, which the
  destructor leaks, is freed.
- `CallsReturn`: awaitInitialMix and the destructor return.
  It is false of `mixahead = 0` (see Findings); the safety properties are not.

### LightweightSemaphore, Semaphore

One action per atomic operation: load, compare-and-swap, fetch_sub, the kernel
wait, fetch_add, and each kernel post. `WakeupsBalance` counts sleepers against
wakeups sent or owed. `ImplementsSemaphore` refines to a semaphore from which a
waiting thread takes a permit in one step. The semaphore is weakly fair as a
whole, not per thread: nothing in the code prevents starvation. The proofs are in
`OutputWorkerThreadProofs`, which extends both components; what both would define
therefore has the prefix `LS` here (`LSInit`, `LSNext`, `LSSpec`).

### AlsaOutputDevice, WasapiOutputDevice and their Proofs

Each has the I/O thread, `stop()` with the destructor, a `FrameStream`, and the
device as an environment that plays, underruns (ALSA), and is unplugged or
invalidated at any step. The room in the device's buffer is read before the
mixing and used after it; `WritesFit` and `NothingLost` say that this is safe
while the device works. `StopEndsIo`, `StopEndsMixing`: nothing runs on after
`stop()`; `StopReturns`: it returns; `PlaybackResumes`, `FedAgain`: a device that
has run dry is filled again. The unchecked results of WASAPI calls on an
invalidated device end in the state `crashed`. The liveness properties are about
behaviours that do not get there, and `StopEndsMixing` says nothing of them: a null
render client is a known way to crash (see Findings), not one that a property excludes.

### SampleFormatConverter, SampleFormatConverterProofs

The converter with the resampler's buffer queue and the counting of the Speex
loops and with `Remix`. Up to the remixing, a frame is the position in the input
at which it is computed; behind it, a sample for each output channel.
One action per round of Speex (at most `XLen` frames of one buffer), per pull
and per copy. Speex's loop is given in closed form: after k frames it stands at
`Walk(k)`, in units of 1/den_rate of an input frame. The program's 32-bit `int`
is an integer that wraps at `MaxInt`, because the length of the output buffer is
computed with a product that can overflow; a negative length makes the
constructor throw.

- `NoDrift`: output frame n is taken at input position n * inputSr / outputSr,
  through every partial copy and block boundary, and its channels are those that
  the function for separate buffers, with loops of its own, makes of that frame.
- `NoLatency`: the callback runs only when the next frame cannot be computed
  from what it has produced already.
- `WriteReturns`, and `TypeOK` with the index bounds.

### Remix

The public remix functions and the twenty matrices, as operators without state:
what one sample of the output gains, from the indices the loops of the code
compute. Weights are integers in units of 1/100000. The converter calls the
interleaved function on its whole buffers; `NoDrift` compares with the other one
frame by frame. Both use the same tables, so it says nothing of the weights in them.

### Logger, LoggerProofs

`submitFormattedMessage` in its four locked and unlocked parts, `submitMessage`,
the setters, the logging thread with spurious wakeups, and the destructor.
`FirstInFirstOut`, `NoLostWakeup`, `DrainedOnExit` and `EverythingLogged` hold.

### SingleThreadedApartment, ApartmentCalls

`callInApartment`, the compare-and-swap on the one task slot, the thread's
message queue, constructor and destructor. It implements `ApartmentCalls`: calls
are executed once each, one at a time. A run of a task is four steps, as the caller
may act between any two of them: `Run` enters the function object, `SetValue` lets the
caller go, `Leave` comes out of the function object, and `Clear` gives the slot back.

- `RunsClaimedTask`: up to `set_value` the caller waits, so that the callable and its
  arguments are alive; the slot is cleared of no task but the one that ran; no task is
  left behind the quit message.
- `RunsLiveTask`, violated: after `set_value` the caller may return and destroy promise
  and task while the thread is still inside. The model lets the thread leave a task that
  is gone as if it were there; what else may come of it is not modelled, so the other
  properties are about builds in which it does leave.
- `CallInApartmentReturns`: a caller that has claimed the slot returns.

The proofs are in `LibraryProofs`, which extends both
components; here the prefix is `STA`.

### ThreadPool, JobPhases, ThreadPoolProofs

The owner's calls are lists of enqueues done one at a time while the workers run;
a worker takes a batch under the queue's lock, so an operation of the queue is
one step. Barriers and the poison are items like jobs. The pool implements
`JobPhases`: no job begins before every job in front of the last barrier has
finished. `NothingLeftBehind`: when `stop()` returns, every job has run.

### Library, LibraryProofs

The parts around the devices, with several client threads. A client thread calls
getLogger, forwards the library's logger to one of its own, gets a factory, opens,
stops and deletes devices, and calls shutdown; each device's I/O thread is reduced
to its life and its log calls, and endpoints are plugged in and out at any step.
`logger` is the global pointer by what it points to: nothing, an empty shared_ptr
(between the two statements of `initializeLogger`, or after the second threw), the
logger, or freed memory. `references` are the use counts of the two loggers,
counted as the code copies and drops shared_ptrs; the logger is destroyed by
whoever drops the last. A factory has two lists, the names it shows and what it
opens them by, which `rescan` fills separately. The queue inside the logger is a
count: what happens to messages is the subject of `Logger`.

- `NoDanglingUse`: no log call of any thread goes through a pointer that is not the
  logger, the logging thread calls no forwarder that is gone, and the counts are
  right; an I/O thread never outlives its device.
- `QuietAfterShutdown`: after shutdown and the last reference, no thread and no
  reference of the library is left.
- `OpensWhatItNamed`: the device that is opened is the one named at that index,
  however the scan went and whatever was plugged in since.
- `CallsReturn`: every call returns or throws.

The client keeps to the comment in `audio_io.hpp:13-16`: shutdown comes last, after
the factories and devices are deleted. It also calls getLogger before anything
else (`GetsLoggerFirst`), as both programs under `src/tests` do: the comment asks
for `initialize` instead, but that does nothing. With `GetsLoggerFirst = FALSE` TLC
finds the null pointer in `getOutputDeviceFactory` at once.

### ThreadLocalVariable, ThreadLocalVariableProofs

Threads start and exit, each in a place that a later thread may reuse, with
identifiers that are never reused. One action per exchange or store of the map
pointer and per access to the map that it protects; locking the weak pointer and
calling the creator come between, without the map. A value is alive while a thread
has a reference, in `local_strong_references` or in a call.

- `EachItsOwn`: a call returns the one value that the calling thread made for that
  variable, and at most one thread has the map.
- `DiesWithThread`: no value outlives its thread, and its deleter does not depend on
  the variable, which may be gone.
- `CallsReturn`: no thread waits for the map for ever, also not after a creator has
  thrown.

## Runs

Where a module has one main state invariant, that one includes the type invariant.

| Run | States | What it shows |
|---|---|---|
| `owt` | 10 480 | the pipeline, two buffers of two frames, requests of 0 to 3 frames |
| `synchronization` | 70 437 | the apartment, three callers and any number of calls (603 states), and the semaphore, three threads and signals of one and two permits |
| `alsa` | 11 920 | blocks of two frames into a device buffer of five, underruns, unplugging |
| `wasapi` | 8 426 | the same with padding and invalidation |
| `converter` | 643 788 | 48 combinations of block size and rates with 36 of channel counts |
| `logger` | 191 708 | two clients, three messages |
| `logger_text` | violation | a message is queued with another call's text |
| `apartment_lifetime` | violation | a task that is destroyed while it runs |
| `pool` | 627 931 | one to three threads, three jobs, two barriers, a restart |
| `pool_unordered` | violation | jobs of submitJobRangeUnordered that never run |
| `library` | 130 288 | two client threads, a device, two endpoints, a Windows and a Linux build |
| `threadlocal` | 161 252 | two variables, two threads beside or after each other, three uses each |

`MCSynchronization` checks two components in one run, one after the other: they share no
variable, so that interleaving them would multiply the states and show nothing more.
Each `.cfg` gives values to constants only; each MC module is the instance.
Every property of a passing run has a mutant in its module: a definition that
differs from the code's as a plausible mistake would, and with which TLC finds
the property violated.

**Bounds.** `mixahead = 2` is the least number with which one buffer can be
copied while another is mixed, and two frames the least for which a copy may end
inside, at the end of, and beyond a buffer; requests of up to three frames span
two buffers. `MaxWrites` and `MaxRequest` bound behaviours; the theorems do not
need them to be small. A device buffer of five frames is not a multiple of the
block and takes two blocks and a half. Three threads on the semaphore let a
signal meet one that spins, one about to sleep and one asleep; `SpinLimit = 1`
stands for 10000: the number of failed attempts before fetch_sub does not
matter, only that there may be some and that they end. In the converter, rates 2,
3, 4 and 7 give ratios above and below one, common factors, and fractions that
carry; the channel counts are all that have a matrix, and 3, which has none; with
`MaxInt = 15` a block of five frames overflows and one of a single
frame has a length of zero. The pool takes batches of two for the five of the
code, so that three items straddle a batch. In `library` the second client thread
competes for the first getLogger, keeps references, sets forwarders and may be the
one that shuts down, while only the first uses factories: with both, or with two
devices, the invariants hold as well (3.3 and 7.7 million states), but the liveness
takes too long for a regular run. Two endpoints are the least for which a list can
lose its step; one queued message is enough to hold the logging thread between its
copy of the callback and the call. In `threadlocal` the second thread starts in the
other place or in that of the first, whose entry is still in the map.

**Fairness.** Weak fairness of each thread's steps stands for a scheduler that
runs every runnable thread; nothing stronger is assumed. A call that a client
makes is completed but never owed: no fairness on starting a write, a signal, a
stop, a submission. Jobs, tasks, callbacks end. The device is not fair: it
need not play, except that `snd_pcm_wait` has a timeout, so the I/O thread's step
is always enabled. Condition variables may wake spuriously, without fairness.
Compare-and-swap loops are not fair to one thread: `CallInApartmentReturns`
starts where the slot is claimed, `CallsReturn` of `Library` when the logger exists:
before, a getLogger may be overtaken by others whose attempts fail. The loop for the map of
a ThreadLocalVariable is not fair either; there the bound on uses keeps others
from overtaking for ever.

**Deadlock** is checked except where the system stops by design: `converter` (a
constructor that threw), `threadlocal` (every thread has had its uses and is gone),
`pool` and `pool_unordered` (a pool that is stopped for good). In `synchronization`,
all threads may wait on the semaphore with nobody left to signal; that is no deadlock
of the run, since the apartment, destroyed by then, may stutter.

## Findings

Each violation run shows a disagreement of the code with its own words; the
quotes are in `PROJECT.json`.

1. `submitFormattedMessage` passes on the shared workspace after unlocking it
   (`logger_singleton.hpp:63`), so a message may carry another call's text.
2. `enqueueRange` does not notify (`threadsafe_queue.hpp:54`): the jobs of
   `submitJobRangeUnordered` may never run.
3. `set_value` in `callInApartment` lets the caller return and free the task while the
   apartment's thread is still inside of it (`com.hpp:35`), though `com.hpp:44` asks to
   keep it "until after it executes".

Also seen, without a run of their own: `mixahead = 0` is accepted and makes the I/O
thread spin for ever, and `stop()` with it (`output_worker_thread.cpp:78`); the result
of `GetService` is not checked, and with a device unplugged by then the program crashes
on a null pointer (`wasapi/output_device.cpp:122`, `:140`), where `stop()` is to block
"until it stops" (`audio_io.hpp:57`);
`mixing_matrix_8_6` puts bl and br into the left back channel and sl and sr into the
right one, where its comment says "combine sr and br as well as sl and bl"
(`mixing_matrices.cpp:201`, `:207`), while in the other matrices left and right mirror
each other; after `initialize` alone, without getLogger, the
first log call dereferences a null pointer (`initialization.cpp:6`, `audio_io.hpp:13`);
a factory that dies is "Terminating all devices" (`common_output.cpp:37`), but
`created_devices` is never filled; ALSA's rescan keeps devices whose IOID is "Input"
and drops those with "Output" (`alsa/output_factory.cpp:54`); an ALSA constructor that
throws leaves the handle open; the map of a
ThreadLocalVariable keeps an entry for every thread that ever used it; `enqueueRange` does not count what it adds,
so the queue's `size()` is wrong and wraps around (`threadsafe_queue.hpp:54`); rows
of several matrices sum to more than 1, which `mixing_matrices.cpp:8` excludes; the
two variants of the remix functions are described the wrong way round in
`audio_io.hpp`; `mixing_matrix_6_1` has 0.707 where the comment above it has 0.7071;
the converter's length is computed in
`int` (`sample_format_converter.cpp:18`), and overflows for blocks of more than
44739 frames at 48 kHz; the destructor of OutputWorkerThread leaks a partly
copied buffer; an unrecoverable ALSA error leaks the PCM handle.

## Proofs

A `...Proofs` module proves, from the one assumption on the constants that its
component names, that the safety properties below hold for every value of those
constants: any number of clients, threads, callers, buffers, frames, jobs, endpoints,
variables, any rates and channel counts, and any bound. These are all the safety
properties of the passing runs.

| Module | Theorem | Property |
|---|---|---|
| `OutputWorkerThreadProofs` | `TypeCorrect` | `TypeOK` |
| | `QueueLoopsNeverSpin` | `LoopsNeverSpin` |
| | `BuffersCirculate` | `EachBufferOnce`, from `BuffersConserved` and `BuffersHaveOneOwner` |
| | `FramesInOrder` | `StreamInOrder` |
| | `InitialMixCompletes` | `InitialMixIsReady` |
| | `ShortWriteIsUnderrun` | `ShortOnlyOnUnderrun` |
| | `DestructorFreesTheRest` | `DestructorFreesQueued` |
| | `ImplementsStream` | the safety part of `ImplementsFrameStream` |
| | `NoWakeupLost` | `WakeupsBalance` |
| | `IsSemaphore` | the safety part of `ImplementsSemaphore` |
| `AlsaOutputDeviceProofs` | `PacketsFit`, `StopWaits` | `WritesFit`, `StopEndsIo` |
| `WasapiOutputDeviceProofs` | `NoFrameLost`, `StopWaits` | `NothingLost`, `StopEndsMixing` |
| `LoggerProofs` | `TypeCorrect`, `InOrder` | `TypeOK`, `FirstInFirstOut` |
| | `WakeupsArrive`, `NothingLeftUnlogged` | `NoLostWakeup`, `DrainedOnExit` |
| `SampleFormatConverterProofs` | `StreamHasNoDrift`, `CallbackIsNotEarly` | `NoDrift`, `NoLatency` |
| | `RemixAgrees` | the two ways to remix agree, which `NoDrift` says of the output |
| `LibraryProofs` | `NothingDangles` | `NoDanglingUse`, if `GetsLoggerFirst` |
| | `ShutdownIsQuiet`, `DeviceIsTheNamed` | `QuietAfterShutdown`, `OpensWhatItNamed` |
| | `ClaimedTasksRun` | `RunsClaimedTask` |
| | `IsApartmentCalls` | the safety part of `ImplementsCalls` |
| `ThreadPoolProofs` | `NothingIsLeftBehind` | `NothingLeftBehind` |
| | `PhasesImplemented` | `ImplementsPhases` |
| `ThreadLocalVariableProofs` | `ValuesAreOwn`, `ValuesDieWithThread` | `EachItsOwn`, `DiesWithThread` |

Hardly any of these properties is inductive by itself. Each component has an inductive
invariant (`IInv`; `LSIInv` and `STAIInv` in the shared modules, `StreamInv` for the
converter), proved by lemmas for the initial state and for each step, with one
step per action and one below it per conjunct that the action can disturb. What
`IInv` adds says why the code is right:

**OutputWorkerThread.** `IInv`, in the component's module, is proved in layers, each
using those before it. `Typed` is the type invariant with who holds what at which
place (`Holding`) and with the stop command last in its queue (`StopIsLast`).
`Counted` adds that every permit of the semaphore, given or about to be given, stands
for a queued command (`SemaphoreCounts`), and that queues and hands together hold
`mixahead` buffers; from it follows that no push meets a full queue. `OneOwner` needs
only the first layer. `Streamed` says of every filled buffer where in the stream its
frames belong and how much of it is copied (`UsedCounts`, `StreamInOrder`,
`StreamEnd`). `MixCounts`, `Pending` and `CallCounts` relate the counters to the
queues; the refinement and the action property follow from them. For the destructor,
`PreparedAreTheRest` counts: when the worker has ended, the queue has as many
entries as there are buffers left, all different, so that it lists every one of them.

**LightweightSemaphore.** The balance of sleepers is inductive with `Spinning`: a
thread exchanges the count only when it has read a positive one. The proof is in
cardinalities: each step moves one thread into or out of the sleepers or of the
threads that still owe a post. The refinement adds the sleepers back to the count.

**AlsaOutputDevice, WasapiOutputDevice.** `RoomStays`: what was read before the
mixing is at most the room there is, until the frames are written. Nothing but the
I/O thread adds frames; everything the device does meanwhile frees room or breaks it.
`OwnerBehindIo`, `OwnerBehindMixer`: `stop` has returned only behind the end of the
thread. ALSA's `ClosedAtCleanup` and WASAPI's `ClientIsValid` and `StoppedOutside`
say in which places a working device is open, valid, or silent.

**Logger.** The message in hand and the messages about to be queued are messages, and
`Shutdown`: only the destructor resets `running`, no client is in a call from then
on, and the thread has ended only with that done and the queue empty. So nothing can
be queued behind the thread's back, and `DrainedOnExit` follows from
`FirstInFirstOut`.

**SingleThreadedApartment.** `RoomIsTheLiveCall`: `current_task` is the one call that
has claimed it and is not executed, except between the execution and the store that
clears it, when it points to a caller that may already be in its next call.
`OneMessage`: so the queue never has more than one message. `Lifetime`: calls are
made only between construction and destruction.

**Library.** `References` counts: each step that adds or drops a shared_ptr changes use
count and holders alike. `Initialization`: one thread at most is between the two
statements of `initializeLogger`, and the pointer is good from its end until shutdown.
`Destruction`: the logger is alive exactly while somebody refers to it, and one thread
waits for the end of it. `UsersMay`: where there is a factory or a device, shutdown has
not begun and the logger, if clients get it first, is there. It is there that
`NothingDangles` needs `GetsLoggerFirst`, the hypothesis of that theorem alone. Without
it the property fails (see Findings), while `ShutdownIsQuiet` and `DeviceIsTheNamed`
hold nevertheless. `NamesAreIds` keeps a factory's two lists parallel: it follows from
how `rescan` fills them, whatever the scan lists and wherever it stops.

**ThreadLocalVariable.** `MapHasOneOwner`: the exchanges of the map pointer are a
lock. `Identifiers`: none is given twice. `Values`: a thread's references and the
entries under its identifier are the one value it makes for each variable.
`Remembered`: a value that a thread keeps is in the map, or on the way there in that
thread's call; so a thread that has a value finds it, and never makes a second. An
entry that a call has read stays as it is after the map is released, for it belongs
to that thread.

**ThreadPool.** A worker takes a batch of items off its queue, so what a thread has left
to do is in two places. The invariant speaks of the two put together, the thread's
`line`: taking a batch leaves the line as it is, `NextJob` drops its head, and only the
owner's calls lengthen it, so that no step needs an account of batches. `OneCall` says
what may be left of the owner's call, and `Lifecycle` that threads in the pool are those
that were started and die with the poison in hand. `Items`, `Present` and `Once`: every
job that is not finished is in exactly one place, and in front of every poison; so a
thread that meets the poison has nothing behind it, and `NothingLeftBehind` follows.
`Sorted`: each line is in the order of submission as far as barriers tell. `Barriers`:
a barrier's counter and the threads that have yet to arrive make up its goal, so
`fetch_add` returns `goal - 1` to the last thread and to no other, and whoever has a
job from before the barrier has yet to arrive. With these, each action is one of
`JobPhases` or a stutter: `ImplementsPhases` has no fair part and is proved whole.

**SampleFormatConverter.** The frames computed and not yet returned are in the
resampler's workspace, the output buffer and the caller's buffer; `WorkspaceInStream`,
`OutputInStream` and `BufferInStream` number them, each being the frame of the stream
that its place says. `OneBlock`: the resampler has at most the block pulled last, and
equal rates bypass it. `InStep` is the heart: `Stand` being the number of input frames
that Speex has left behind,

    (Stand + last_sample) * den_rate + samp_frac_num = Computed * num_rate

so position and fraction are quotient and remainder of the place at which the next
frame is taken, whatever was carried from block to block; rounds of Speex move both
sides by the closed form `Walk`. `NoLatency` follows, since Speex stops for lack of
input only where that frame is beyond it. Lemmas on division come first, from the least
element of a set of naturals, since rates are variables. Then `RemixAgrees`: both remix
functions give the same sample for every pair of channel counts, by cases of the matrix.
Of the overflow of `int` the invariant keeps only the sign of the buffer's length: the
stream is right with any positive length, as the size of the buffer is no part of it.

**Only model-checked.** Liveness under fairness (`CallsReturn`, `CallInApartmentReturns`,
`StopReturns`, `PlaybackResumes`, `FedAgain`, `EverythingLogged`, `WriteReturns`) and the
fair parts of `ImplementsFrameStream`, `ImplementsSemaphore` and `ImplementsCalls`, which
need ENABLED: the prover cannot treat them. The three violations are TLC's as well.

## Not modelled

- Which formats the constructors negotiate with ALSA and WASAPI: straight-line
  calls of the operating system. That any of them may fail is in `Library`.
- Sample values: filters, attenuation, and the channel swaps of the devices;
  remixing uses integers in place of floating-point numbers.
- Failure to start a thread (`safeStartThread`, ten attempts).
- Memory ordering: the atomics are treated as sequentially consistent. The queue
  of boost is taken as a queue with one producer and one consumer.
- LatencyPredictor and `staticResampler`: sequential code that nothing in the
  repository calls. `atThreadExit`: a list of callables run in order.
- ThreadsafeQueue with several readers, `dequeue` and `dequeueWithTimeout`: only its
  tests use them; `ThreadPool` has one reader per queue.
- A client that logs after shutdown, or uses the library before getLogger.
- Windows and Mach versions of the kernel semaphore, which have the interface of
  the POSIX one that is modelled.

## Plan

1. Done: the pipeline and its proofs, the semaphore, both devices, the
   converter with remixing, the logger and its proofs, the apartment, the thread
   pool; the library's life with the factories; thread-local variables.
2. Done: proofs of every safety property of every component, with the refinements
   of the stream, the semaphore, the apartment and the pool.
3. Left: the two devices' proofs, which are alike, could share a module that
   instantiates both.
4. If the code comes to use them: ThreadsafeQueue with several readers and timeouts,
   LatencyPredictor.
