----------------------- MODULE AlsaOutputDeviceProofs -----------------------
(***************************************************************************)
(* Proofs about AlsaOutputDevice, for every mixahead, every block size and *)
(* every size of the device's buffer.                                      *)
(***************************************************************************)
EXTENDS AlsaOutputDevice, TLAPS

(***************************************************************************)
(* The room found by snd_pcm_avail_update (line 136) only grows until the  *)
(* frames are handed to snd_pcm_writei: nothing but this thread adds any.  *)
(***************************************************************************)
RoomStays ==
  io_pc \in {"write", "writei"} => available <= alsa_buffer_frames - queued

(***************************************************************************)
(* The thread leaves its loop with the device closed, or because it has    *)
(* been unplugged.                                                         *)
(***************************************************************************)
ClosedAtCleanup ==
  io_pc \in {"cleanup", "finished"} /\ pcm # "unplugged" => handle = "closed"

(***************************************************************************)
(* stop() has returned, and the stream is destroyed, exactly when the      *)
(* owner has come that far, and it only comes there behind the thread.     *)
(***************************************************************************)
OwnerBehindIo ==
  /\ stopped <=> owner_pc \in {"stopped", "destroyed"}
  /\ ~open <=> owner_pc = "destroyed"
  /\ stopped => io_pc = "finished"

IInv == TypeOK /\ RoomStays /\ ClosedAtCleanup /\ OwnerBehindIo

(***************************************************************************)
(* The most that can be pending is a number.                               *)
(***************************************************************************)
LEMMA MixaheadFrames == mixahead * destination_frames \in Nat
<1>1. mixahead \in Nat /\ destination_frames \in Nat
  BY AlsaAssumption
<1> QED
  BY <1>1

LEMMA InitInvariant == Init => IInv
<1> SUFFICES ASSUME Init PROVE IInv
  OBVIOUS
<1> USE AlsaAssumption DEF Init, Stream!Init
<1>1. TypeOK
  <2>1. pending \in 0 .. mixahead * destination_frames
    BY MixaheadFrames
  <2>2. in_order = TRUE /\ open \in BOOLEAN /\ worker_running \in BOOLEAN /\ stopped \in BOOLEAN
    OBVIOUS
  <2>3. /\ available \in 0 .. alsa_buffer_frames /\ written \in 0 .. available
        /\ queued \in 0 .. alsa_buffer_frames
    OBVIOUS
  <2> QED
    BY <2>1, <2>2, <2>3 DEF TypeOK
<1>2. RoomStays /\ ClosedAtCleanup /\ OwnerBehindIo
  BY DEF RoomStays, ClosedAtCleanup, OwnerBehindIo
<1> QED
  BY <1>1, <1>2 DEF IInv

LEMMA StepInvariant == IInv /\ [Next]_vars => IInv'
<1> SUFFICES ASSUME IInv, [Next]_vars PROVE IInv'
  OBVIOUS
<1> USE AlsaAssumption, MixaheadFrames
    DEF IInv, TypeOK, RoomStays, ClosedAtCleanup, OwnerBehindIo,
        stream, local, device, owner
\* The I/O thread.
<1>1. CASE IoAwaitInitialMix
  BY <1>1 DEF IoAwaitInitialMix
<1>2. CASE IoLoop
  BY <1>2 DEF IoLoop
<1>3. CASE IoAvail
  BY <1>3 DEF IoAvail, Recover, Available
<1>4. CASE IoCopy
  <2>1. PICK frames \in 1 .. available - written :
               Stream!Deliver(frames) /\ written' = written + frames
    BY <1>4 DEF IoCopy
  <2>2. /\ frames \in Nat /\ frames <= pending /\ pending' = pending - frames
        /\ in_order' = TRUE /\ open' = open
    BY <2>1 DEF Stream!Deliver
  <2>3. pending' \in 0 .. mixahead * destination_frames
    BY <2>2
  <2>4. written' \in 0 .. available
    BY <2>1
  <2> QED
    BY <1>4, <2>2, <2>3, <2>4 DEF IoCopy
<1>5. CASE IoWritten
  BY <1>5 DEF IoWritten
<1>6. CASE IoWritei
  BY <1>6 DEF IoWritei, Recover, Usable
<1>7. CASE IoWait
  BY <1>7 DEF IoWait, Recover
<1>8. CASE IoDrainAndClose
  BY <1>8 DEF IoDrainAndClose
<1>9. CASE IoCleanup
  BY <1>9 DEF IoCleanup
\* The worker thread and the owner.
<1>10. CASE Mix
  BY <1>10 DEF Mix, Stream!Mix
<1>11. CASE StopRequest
  BY <1>11 DEF StopRequest
<1>12. CASE StopJoin
  BY <1>12 DEF StopJoin
<1>13. CASE Destroy
  BY <1>13 DEF Destroy, Stream!Close
\* The device.
<1>14. CASE Play
  BY <1>14 DEF Play
<1>15. CASE Unplug
  BY <1>15 DEF Unplug
<1>16. CASE UNCHANGED vars
  BY <1>16 DEF vars
<1> QED
  BY <1>1, <1>2, <1>3, <1>4, <1>5, <1>6, <1>7, <1>8, <1>9, <1>10, <1>11, <1>12,
     <1>13, <1>14, <1>15, <1>16 DEF Next, Io, Owner, Finished

THEOREM Invariant == Spec => []IInv
  BY InitInvariant, StepInvariant, PTL DEF Spec

-----------------------------------------------------------------------------
(***************************************************************************)
(* Every packet fits into the device's buffer, whatever the device has     *)
(* done since its room was asked for.                                      *)
(***************************************************************************)
THEOREM PacketsFit == Spec => []WritesFit
<1>1. IInv => WritesFit
  BY AlsaAssumption DEF IInv, WritesFit, TypeOK, RoomStays
<1> QED
  BY <1>1, Invariant, PTL

(***************************************************************************)
(* The I/O thread has ended when stop() returns, and the worker outlives   *)
(* it.                                                                     *)
(***************************************************************************)
THEOREM StopWaits == Spec => []StopEndsIo
<1>1. IInv => StopEndsIo
  BY DEF IInv, StopEndsIo, TypeOK, ClosedAtCleanup, OwnerBehindIo
<1> QED
  BY <1>1, Invariant, PTL

=============================================================================
