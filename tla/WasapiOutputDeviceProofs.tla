---------------------- MODULE WasapiOutputDeviceProofs ----------------------
(***************************************************************************)
(* Proofs about WasapiOutputDevice, for every mixahead, every block size   *)
(* and every size of the device's buffer.                                  *)
(***************************************************************************)
EXTENDS WasapiOutputDevice, TLAPS

(***************************************************************************)
(* While the device works, the room that GetCurrentPadding left (lines     *)
(* 115-120) only grows until GetBuffer asks for it.                        *)
(***************************************************************************)
RoomStays ==
  mixer_pc \in {"write", "packet"} /\ valid => toRequest <= bufferSize - padding

(***************************************************************************)
(* A device that works has given the mixing thread its render client.      *)
(***************************************************************************)
ClientIsValid ==
  mixer_pc \in {"start", "loop", "padding", "write", "packet"} /\ valid =>
    renderClient = "valid"

(***************************************************************************)
(* The device is started by the mixing thread only, which resets it before *)
(* it ends.                                                                *)
(***************************************************************************)
StoppedOutside ==
  mixer_pc \in {"await", "com", "service", "start", "finished"} => ~started

(***************************************************************************)
(* stop() has returned, and the stream is destroyed, exactly when the      *)
(* owner has come that far, and it only comes there behind the thread.     *)
(***************************************************************************)
OwnerBehindMixer ==
  /\ stopped <=> owner_pc \in {"stopped", "destroyed"}
  /\ ~open <=> owner_pc = "destroyed"
  /\ stopped => mixer_pc = "finished"

IInv ==
  /\ NothingLost   \* with TypeOK
  /\ RoomStays /\ ClientIsValid /\ StoppedOutside /\ OwnerBehindMixer

(***************************************************************************)
(* The most that can be pending is a number.                               *)
(***************************************************************************)
LEMMA MixaheadFrames == mixahead * destination_frames \in Nat
<1>1. mixahead \in Nat /\ destination_frames \in Nat
  BY WasapiAssumption
<1> QED
  BY <1>1

LEMMA InitInvariant == Init => IInv
<1> SUFFICES ASSUME Init PROVE IInv
  OBVIOUS
<1> USE WasapiAssumption DEF Init, Stream!Init
<1>1. TypeOK
  <2>1. pending \in 0 .. mixahead * destination_frames
    BY MixaheadFrames
  <2>2. /\ in_order = TRUE /\ open \in BOOLEAN /\ should_continue \in BOOLEAN
        /\ stopped \in BOOLEAN /\ started \in BOOLEAN /\ valid \in BOOLEAN
        /\ lost \in BOOLEAN
    OBVIOUS
  <2>3. /\ toRequest \in 0 .. bufferSize /\ written \in 0 .. toRequest
        /\ padding \in 0 .. bufferSize
    OBVIOUS
  <2> QED
    BY <2>1, <2>2, <2>3 DEF TypeOK
<1> QED
  BY <1>1 DEF IInv, NothingLost, RoomStays, ClientIsValid, StoppedOutside,
              OwnerBehindMixer

LEMMA StepInvariant == IInv /\ [Next]_vars => IInv'
<1> SUFFICES ASSUME IInv, [Next]_vars PROVE IInv'
  OBVIOUS
<1> USE WasapiAssumption, MixaheadFrames
    DEF IInv, NothingLost, TypeOK, RoomStays, ClientIsValid, StoppedOutside,
        OwnerBehindMixer, stream, local, device, owner
\* The mixing thread.
<1>1. CASE AwaitInitialMix
  BY <1>1 DEF AwaitInitialMix
<1>2. CASE CoInitialize
  BY <1>2 DEF CoInitialize
<1>3. CASE GetService
  BY <1>3 DEF GetService
<1>4. CASE Start
  BY <1>4 DEF Start
<1>5. CASE Loop
  BY <1>5 DEF Loop
<1>6. CASE GetCurrentPadding
  <2>1. toRequest' \in 0 .. bufferSize /\ (valid => toRequest' = bufferSize - padding)
    BY <1>6 DEF GetCurrentPadding, Room
  <2> QED
    BY <1>6, <2>1 DEF GetCurrentPadding
<1>7. CASE Copy
  <2>1. PICK frames \in 1 .. toRequest - written :
               Stream!Deliver(frames) /\ written' = written + frames
    BY <1>7 DEF Copy
  <2>2. /\ frames \in Nat /\ frames <= pending /\ pending' = pending - frames
        /\ in_order' = TRUE /\ open' = open
    BY <2>1 DEF Stream!Deliver
  <2>3. pending' \in 0 .. mixahead * destination_frames
    BY <2>2
  <2>4. written' \in 0 .. toRequest
    BY <2>1
  <2> QED
    BY <1>7, <2>2, <2>3, <2>4 DEF Copy
<1>8. CASE Written
  BY <1>8 DEF Written
<1>9. CASE GetBuffer
  \* What a device that works refuses would not fit, and it does.
  <2>1. valid => renderClient = "valid" /\ written <= bufferSize - padding
    BY <1>9 DEF GetBuffer
  <2>2. padding' \in 0 .. bufferSize
    BY <1>9, <2>1 DEF GetBuffer, ReleaseBuffer
  <2> QED
    BY <1>9, <2>1, <2>2 DEF GetBuffer
<1>10. CASE StopAndReset
  <2>1. padding' \in 0 .. bufferSize /\ started' = FALSE /\ mixer_pc' = "finished"
    BY <1>10 DEF StopAndReset
  <2> QED
    BY <1>10, <2>1 DEF StopAndReset
\* The worker thread and the owner.
<1>11. CASE Mix
  BY <1>11 DEF Mix, Stream!Mix
<1>12. CASE StopRequest
  BY <1>12 DEF StopRequest
<1>13. CASE StopJoin
  BY <1>13 DEF StopJoin
<1>14. CASE Destroy
  BY <1>14 DEF Destroy, Stream!Close
\* The device.
<1>15. CASE Play
  BY <1>15 DEF Play
<1>16. CASE Invalidate
  BY <1>16 DEF Invalidate
<1>17. CASE UNCHANGED vars
  BY <1>17 DEF vars
<1> QED
  BY <1>1, <1>2, <1>3, <1>4, <1>5, <1>6, <1>7, <1>8, <1>9, <1>10, <1>11, <1>12,
     <1>13, <1>14, <1>15, <1>16, <1>17 DEF Next, Mixer, Owner, Finished

THEOREM Invariant == Spec => []IInv
  BY InitInvariant, StepInvariant, PTL DEF Spec

-----------------------------------------------------------------------------
(***************************************************************************)
(* Only a device that has failed is refused frames that were taken from    *)
(* the worker.                                                             *)
(***************************************************************************)
THEOREM NoFrameLost == Spec => []NothingLost
<1>1. IInv => NothingLost
  BY DEF IInv
<1> QED
  BY <1>1, Invariant, PTL

(***************************************************************************)
(* The mixing thread has ended and the device is silent when stop()        *)
(* returns, and the worker outlives them.                                  *)
(***************************************************************************)
THEOREM StopWaits == Spec => []StopEndsMixing
<1>1. IInv => StopEndsMixing
  BY DEF IInv, NothingLost, TypeOK, StopEndsMixing, StoppedOutside, OwnerBehindMixer
<1> QED
  BY <1>1, Invariant, PTL

=============================================================================
