---------------------------- MODULE FrameStream ----------------------------
(***************************************************************************)
(* What OutputWorkerThread promises the backend that owns it: a stream of  *)
(* frames, mixed a block at a time and never more than mixahead blocks     *)
(* ahead, handed out in order in pieces of any size.                       *)
(***************************************************************************)
EXTENDS Integers

CONSTANTS mixahead, destination_frames

VARIABLES
  pending,   \* frames mixed and not handed out
  in_order,  \* the last piece handed out began where the one before it ended
  open       \* the stream has not been destroyed

vars == <<pending, in_order, open>>

Init == pending = 0 /\ in_order = TRUE /\ open = TRUE

Mix ==
  /\ open
  /\ pending + destination_frames <= mixahead * destination_frames
  /\ pending' = pending + destination_frames
  /\ UNCHANGED <<in_order, open>>

Deliver(frames) ==
  /\ open
  /\ frames <= pending
  /\ pending' = pending - frames
  /\ in_order' = TRUE
  /\ UNCHANGED open

\* Frames that were not handed out are discarded.
Close ==
  /\ open
  /\ open' = FALSE
  /\ UNCHANGED <<pending, in_order>>

Next == Mix \/ (\E frames \in 0 .. pending : Deliver(frames)) \/ Close

\* Mixing goes on as long as there is room.
Spec     == Init /\ [][Next]_vars
FairSpec == Spec /\ WF_vars(Mix)

=============================================================================
