------------------------- MODULE MCSynchronization -------------------------
(* A TLC instance of the two ways in which threads of the library wait for *)
(* each other, the apartment and the semaphore.  They share no variable,   *)
(* so that no interleaving of steps of one with steps of the other can     *)
(* matter to a property of either; a behaviour is one of the apartment,    *)
(* and, if that is destroyed after a call of every caller, then one of the *)
(* semaphore.                                                              *)
EXTENDS SingleThreadedApartment, LightweightSemaphore

Init == STAInit /\ LSInit

InApartment == STANext /\ UNCHANGED LSvars

OnSemaphore ==
  /\ owner_pc = "destroyed" /\ \A c \in Callers : future[c]
  /\ LSNext
  /\ UNCHANGED STAvars

Next == InApartment \/ OnSemaphore

Spec == Init /\ [][Next]_<<STAvars, LSvars>> /\ STAFairness /\ LSFairness
=============================================================================
