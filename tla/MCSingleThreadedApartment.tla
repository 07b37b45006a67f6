--------------------- MODULE MCSingleThreadedApartment ---------------------
(* TLC instances of SingleThreadedApartment.                               *)
EXTENDS SingleThreadedApartment
=============================================================================
