------------------------- MODULE MCAlsaOutputDevice -------------------------
(* TLC instances of AlsaOutputDevice.                                      *)
EXTENDS AlsaOutputDevice
=============================================================================
