------------------------ MODULE MCWasapiOutputDevice ------------------------
(* TLC instances of WasapiOutputDevice.                                    *)
EXTENDS WasapiOutputDevice
=============================================================================
