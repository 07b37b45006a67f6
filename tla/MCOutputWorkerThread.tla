------------------------ MODULE MCOutputWorkerThread ------------------------
(* TLC instances of OutputWorkerThread.                                    *)
EXTENDS OutputWorkerThread
=============================================================================
