------------------------ MODULE MCThreadLocalVariable ------------------------
(* TLC instances of ThreadLocalVariable.                                     *)
EXTENDS ThreadLocalVariable
==============================================================================
