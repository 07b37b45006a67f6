------------------------------ MODULE MCLogger ------------------------------
(* TLC instances of Logger.                                                *)
EXTENDS Logger
=============================================================================
