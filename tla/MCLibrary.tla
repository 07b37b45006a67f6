----------------------------- MODULE MCLibrary -----------------------------
(* TLC instances of Library: a build for Windows and one for Linux, and two *)
(* endpoints: an output, and one that ALSA lists for both directions.       *)
EXTENDS Library

MCBuilds    == {<<"Wasapi">>, <<"alsa">>}
MCEndpoints == <<"Output", "nullptr">>
=============================================================================
