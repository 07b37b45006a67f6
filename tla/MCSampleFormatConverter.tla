----------------------- MODULE MCSampleFormatConverter -----------------------
(* TLC instances of SampleFormatConverter.                                 *)
EXTENDS SampleFormatConverter
=============================================================================
