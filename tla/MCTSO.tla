------------------------------- MODULE MCTSO --------------------------------
(* TSOInterpreter on the programs of MCPrograms.                           *)
EXTENDS TSOInterpreter, MCPrograms
=============================================================================
