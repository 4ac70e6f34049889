------------------------------- MODULE MCPSO --------------------------------
(* PSOInterpreter on the programs of MCPrograms.                           *)
EXTENDS PSOInterpreter, MCPrograms
=============================================================================
