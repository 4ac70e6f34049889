-------------------------- MODULE MCPriorityQueue ---------------------------
(* PriorityQueueScheduler on the small decision tree of MCExploration.     *)
EXTENDS PriorityQueueScheduler, MCExploration
=============================================================================
