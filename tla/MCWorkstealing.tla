--------------------------- MODULE MCWorkstealing ---------------------------
(* WorkstealingPQScheduler on the small decision tree of MCExploration.    *)
EXTENDS WorkstealingPQScheduler, MCExploration
=============================================================================
