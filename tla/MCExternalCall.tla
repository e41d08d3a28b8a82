--------------------------- MODULE MCExternalCall ---------------------------
(* Two run threads over a pool of one slot: the worker of a timed call,     *)
(* abandoned or not, competes with an untimed call of the other thread.     *)
EXTENDS ExternalCall

MCCalls == {"a1", "b1"}
MCThreads == {"a", "b"}
MCOwner == [c \in MCCalls |-> IF c = "b1" THEN "b" ELSE "a"]
MCTimed == {"a1"}
=============================================================================
