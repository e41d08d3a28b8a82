--------------------------- MODULE MCSafeScripts ---------------------------
(* A script, and another request that competes with it for the gate, lists, *)
(* mistypes or probes; or that competes with it for the only slot.          *)
EXTENDS SafeScripts

MCRequests == {"a", "b"}
MCAsks == [r \in MCRequests |-> IF r = "a" THEN {"run"} ELSE Kinds]
MCAsksOneSlot == [r \in MCRequests |-> IF r = "a" THEN {"run"} ELSE {"list", "probe"}]
=============================================================================
