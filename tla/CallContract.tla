----------------------------- MODULE CallContract -----------------------------
(***************************************************************************)
(* What run_cancellable_external_call promises to its callers, without     *)
(* threads, queue, polling or semaphore: the function of a call runs at    *)
(* most once and at most Slots functions run at a time; a call gets one    *)
(* reply, which is what its own function did, or, at any time, why nobody  *)
(* waits for it any more; and a function that was left behind still ends   *)
(* by itself, without a further reply.                                     *)
(***************************************************************************)
EXTENDS Naturals, FiniteSets

CONSTANTS Calls, Slots, Outcomes, Abandonments

VARIABLES
    status,     \* "idle", "pending" or "returned"
    reply,      \* what the call returned or raised
    fn,         \* its function: "unrun", "running" or "over"
    value       \* what the function did

cvars == <<status, reply, fn, value>>

Init ==
    /\ status = [c \in Calls |-> "idle"]
    /\ reply = [c \in Calls |-> "none"]
    /\ fn = [c \in Calls |-> "unrun"]
    /\ value = [c \in Calls |-> "none"]

Call(c) ==
    /\ status[c] = "idle"
    /\ status' = [status EXCEPT ![c] = "pending"]
    /\ UNCHANGED <<reply, fn, value>>

Running == {c \in Calls : fn[c] = "running"}
StartFn(c) ==
    /\ status[c] = "pending" /\ fn[c] = "unrun"
    /\ Cardinality(Running) < Slots
    /\ fn' = [fn EXCEPT ![c] = "running"]
    /\ UNCHANGED <<status, reply, value>>

EndFn(c, o) ==
    /\ fn[c] = "running"
    /\ fn' = [fn EXCEPT ![c] = "over"]
    /\ value' = [value EXCEPT ![c] = o]
    /\ UNCHANGED <<status, reply>>

\* The outcome of the function, a reason to leave it, or that it cannot start.
Reply(c, r) ==
    /\ status[c] = "pending"
    /\ \/ r \in Outcomes /\ fn[c] = "over" /\ value[c] = r
       \/ r \in Abandonments
       \/ r = "start_error" /\ fn[c] = "unrun"
    /\ status' = [status EXCEPT ![c] = "returned"]
    /\ reply' = [reply EXCEPT ![c] = r]
    /\ UNCHANGED <<fn, value>>

Next ==
    \E c \in Calls :
        \/ Call(c) \/ StartFn(c)
        \/ \E o \in Outcomes : EndFn(c, o)
        \/ \E r \in Outcomes \cup Abandonments \cup {"start_error"} : Reply(c, r)

Spec == Init /\ [][Next]_cvars
=============================================================================
