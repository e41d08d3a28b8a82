--------------------------- MODULE BackgroundAgent ---------------------------
(***************************************************************************)
(* agent/background_agent.py: run_background_agent, the default tool that  *)
(* keeps a child agent running in a daemon thread of its own, with the     *)
(* part of that thread it waits for (Agent.invoke up to the "started"      *)
(* event of EventPipe.initialize, which clears the signals first) and the  *)
(* cancellation of the child.                                              *)
(***************************************************************************)
EXTENDS Naturals

CONSTANTS
    Agents,     \* agents that may run in the background
    MaxChecks   \* bound: calls of the tool for one agent

ASSUME MaxChecksAssumption == MaxChecks \in Nat

VARIABLES
    thread,     \* state.thread of each context and how far it is
    caller,     \* where the tool is that was called for it
    checks,     \* state.checks
    sink,       \* signal_started is attached to the pipe of the child
    event,      \* the Event it sets
    cancelled,  \* the cancel signal of the child's pipe: down, set since the run of
                \* its thread cleared it, or before
    alive,      \* threads at work for the child
    reported    \* the last status the tool returned

bgVars == <<thread, caller, checks, sink, event, cancelled, alive, reported>>

Alive(b) == thread[b] \in {"spawned", "cleared", "running"}

BgInit ==
    /\ thread = [b \in Agents |-> "none"]
    /\ caller = [b \in Agents |-> "idle"]
    /\ checks = [b \in Agents |-> 0]
    /\ sink = [b \in Agents |-> FALSE]
    /\ event = [b \in Agents |-> FALSE]
    /\ cancelled = [b \in Agents |-> "down"]
    /\ alive = [b \in Agents |-> 0]
    /\ reported = [b \in Agents |-> "none"]

\* run_background_agent up to its wait: a thread that is alive is reported as
\* such, else a new one is started with a sink for its first event in place.
Check(b) ==
    /\ caller[b] = "idle" /\ checks[b] < MaxChecks
    /\ checks' = [checks EXCEPT ![b] = @ + 1]
    /\ IF Alive(b)
       THEN /\ reported' = [reported EXCEPT ![b] = "alive"]
            /\ UNCHANGED <<thread, caller, sink, event, cancelled, alive>>
       ELSE /\ thread' = [thread EXCEPT ![b] = "spawned"]
            /\ caller' = [caller EXCEPT ![b] = IF thread[b] = "none" THEN "started" ELSE "restarted"]
            /\ sink' = [sink EXCEPT ![b] = TRUE]
            /\ event' = [event EXCEPT ![b] = FALSE]
            /\ alive' = [alive EXCEPT ![b] = @ + 1]
            /\ cancelled' = [cancelled EXCEPT ![b] = IF @ = "run" THEN "before" ELSE @]
            /\ UNCHANGED reported

\* thread.start() raises: the tool remembers a thread that never ran.
StartFails(b) ==
    /\ caller[b] = "idle" /\ checks[b] < MaxChecks /\ ~Alive(b)
    /\ checks' = [checks EXCEPT ![b] = @ + 1]
    /\ thread' = [thread EXCEPT ![b] = "dead"]
    /\ event' = [event EXCEPT ![b] = FALSE]
    /\ reported' = [reported EXCEPT ![b] = "error"]
    /\ UNCHANGED <<caller, sink, cancelled, alive>>

Unsubscribe(b) == /\ sink' = [sink EXCEPT ![b] = FALSE]
                  /\ caller' = [caller EXCEPT ![b] = "idle"]
                  /\ UNCHANGED <<thread, checks, event, cancelled, alive>>
StartSeen(b) ==
    /\ caller[b] # "idle" /\ event[b]
    /\ reported' = [reported EXCEPT ![b] = caller[b]]
    /\ Unsubscribe(b)
\* The wait times out, also where the thread is dead already.
StartTimeout(b) ==
    /\ caller[b] # "idle" /\ ~event[b]
    /\ reported' = [reported EXCEPT ![b] = "error"]
    /\ Unsubscribe(b)

\* As if the run kept the signals it finds.
InitializeKeeping(b) ==
    /\ thread[b] = "spawned"
    /\ thread' = [thread EXCEPT ![b] = "cleared"]
    /\ UNCHANGED <<caller, checks, sink, event, cancelled, alive, reported>>

\* As if the signals were cleared after the event instead of before it.
InitializeLate(b) ==
    /\ \/ /\ thread[b] = "spawned"
          /\ thread' = [thread EXCEPT ![b] = "cleared"]
          /\ UNCHANGED cancelled
       \/ /\ thread[b] = "running"
          /\ cancelled' = [cancelled EXCEPT ![b] = "down"]
          /\ UNCHANGED thread
    /\ UNCHANGED <<caller, checks, sink, event, alive, reported>>

\* EventPipe.initialize in the thread clears the signals ...
Initialize(b) ==
    /\ thread[b] = "spawned"
    /\ thread' = [thread EXCEPT ![b] = "cleared"]
    /\ cancelled' = [cancelled EXCEPT ![b] = "down"]
    /\ UNCHANGED <<caller, checks, sink, event, alive, reported>>

\* ... and then emits "started", which reaches signal_started last of the sinks.
\* Another one may raise before it (ThreadEnds).
EmitStarted(b) ==
    /\ thread[b] = "cleared"
    /\ thread' = [thread EXCEPT ![b] = "running"]
    /\ event' = [event EXCEPT ![b] = @ \/ sink[b]]
    /\ UNCHANGED <<caller, checks, sink, cancelled, alive, reported>>

\* _invoke_agent ends, whatever agent.invoke raised: before its first event,
\* or later, when it is done, fails or was cancelled.
ThreadEnds(b) ==
    /\ Alive(b)
    /\ thread' = [thread EXCEPT ![b] = "dead"]
    /\ alive' = [alive EXCEPT ![b] = @ - 1]
    /\ UNCHANGED <<caller, checks, sink, event, cancelled, reported>>

\* EventPipe.cancel on the child, by the application and at any time.
CancelChild(b) ==
    /\ cancelled[b] = "down"
    /\ cancelled' = [cancelled EXCEPT ![b] = IF thread[b] \in {"cleared", "running"} THEN "run" ELSE "before"]
    /\ UNCHANGED <<thread, caller, checks, sink, event, alive, reported>>

BgNext(b) == \/ Check(b) \/ StartFails(b) \/ StartSeen(b) \/ StartTimeout(b)
             \/ Initialize(b) \/ EmitStarted(b) \/ ThreadEnds(b) \/ CancelChild(b)

-----------------------------------------------------------------------------
(***************************************************************************)
(* A child runs in one thread at a time, also after a start that was given *)
(* up while its thread goes on, and once its run has cleared the signals   *)
(* it heeds no cancel() from before: neither one that was meant for an     *)
(* earlier run nor one that came while the thread was on its way there.    *)
(***************************************************************************)
OneCleanRun ==
    \A b \in Agents :
        /\ alive[b] <= 1
        /\ thread[b] \in {"cleared", "running"} => cancelled[b] # "before"

(***************************************************************************)
(* A cancel() is lost only to a run that has yet to clear its signals.     *)
(* Once the tool's wait was told that the child started, and until its     *)
(* thread ends, whoever cancels the child has cancelled it: no step of the *)
(* run, and no further call of the tool, takes the signal away.            *)
(***************************************************************************)
StartedHeedsCancel ==
    [][\A b \in Agents :
         event[b] /\ Alive(b) /\ cancelled[b] # "down" => cancelled'[b] # "down"]_bgVars
=============================================================================
