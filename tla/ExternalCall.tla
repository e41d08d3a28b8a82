----------------------------- MODULE ExternalCall -----------------------------
(***************************************************************************)
(* runtime/_external.py: run_cancellable_external_call.                    *)
(*                                                                         *)
(* A run thread hands a blocking function to a daemon worker thread and    *)
(* polls for its outcome, so that a control signal or a deadline can end   *)
(* the wait while the worker is still blocked.  Workers are never killed:  *)
(* each one holds a slot of a process-wide BoundedSemaphore until its      *)
(* function returns, which may be long after the caller left.             *)
(*                                                                         *)
(* Every call belongs to one run thread and a run thread makes one call    *)
(* at a time; calls of different run threads, and the abandoned workers of *)
(* earlier calls, run concurrently.  A run thread's two control signals    *)
(* are the ones of its EventPipe.                                          *)
(***************************************************************************)
EXTENDS Integers, FiniteSets

CONSTANTS
    Calls,      \* the calls made, one element per invocation
    Threads,    \* the run threads
    Owner,      \* the run thread that makes each call
    Timed,      \* the calls that are given a timeout_s
    Slots       \* _DEFAULT_MAX_WORKERS

ASSUME CallsAssumption == IsFiniteSet(Calls)
ASSUME OwnerAssumption == Owner \in [Calls -> Threads]
ASSUME TimedAssumption == Timed \subseteq Calls
ASSUME SlotsAssumption == Slots \in Nat \ {0}

VARIABLES
    pc,         \* where each caller is in _ExternalCallRunner.run
    result,     \* how run() ended for its caller
    wk,         \* where each worker is in _worker
    outcome,    \* what each worker's function did
    queue,      \* _result_queue, "empty" or the outcome it holds (maxsize 1)
    abandoned,  \* _abandoned
    expired,    \* the deadline of a timed call has passed
    free,       \* the value of _external_call_slots
    cancel,     \* _cancel_signal of each thread's pipe
    interrupt   \* _interrupt_signal of each thread's pipe

callVars == <<pc, result, abandoned>>
workerVars == <<wk, outcome>>
signalVars == <<cancel, interrupt>>
vars == <<callVars, workerVars, queue, expired, free, signalVars>>

WaitingForSlot == {"slot_signals", "slot_deadline", "slot_take"}
AwaitingResult == {"await_signals", "await_deadline", "await_get"}
Live == WaitingForSlot \cup {"start"} \cup AwaitingResult
Outcomes == {"value", "error"}
Abandonments == {"cancelled", "interrupted", "timeout"}
Results == Outcomes \cup Abandonments \cup {"start_error"}
WorkerHoldsSlot == {"run", "put", "release"}

Idle(t) == \A c \in Calls : Owner[c] = t => pc[c] \notin Live

Init ==
    /\ pc = [c \in Calls |-> "new"]
    /\ result = [c \in Calls |-> "none"]
    /\ wk = [c \in Calls |-> "none"]
    /\ outcome = [c \in Calls |-> "none"]
    /\ queue = [c \in Calls |-> "empty"]
    /\ abandoned = [c \in Calls |-> FALSE]
    /\ expired = [c \in Calls |-> FALSE]
    /\ free = Slots
    /\ cancel = [t \in Threads |-> FALSE]
    /\ interrupt = [t \in Threads |-> FALSE]

-----------------------------------------------------------------------------
(* The caller.  Each step of a poll loop is an action of its own, since     *)
(* signals, deadlines and the worker move between them.                     *)

At(c, here) == pc[c] = here
Goto(c, there) == pc' = [pc EXCEPT ![c] = there]

\* As if the caller gave the slot of the worker it leaves back itself, and as
\* if it did not mark itself as gone.
AbandonReleasing(c, why) ==
    /\ Goto(c, "done")
    /\ result' = [result EXCEPT ![c] = why]
    /\ abandoned' = [abandoned EXCEPT ![c] = TRUE]
    /\ free' = IF pc[c] \in AwaitingResult THEN free + 1 ELSE free
    /\ UNCHANGED <<workerVars, queue, expired, signalVars>>

\* run() raises without a result: _abandoned is set and the worker, if there
\* is one, is left running.
Abandon(c, why) ==
    /\ Goto(c, "done")
    /\ result' = [result EXCEPT ![c] = why]
    /\ abandoned' = [abandoned EXCEPT ![c] = TRUE]
    /\ UNCHANGED <<workerVars, queue, expired, free, signalVars>>

\* run() ends with what the worker (or starting it) produced.
Finish(c, how) ==
    /\ Goto(c, "done")
    /\ result' = [result EXCEPT ![c] = how]
    /\ UNCHANGED <<workerVars, abandoned, expired, signalVars>>

Proceed(c, there) ==
    /\ Goto(c, there)
    /\ UNCHANGED <<result, abandoned, workerVars, queue, expired, free, signalVars>>

Begin(c) ==
    /\ At(c, "new")
    /\ Idle(Owner[c])
    /\ Proceed(c, "slot_signals")

\* _raise_if_any_signal_set: the cancellation signal is looked at first.
CheckSignals(c, here, there) ==
    /\ At(c, here)
    /\ \/ cancel[Owner[c]] /\ Abandon(c, "cancelled")
       \/ ~cancel[Owner[c]] /\ interrupt[Owner[c]] /\ Abandon(c, "interrupted")
       \/ ~cancel[Owner[c]] /\ ~interrupt[Owner[c]] /\ Proceed(c, there)

CheckDeadline(c, here, there) ==
    /\ At(c, here)
    /\ \/ expired[c] /\ Abandon(c, "timeout")
       \/ ~expired[c] /\ Proceed(c, there)

\* Semaphore.acquire(timeout) gives up only when it sees the value 0.
TakeSlot(c) ==
    /\ At(c, "slot_take")
    /\ \/ /\ free > 0
          /\ free' = free - 1
          /\ Goto(c, "start")
          /\ UNCHANGED <<result, abandoned, workerVars, queue, expired, signalVars>>
       \/ free = 0 /\ Proceed(c, "slot_signals")

AcquireSlot(c) ==
    \/ CheckSignals(c, "slot_signals", "slot_deadline")
    \/ CheckDeadline(c, "slot_deadline", "slot_take")
    \/ TakeSlot(c)

\* As if the slot of a worker that cannot be started were lost.
StartWorkerLeaky(c) ==
    /\ At(c, "start")
    /\ \/ /\ wk' = [wk EXCEPT ![c] = "run"]
          /\ Goto(c, "await_signals")
          /\ UNCHANGED <<result, abandoned, outcome, queue, expired, free, signalVars>>
       \/ Finish(c, "start_error") /\ UNCHANGED <<queue, free>>

\* Thread.start may raise; the slot is then given back by the caller.
StartWorker(c) ==
    /\ At(c, "start")
    /\ \/ /\ wk' = [wk EXCEPT ![c] = "run"]
          /\ Goto(c, "await_signals")
          /\ UNCHANGED <<result, abandoned, outcome, queue, expired, free, signalVars>>
       \/ /\ Finish(c, "start_error")
          /\ free' = free + 1
          /\ UNCHANGED queue

\* Queue.get(timeout) raises Empty only when it sees an empty queue.
GetOutcome(c) ==
    /\ At(c, "await_get")
    /\ \/ /\ queue[c] # "empty"
          /\ Finish(c, queue[c])
          /\ queue' = [queue EXCEPT ![c] = "empty"]
          /\ UNCHANGED free
       \/ queue[c] = "empty" /\ Proceed(c, "await_signals")

\* As if the poll loop only looked at the clock and the queue.
AwaitResultUnsignalled(c) ==
    \/ At(c, "await_signals") /\ Proceed(c, "await_deadline")
    \/ CheckDeadline(c, "await_deadline", "await_get")
    \/ GetOutcome(c)

AwaitResult(c) ==
    \/ CheckSignals(c, "await_signals", "await_deadline")
    \/ CheckDeadline(c, "await_deadline", "await_get")
    \/ GetOutcome(c)

Run(c) == AcquireSlot(c) \/ StartWorker(c) \/ AwaitResult(c)

-----------------------------------------------------------------------------
(* The worker, which neither sees the signals nor the deadline.             *)

WorkerAt(c, here, there) ==
    /\ wk[c] = here
    /\ wk' = [wk EXCEPT ![c] = there]

FnReturns(c, o) ==
    /\ WorkerAt(c, "run", "put")
    /\ outcome' = [outcome EXCEPT ![c] = o]
    /\ UNCHANGED <<callVars, queue, expired, free, signalVars>>

\* put_nowait, which drops the outcome when the queue is full.
PutOutcome(c) ==
    /\ WorkerAt(c, "put", "release")
    /\ queue' = IF queue[c] = "empty"
                THEN [queue EXCEPT ![c] = outcome[c]] ELSE queue
    /\ UNCHANGED <<callVars, outcome, expired, free, signalVars>>

\* As if an abandoned worker were not accounted for any more.
ReleaseIfAwaited(c) ==
    /\ WorkerAt(c, "release", "ended")
    /\ free' = IF abandoned[c] THEN free ELSE free + 1
    /\ UNCHANGED <<callVars, outcome, queue, expired, signalVars>>

ReleaseSlot(c) ==
    /\ WorkerAt(c, "release", "ended")
    /\ free' = free + 1
    /\ UNCHANGED <<callVars, outcome, queue, expired, signalVars>>

-----------------------------------------------------------------------------
(* The clock and the pipe's owner.                                          *)

Expire(c) ==
    /\ c \in Timed
    /\ pc[c] \in Live
    /\ ~expired[c]
    /\ expired' = [expired EXCEPT ![c] = TRUE]
    /\ UNCHANGED <<callVars, workerVars, queue, free, signalVars>>

\* Signals are modelled while the thread still has a call to make or finish.
Signal(t) ==
    /\ \E c \in Calls : Owner[c] = t /\ pc[c] # "done"
    /\ \/ ~cancel[t] /\ cancel' = [cancel EXCEPT ![t] = TRUE] /\ UNCHANGED interrupt
       \/ ~interrupt[t] /\ interrupt' = [interrupt EXCEPT ![t] = TRUE] /\ UNCHANGED cancel
    /\ UNCHANGED <<callVars, workerVars, queue, expired, free>>

\* clear_interrupt (the interruption was handled) or initialize (a new run);
\* both are run by the run thread itself, between two calls.
ClearSignals(t) ==
    /\ Idle(t)
    /\ \E c \in Calls : Owner[c] = t /\ pc[c] # "done"
    /\ interrupt[t] \/ cancel[t]
    /\ interrupt' = [interrupt EXCEPT ![t] = FALSE]
    /\ cancel' \in {cancel, [cancel EXCEPT ![t] = FALSE]}
    /\ UNCHANGED <<callVars, workerVars, queue, expired, free>>

\* Every call was made and its worker, if it had one, is gone.
Terminated ==
    /\ \A c \in Calls : pc[c] = "done" /\ wk[c] \in {"none", "ended"}
    /\ UNCHANGED vars

Next ==
    \/ \E c \in Calls :
        \/ Begin(c) \/ Run(c)
        \/ \E o \in Outcomes : FnReturns(c, o)
        \/ PutOutcome(c) \/ ReleaseSlot(c)
        \/ Expire(c)
    \/ \E t \in Threads : Signal(t) \/ ClearSignals(t)
    \/ Terminated

Spec == Init /\ [][Next]_vars

(***************************************************************************)
(* The run thread keeps polling, the clock runs, and a worker whose        *)
(* function returned finishes.  Nothing makes a provider answer.           *)
(***************************************************************************)
Fairness ==
    \A c \in Calls :
        /\ WF_vars(Run(c))
        /\ WF_vars(PutOutcome(c))
        /\ WF_vars(ReleaseSlot(c))
        /\ WF_vars(Expire(c))

FairSpec == Spec /\ Fairness

\* Every function handed to a worker returns in the end.
FnsReturn == \A c \in Calls : WF_vars(\E o \in Outcomes : FnReturns(c, o))

-----------------------------------------------------------------------------
(* Properties                                                               *)

TypeOK ==
    /\ pc \in [Calls -> {"new", "done"} \cup Live]
    /\ result \in [Calls -> {"none"} \cup Results]
    /\ wk \in [Calls -> {"none", "ended"} \cup WorkerHoldsSlot]
    /\ outcome \in [Calls -> {"none"} \cup Outcomes]
    /\ queue \in [Calls -> {"empty"} \cup Outcomes]
    /\ abandoned \in [Calls -> BOOLEAN]
    /\ expired \in [Calls -> BOOLEAN]
    /\ free \in 0..Slots
    /\ cancel \in [Threads -> BOOLEAN]
    /\ interrupt \in [Threads -> BOOLEAN]

\* The calls that account for a slot: one between acquiring it and starting
\* its worker, and one whose worker lives, whether awaited or abandoned.
Holders == {c \in Calls : pc[c] = "start" \/ wk[c] \in WorkerHoldsSlot}

\* No slot is lost or given back twice on any path of _acquire_slot,
\* _start_worker and _worker: the semaphore's value and the slots in use
\* always add up to the pool, so at most Slots workers live at once, the
\* abandoned ones included.
SlotAccounting == free + Cardinality(Holders) = Slots

\* "A late worker result is ignored": a call that was left on a signal or a
\* deadline never reports its worker's outcome, and a call that reports an
\* outcome reports its own worker's, taken from the queue.
OutcomeIsWorkers ==
    \A c \in Calls :
        /\ abandoned[c] <=> result[c] \in Abandonments
        /\ result[c] \in Outcomes =>
              outcome[c] = result[c] /\ queue[c] = "empty" /\ wk[c] \in {"release", "ended"}

\* The caller of run_cancellable_external_call stops waiting once a control
\* signal is set or, if it has a timeout, in any case: even when its worker never
\* returns, and when the pool is exhausted by workers that never return.
WaitEnds ==
    \A c \in Calls :
        pc[c] \in Live /\ (cancel[Owner[c]] \/ interrupt[Owner[c]] \/ c \in Timed)
            ~> pc[c] = "done"

\* When functions return, no caller waits for a slot or an outcome for ever,
\* and the pool of slots is whole again after the last call, however its callers
\* left: abandoned workers hold their slots for a while only.
PoolRecovers ==
    FnsReturn =>
        /\ \A c \in Calls : pc[c] \in Live ~> pc[c] = "done"
        /\ (\A c \in Calls : pc[c] = "done") ~> (free = Slots)

-----------------------------------------------------------------------------
(* What the caller sees of a call and what becomes of its function.         *)
StatusOf(c) == IF pc[c] = "new" THEN "idle" ELSE IF pc[c] = "done" THEN "returned" ELSE "pending"
FnOf(c) == IF wk[c] = "none" THEN "unrun" ELSE IF wk[c] = "run" THEN "running" ELSE "over"

Contract == INSTANCE CallContract WITH
    status <- [c \in Calls |-> StatusOf(c)],
    reply <- result,
    fn <- [c \in Calls |-> FnOf(c)],
    value <- outcome

\* run_cancellable_external_call does what CallContract promises: the poll
\* loops, the hand-over through the queue, the semaphore and the late workers
\* show the caller nothing but one reply per call, and never more functions at
\* work than the pool has slots.
ImplementsContract == Contract!Spec
=============================================================================
