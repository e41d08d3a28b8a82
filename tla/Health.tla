-------------------------------- MODULE Health --------------------------------
(***************************************************************************)
(* shed/dependency_health.py: DependencyHealthMonitor.                     *)
(*                                                                         *)
(* A scheduler task observes every dependency round after round.  An       *)
(* observation creates a check task, which runs the blocking check of the  *)
(* resource in a worker thread, and waits for it with a timeout.  Checks   *)
(* that wait on the network take one of max_concurrency slots first, and   *)
(* that wait is not timed.  A check that times out stays in flight, with   *)
(* its slot, until its thread returns; the next rounds pass over it.       *)
(* Everything but the threads runs on one event loop.                      *)
(***************************************************************************)
EXTENDS Integers, FiniteSets

CONSTANTS
    Deps,           \* dependency identities, after dedupe_external_dependencies
    Network,        \* the ones whose kind waits_on_network
    MaxConcurrency, \* the slots
    MaxStops        \* bound: times the application stops the monitor

ASSUME DepsAssumption == IsFiniteSet(Deps) /\ Network \subseteq Deps
ASSUME ConcurrencyAssumption == MaxConcurrency \in Nat \ {0}
ASSUME StopsAssumption == MaxStops \in Nat

VARIABLES
    sched,      \* the scheduler task
    task,       \* _inflight: the check task registered for each dependency
    obs,        \* the observer that waits for it
    callback,   \* _clear_inflight to be called, for that task or an older one
    threads,    \* worker threads at work for each dependency
    slots,      \* the value of _semaphore
    record,     \* the cached status
    abandoned,  \* <<d, n>>: a thread of d whose task the n-th stop() cancelled
    stops       \* how often the monitor was stopped

healthVars == <<sched, task, obs, callback, threads, slots, record, abandoned, stops>>

InFlight == {"queued", "running"}
Statuses == {"available", "unavailable"}
Slot(d) == IF d \in Network THEN 1 ELSE 0

HealthInit ==
    /\ sched = "off"
    /\ task = [d \in Deps |-> "none"]
    /\ obs = [d \in Deps |-> "none"]
    /\ callback = [d \in Deps |-> "none"]
    /\ threads = [d \in Deps |-> 0]
    /\ slots = MaxConcurrency
    /\ record = [d \in Deps |-> "pending"]
    /\ abandoned = {}
    /\ stops = 0

-----------------------------------------------------------------------------
(* The scheduler.                                                           *)

\* start, by the application that owns the monitor, once a stop is over.
Start ==
    /\ sched = "off"
    /\ sched' = "begin"
    /\ UNCHANGED <<task, obs, callback, threads, slots, record, abandoned, stops>>

\* As if an observation did not look for a check that is still in flight.
BeginRoundAfresh ==
    /\ sched = "begin"
    /\ sched' = "round"
    /\ task' = [d \in Deps |-> "queued"]
    /\ obs' = [d \in Deps |-> "waits"]
    /\ UNCHANGED <<callback, threads, slots, record, abandoned, stops>>

\* As if a dependency once found unavailable were not looked at again.
BeginRoundSkipFailed ==
    /\ sched = "begin"
    /\ sched' = "round"
    /\ LET new == {d \in Deps : task[d] \notin InFlight /\ record[d] # "unavailable"} IN
       /\ task' = [d \in Deps |-> IF d \in new THEN "queued" ELSE task[d]]
       /\ obs' = [d \in Deps |-> IF d \in new THEN "waits" ELSE "none"]
    /\ UNCHANGED <<callback, threads, slots, record, abandoned, stops>>

\* run_once: one _observe per dependency.  A check that is not done is left
\* alone; one that is done but still registered is replaced, and what is still
\* to be called for it belongs to an older task from then on.
BeginRound ==
    /\ sched = "begin"
    /\ sched' = "round"
    /\ LET new == {d \in Deps : task[d] \notin InFlight} IN
       /\ task' = [d \in Deps |-> IF d \in new THEN "queued" ELSE task[d]]
       /\ obs' = [d \in Deps |-> IF d \in new THEN "waits" ELSE "none"]
       /\ callback' = [d \in Deps |-> IF d \in new /\ callback[d] = "own" THEN "old" ELSE callback[d]]
    /\ UNCHANGED <<threads, slots, record, abandoned, stops>>

\* _schedule: gather returns when every observer is through, then it sleeps.
EndRound ==
    /\ sched = "round"
    /\ \A d \in Deps : obs[d] = "none"
    /\ sched' = "sleep"
    /\ UNCHANGED <<task, obs, callback, threads, slots, record, abandoned, stops>>
WakeUp ==
    /\ sched = "sleep"
    /\ sched' = "begin"
    /\ UNCHANGED <<task, obs, callback, threads, slots, record, abandoned, stops>>

-----------------------------------------------------------------------------
(* One check and its observer.                                              *)

\* _run_check: a network check takes a slot, the others start at once.
StartCheck(d) ==
    /\ task[d] = "queued"
    /\ slots >= Slot(d)
    /\ slots' = slots - Slot(d)
    /\ task' = [task EXCEPT ![d] = "running"]
    /\ threads' = [threads EXCEPT ![d] = @ + 1]
    /\ UNCHANGED <<sched, obs, callback, record, abandoned, stops>>

\* check_dependency returns in its thread; the task ends and frees its slot.
CheckReturns(d) ==
    /\ threads[d] > 0
    /\ threads' = [threads EXCEPT ![d] = @ - 1]
    /\ IF task[d] = "running"
       THEN /\ task' = [task EXCEPT ![d] = "done"]
            /\ slots' = slots + Slot(d)
       ELSE UNCHANGED <<task, slots>>
    /\ UNCHANGED <<sched, obs, callback, record, abandoned, stops>>

\* _observe: running is set, and the timed wait begins.
TimedWait(d) ==
    /\ obs[d] = "waits"
    /\ task[d] # "queued"
    /\ obs' = [obs EXCEPT ![d] = "timed"]
    /\ UNCHANGED <<sched, task, callback, threads, slots, record, abandoned, stops>>

\* The check is done in time: its answer is recorded and the task unregistered.
RecordAnswer(d, status) ==
    /\ obs[d] = "timed"
    /\ task[d] = "done"
    /\ obs' = [obs EXCEPT ![d] = "none"]
    /\ record' = [record EXCEPT ![d] = status]
    /\ task' = [task EXCEPT ![d] = "none"]
    /\ UNCHANGED <<sched, callback, threads, slots, abandoned, stops>>

\* As if the timeout ended the task itself, without a shield: the slot is
\* given back and the thread goes on.
RecordTimeoutUnshielded(d) ==
    /\ obs[d] = "timed" /\ task[d] = "running"
    /\ obs' = [obs EXCEPT ![d] = "none"]
    /\ record' = [record EXCEPT ![d] = "unavailable"]
    /\ task' = [task EXCEPT ![d] = "none"]
    /\ slots' = slots + Slot(d)
    /\ UNCHANGED <<sched, callback, threads, abandoned, stops>>

\* wait_for gives up; the shielded task goes on, to be unregistered when done.
RecordTimeout(d) ==
    /\ obs[d] = "timed"
    /\ task[d] = "running"
    /\ obs' = [obs EXCEPT ![d] = "none"]
    /\ record' = [record EXCEPT ![d] = "unavailable"]
    /\ callback' = [callback EXCEPT ![d] = "own"]
    /\ UNCHANGED <<sched, task, threads, slots, abandoned, stops>>

\* _clear_inflight, called when its task is done: it removes only that task.
ClearInflight(d) ==
    /\ callback[d] = "old" \/ (callback[d] = "own" /\ task[d] = "done")
    /\ callback' = [callback EXCEPT ![d] = "none"]
    /\ IF callback[d] = "own"
       THEN task' = [task EXCEPT ![d] = "none"]
       ELSE UNCHANGED task
    /\ UNCHANGED <<sched, obs, threads, slots, record, abandoned, stops>>

-----------------------------------------------------------------------------
(* stop                                                                     *)

\* The scheduler is cancelled, and its observers with it: one in its timed
\* wait unregisters a task that is done and leaves a callback to one that is
\* not; one that still waits for its check to run just goes.
StopScheduler ==
    /\ sched \in {"begin", "round", "sleep"}
    /\ stops < MaxStops
    /\ stops' = stops + 1
    /\ sched' = "stopping"
    /\ obs' = [d \in Deps |-> "none"]
    /\ task' = [d \in Deps |-> IF obs[d] = "timed" /\ task[d] = "done" THEN "none" ELSE task[d]]
    /\ callback' = [d \in Deps |-> IF obs[d] = "timed" /\ task[d] = "running" THEN "own" ELSE callback[d]]
    /\ UNCHANGED <<threads, slots, record, abandoned>>

\* The checks in flight are cancelled, which frees their slots but does not
\* end their threads, and _inflight is emptied.
StopChecks ==
    /\ sched = "stopping"
    /\ sched' = "off"
    /\ LET cut == {d \in Deps : task[d] = "running"} IN
       /\ abandoned' = abandoned \cup (cut \X {stops})
       /\ threads' = [d \in Deps |-> IF d \in cut THEN threads[d] - 1 ELSE threads[d]]
       /\ slots' = slots + Cardinality(cut \cap Network)
    /\ task' = [d \in Deps |-> "none"]
    /\ callback' = [d \in Deps |-> "none"]
    /\ UNCHANGED <<obs, record, stops>>

\* An abandoned thread returns, to nobody.
AbandonedReturns(d) ==
    /\ \E n \in 1..stops : <<d, n>> \in abandoned /\ abandoned' = abandoned \ {<<d, n>>}
    /\ UNCHANGED <<sched, task, obs, callback, threads, slots, record, stops>>

HealthNext ==
    \/ Start \/ BeginRound \/ EndRound \/ WakeUp
    \/ StopScheduler \/ StopChecks
    \/ \E d \in Deps :
        \/ StartCheck(d) \/ CheckReturns(d) \/ TimedWait(d) \/ RecordTimeout(d)
        \/ \E status \in Statuses : RecordAnswer(d, status)
        \/ ClearInflight(d) \/ AbandonedReturns(d)

HealthSpec == HealthInit /\ [][HealthNext]_healthVars

(***************************************************************************)
(* The event loop runs what is ready, the clock runs, and the semaphore    *)
(* serves its waiters in order, so that one that finds a slot free again   *)
(* and again gets it.                                                      *)
(***************************************************************************)
LoopFairness ==
    /\ WF_healthVars(BeginRound) /\ WF_healthVars(EndRound) /\ WF_healthVars(WakeUp) /\ WF_healthVars(StopChecks)
    /\ \A d \in Deps :
        /\ SF_healthVars(StartCheck(d))
        /\ WF_healthVars(TimedWait(d)) /\ WF_healthVars(\E status \in Statuses : RecordAnswer(d, status)) /\ WF_healthVars(RecordTimeout(d))
        /\ WF_healthVars(ClearInflight(d))
\* Every check returns in the end, late or not.
FairSpec == HealthSpec /\ LoopFairness /\ \A d \in Deps : WF_healthVars(CheckReturns(d))
\* The network may be stuck for good; local checks return.
StuckSpec == HealthSpec /\ LoopFairness /\ \A d \in Deps \ Network : WF_healthVars(CheckReturns(d))

-----------------------------------------------------------------------------
(***************************************************************************)
(* One check per dependency: an observation never starts a check while the *)
(* thread of an earlier one is at work, timed out or not, unless a stop()  *)
(* cut it off ("without overlapping an in-flight check").                  *)
(***************************************************************************)
NoOverlappingChecks == \A d \in Deps : threads[d] <= 1

\* The network checks that are at work though the n-th stop() cut them off.
CutOff(n) == {d \in Network : <<d, n>> \in abandoned}

(***************************************************************************)
(* Of one start of the monitor at most max_concurrency network checks are  *)
(* at work, whether they are waited for, timed out or were cut off by the  *)
(* stop() that ended it: a slot is missing only while its check runs, and  *)
(* none comes back but to a check that returned or was cut off.  Over      *)
(* several starts there can be more, against what the docstrings of the    *)
(* class and of run_once say: stop() frees slots whose threads go on.      *)
(***************************************************************************)
SlotsBoundChecks ==
    /\ Cardinality({d \in Network : threads[d] > 0}) <= MaxConcurrency
    /\ \A n \in 1..stops : Cardinality(CutOff(n)) <= MaxConcurrency
    /\ slots = MaxConcurrency - Cardinality({d \in Network : task[d] = "running"})

(***************************************************************************)
(* While the monitor is on, every dependency is observed again and again.  *)
(***************************************************************************)
KeepsObserving == \A d \in Deps : []<>(obs[d] = "timed" \/ sched = "off")

(***************************************************************************)
(* The same for the dependencies that do not wait on the network, whatever *)
(* the network does ("the other kinds are checked at once, so a stuck      *)
(* network never hides them").                                             *)
(***************************************************************************)
LocalStaysObserved == \A d \in Deps \ Network : []<>(obs[d] = "timed" \/ sched = "off")
=============================================================================
