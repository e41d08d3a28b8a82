-------------------------- MODULE ExternalCallProofs --------------------------
(***************************************************************************)
(* Proofs about ExternalCall for any calls, run threads and pool size.     *)
(*                                                                         *)
(* SlotAccounting is not inductive: that a worker is started on a slot     *)
(* nobody else accounts for needs to know that the worker does not exist   *)
(* before _start_worker.  CallInv relates where a caller is to where its   *)
(* worker is, to the queue between them and to what both have reported.    *)
(***************************************************************************)
EXTENDS ExternalCall, FiniteSetTheorems, TLAPS

BeforeWorker == {"new", "start"} \cup WaitingForSlot

CallInv ==
    \A c \in Calls :
        /\ pc[c] \in BeforeWorker => wk[c] = "none"
        /\ pc[c] # "done" <=> result[c] = "none"
        /\ abandoned[c] <=> result[c] \in Abandonments
        /\ wk[c] \in {"put", "release", "ended"} => outcome[c] \in Outcomes
        /\ queue[c] # "empty" => queue[c] = outcome[c] /\ wk[c] \in {"release", "ended"}
        /\ result[c] \in Outcomes =>
              outcome[c] = result[c] /\ queue[c] = "empty" /\ wk[c] \in {"release", "ended"}

Inv == TypeOK /\ SlotAccounting /\ CallInv

-----------------------------------------------------------------------------
\* Holders is finite, so that its cardinality is a number.
LEMMA HoldersFinite == IsFiniteSet(Holders) /\ Cardinality(Holders) \in Nat
  <1>1. Holders \subseteq Calls
    BY DEF Holders
  <1>2. QED
    BY <1>1, CallsAssumption, FS_Subset, FS_CardinalityType

\* A call that starts to account for a slot adds one to the slots in use.
LEMMA HolderAdded ==
  ASSUME NEW c \in Calls, c \notin Holders, Holders' = Holders \cup {c}
  PROVE  Cardinality(Holders') = Cardinality(Holders) + 1
  BY HoldersFinite, FS_AddElement

\* A call that stops accounting for a slot removes one.
LEMMA HolderRemoved ==
  ASSUME NEW c \in Calls, c \in Holders, Holders' = Holders \ {c}
  PROVE  Cardinality(Holders') = Cardinality(Holders) - 1
  BY HoldersFinite, FS_RemoveElement

-----------------------------------------------------------------------------
\* The initial state, in which nobody has called and the pool is whole.
LEMMA InitInv == Init => Inv
  <1> SUFFICES ASSUME Init PROVE Inv
    OBVIOUS
  <1> USE DEF Init
  <1>1. TypeOK
    BY SlotsAssumption DEF TypeOK, Live, WaitingForSlot, AwaitingResult
  <1>2. SlotAccounting
    <2>1. Holders = {}
      BY DEF Holders, WorkerHoldsSlot
    <2>2. QED
      BY <2>1, FS_EmptySet, SlotsAssumption DEF SlotAccounting
  <1>3. CallInv
    BY DEF CallInv, BeforeWorker, WaitingForSlot, Abandonments, Outcomes
  <1>4. QED
    BY <1>1, <1>2, <1>3 DEF Inv

\* A step that only moves a caller, not to or from "start", and touches
\* neither its worker nor the pool, keeps the slots in use.
LEMMA HoldersKept ==
  ASSUME TypeOK, NEW c \in Calls, NEW there \in {"new", "done"} \cup Live,
         pc' = [pc EXCEPT ![c] = there], pc[c] # "start", there # "start",
         wk' = wk
  PROVE  Holders' = Holders
  BY DEF Holders, TypeOK

\* Leaving on a signal or a deadline keeps the invariant.
LEMMA AbandonInv ==
  ASSUME Inv, NEW c \in Calls, pc[c] \in Live \ {"start"},
         NEW why \in Abandonments, Abandon(c, why)
  PROVE  Inv'
  <1> USE DEF Abandon, Goto, workerVars, signalVars
  <1>1. TypeOK'
    BY DEF Inv, TypeOK, Results
  <1>2. Holders' = Holders
    BY HoldersKept DEF Inv, Live
  <1>3. SlotAccounting'
    BY <1>2 DEF Inv, SlotAccounting
  <1>4. CallInv'
    BY DEF Inv, TypeOK, CallInv, BeforeWorker, WaitingForSlot, Abandonments, Outcomes, Live, AwaitingResult
  <1>5. QED
    BY <1>1, <1>3, <1>4 DEF Inv

\* Moving on to a later or an earlier step of a poll loop keeps it.
LEMMA ProceedInv ==
  ASSUME Inv, NEW c \in Calls, NEW there, Proceed(c, there),
         \/ pc[c] \in {"new"} \cup WaitingForSlot /\ there \in WaitingForSlot
         \/ pc[c] \in AwaitingResult /\ there \in AwaitingResult
  PROVE  Inv'
  <1> USE DEF Proceed, Goto, workerVars, signalVars
  <1>1. TypeOK'
    BY DEF Inv, TypeOK, Live
  <1>2. Holders' = Holders
    BY HoldersKept DEF Inv, Live, WaitingForSlot, AwaitingResult
  <1>3. SlotAccounting'
    BY <1>2 DEF Inv, SlotAccounting
  <1>4. CallInv'
    BY DEF Inv, TypeOK, CallInv, BeforeWorker, WaitingForSlot, AwaitingResult
  <1>5. QED
    BY <1>1, <1>3, <1>4 DEF Inv

\* _acquire_slot keeps the invariant.
LEMMA AcquireSlotInv ==
  ASSUME Inv, NEW c \in Calls, AcquireSlot(c)
  PROVE  Inv'
  <1>1. CASE CheckSignals(c, "slot_signals", "slot_deadline")
    BY <1>1, AbandonInv, ProceedInv
    DEF CheckSignals, At, Live, WaitingForSlot, Abandonments
  <1>2. CASE CheckDeadline(c, "slot_deadline", "slot_take")
    BY <1>2, AbandonInv, ProceedInv
    DEF CheckDeadline, At, Live, WaitingForSlot, Abandonments
  <1>3. CASE TakeSlot(c)
    <2>1. CASE free = 0 /\ Proceed(c, "slot_signals")
      BY <1>3, <2>1, ProceedInv DEF TakeSlot, At, WaitingForSlot
    <2>2. CASE /\ free > 0
               /\ free' = free - 1
               /\ Goto(c, "start")
               /\ UNCHANGED <<result, abandoned, workerVars, queue, expired, signalVars>>
      <3> USE <2>2, <1>3 DEF TakeSlot, At, Goto, workerVars, signalVars
      <3>1. TypeOK'
        BY SlotsAssumption DEF Inv, TypeOK, Live
      <3>2. c \notin Holders
        BY DEF Inv, CallInv, Holders, BeforeWorker, WaitingForSlot, WorkerHoldsSlot
      <3>3. Holders' = Holders \cup {c}
        BY DEF Inv, TypeOK, Holders
      <3>4. SlotAccounting'
        <4>1. Cardinality(Holders') = Cardinality(Holders) + 1
          BY <3>2, <3>3, HolderAdded
        <4>2. free \in Nat /\ free' = free - 1 /\ free + Cardinality(Holders) = Slots
          BY SlotsAssumption DEF Inv, TypeOK, SlotAccounting
        <4>3. QED
          BY <4>1, <4>2, HoldersFinite, SlotsAssumption DEF SlotAccounting
      <3>5. CallInv'
        BY DEF Inv, TypeOK, CallInv, BeforeWorker, WaitingForSlot
      <3>6. QED
        BY <3>1, <3>4, <3>5 DEF Inv
    <2>3. QED
      BY <1>3, <2>1, <2>2 DEF TakeSlot
  <1>4. QED
    BY <1>1, <1>2, <1>3 DEF AcquireSlot

\* _start_worker keeps it, whether Thread.start succeeds or raises.
LEMMA StartWorkerInv ==
  ASSUME Inv, NEW c \in Calls, StartWorker(c)
  PROVE  Inv'
  <1> USE DEF At, Goto, workerVars, signalVars
  <1>0. pc[c] = "start" /\ c \in Holders
    BY DEF StartWorker, Holders
  <1>1. CASE /\ wk' = [wk EXCEPT ![c] = "run"]
             /\ Goto(c, "await_signals")
             /\ UNCHANGED <<result, abandoned, outcome, queue, expired, free, signalVars>>
    <2>1. TypeOK'
      BY <1>1 DEF Inv, TypeOK, Live, AwaitingResult, WorkerHoldsSlot
    <2>2. Holders' = Holders
      BY <1>0, <1>1 DEF Inv, TypeOK, Holders, WorkerHoldsSlot
    <2>3. SlotAccounting'
      BY <1>1, <2>2 DEF Inv, SlotAccounting
    <2>4. CallInv'
      BY <1>0, <1>1
      DEF Inv, TypeOK, CallInv, BeforeWorker, WaitingForSlot, Outcomes, Abandonments
    <2>5. QED
      BY <2>1, <2>3, <2>4 DEF Inv
  <1>2. CASE Finish(c, "start_error") /\ free' = free + 1 /\ UNCHANGED queue
    <2> USE DEF Finish
    <2>1. wk[c] = "none"
      BY <1>0 DEF Inv, CallInv, BeforeWorker
    <2>2. Holders' = Holders \ {c}
      BY <1>0, <1>2, <2>1 DEF Inv, TypeOK, Holders, WorkerHoldsSlot
    <2>3. SlotAccounting'
      <3>1. Cardinality(Holders') = Cardinality(Holders) - 1
        BY <1>0, <2>2, HolderRemoved
      <3>2. free \in Nat /\ free' = free + 1 /\ free + Cardinality(Holders) = Slots
        BY <1>2, SlotsAssumption DEF Inv, TypeOK, SlotAccounting
      <3>3. QED
        BY <3>1, <3>2, HoldersFinite, SlotsAssumption DEF SlotAccounting
    <2>4. free' \in 0..Slots
      <3>1. Cardinality(Holders) \in Nat /\ Cardinality(Holders) # 0
        BY <1>0, HoldersFinite, FS_EmptySet
      <3>2. QED
        BY <1>2, <3>1, SlotsAssumption DEF Inv, TypeOK, SlotAccounting
    <2>5. TypeOK'
      BY <1>2, <2>4 DEF Inv, TypeOK, Results
    <2>6. CallInv'
      BY <1>0, <1>2
      DEF Inv, TypeOK, CallInv, BeforeWorker, WaitingForSlot, Outcomes, Abandonments
    <2>7. QED
      BY <2>3, <2>5, <2>6 DEF Inv
  <1>3. QED
    BY <1>1, <1>2 DEF StartWorker

\* _await_result keeps it: an outcome taken from the queue is the worker's.
LEMMA AwaitResultInv ==
  ASSUME Inv, NEW c \in Calls, AwaitResult(c)
  PROVE  Inv'
  <1>1. CASE CheckSignals(c, "await_signals", "await_deadline")
    BY <1>1, AbandonInv, ProceedInv
    DEF CheckSignals, At, Live, AwaitingResult, Abandonments
  <1>2. CASE CheckDeadline(c, "await_deadline", "await_get")
    BY <1>2, AbandonInv, ProceedInv
    DEF CheckDeadline, At, Live, AwaitingResult, Abandonments
  <1>3. CASE GetOutcome(c)
    <2>1. CASE queue[c] = "empty" /\ Proceed(c, "await_signals")
      BY <1>3, <2>1, ProceedInv DEF GetOutcome, At, AwaitingResult
    <2>2. CASE /\ queue[c] # "empty"
               /\ Finish(c, queue[c])
               /\ queue' = [queue EXCEPT ![c] = "empty"]
               /\ UNCHANGED free
      <3> USE <2>2 DEF Finish, Goto, At, workerVars, signalVars
      <3>1. pc[c] = "await_get"
        BY <1>3 DEF GetOutcome
      <3>2. queue[c] \in Outcomes
        BY DEF Inv, TypeOK
      <3>3. TypeOK'
        BY <3>2 DEF Inv, TypeOK, Results
      <3>4. Holders' = Holders
        BY <3>1 DEF Inv, TypeOK, Holders
      <3>5. SlotAccounting'
        BY <3>4 DEF Inv, SlotAccounting
      <3>6. CallInv'
        BY <3>1, <3>2
        DEF Inv, TypeOK, CallInv, BeforeWorker, WaitingForSlot, Outcomes, Abandonments
      <3>7. QED
        BY <3>3, <3>5, <3>6 DEF Inv
    <2>3. QED
      BY <1>3, <2>1, <2>2 DEF GetOutcome
  <1>4. QED
    BY <1>1, <1>2, <1>3 DEF AwaitResult

\* The three steps of _worker keep it.
LEMMA WorkerInv ==
  ASSUME Inv, NEW c \in Calls,
         \/ \E o \in Outcomes : FnReturns(c, o)
         \/ PutOutcome(c)
         \/ ReleaseSlot(c)
  PROVE  Inv'
  <1> USE DEF WorkerAt, callVars, signalVars
  <1>1. ASSUME NEW o \in Outcomes, FnReturns(c, o) PROVE Inv'
    <2> USE <1>1 DEF FnReturns
    <2>1. TypeOK'
      BY DEF Inv, TypeOK, WorkerHoldsSlot
    <2>2. Holders' = Holders
      BY DEF Inv, TypeOK, Holders, WorkerHoldsSlot
    <2>3. SlotAccounting'
      BY <2>2 DEF Inv, SlotAccounting
    <2>4. CallInv'
      BY DEF Inv, TypeOK, CallInv
    <2>5. QED
      BY <2>1, <2>3, <2>4 DEF Inv
  <1>2. CASE PutOutcome(c)
    <2> USE <1>2 DEF PutOutcome
    <2>1. queue[c] = "empty" /\ outcome[c] \in Outcomes
      BY DEF Inv, CallInv
    <2>2. TypeOK'
      BY <2>1 DEF Inv, TypeOK, WorkerHoldsSlot
    <2>3. Holders' = Holders
      BY DEF Inv, TypeOK, Holders, WorkerHoldsSlot
    <2>4. SlotAccounting'
      BY <2>3 DEF Inv, SlotAccounting
    <2>5. CallInv'
      BY <2>1 DEF Inv, TypeOK, CallInv
    <2>6. QED
      BY <2>2, <2>4, <2>5 DEF Inv
  <1>3. CASE ReleaseSlot(c)
    <2> USE <1>3 DEF ReleaseSlot
    <2>1. c \in Holders
      BY DEF Holders, WorkerHoldsSlot
    <2>2. pc[c] # "start"
      BY DEF Inv, CallInv, BeforeWorker
    <2>3. Holders' = Holders \ {c}
      BY <2>2 DEF Inv, TypeOK, Holders, WorkerHoldsSlot
    <2>4. SlotAccounting'
      <3>1. Cardinality(Holders') = Cardinality(Holders) - 1
        BY <2>1, <2>3, HolderRemoved
      <3>2. free \in Nat /\ free' = free + 1 /\ free + Cardinality(Holders) = Slots
        BY SlotsAssumption DEF Inv, TypeOK, SlotAccounting
      <3>3. QED
        BY <3>1, <3>2, HoldersFinite, SlotsAssumption DEF SlotAccounting
    <2>5. free' \in 0..Slots
      <3>1. Cardinality(Holders) \in Nat /\ Cardinality(Holders) # 0
        BY <2>1, HoldersFinite, FS_EmptySet
      <3>2. QED
        BY <3>1, SlotsAssumption DEF Inv, TypeOK, SlotAccounting
    <2>6. TypeOK'
      BY <2>5 DEF Inv, TypeOK
    <2>7. CallInv'
      BY DEF Inv, TypeOK, CallInv
    <2>8. QED
      BY <2>4, <2>6, <2>7 DEF Inv
  <1>4. QED
    BY <1>1, <1>2, <1>3

\* Steps that leave callers, workers, queues and the pool alone keep it.
LEMMA FrameInv ==
  ASSUME Inv, UNCHANGED <<callVars, workerVars, queue, free>>,
         expired' \in [Calls -> BOOLEAN],
         cancel' \in [Threads -> BOOLEAN], interrupt' \in [Threads -> BOOLEAN]
  PROVE  Inv'
  <1> USE DEF callVars, workerVars
  <1>1. TypeOK'
    BY DEF Inv, TypeOK
  <1>2. SlotAccounting'
    BY DEF Inv, SlotAccounting, Holders
  <1>3. CallInv'
    BY DEF Inv, CallInv
  <1>4. QED
    BY <1>1, <1>2, <1>3 DEF Inv

\* Every step of the system keeps the invariant.
LEMMA NextInv == Inv /\ [Next]_vars => Inv'
  <1> SUFFICES ASSUME Inv, [Next]_vars PROVE Inv'
    OBVIOUS
  <1>1. ASSUME NEW c \in Calls, Begin(c) PROVE Inv'
    BY <1>1, ProceedInv DEF Begin, At, WaitingForSlot
  <1>2. ASSUME NEW c \in Calls, Run(c) PROVE Inv'
    BY <1>2, AcquireSlotInv, StartWorkerInv, AwaitResultInv DEF Run
  <1>3. ASSUME NEW c \in Calls,
               \/ \E o \in Outcomes : FnReturns(c, o)
               \/ PutOutcome(c)
               \/ ReleaseSlot(c)
        PROVE  Inv'
    BY <1>3, WorkerInv
  <1>4. ASSUME NEW c \in Calls, Expire(c) PROVE Inv'
    BY <1>4, FrameInv DEF Expire, Inv, TypeOK, signalVars
  <1>5. ASSUME NEW t \in Threads, Signal(t) \/ ClearSignals(t) PROVE Inv'
    BY <1>5, FrameInv DEF Signal, ClearSignals, Inv, TypeOK
  <1>6. CASE UNCHANGED vars
    BY <1>6, FrameInv DEF vars, Inv, TypeOK, signalVars
  <1>7. QED
    BY <1>1, <1>2, <1>3, <1>4, <1>5, <1>6 DEF Next, Terminated

-----------------------------------------------------------------------------
\* The variables of _ExternalCallRunner and of the slot pool keep their
\* types; in particular the BoundedSemaphore is never released beyond its
\* initial value, which would raise ValueError in the worker.
THEOREM TypeCorrect == Spec => []TypeOK
  <1>1. Inv => TypeOK
    BY DEF Inv
  <1>2. QED
    BY <1>1, InitInv, NextInv, PTL DEF Spec

\* No path through _acquire_slot, _start_worker and _worker loses a slot or
\* gives one back twice.
THEOREM SlotsConserved == Spec => []SlotAccounting
  <1>1. Inv => SlotAccounting
    BY DEF Inv
  <1>2. QED
    BY <1>1, InitInv, NextInv, PTL DEF Spec

\* A caller that leaves early never reports its worker's late outcome, and
\* one that reports an outcome reports its own worker's.
THEOREM LateOutcomeIgnored == Spec => []OutcomeIsWorkers
  <1>1. Inv => OutcomeIsWorkers
    BY DEF Inv, CallInv, OutcomeIsWorkers
  <1>2. QED
    BY <1>1, InitInv, NextInv, PTL DEF Spec

-----------------------------------------------------------------------------
(* ExternalCall implements CallContract.                                    *)

\* What a step does to the contract's status when one caller moves.
LEMMA StatusMoves ==
  ASSUME TypeOK, NEW c \in Calls, NEW there, pc' = [pc EXCEPT ![c] = there]
  PROVE  [d \in Calls |-> StatusOf(d)]' =
           [[d \in Calls |-> StatusOf(d)] EXCEPT ![c] =
              IF there = "new" THEN "idle" ELSE IF there = "done" THEN "returned" ELSE "pending"]
  BY DEF TypeOK, StatusOf

\* A caller that moves within a wait stays pending.
LEMMA StatusStays ==
  ASSUME TypeOK, NEW c \in Calls, NEW there,
         pc' = [pc EXCEPT ![c] = there], pc[c] \in Live, there \in Live
  PROVE  [d \in Calls |-> StatusOf(d)]' = [d \in Calls |-> StatusOf(d)]
  BY DEF TypeOK, StatusOf, Live, WaitingForSlot, AwaitingResult

\* What a step of one worker does to the contract's functions.
LEMMA FnMoves ==
  ASSUME TypeOK, NEW c \in Calls, NEW there, wk' = [wk EXCEPT ![c] = there]
  PROVE  [d \in Calls |-> FnOf(d)]' =
           [[d \in Calls |-> FnOf(d)] EXCEPT ![c] =
              IF there = "none" THEN "unrun" ELSE IF there = "run" THEN "running" ELSE "over"]
  BY DEF TypeOK, FnOf

\* Steps of the caller's wait, the queue and the pool are not seen.
LEMMA Hidden ==
  ASSUME [c \in Calls |-> StatusOf(c)]' = [c \in Calls |-> StatusOf(c)],
         [c \in Calls |-> FnOf(c)]' = [c \in Calls |-> FnOf(c)],
         result' = result, outcome' = outcome
  PROVE  UNCHANGED Contract!cvars
  BY DEF Contract!cvars

\* Leaving on a signal or a deadline is a reply of the contract.
LEMMA AbandonReplies ==
  ASSUME Inv, NEW c \in Calls, pc[c] \in Live, NEW why \in Abandonments, Abandon(c, why)
  PROVE  Contract!Reply(c, why)
  <1> USE DEF Abandon, Goto, workerVars
  <1>1. StatusOf(c) = "pending"
    BY DEF StatusOf, Live, WaitingForSlot, AwaitingResult
  <1>2. [d \in Calls |-> StatusOf(d)]' = [[d \in Calls |-> StatusOf(d)] EXCEPT ![c] = "returned"]
    BY StatusMoves DEF Inv
  <1>3. [d \in Calls |-> FnOf(d)]' = [d \in Calls |-> FnOf(d)]
    BY DEF FnOf
  <1>4. QED
    BY <1>1, <1>2, <1>3 DEF Contract!Reply

\* Moving on in a poll loop is hidden.
LEMMA ProceedHidden ==
  ASSUME Inv, NEW c \in Calls, NEW there \in Live, pc[c] \in Live, Proceed(c, there)
  PROVE  UNCHANGED Contract!cvars
  <1>1. [d \in Calls |-> StatusOf(d)]' = [d \in Calls |-> StatusOf(d)]
    BY StatusStays DEF Proceed, Goto, Inv
  <1>2. [d \in Calls |-> FnOf(d)]' = [d \in Calls |-> FnOf(d)]
    BY DEF FnOf, Proceed, workerVars
  <1>3. QED
    BY <1>1, <1>2, Hidden DEF Proceed, workerVars

\* A call that has its slot and not yet its worker leaves one function less
\* at work than the pool has slots.
LEMMA RoomToStart ==
  ASSUME Inv, NEW c \in Calls, pc[c] = "start"
  PROVE  Contract!Cardinality(Contract!Running) < Slots
  <1> DEFINE R == Contract!Running
  <1>1. wk[c] = "none" /\ c \in Holders
    BY DEF Inv, CallInv, BeforeWorker, Holders
  <1>2. R \subseteq Holders \ {c}
    BY <1>1 DEF Contract!Running, FnOf, Holders, WorkerHoldsSlot
  <1>3. /\ IsFiniteSet(Holders \ {c})
        /\ Cardinality(Holders \ {c}) = Cardinality(Holders) - 1
    BY <1>1, HoldersFinite, FS_RemoveElement
  <1>4. Cardinality(R) \in Nat /\ Cardinality(R) <= Cardinality(Holders) - 1
    <2>1. IsFiniteSet(R) /\ Cardinality(R) <= Cardinality(Holders \ {c})
      BY <1>2, <1>3, FS_Subset
    <2>2. Cardinality(R) \in Nat
      BY <2>1, FS_CardinalityType
    <2>3. QED
      BY <1>3, <2>1, <2>2
  <1>5. Cardinality(Holders) <= Slots
    BY HoldersFinite, SlotsAssumption DEF Inv, TypeOK, SlotAccounting
  <1>6. Contract!Cardinality(R) = Cardinality(R)
    BY DEF Cardinality, Contract!Cardinality
  <1>7. QED
    BY <1>4, <1>5, <1>6, HoldersFinite, SlotsAssumption

\* _start_worker starts the function, or replies that it could not.
LEMMA StartWorkerRefines ==
  ASSUME Inv, NEW c \in Calls, StartWorker(c)
  PROVE  Contract!StartFn(c) \/ Contract!Reply(c, "start_error")
  <1> USE DEF At, Goto
  <1>0. pc[c] = "start" /\ wk[c] = "none" /\ StatusOf(c) = "pending" /\ FnOf(c) = "unrun"
    BY DEF StartWorker, Inv, CallInv, BeforeWorker, StatusOf, FnOf
  <1>1. CASE /\ wk' = [wk EXCEPT ![c] = "run"]
             /\ Goto(c, "await_signals")
             /\ UNCHANGED <<result, abandoned, outcome, queue, expired, free, signalVars>>
    <2>1. [d \in Calls |-> StatusOf(d)]' = [d \in Calls |-> StatusOf(d)]
      BY <1>0, <1>1, StatusStays DEF Inv, Live, AwaitingResult
    <2>2. [d \in Calls |-> FnOf(d)]' = [[d \in Calls |-> FnOf(d)] EXCEPT ![c] = "running"]
      BY <1>1, FnMoves DEF Inv
    <2>3. QED
      BY <1>0, <1>1, <2>1, <2>2, RoomToStart DEF Contract!StartFn
  <1>2. CASE Finish(c, "start_error") /\ free' = free + 1 /\ UNCHANGED queue
    <2>1. [d \in Calls |-> StatusOf(d)]' = [[d \in Calls |-> StatusOf(d)] EXCEPT ![c] = "returned"]
      BY <1>2, StatusMoves DEF Inv, Finish
    <2>2. [d \in Calls |-> FnOf(d)]' = [d \in Calls |-> FnOf(d)]
      BY <1>2 DEF FnOf, Finish, workerVars
    <2>3. QED
      BY <1>0, <1>2, <2>1, <2>2 DEF Contract!Reply, Finish, workerVars
  <1>3. QED
    BY <1>1, <1>2 DEF StartWorker

\* An outcome taken from the queue is the reply of a function that is over.
LEMMA GetOutcomeRefines ==
  ASSUME Inv, NEW c \in Calls, GetOutcome(c)
  PROVE  (\E r \in Outcomes : Contract!Reply(c, r)) \/ UNCHANGED Contract!cvars
  <1> USE DEF At
  <1>0. pc[c] = "await_get" /\ StatusOf(c) = "pending"
    BY DEF GetOutcome, StatusOf
  <1>1. CASE queue[c] = "empty" /\ Proceed(c, "await_signals")
    BY <1>0, <1>1, ProceedHidden DEF Live, AwaitingResult
  <1>2. CASE queue[c] # "empty" /\ Finish(c, queue[c])
    <2>1. queue[c] \in Outcomes /\ outcome[c] = queue[c] /\ FnOf(c) = "over"
      BY <1>2 DEF Inv, TypeOK, CallInv, FnOf
    <2>2. [d \in Calls |-> StatusOf(d)]' = [[d \in Calls |-> StatusOf(d)] EXCEPT ![c] = "returned"]
      BY <1>2, StatusMoves DEF Inv, Finish, Goto
    <2>3. [d \in Calls |-> FnOf(d)]' = [d \in Calls |-> FnOf(d)]
      BY <1>2 DEF FnOf, Finish, workerVars
    <2>4. Contract!Reply(c, queue[c])
      BY <1>0, <1>2, <2>1, <2>2, <2>3 DEF Contract!Reply, Finish, workerVars
    <2>5. QED
      BY <2>1, <2>4
  <1>3. QED
    BY <1>1, <1>2 DEF GetOutcome

\* Every step of run() is a step of the contract, or hidden.
LEMMA RunRefines ==
  ASSUME Inv, NEW c \in Calls, Run(c)
  PROVE  Contract!Next \/ UNCHANGED Contract!cvars
  <1> USE DEF At
  <1>0. ASSUME NEW r \in Outcomes \cup Abandonments \cup {"start_error"}, Contract!Reply(c, r)
        PROVE  Contract!Next
    BY <1>0 DEF Contract!Next
  <1>1. ASSUME NEW here \in Live, NEW there \in Live,
               CheckSignals(c, here, there) \/ CheckDeadline(c, here, there)
        PROVE  Contract!Next \/ UNCHANGED Contract!cvars
    <2>1. pc[c] \in Live
      BY <1>1 DEF CheckSignals, CheckDeadline
    <2>2. (\E why \in Abandonments : Abandon(c, why)) \/ Proceed(c, there)
      BY <1>1 DEF CheckSignals, CheckDeadline, Abandonments
    <2>3. QED
      BY <1>0, <2>1, <2>2, AbandonReplies, ProceedHidden
  <1>2. CASE TakeSlot(c)
    <2>1. CASE free = 0 /\ Proceed(c, "slot_signals")
      BY <1>2, <2>1, ProceedHidden DEF TakeSlot, Live, WaitingForSlot
    <2>2. CASE /\ Goto(c, "start")
               /\ UNCHANGED <<result, abandoned, workerVars, queue, expired, signalVars>>
      <3>1. [d \in Calls |-> StatusOf(d)]' = [d \in Calls |-> StatusOf(d)]
        BY <1>2, <2>2, StatusStays DEF Inv, TakeSlot, Goto, Live, WaitingForSlot
      <3>2. [d \in Calls |-> FnOf(d)]' = [d \in Calls |-> FnOf(d)]
        BY <2>2 DEF FnOf, workerVars
      <3>3. QED
        BY <2>2, <3>1, <3>2, Hidden DEF workerVars
    <2>3. QED
      BY <1>2, <2>1, <2>2 DEF TakeSlot
  <1>3. CASE StartWorker(c)
    BY <1>0, <1>3, StartWorkerRefines DEF Contract!Next
  <1>4. CASE GetOutcome(c)
    BY <1>0, <1>4, GetOutcomeRefines
  <1>5. CASE \/ CheckSignals(c, "slot_signals", "slot_deadline")
             \/ CheckDeadline(c, "slot_deadline", "slot_take")
             \/ CheckSignals(c, "await_signals", "await_deadline")
             \/ CheckDeadline(c, "await_deadline", "await_get")
    BY <1>1, <1>5 DEF Live, WaitingForSlot, AwaitingResult
  <1>6. QED
    BY <1>2, <1>3, <1>4, <1>5 DEF Run, AcquireSlot, AwaitResult

\* A function's end is a step of the contract; handing its outcome over and
\* giving the slot back are not seen.
LEMMA WorkerRefines ==
  ASSUME Inv, NEW c \in Calls,
         \/ \E o \in Outcomes : FnReturns(c, o)
         \/ PutOutcome(c)
         \/ ReleaseSlot(c)
  PROVE  Contract!Next \/ UNCHANGED Contract!cvars
  <1> USE DEF WorkerAt, callVars
  <1>1. ASSUME NEW o \in Outcomes, FnReturns(c, o) PROVE Contract!Next
    <2>1. FnOf(c) = "running"
      BY <1>1 DEF FnReturns, FnOf
    <2>2. [d \in Calls |-> FnOf(d)]' = [[d \in Calls |-> FnOf(d)] EXCEPT ![c] = "over"]
      BY <1>1 DEF Inv, TypeOK, FnReturns, FnOf
    <2>3. [d \in Calls |-> StatusOf(d)]' = [d \in Calls |-> StatusOf(d)]
      BY <1>1 DEF FnReturns, StatusOf
    <2>4. Contract!EndFn(c, o)
      BY <1>1, <2>1, <2>2, <2>3 DEF Contract!EndFn, FnReturns
    <2>5. QED
      BY <2>4 DEF Contract!Next
  <1>2. CASE PutOutcome(c) \/ ReleaseSlot(c)
    <2>1. [d \in Calls |-> FnOf(d)]' = [d \in Calls |-> FnOf(d)]
      BY <1>2 DEF Inv, TypeOK, PutOutcome, ReleaseSlot, FnOf
    <2>2. [d \in Calls |-> StatusOf(d)]' = [d \in Calls |-> StatusOf(d)]
      BY <1>2 DEF PutOutcome, ReleaseSlot, StatusOf
    <2>3. QED
      BY <1>2, <2>1, <2>2, Hidden DEF PutOutcome, ReleaseSlot
  <1>3. QED
    BY <1>1, <1>2

\* Every step maps to a step of the contract or to a stutter.
LEMMA NextRefines == Inv /\ [Next]_vars => [Contract!Next]_(Contract!cvars)
  <1> SUFFICES ASSUME Inv, [Next]_vars PROVE Contract!Next \/ UNCHANGED Contract!cvars
    OBVIOUS
  <1>0. ASSUME UNCHANGED <<callVars, workerVars>> PROVE UNCHANGED Contract!cvars
    BY <1>0 DEF callVars, workerVars, Contract!cvars, StatusOf, FnOf
  <1>1. ASSUME NEW c \in Calls, Begin(c) PROVE Contract!Next
    <2> USE <1>1 DEF Begin, At, Proceed, Goto, workerVars
    <2>1. StatusOf(c) = "idle"
      BY DEF StatusOf
    <2>2. [d \in Calls |-> StatusOf(d)]' = [[d \in Calls |-> StatusOf(d)] EXCEPT ![c] = "pending"]
      BY DEF Inv, TypeOK, StatusOf
    <2>3. [d \in Calls |-> FnOf(d)]' = [d \in Calls |-> FnOf(d)]
      BY DEF FnOf
    <2>4. Contract!Call(c)
      BY <2>1, <2>2, <2>3 DEF Contract!Call
    <2>5. QED
      BY <2>4 DEF Contract!Next
  <1>2. ASSUME NEW c \in Calls, Expire(c) PROVE UNCHANGED Contract!cvars
    BY <1>0, <1>2 DEF Expire
  <1>3. ASSUME NEW t \in Threads, Signal(t) \/ ClearSignals(t) PROVE UNCHANGED Contract!cvars
    BY <1>0, <1>3 DEF Signal, ClearSignals
  <1>4. CASE UNCHANGED vars
    BY <1>0, <1>4 DEF vars
  <1>5. QED
    BY <1>1, <1>2, <1>3, <1>4, RunRefines, WorkerRefines DEF Next, Terminated

\* run_cancellable_external_call keeps its contract for any number of calls,
\* threads and slots: one reply per call, its own function's or why it was
\* left, and never more functions at work than slots.
THEOREM Refinement == Spec => ImplementsContract
  <1>1. Init => Contract!Init
    BY DEF Init, Contract!Init, StatusOf, FnOf
  <1>2. QED
    BY <1>1, InitInv, NextInv, NextRefines, PTL DEF Spec, ImplementsContract, Contract!Spec
=============================================================================
