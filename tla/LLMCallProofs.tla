---------------------------- MODULE LLMCallProofs ----------------------------
(***************************************************************************)
(* Proofs about LLMCall for any number of calls, attempts and chunks.      *)
(*                                                                         *)
(* The difficulty is the workers that nobody waits for any longer.  The    *)
(* invariant says where they can come from (OrderInv: only the last        *)
(* attempt of a call can leave a live worker behind, because an attempt is *)
(* retried on an error its worker reported), that only the current worker  *)
(* can still report something, and that its output is under the current    *)
(* message (StreamInv), while superseded output lies below the messages    *)
(* that are given from now on (MixInv).                                    *)
(***************************************************************************)
EXTENDS LLMCall, SequenceTheorems, TLAPS

Running == pc \notin {"idle", "over"}
Busy(w) == wk[w] \notin {"none", "ended"}
Pending(w) == IF wk[w] \in {"gate", "bind", "emit"} THEN 1 ELSE 0

\* The run thread.
RunInv ==
    /\ Running => call >= 1 /\ msg # 0
    /\ ~Running => attempt = 1
    /\ msg \in {0, Len(owners)}
    /\ result # "none" => pc = "settle"
    /\ result # "partial"
    /\ err \notin Streams
    /\ pc = "backoff" => attempt < MaxAttempts
    /\ pc = "leave" /\ err \in Retryable => wk[Me] = "ended"
    /\ pc = "post" => outcome[Me] \in Streams

\* Which workers have started, and which of them were abandoned.
OrderInv ==
    /\ \A w \in Workers : w[1] > call => wk[w] = "none" /\ ~abandoned[w]
    /\ Running =>
         \A a \in Attempts :
             /\ a < attempt => wk[<<call, a>>] = "ended"
             /\ a > attempt => wk[<<call, a>>] = "none" /\ ~abandoned[<<call, a>>]
    /\ pc = "attempt" => wk[Me] = "none"
    /\ pc = "backoff" => wk[Me] = "ended"
    /\ pc \in {"attempt", "await", "leave", "post"} => ~abandoned[Me]

\* Only the last attempt of a call leaves a live worker behind.
RetryInv ==
    \A v, w \in Workers : v[1] = w[1] /\ v[2] < w[2] /\ wk[w] # "none" => wk[v] = "ended"

\* Who may still report to the caller, and what.
ReportInv(w) ==
    /\ Busy(w) /\ ~abandoned[w] => w = Me /\ pc \in {"await", "leave"}
    /\ outcome[w] # "none" => /\ w = Me /\ wk[w] = "ended"
                              /\ pc \in {"await", "leave", "post", "settle"}
    /\ outcome[w] = "partial" => AnySignalSet

\* What a worker has appended and emitted.
WorkerInv(w) ==
    /\ wk[w] = "none" => ~emitted[w] /\ chunks[w] = 0
    /\ wk[w] \in {"bind", "emit"} => emitted[w]
    /\ shown[w] + Pending(w) <= chunks[w]
    /\ late[w] <= shown[w] /\ late[w] <= 1
    /\ ~abandoned[w] \/ wk[w] \in {"bind", "emit"} => late[w] = 0
    /\ wk[w] = "emit" => bound[w] # 0

\* The output of the current attempt.
Whole ==
    /\ shown[Me] = chunks[Me] /\ wk[Me] = "ended"
    /\ \A d \in deltas : d.from = Me => d.id = msg
StreamInv ==
    /\ pc \in {"await", "post"} /\ ~AnySignalSet => chunks[Me] = shown[Me] + Pending(Me)
    /\ pc \in {"await", "leave", "post"} =>
         /\ wk[Me] = "emit" => bound[Me] = msg
         /\ \A d \in deltas : d.from = Me => d.id = msg
    /\ result = "complete" => Whole

\* The output of superseded attempts.
Superseded(d) == d.id < Len(owners) /\ d.from[1] \in Replacement
MixInv ==
    /\ \A d \in deltas : emitted[d.from]
    /\ \A d \in deltas, w \in Workers :
           d.from[1] = w[1] /\ d.from[2] < w[2] /\ wk[w] # "none" =>
               /\ Superseded(d)
               /\ wk[w] = "emit" => d.id < bound[w]
               /\ \A e \in deltas : e.from = w => d.id < e.id
    /\ pc \in {"attempt", "backoff"} =>
           \A d \in deltas : d.from[1] = call => Superseded(d)

Inv ==
    /\ TypeOK /\ RunInv /\ OrderInv /\ RetryInv /\ StreamInv /\ MixInv
    /\ \A w \in Workers : ReportInv(w) /\ WorkerInv(w)

-----------------------------------------------------------------------------
LEMMA Pairs ==
    /\ \A w \in Workers : w[1] \in Calls /\ w[2] \in Attempts /\ w = <<w[1], w[2]>>
    /\ \A c \in Calls, a \in Attempts : <<c, a>> \in Workers
BY DEF Workers

LEMMA Current ==
    ASSUME Inv
    PROVE  /\ Running => call \in Calls /\ Me \in Workers
           /\ call \in Nat /\ attempt \in Attempts /\ Len(owners) \in Nat /\ msg \in Nat
           /\ Me[1] = call /\ Me[2] = attempt
           /\ \A w \in Workers : w[1] = call /\ w[2] = attempt => w = Me
<1>1. Len(owners) \in Nat
    BY LenProperties DEF Inv, TypeOK
<1>2. Running => call \in Calls
    BY BoundsAssumption DEF Inv, TypeOK, RunInv, Calls
<1>3. call \in Nat /\ attempt \in Attempts /\ msg \in Nat
    BY <1>1, BoundsAssumption DEF Inv, TypeOK
<1> QED
    BY <1>1, <1>2, <1>3, Pairs DEF Me

LEMMA MessageStarts ==
    ASSUME Inv, NEW k \in Calls, StartMessage(k)
    PROVE  /\ owners' \in Seq(Calls) /\ Len(owners') = Len(owners) + 1
           /\ msg' = Len(owners) + 1
BY AppendProperties DEF Inv, TypeOK, StartMessage

LEMMA InitInv == Init => Inv
<1> SUFFICES ASSUME Init PROVE Inv
    OBVIOUS
<1> USE BoundsAssumption
<1>1. owners \in Seq(Calls) /\ Len(owners) = 0
    BY EmptySeq DEF Init
<1>2. TypeOK
  <2>1. bound \in [Workers -> 0..Len(owners)] /\ msg \in 0..Len(owners)
      BY <1>1 DEF Init
  <2>2. /\ shown \in [Workers -> 0..MaxChunks] /\ late \in [Workers -> 0..MaxChunks]
        /\ chunks \in [Workers -> 0..MaxChunks]
      BY DEF Init
  <2>3. call \in 0..MaxCalls /\ attempt \in Attempts
      BY DEF Init, Attempts
  <2> QED
      BY <1>1, <2>1, <2>2, <2>3 DEF Init, TypeOK
<1>3. RunInv
    BY <1>1 DEF Init, RunInv, Running, Streams
<1>4. OrderInv
    BY DEF Init, OrderInv, Running
<1>5. StreamInv
    BY DEF Init, StreamInv
<1>6. MixInv
    BY DEF Init, MixInv
<1>7. RetryInv
    BY DEF Init, RetryInv
<1>8. \A w \in Workers : ReportInv(w) /\ WorkerInv(w)
    BY DEF Init, ReportInv, WorkerInv, Pending, Busy
<1> QED
    BY <1>2, <1>3, <1>4, <1>5, <1>6, <1>7, <1>8 DEF Inv

-----------------------------------------------------------------------------
(* The run thread. *)

LEMMA BeginCallInv == ASSUME Inv, BeginCall PROVE Inv'
<1>0. /\ pc = "idle" /\ pc' = "attempt" /\ call < MaxCalls /\ call' = call + 1
      /\ StartMessage(call + 1)
      /\ UNCHANGED <<attempt, err, result, workerVars, bound, deltas, shown, late, signalVars>>
    BY DEF BeginCall
<1>1. call \in Nat /\ call + 1 \in Calls /\ call' \in Calls
    BY <1>0, Current, BoundsAssumption DEF Calls
<1>2. /\ owners' \in Seq(Calls) /\ Len(owners') = Len(owners) + 1 /\ msg' = Len(owners')
      /\ Len(owners) \in Nat
    BY <1>0, <1>1, MessageStarts, Current
<1>3. TypeOK'
    BY <1>0, <1>1, <1>2 DEF Inv, TypeOK, workerVars, signalVars, Calls
<1>4. RunInv'
    BY <1>0, <1>1, <1>2 DEF Inv, RunInv, Running, Calls
<1>5. OrderInv' /\ RetryInv'
  <2>1. \A w \in Workers : w[1] > call' => w[1] > call
      BY <1>0, <1>1, Pairs DEF Calls
  <2>2. \A a \in Attempts : wk[<<call', a>>] = "none" /\ ~abandoned[<<call', a>>]
      BY <1>0, <1>1, Pairs DEF Inv, OrderInv
  <2>3. attempt = 1 /\ 1 \in Attempts /\ \A a \in Attempts : ~(a < 1)
      BY <1>0, BoundsAssumption DEF Inv, RunInv, Running, Attempts
  <2> QED
      BY <1>0, <2>1, <2>2, <2>3 DEF Inv, OrderInv, RetryInv, workerVars, Me
<1>6. StreamInv'
    BY <1>0 DEF Inv, StreamInv, RunInv
<1>7. MixInv'
  <2>1. \A w \in Workers : emitted[w] => w[1] <= call
      BY Pairs, Current DEF Inv, OrderInv, WorkerInv, Calls
  <2>2. \A d \in deltas : d.from[1] # call'
      BY <1>0, <1>1, <2>1, Pairs DEF Inv, TypeOK, MixInv, Calls
  <2>3. \A d \in deltas : Superseded(d) => Superseded(d)'
      BY <1>0, <1>2 DEF Inv, TypeOK, Superseded
  <2> QED
      BY <1>0, <2>2, <2>3 DEF Inv, MixInv, workerVars
<1>8. \A w \in Workers : ReportInv(w)' /\ WorkerInv(w)'
  <2> SUFFICES ASSUME NEW w \in Workers PROVE ReportInv(w)' /\ WorkerInv(w)'
      OBVIOUS
  <2>1. ReportInv(w)'
      BY <1>0 DEF Inv, ReportInv, Busy, workerVars, signalVars, AnySignalSet
  <2>2. WorkerInv(w)'
      BY <1>0 DEF Inv, WorkerInv, Pending, workerVars
  <2> QED
      BY <2>1, <2>2
<1> QED
    BY <1>3, <1>4, <1>5, <1>6, <1>7, <1>8 DEF Inv

(* The run thread moves on; what the workers have done stays as it is. *)
LEMMA RunMoves ==
    ASSUME Inv,
           UNCHANGED <<call, wk, abandoned, emitted, chunks, owners, bound, deltas, shown, late>>,
           pc' \in {"attempt", "backoff"} => pc \in {"attempt", "backoff"},
           TypeOK', RunInv', OrderInv', StreamInv', \A w \in Workers : ReportInv(w)'
    PROVE  Inv'
<1>1. RetryInv' /\ \A w \in Workers : WorkerInv(w)'
    BY DEF Inv, RetryInv, WorkerInv, Pending
<1>2. MixInv'
    BY DEF Inv, MixInv, Superseded
<1> QED
    BY <1>1, <1>2 DEF Inv

LEMMA RaiseInv ==
    ASSUME Inv, NEW e \in ({"timeout"} \cup Outcomes) \ Streams, RaiseInAttempt(e),
           pc \in {"attempt", "await"}, e \in Retryable => wk[Me] = "ended"
    PROVE  Inv'
<1>0. /\ pc' = "leave" /\ err' = e /\ UNCHANGED <<call, attempt, result>>
      /\ UNCHANGED <<workerVars, pipeVars, signalVars>>
    BY DEF RaiseInAttempt
<1>1. Me' = Me
    BY <1>0 DEF Me
<1>2. TypeOK'
    BY <1>0 DEF Inv, TypeOK, workerVars, pipeVars, signalVars
<1>3. RunInv'
    BY <1>0, <1>1 DEF Inv, RunInv, Running, workerVars, pipeVars
<1>4. OrderInv'
    BY <1>0, <1>1 DEF Inv, OrderInv, Running, workerVars
<1>5. StreamInv'
  <2>1. CASE pc = "await"
      BY <1>0, <1>1, <2>1 DEF Inv, StreamInv, RunInv, workerVars, pipeVars
  <2>2. CASE pc = "attempt"
    <3>1. ~emitted[Me] /\ wk[Me] = "none"
        BY <2>2, Current DEF Inv, OrderInv, WorkerInv, Running
    <3>2. \A d \in deltas : d.from # Me
        BY <3>1 DEF Inv, MixInv
    <3> QED
        BY <1>0, <1>1, <2>2, <3>1, <3>2 DEF Inv, StreamInv, RunInv, workerVars, pipeVars
  <2> QED
      BY <2>1, <2>2
<1>6. \A w \in Workers : ReportInv(w)'
    BY <1>0, <1>1 DEF Inv, ReportInv, Busy, AnySignalSet, workerVars, signalVars
<1> QED
    BY <1>0, <1>2, <1>3, <1>4, <1>5, <1>6, RunMoves DEF workerVars, pipeVars

LEMMA RaiseSignalInv ==
    ASSUME Inv, NEW e \in Signals \cup {"timeout"}, RaiseInAttempt(e),
           pc \in {"attempt", "await"}
    PROVE  Inv'
<1>1. e \in ({"timeout"} \cup Outcomes) \ Streams /\ e \notin Retryable
    BY DEF Outcomes, Streams, Signals, Retryable
<1> QED
    BY <1>1, RaiseInv

LEMMA StartAttemptInv == ASSUME Inv, StartAttempt PROVE Inv'
<1>0. pc = "attempt"
    BY DEF StartAttempt
<1>2. CASE /\ ~AnySignalSet /\ pc' = "await" /\ wk' = [wk EXCEPT ![Me] = "open"]
           /\ UNCHANGED <<call, attempt, err, result, outcome, abandoned, emitted,
                          chunks, pipeVars, signalVars>>
  <2>0. /\ Me' = Me /\ Me \in Workers /\ wk[Me] = "none" /\ ~abandoned[Me]
        /\ ~emitted[Me] /\ chunks[Me] = 0 /\ call \in Calls /\ attempt \in Attempts
        /\ \A w \in Workers : w # Me => wk'[w] = wk[w]
        /\ wk'[Me] = "open" /\ outcome[Me] = "none" /\ Me[1] = call /\ Me[2] = attempt
      BY <1>0, <1>2, Current DEF Inv, TypeOK, OrderInv, ReportInv, WorkerInv, Running, Me
  <2>1. TypeOK'
      BY <1>2 DEF Inv, TypeOK, pipeVars, signalVars
  <2>2. RunInv'
      BY <1>0, <1>2, <2>0 DEF Inv, RunInv, Running, pipeVars
  <2>3. OrderInv'
    <3>1. \A w \in Workers : w[1] > call => w # Me
        BY <2>0, BoundsAssumption DEF Calls
    <3>2. \A a \in Attempts : a # attempt => <<call, a>> \in Workers /\ <<call, a>> # Me
        BY <2>0, Pairs DEF Me
    <3>3. \A a \in Attempts : a < attempt \/ a > attempt => a # attempt
        BY <2>0 DEF Attempts
    <3> QED
        BY <1>0, <1>2, <2>0, <3>1, <3>2, <3>3 DEF Inv, OrderInv, Running
  <2>4. RetryInv'
    <3> SUFFICES ASSUME NEW v \in Workers, NEW w \in Workers, v[1] = w[1], v[2] < w[2],
                        wk'[w] # "none"
                 PROVE  wk'[v] = "ended"
        BY DEF RetryInv
    <3>1. CASE w = Me
      <4>1. v = <<call, v[2]>> /\ v[2] \in Attempts /\ v[2] < attempt /\ v # Me
          BY <2>0, <3>1, Pairs DEF Attempts
      <4> QED
          BY <1>0, <2>0, <4>1 DEF Inv, OrderInv, Running
    <3>2. CASE w # Me
      <4>1. wk[v] = "ended"
          BY <2>0, <3>2 DEF Inv, RetryInv
      <4> QED
          BY <2>0, <4>1
    <3> QED
        BY <3>1, <3>2
  <2>5. shown[Me] = 0 /\ late[Me] = 0
    <3>1. WorkerInv(Me) /\ shown[Me] \in 0..MaxChunks /\ late[Me] \in 0..MaxChunks
        BY <2>0 DEF Inv, TypeOK
    <3> QED
        BY <2>0, <3>1, BoundsAssumption DEF WorkerInv, Pending
  <2>6. StreamInv'
    <3>1. \A d \in deltas : d.from # Me
        BY <2>0 DEF Inv, MixInv
    <3> QED
        BY <1>0, <1>2, <2>0, <2>5, <3>1 DEF Inv, StreamInv, RunInv, Pending, pipeVars
  <2>7. MixInv'
    <3>1. \A d \in deltas : emitted[d.from] /\ d.from # Me /\ d.from \in Workers
        BY <2>0 DEF Inv, MixInv, TypeOK
    <3>2. ASSUME NEW d \in deltas, NEW w \in Workers, d.from[1] = w[1], d.from[2] < w[2],
                 wk'[w] # "none"
          PROVE  /\ Superseded(d)'
                 /\ wk'[w] = "emit" => d.id < bound'[w]
                 /\ \A e \in deltas' : e.from = w => d.id < e.id
      <4>1. CASE w = Me
          BY <1>0, <1>2, <2>0, <3>1, <3>2, <4>1 DEF Inv, MixInv, Superseded, pipeVars
      <4>2. CASE w # Me
          BY <1>2, <2>0, <3>2, <4>2 DEF Inv, MixInv, Superseded, pipeVars
      <4> QED
          BY <4>1, <4>2
    <3> QED
        BY <1>0, <1>2, <3>1, <3>2 DEF MixInv, pipeVars
  <2>8. \A w \in Workers : ReportInv(w)' /\ WorkerInv(w)'
    <3> SUFFICES ASSUME NEW w \in Workers PROVE ReportInv(w)' /\ WorkerInv(w)'
        OBVIOUS
    <3>1. ReportInv(w)'
        BY <1>0, <1>2, <2>0 DEF Inv, ReportInv, Busy, AnySignalSet, signalVars
    <3>2. WorkerInv(w)'
      <4>1. CASE w = Me
          BY <1>2, <2>0, <2>5, <4>1 DEF WorkerInv, Pending, pipeVars
      <4>2. CASE w # Me
          BY <1>2, <2>0, <4>2 DEF Inv, WorkerInv, Pending, pipeVars
      <4> QED
          BY <4>1, <4>2
    <3> QED
        BY <3>1, <3>2
  <2> QED
      BY <2>1, <2>2, <2>3, <2>4, <2>6, <2>7, <2>8 DEF Inv
<1> QED
    BY <1>0, <1>2, RaiseSignalInv DEF StartAttempt, SignalRaised, Signals

LEMMA AwaitAttemptInv == ASSUME Inv, AwaitAttempt PROVE Inv'
<1>0. pc = "await" /\ Me \in Workers
    BY Current DEF AwaitAttempt, Running
<1>1. outcome[Me] # "none" => wk[Me] = "ended"
    BY <1>0 DEF Inv, ReportInv
<1>2. CASE outcome[Me] # "none" /\ outcome[Me] \notin Streams /\ RaiseInAttempt(outcome[Me])
  <2>1. outcome[Me] \in ({"timeout"} \cup Outcomes) \ Streams
      BY <1>0, <1>2 DEF Inv, TypeOK
  <2> QED
      BY <1>0, <1>1, <1>2, <2>1, RaiseInv
<1>3. CASE /\ outcome[Me] \in Streams /\ outcome[Me] # "none" /\ pc' = "post"
           /\ UNCHANGED <<call, attempt, err, result, workerVars, pipeVars, signalVars>>
  <2>0. Me' = Me /\ wk[Me] = "ended"
      BY <1>1, <1>3 DEF Me
  <2>1. TypeOK'
      BY <1>3 DEF Inv, TypeOK, workerVars, pipeVars, signalVars
  <2>2. RunInv'
      BY <1>0, <1>3, <2>0 DEF Inv, RunInv, Running, workerVars, pipeVars
  <2>3. OrderInv'
      BY <1>0, <1>3, <2>0 DEF Inv, OrderInv, Running, workerVars
  <2>4. StreamInv'
      BY <1>0, <1>3, <2>0
         DEF Inv, StreamInv, RunInv, Pending, AnySignalSet, workerVars, pipeVars, signalVars
  <2>5. \A w \in Workers : ReportInv(w)'
      BY <1>0, <1>3, <2>0 DEF Inv, ReportInv, Busy, AnySignalSet, workerVars, signalVars
  <2> QED
      BY <1>3, <2>1, <2>2, <2>3, <2>4, <2>5, RunMoves DEF workerVars, pipeVars
<1> QED
    BY <1>0, <1>2, <1>3, RaiseSignalInv DEF AwaitAttempt, TakeOutcome, SignalRaised, Signals

LEMMA BackoffInv == ASSUME Inv, Backoff PROVE Inv'
<1>0. /\ pc = "backoff" /\ UNCHANGED <<workerVars, pipeVars, signalVars>>
      /\ Me \in Workers /\ wk[Me] = "ended" /\ result = "none" /\ attempt < MaxAttempts
    BY Current DEF Backoff, Running, Inv, OrderInv, RunInv
<1>1. \A w \in Workers : outcome[w] = "none" /\ (Busy(w) => abandoned[w])
    BY <1>0 DEF Inv, ReportInv
<1>2. \A w \in Workers : ReportInv(w)'
    BY <1>0, <1>1 DEF ReportInv, Busy, workerVars
<1>3. CASE Fail(SignalRaised)
  <2>0. /\ pc' = "settle" /\ err' = "none" /\ UNCHANGED <<call, attempt>> /\ Me' = Me
        /\ result' \in Signals
      BY <1>3 DEF Fail, Me, SignalRaised, Signals
  <2>1. TypeOK'
      BY <1>0, <2>0 DEF Inv, TypeOK, workerVars, pipeVars, signalVars, Outcomes
  <2>2. RunInv'
      BY <1>0, <2>0 DEF Inv, RunInv, Running, workerVars, pipeVars, Signals, Streams
  <2>3. OrderInv'
      BY <1>0, <2>0 DEF Inv, OrderInv, Running, workerVars
  <2>4. StreamInv'
      BY <1>0, <2>0 DEF StreamInv, Signals
  <2> QED
      BY <1>0, <1>2, <2>0, <2>1, <2>2, <2>3, <2>4, RunMoves DEF workerVars, pipeVars
<1>4. CASE /\ pc' = "attempt" /\ attempt' = attempt + 1 /\ err' = "none"
           /\ UNCHANGED <<call, result>>
  <2>0. attempt' \in Attempts /\ Me' = <<call, attempt'>> /\ Me' \in Workers
      BY <1>0, <1>4, Current, Pairs, BoundsAssumption DEF Attempts, Me, Running
  <2>1. TypeOK'
      BY <1>0, <1>4, <2>0 DEF Inv, TypeOK, workerVars, pipeVars, signalVars
  <2>2. RunInv'
      BY <1>0, <1>4 DEF Inv, RunInv, Running, workerVars, pipeVars, Streams
  <2>3. OrderInv'
    <3>1. \A a \in Attempts : /\ a < attempt' => a < attempt \/ a = attempt
                              /\ a >= attempt' => a > attempt
        BY <1>4, Current DEF Attempts
    <3>2. \A a \in Attempts :
              /\ a < attempt' => wk[<<call, a>>] = "ended"
              /\ a >= attempt' => wk[<<call, a>>] = "none" /\ ~abandoned[<<call, a>>]
        BY <1>0, <3>1 DEF Inv, OrderInv, Running, Me
    <3>3. attempt' >= attempt' /\ \A a \in Attempts : a > attempt' => a >= attempt'
        BY <2>0 DEF Attempts
    <3> QED
        BY <1>0, <1>4, <2>0, <3>2, <3>3 DEF Inv, OrderInv, workerVars
  <2>4. StreamInv'
      BY <1>0, <1>4 DEF StreamInv
  <2> QED
      BY <1>0, <1>2, <1>4, <2>1, <2>2, <2>3, <2>4, RunMoves DEF workerVars, pipeVars
<1> QED
    BY <1>3, <1>4 DEF Backoff

LEMMA FinishCallInv == ASSUME Inv, FinishCall PROVE Inv'
<1>0. /\ pc = "post" /\ UNCHANGED <<workerVars, pipeVars, signalVars>>
      /\ pc' = "settle" /\ err' = "none" /\ UNCHANGED <<call, attempt>> /\ Me' = Me
      /\ \/ result' = "filtered" \/ result' \in Signals
         \/ ~AnySignalSet /\ result' = outcome[Me]
    BY DEF FinishCall, Fail, SignalRaised, Signals, Me
<1>1. /\ Me \in Workers /\ outcome[Me] \in Streams /\ wk[Me] = "ended"
      /\ outcome[Me] = "partial" => AnySignalSet
    BY <1>0, Current DEF Running, Inv, RunInv, ReportInv, Streams
<1>2. /\ result' \in Outcomes \ {"partial"}
      /\ result' = "complete" => ~AnySignalSet
    BY <1>0, <1>1 DEF Outcomes, Streams, Signals
<1>3. TypeOK'
    BY <1>0, <1>2 DEF Inv, TypeOK, workerVars, pipeVars, signalVars
<1>4. RunInv'
    BY <1>0, <1>2 DEF Inv, RunInv, Running, workerVars, pipeVars, Streams
<1>5. OrderInv'
    BY <1>0 DEF Inv, OrderInv, Running, workerVars
<1>6. StreamInv'
  <2>1. ~AnySignalSet => chunks[Me] = shown[Me]
      BY <1>0, <1>1, BoundsAssumption DEF Inv, TypeOK, StreamInv, Pending
  <2> QED
      BY <1>0, <1>1, <1>2, <2>1 DEF Inv, StreamInv, Whole, workerVars, pipeVars
<1>7. \A w \in Workers : ReportInv(w)'
    BY <1>0, <1>1 DEF Inv, ReportInv, Busy, AnySignalSet, workerVars, signalVars
<1> QED
    BY <1>0, <1>3, <1>4, <1>5, <1>6, <1>7, RunMoves DEF workerVars, pipeVars

(* The step that abandons the worker: nobody can report to the caller then. *)
LEMMA Abandoning ==
    ASSUME Inv, LeaveAttempt
    PROVE  /\ pc = "leave" /\ Me' = Me /\ Me \in Workers /\ result = "none"
           /\ UNCHANGED <<call, attempt, wk, emitted, chunks, bound, deltas, shown, late,
                          signalVars>>
           /\ abandoned' = [abandoned EXCEPT ![Me] = TRUE]
           /\ outcome' = [outcome EXCEPT ![Me] = "none"]
           /\ \A w \in Workers : ReportInv(w)' /\ WorkerInv(w)'
<1>1. /\ pc = "leave" /\ Me' = Me /\ Me \in Workers /\ result = "none"
      /\ UNCHANGED <<call, attempt, wk, emitted, chunks, bound, deltas, shown, late, signalVars>>
      /\ abandoned' = [abandoned EXCEPT ![Me] = TRUE]
      /\ outcome' = [outcome EXCEPT ![Me] = "none"]
    BY Current DEF LeaveAttempt, LeaveAttemptIf, Fail, Me, Running, Inv, RunInv
<1>2. \A w \in Workers : outcome'[w] = "none" /\ (Busy(w) => abandoned'[w])
    BY <1>1 DEF Inv, TypeOK, ReportInv
<1>3. \A w \in Workers : ReportInv(w)'
    BY <1>1, <1>2 DEF ReportInv, Busy
<1>4. ASSUME NEW w \in Workers PROVE WorkerInv(w)'
  <2>1. ~abandoned'[w] => ~abandoned[w]
      BY <1>1 DEF Inv, TypeOK
  <2> QED
      BY <1>1, <2>1 DEF Inv, WorkerInv, Pending
<1> QED
    BY <1>1, <1>3, <1>4

(* The messages that are left behind stay behind. *)
LEMMA StaysSuperseded ==
    ASSUME Inv, NEW d \in deltas, Superseded(d),
           Len(owners') \in Nat, Len(owners') >= Len(owners)
    PROVE  Superseded(d)'
BY Current DEF Superseded, Inv, TypeOK

LEMMA LeaveAttemptInv == ASSUME Inv, LeaveAttempt PROVE Inv'
<1>0. /\ pc = "leave" /\ Me' = Me /\ Me \in Workers /\ result = "none"
      /\ UNCHANGED <<call, attempt, wk, emitted, chunks, bound, deltas, shown, late, signalVars>>
      /\ abandoned' = [abandoned EXCEPT ![Me] = TRUE]
      /\ outcome' = [outcome EXCEPT ![Me] = "none"]
      /\ \A w \in Workers : ReportInv(w)' /\ WorkerInv(w)'
    BY Abandoning
<1>1. \A w \in Workers : w # Me => abandoned'[w] = abandoned[w]
    BY <1>0 DEF Inv, TypeOK
<1>2. ASSUME pc' \in {"settle", "backoff"}, pc' = "backoff" => wk[Me] = "ended"
      PROVE  OrderInv' /\ RetryInv'
  <2>1. \A w \in Workers : w[1] > call => w # Me
      BY <1>0, Current, BoundsAssumption DEF Calls
  <2>2. \A a \in Attempts : a > attempt => <<call, a>> \in Workers /\ <<call, a>> # Me
      BY <1>0, Current, Pairs DEF Running, Attempts
  <2> QED
      BY <1>0, <1>1, <1>2, <2>1, <2>2 DEF Inv, OrderInv, RetryInv, Running
<1>3. CASE Fail(err) /\ UNCHANGED <<msg, owners>>
  <2>0. /\ pc' = "settle" /\ result' = err /\ err' = "none" /\ UNCHANGED <<msg, owners>>
        /\ err \notin Streams
      BY <1>3 DEF Fail, Inv, RunInv
  <2>1. TypeOK'
      BY <1>0, <2>0 DEF Inv, TypeOK, signalVars
  <2>2. RunInv'
      BY <1>0, <2>0 DEF Inv, RunInv, Running, Streams
  <2>3. StreamInv'
      BY <1>0, <2>0 DEF StreamInv, Streams
  <2>4. MixInv'
      BY <1>0, <2>0 DEF Inv, MixInv, Superseded
  <2> QED
      BY <1>0, <1>2, <2>0, <2>1, <2>2, <2>3, <2>4 DEF Inv
<1>4. CASE /\ MayRetry /\ pc' = "backoff" /\ UNCHANGED <<call, attempt, err, result>>
           /\ IF emitted[Me] THEN StartMessage(call) ELSE UNCHANGED <<msg, owners>>
  <2>0. /\ wk[Me] = "ended" /\ attempt < MaxAttempts /\ (emitted[Me] => call \in Replacement)
        /\ pc' = "backoff" /\ UNCHANGED <<err, result>> /\ call \in Calls
        /\ Len(owners) \in Nat /\ msg # 0 /\ msg \in 0..Len(owners)
      BY <1>0, <1>4, Current DEF MayRetry, Inv, TypeOK, RunInv, Running
  <2>1. /\ owners' \in Seq(Calls) /\ Len(owners') \in Nat /\ Len(owners') >= Len(owners)
        /\ msg' \in {0, Len(owners')} /\ msg' # 0
        /\ emitted[Me] => Len(owners') > Len(owners)
    <3>1. CASE emitted[Me]
        BY <1>4, <2>0, <3>1, MessageStarts
    <3>2. CASE ~emitted[Me]
        BY <1>4, <2>0, <3>2 DEF Inv, TypeOK, RunInv
    <3> QED
        BY <3>1, <3>2
  <2>2. TypeOK'
      BY <1>0, <2>0, <2>1 DEF Inv, TypeOK, signalVars
  <2>3. RunInv'
      BY <1>0, <2>0, <2>1 DEF Inv, RunInv, Running
  <2>4. StreamInv'
      BY <1>0, <2>0 DEF StreamInv
  <2>5. \A d \in deltas : Superseded(d) => Superseded(d)'
      BY <2>1, StaysSuperseded
  <2>6. ASSUME NEW d \in deltas, d.from[1] = call PROVE Superseded(d)'
    <3>0. d.from \in Workers /\ emitted[d.from] /\ d.from = <<call, d.from[2]>>
          /\ wk[d.from] # "none" /\ d.from[2] \in Attempts /\ d.id \in 1..Len(owners)
        BY <2>6, Pairs DEF Inv, TypeOK, MixInv, WorkerInv
    <3>1. CASE d.from[2] < attempt
      <4>1. Superseded(d)
          BY <1>0, <2>0, <2>6, <3>1, Current DEF Inv, MixInv
      <4> QED
          BY <2>5, <4>1
    <3>2. CASE d.from[2] = attempt
      <4>1. d.from = Me
          BY <3>0, <3>2 DEF Me
      <4>2. d.id = msg /\ emitted[Me]
          BY <1>0, <3>0, <4>1 DEF Inv, StreamInv
      <4> QED
          BY <1>0, <2>0, <2>1, <2>6, <4>2 DEF Superseded
    <3>3. d.from[2] > attempt => wk[<<call, d.from[2]>>] = "none"
        BY <1>0, <3>0 DEF Inv, OrderInv, Running
    <3> QED
        BY <3>0, <3>1, <3>2, <3>3, Current DEF Attempts
  <2>7. MixInv'
      BY <1>0, <2>5, <2>6 DEF Inv, MixInv
  <2> QED
      BY <1>0, <1>2, <2>0, <2>2, <2>3, <2>4, <2>7 DEF Inv
<1> QED
    BY <1>3, <1>4 DEF LeaveAttempt, LeaveAttemptIf

LEMMA SettleInv == ASSUME Inv, Settle PROVE Inv'
<1>0. /\ pc = "settle" /\ attempt' = 1 /\ result' = "none" /\ pc' \in {"idle", "over"}
      /\ outcome' = [outcome EXCEPT ![Me] = "none"]
      /\ UNCHANGED <<call, err, wk, abandoned, emitted, chunks, owners, bound, deltas, shown,
                     late, cancel>>
      /\ msg' = 0 \/ msg' = msg
      /\ interrupt' \in BOOLEAN
    BY DEF Settle, EmitMessage, Inv, TypeOK
<1>1. Me \in Workers /\ 1 \in Attempts
    BY <1>0, Current, BoundsAssumption DEF Running, Attempts
<1>2. \A w \in Workers : outcome'[w] = "none" /\ (Busy(w) => abandoned[w])
    BY <1>0, <1>1 DEF Inv, TypeOK, ReportInv
<1>3. TypeOK'
  <2>1. msg' \in 0..Len(owners)
      BY <1>0, Current DEF Inv, TypeOK
  <2> QED
      BY <1>0, <1>1, <2>1 DEF Inv, TypeOK
<1>4. RunInv'
    BY <1>0 DEF Inv, RunInv, Running
<1>5. OrderInv'
    BY <1>0 DEF Inv, OrderInv, Running
<1>6. StreamInv'
    BY <1>0 DEF StreamInv
<1>7. \A w \in Workers : ReportInv(w)'
    BY <1>0, <1>2 DEF ReportInv, Busy
<1> QED
    BY <1>0, <1>3, <1>4, <1>5, <1>6, <1>7, RunMoves

LEMMA StopCancelledInv == ASSUME Inv, StopCancelled PROVE Inv'
<1>0. /\ pc = "idle" /\ pc' = "over"
      /\ UNCHANGED <<call, attempt, err, result, workerVars, pipeVars, signalVars>>
    BY DEF StopCancelled
<1>1. TypeOK'
    BY <1>0 DEF Inv, TypeOK, workerVars, pipeVars, signalVars
<1>2. RunInv' /\ OrderInv' /\ StreamInv'
    BY <1>0 DEF Inv, RunInv, OrderInv, StreamInv, Running, workerVars, pipeVars
<1>3. \A w \in Workers : ReportInv(w)'
    BY <1>0 DEF Inv, ReportInv, Busy, AnySignalSet, workerVars, signalVars
<1> QED
    BY <1>0, <1>1, <1>2, <1>3, RunMoves DEF workerVars, pipeVars

LEMMA NewRunInv == ASSUME Inv, NewRun PROVE Inv'
<1>0. /\ pc = "over" /\ pc' = "idle" /\ msg' = 0 /\ cancel' = FALSE /\ interrupt' = FALSE
      /\ UNCHANGED <<call, attempt, err, result, workerVars, owners, bound, deltas, shown, late>>
    BY DEF NewRun
<1>1. TypeOK'
  <2>1. 0 \in 0..Len(owners)
      BY Current
  <2> QED
      BY <1>0, <2>1 DEF Inv, TypeOK, workerVars
<1>2. RunInv' /\ OrderInv' /\ StreamInv'
    BY <1>0 DEF Inv, RunInv, OrderInv, StreamInv, Running, workerVars
<1>3. \A w \in Workers : ReportInv(w)'
    BY <1>0 DEF Inv, ReportInv, Busy, workerVars
<1> QED
    BY <1>0, <1>1, <1>2, <1>3, RunMoves DEF workerVars

LEMMA SignalInv == ASSUME Inv, Interrupt \/ Cancel PROVE Inv'
<1>0. /\ UNCHANGED <<runVars, workerVars, pipeVars>> /\ AnySignalSet'
      /\ cancel' \in BOOLEAN /\ interrupt' \in BOOLEAN
    BY DEF Interrupt, Cancel, AnySignalSet, Inv, TypeOK
<1>1. TypeOK'
    BY <1>0 DEF Inv, TypeOK, runVars, workerVars, pipeVars
<1>2. RunInv' /\ OrderInv' /\ StreamInv'
    BY <1>0
       DEF Inv, RunInv, OrderInv, StreamInv, Running, Whole, Me, runVars, workerVars, pipeVars
<1>3. \A w \in Workers : ReportInv(w)'
    BY <1>0 DEF Inv, ReportInv, Busy, Me, runVars, workerVars
<1> QED
    BY <1>0, <1>1, <1>2, <1>3, RunMoves DEF runVars, workerVars, pipeVars

-----------------------------------------------------------------------------
(* The workers. *)

(* Worker w, which was at work, goes on to there and may report that it ended. *)
WorkerMoves(w, there) ==
    /\ Busy(w) /\ there # "none"
    /\ wk' = [wk EXCEPT ![w] = there]
    /\ UNCHANGED <<runVars, abandoned, signalVars>>
    /\ \/ UNCHANGED outcome
       \/ /\ there = "ended"
          /\ \E o \in Outcomes : Report(w, o) /\ (o = "partial" => CallAbandoned(w))

LEMMA WorkerFacts ==
    ASSUME Inv, NEW w \in Workers, NEW there, WorkerMoves(w, there)
    PROVE  /\ Busy(w) /\ there # "none" /\ wk'[w] = there
           /\ UNCHANGED <<pc, call, attempt, err, result, abandoned, cancel, interrupt>>
           /\ Me' = Me /\ (AnySignalSet' <=> AnySignalSet)
           /\ \A v \in Workers : v # w => wk'[v] = wk[v] /\ outcome'[v] = outcome[v]
           /\ w[1] <= call /\ w[1] \in Calls
           /\ w = Me => pc \in {"await", "leave", "settle", "idle", "over"}
           /\ w = Me => pc # "settle" \/ result # "complete"
           /\ Running /\ w[1] = call => w = Me
<1>1. /\ Busy(w) /\ there # "none" /\ wk'[w] = there
      /\ UNCHANGED <<pc, call, attempt, err, result, abandoned, cancel, interrupt>>
    BY DEF WorkerMoves, Inv, TypeOK, runVars, signalVars
<1>2. Me' = Me /\ (AnySignalSet' <=> AnySignalSet)
    BY <1>1 DEF Me, AnySignalSet
<1>3. ASSUME NEW v \in Workers, v # w PROVE wk'[v] = wk[v] /\ outcome'[v] = outcome[v]
    BY <1>3 DEF WorkerMoves, Inv, TypeOK, Report
<1>4. w[1] <= call /\ w[1] \in Calls
    BY <1>1, Pairs, Current DEF Inv, OrderInv, Busy, Calls
<1>5. w = Me => pc \in {"await", "leave", "settle", "idle", "over"}
    BY <1>1 DEF Inv, TypeOK, OrderInv, ReportInv, Busy
<1>6. w = Me => pc # "settle" \/ result # "complete"
    BY <1>1 DEF Inv, StreamInv, Whole, Busy
<1>7. ASSUME Running, w[1] = call PROVE w = Me
  <2>1. w = <<call, w[2]>> /\ w[2] \in Attempts
      BY <1>7, Pairs
  <2>2. /\ w[2] < attempt => wk[w] = "ended"
        /\ w[2] > attempt => wk[w] = "none"
      BY <1>7, <2>1 DEF Inv, OrderInv
  <2>3. w[2] = attempt
      BY <1>1, <2>1, <2>2, Current DEF Attempts, Busy
  <2> QED
      BY <2>1, <2>3 DEF Me
<1> QED
    BY <1>1, <1>2, <1>3, <1>4, <1>5, <1>6, <1>7

LEMMA WorkerOrder ==
    ASSUME Inv, NEW w \in Workers, NEW there, WorkerMoves(w, there),
           msg' \in {0, Len(owners')}, msg # 0 => msg' # 0
    PROVE  RunInv' /\ OrderInv' /\ RetryInv' /\ \A v \in Workers : ReportInv(v)'
<1>0. /\ Busy(w) /\ there # "none" /\ wk'[w] = there
      /\ UNCHANGED <<pc, call, attempt, err, result, abandoned, cancel, interrupt>>
      /\ Me' = Me /\ (AnySignalSet' <=> AnySignalSet)
      /\ \A v \in Workers : v # w => wk'[v] = wk[v] /\ outcome'[v] = outcome[v]
      /\ w = Me => pc \in {"await", "leave", "settle", "idle", "over"}
    BY WorkerFacts
<1>1. Running => Me \in Workers
    BY Current
<1>2. RunInv'
  <2>1. pc = "leave" /\ err \in Retryable => wk'[Me] = "ended"
      BY <1>0, <1>1 DEF Inv, RunInv, Running, Busy
  <2>2. pc = "post" => outcome'[Me] \in Streams
      BY <1>0, <1>1 DEF Inv, RunInv, Running
  <2> QED
      BY <1>0, <2>1, <2>2 DEF Inv, RunInv, Running
<1>3. OrderInv'
  <2>1. \A v \in Workers : wk[v] \in {"none", "ended"} => wk'[v] = wk[v]
      BY <1>0 DEF Busy
  <2>2. Running => \A a \in Attempts : <<call, a>> \in Workers
      BY Current, Pairs
  <2> QED
      BY <1>0, <1>1, <2>1, <2>2 DEF Inv, OrderInv, Running
<1>4. RetryInv'
  <2> SUFFICES ASSUME NEW v \in Workers, NEW x \in Workers, v[1] = x[1], v[2] < x[2],
                      wk'[x] # "none"
               PROVE  wk'[v] = "ended"
      BY DEF RetryInv
  <2>1. wk[v] = "ended"
      BY <1>0 DEF Inv, RetryInv, Busy
  <2> QED
      BY <1>0, <2>1 DEF Busy
<1>5. ASSUME NEW v \in Workers PROVE ReportInv(v)'
  <2>1. CASE v # w
      BY <1>0, <2>1 DEF Inv, ReportInv, Busy
  <2>2. CASE v = w /\ UNCHANGED outcome
      BY <1>0, <2>2 DEF Inv, ReportInv, Busy
  <2>3. CASE v = w /\ ~UNCHANGED outcome
    <3>1. PICK o \in Outcomes : Report(w, o) /\ (o = "partial" => CallAbandoned(w))
        BY <2>3 DEF WorkerMoves
    <3>2. there = "ended"
        BY <2>3 DEF WorkerMoves
    <3>3. outcome'[w] = IF abandoned[w] THEN "none" ELSE o
        BY <3>1 DEF Report, Inv, TypeOK
    <3>4. ~abandoned[w] => w = Me /\ pc \in {"await", "leave"}
        BY <1>0 DEF Inv, ReportInv
    <3> QED
        BY <1>0, <2>3, <3>1, <3>2, <3>3, <3>4 DEF ReportInv, Busy, CallAbandoned
  <2> QED
      BY <2>1, <2>2, <2>3
<1> QED
    BY <1>2, <1>3, <1>4, <1>5

(* A step that does not touch the pipe. *)
LEMMA QuietWorker ==
    ASSUME Inv, NEW w \in Workers, NEW there, WorkerMoves(w, there), there # "emit",
           UNCHANGED pipeVars, TypeOK', WorkerInv(w)',
           emitted[w] => emitted'[w],
           \A v \in Workers : v # w => emitted'[v] = emitted[v] /\ chunks'[v] = chunks[v],
           ~CallAbandoned(w) => chunks'[w] + Pending(w) = chunks[w] + Pending(w)'
    PROVE  Inv'
<1>0. /\ Busy(w) /\ there # "none" /\ wk'[w] = there
      /\ UNCHANGED <<pc, call, attempt, err, result, abandoned, cancel, interrupt>>
      /\ UNCHANGED <<msg, owners, bound, deltas, shown, late>>
      /\ Me' = Me /\ (AnySignalSet' <=> AnySignalSet)
      /\ \A v \in Workers : v # w => wk'[v] = wk[v] /\ outcome'[v] = outcome[v]
      /\ w = Me => pc \in {"await", "leave", "settle", "idle", "over"}
      /\ w = Me => pc # "settle" \/ result # "complete"
    BY WorkerFacts DEF pipeVars
<1>1. RunInv' /\ OrderInv' /\ RetryInv' /\ \A v \in Workers : ReportInv(v)'
    BY <1>0, WorkerOrder DEF Inv, RunInv
<1>2. ASSUME NEW v \in Workers, v # w PROVE WorkerInv(v)'
    BY <1>0, <1>2 DEF Inv, WorkerInv, Pending
<1>3. StreamInv'
  <2>1. CASE w # Me
      BY <1>0, <2>1, Current DEF Inv, StreamInv, RunInv, Running, Whole, Pending
  <2>2. CASE w = Me
    <3>1. pc = "await" => ~abandoned[w]
        BY <2>2 DEF Inv, OrderInv
    <3>2. pc = "await" /\ ~AnySignalSet => chunks'[w] = shown[w] + Pending(w)'
      <4>1. chunks[w] \in Nat /\ chunks'[w] \in Nat /\ shown[w] \in Nat
          BY DEF Inv, TypeOK
      <4>2. Pending(w) \in Nat /\ Pending(w)' \in Nat
          BY DEF Pending
      <4>3. pc = "await" /\ ~AnySignalSet => chunks[w] = shown[w] + Pending(w)
          BY <2>2 DEF Inv, StreamInv
      <4> QED
          BY <3>1, <4>1, <4>2, <4>3 DEF CallAbandoned
    <3> QED
        BY <1>0, <2>2, <3>2 DEF Inv, StreamInv, RunInv, Pending
  <2> QED
      BY <2>1, <2>2
<1>4. MixInv'
  <2>1. \A v \in Workers : /\ emitted[v] => emitted'[v]
                           /\ wk'[v] # "none" => wk[v] # "none"
                           /\ wk'[v] = "emit" => wk[v] = "emit"
      BY <1>0 DEF Busy
  <2>2. \A d \in deltas : d.from \in Workers
      BY DEF Inv, TypeOK
  <2> QED
      BY <1>0, <2>1, <2>2 DEF Inv, MixInv, Superseded
<1> QED
    BY <1>1, <1>2, <1>3, <1>4 DEF Inv

LEMMA OpenStreamInv == ASSUME Inv, NEW w \in Workers, OpenStream(w) PROVE Inv'
<1>0. /\ wk[w] = "open" /\ UNCHANGED <<runVars, abandoned, emitted, chunks, pipeVars, signalVars>>
    BY DEF OpenStream, WorkerStep
<1>1. PICK there \in {"ended", "stream"} :
          /\ wk' = [wk EXCEPT ![w] = there]
          /\ \/ there = "ended" /\ Report(w, SignalRaised)
             \/ there = "stream" /\ UNCHANGED outcome
    BY DEF OpenStream, WorkerStep
<1>2. SignalRaised \in Outcomes /\ SignalRaised # "partial"
    BY DEF SignalRaised, Outcomes, Streams, Signals
<1>3. WorkerMoves(w, there)
    BY <1>0, <1>1, <1>2 DEF WorkerMoves, Busy
<1>4. TypeOK'
    BY <1>0, <1>1, <1>2 DEF Inv, TypeOK, Report, runVars, pipeVars, signalVars
<1>5. WorkerInv(w)' /\ Pending(w)' = 0 /\ Pending(w) = 0
    BY <1>0, <1>1 DEF Inv, TypeOK, WorkerInv, Pending, pipeVars
<1> QED
    BY <1>0, <1>1, <1>3, <1>4, <1>5, QuietWorker

LEMMA ReadChunkInv == ASSUME Inv, NEW w \in Workers, ReadChunk(w) PROVE Inv'
<1>0. /\ wk[w] = "stream" /\ chunks[w] < MaxChunks
      /\ UNCHANGED <<runVars, abandoned, emitted, pipeVars, signalVars>>
    BY DEF ReadChunk, WorkerStep
<1>1. CASE /\ CallAbandoned(w) /\ wk' = [wk EXCEPT ![w] = "ended"] /\ Report(w, "partial")
           /\ UNCHANGED chunks
  <2>1. "partial" \in Outcomes
      BY DEF Outcomes, Streams
  <2>2. WorkerMoves(w, "ended")
      BY <1>0, <1>1, <2>1 DEF WorkerMoves, Busy
  <2>3. TypeOK'
      BY <1>0, <1>1, <2>1 DEF Inv, TypeOK, Report, runVars, pipeVars, signalVars
  <2>4. WorkerInv(w)'
      BY <1>0, <1>1 DEF Inv, TypeOK, WorkerInv, Pending, pipeVars
  <2> QED
      BY <1>0, <1>1, <2>2, <2>3, <2>4, QuietWorker
<1>2. CASE /\ ~CallAbandoned(w) /\ wk' = [wk EXCEPT ![w] = "gate"]
           /\ chunks' = [chunks EXCEPT ![w] = @ + 1] /\ UNCHANGED outcome
  <2>1. /\ chunks[w] \in Nat /\ chunks'[w] = chunks[w] + 1 /\ chunks'[w] \in 0..MaxChunks
        /\ shown[w] \in Nat /\ wk'[w] = "gate"
      BY <1>0, <1>2, BoundsAssumption DEF Inv, TypeOK
  <2>2. WorkerMoves(w, "gate")
      BY <1>0, <1>2 DEF WorkerMoves, Busy
  <2>3. TypeOK'
      BY <1>0, <1>2, <2>1 DEF Inv, TypeOK, runVars, pipeVars, signalVars
  <2>4. Pending(w) = 0 /\ Pending(w)' = 1
      BY <1>0, <2>1 DEF Pending
  <2>5. WorkerInv(w)'
    <3>1. WorkerInv(w)
        BY DEF Inv
    <3>2. shown'[w] + Pending(w)' <= chunks'[w]
        BY <1>0, <2>1, <2>4, <3>1 DEF WorkerInv, pipeVars
    <3> QED
        BY <1>0, <2>1, <3>1, <3>2 DEF WorkerInv, pipeVars
  <2>6. \A v \in Workers : v # w => chunks'[v] = chunks[v]
      BY <1>2 DEF Inv, TypeOK
  <2>7. chunks'[w] + Pending(w) = chunks[w] + Pending(w)'
      BY <2>1, <2>4
  <2> QED
      BY <1>0, <2>2, <2>3, <2>5, <2>6, <2>7, QuietWorker
<1> QED
    BY <1>1, <1>2 DEF ReadChunk, WorkerStep

LEMMA EndStreamInv ==
    ASSUME Inv, NEW w \in Workers, NEW o \in Outcomes, EndStream(w, o) PROVE Inv'
<1>0. /\ wk[w] = "stream" /\ wk' = [wk EXCEPT ![w] = "ended"] /\ Report(w, o) /\ o # "partial"
      /\ UNCHANGED <<runVars, abandoned, emitted, chunks, pipeVars, signalVars>>
    BY DEF EndStream, WorkerStep, ProviderErrors, Retryable
<1>1. WorkerMoves(w, "ended")
    BY <1>0 DEF WorkerMoves, Busy
<1>2. TypeOK'
    BY <1>0 DEF Inv, TypeOK, Report, runVars, pipeVars, signalVars
<1>3. WorkerInv(w)' /\ Pending(w)' = 0 /\ Pending(w) = 0
    BY <1>0 DEF Inv, TypeOK, WorkerInv, Pending, pipeVars
<1> QED
    BY <1>0, <1>1, <1>2, <1>3, QuietWorker

LEMMA GateInv == ASSUME Inv, NEW w \in Workers, Gate(w) PROVE Inv'
<1>0. wk[w] = "gate" /\ UNCHANGED <<runVars, outcome, abandoned, chunks, pipeVars, signalVars>>
    BY DEF Gate, WorkerStep
<1>1. /\ WorkerInv(w) /\ chunks[w] \in Nat /\ shown[w] \in Nat /\ Pending(w) = 1
      /\ shown' = shown /\ late' = late /\ chunks' = chunks
    BY <1>0 DEF Inv, TypeOK, Pending, pipeVars
<1>2. CASE CallAbandoned(w) /\ wk' = [wk EXCEPT ![w] = "stream"] /\ UNCHANGED emitted
  <2>1. WorkerMoves(w, "stream")
      BY <1>0, <1>2 DEF WorkerMoves, Busy
  <2>2. TypeOK'
      BY <1>0, <1>2 DEF Inv, TypeOK, runVars, pipeVars, signalVars
  <2>3. wk'[w] = "stream" /\ Pending(w)' = 0
      BY <1>2 DEF Inv, TypeOK, Pending
  <2>4. shown[w] + 0 <= chunks[w]
      BY <1>1 DEF WorkerInv
  <2>5. WorkerInv(w)'
      BY <1>0, <1>1, <1>2, <2>3, <2>4 DEF WorkerInv
  <2> QED
      BY <1>0, <1>2, <2>1, <2>2, <2>5, QuietWorker
<1>3. CASE /\ ~CallAbandoned(w) /\ wk' = [wk EXCEPT ![w] = "bind"]
           /\ emitted' = [emitted EXCEPT ![w] = TRUE]
  <2>1. WorkerMoves(w, "bind")
      BY <1>0, <1>3 DEF WorkerMoves, Busy
  <2>2. TypeOK'
      BY <1>0, <1>3 DEF Inv, TypeOK, runVars, pipeVars, signalVars
  <2>3. wk'[w] = "bind" /\ Pending(w)' = 1 /\ emitted'[w]
      BY <1>3 DEF Inv, TypeOK, Pending
  <2>4. ~abandoned[w] /\ ~abandoned'[w]
      BY <1>0, <1>3 DEF CallAbandoned
  <2>5. WorkerInv(w)'
      BY <1>0, <1>1, <2>3, <2>4 DEF WorkerInv
  <2>6. \A v \in Workers : v # w => emitted'[v] = emitted[v]
      BY <1>3 DEF Inv, TypeOK
  <2> QED
      BY <1>0, <1>1, <2>1, <2>2, <2>3, <2>5, <2>6, QuietWorker
<1> QED
    BY <1>2, <1>3 DEF Gate, WorkerStep

LEMMA BindDeltaInv == ASSUME Inv, NEW w \in Workers, BindDelta(w) PROVE Inv'
<1>0. /\ wk[w] = "bind" /\ wk' = [wk EXCEPT ![w] = "emit"]
      /\ UNCHANGED <<runVars, outcome, abandoned, emitted, chunks, deltas, shown, late, signalVars>>
      /\ \/ msg # 0 /\ bound' = [bound EXCEPT ![w] = msg] /\ UNCHANGED <<msg, owners>>
         \/ msg = 0 /\ StartMessage(w[1]) /\ bound' = [bound EXCEPT ![w] = msg']
    BY DEF BindDelta, WorkerStep
<1>1. WorkerMoves(w, "emit")
    BY <1>0 DEF WorkerMoves, Busy
<1>2. /\ Busy(w) /\ wk'[w] = "emit"
      /\ UNCHANGED <<pc, call, attempt, err, result, abandoned, cancel, interrupt>>
      /\ Me' = Me /\ (AnySignalSet' <=> AnySignalSet)
      /\ \A v \in Workers : v # w => wk'[v] = wk[v]
      /\ w[1] \in Calls
      /\ w = Me => pc # "settle" \/ result # "complete"
    BY <1>1, WorkerFacts
<1>3. /\ owners' \in Seq(Calls) /\ Len(owners') \in Nat /\ Len(owners) \in Nat
      /\ Len(owners') >= Len(owners) /\ msg' = Len(owners') /\ msg' # 0
      /\ msg # 0 => msg' = msg
      /\ bound'[w] = msg' /\ \A v \in Workers : v # w => bound'[v] = bound[v]
  <2>1. bound'[w] = msg' /\ \A v \in Workers : v # w => bound'[v] = bound[v]
      BY <1>0 DEF Inv, TypeOK
  <2>2. CASE msg # 0
      BY <1>0, <2>1, <2>2, Current DEF Inv, TypeOK, RunInv, StartMessage
  <2>3. CASE msg = 0
      BY <1>0, <1>2, <2>1, <2>3, Current, MessageStarts
  <2> QED
      BY <2>2, <2>3
<1>4. TypeOK'
  <2>1. bound' = [bound EXCEPT ![w] = msg']
      BY <1>0
  <2>2. bound' \in [Workers -> 0..Len(owners')]
      BY <1>3, <2>1 DEF Inv, TypeOK
  <2>3. \A d \in deltas : d.id \in 1..Len(owners') /\ d.from \in Workers
      BY <1>3 DEF Inv, TypeOK
  <2> QED
      BY <1>0, <1>3, <2>2, <2>3 DEF Inv, TypeOK, runVars, signalVars
<1>5. RunInv' /\ OrderInv' /\ RetryInv' /\ \A v \in Workers : ReportInv(v)'
    BY <1>1, <1>3, WorkerOrder
<1>6. StreamInv'
  <2>1. Running => msg' = msg
      BY <1>3 DEF Inv, RunInv
  <2>2. CASE w # Me
      BY <1>0, <1>2, <1>3, <2>1, <2>2, Current
         DEF Inv, StreamInv, RunInv, Running, Whole, Pending
  <2>3. CASE w = Me
    <3>1. Pending(w)' = Pending(w)
        BY <1>0, <1>2 DEF Pending
    <3> QED
        BY <1>0, <1>2, <1>3, <2>1, <2>3, <3>1 DEF Inv, StreamInv, RunInv, Running
  <2> QED
      BY <2>2, <2>3
<1>7. MixInv'
  <2>1. \A d \in deltas : Superseded(d) => Superseded(d)'
      BY <1>3, StaysSuperseded
  <2>2. \A d \in deltas : d.id < Len(owners) => d.id < bound'[w]
      BY <1>3 DEF Inv, TypeOK
  <2>3. ASSUME NEW d \in deltas, NEW v \in Workers, d.from[1] = v[1], d.from[2] < v[2],
               wk'[v] # "none"
        PROVE  /\ Superseded(d)'
               /\ wk'[v] = "emit" => d.id < bound'[v]
               /\ \A e \in deltas : e.from = v => d.id < e.id
    <3>1. /\ Superseded(d)
          /\ wk[v] = "emit" => d.id < bound[v]
          /\ \A e \in deltas : e.from = v => d.id < e.id
        BY <1>2, <2>3 DEF Inv, MixInv, Busy
    <3> QED
        BY <1>2, <1>3, <2>1, <2>2, <3>1 DEF Superseded
  <2> QED
      BY <1>0, <1>2, <2>1, <2>3 DEF Inv, MixInv
<1>8. ASSUME NEW v \in Workers PROVE WorkerInv(v)'
  <2>1. CASE v # w
      BY <1>0, <1>2, <1>3, <2>1 DEF Inv, WorkerInv, Pending
  <2>2. CASE v = w
    <3>1. Pending(w)' = Pending(w) /\ WorkerInv(w)
        BY <1>0, <1>2 DEF Inv, Pending
    <3> QED
        BY <1>0, <1>2, <1>3, <2>2, <3>1 DEF WorkerInv
  <2> QED
      BY <2>1, <2>2
<1> QED
    BY <1>4, <1>5, <1>6, <1>7, <1>8 DEF Inv

LEMMA EmitDeltaInv == ASSUME Inv, NEW w \in Workers, EmitDelta(w) PROVE Inv'
<1> DEFINE n == [id |-> bound[w], from |-> w]
<1>0. /\ wk[w] = "emit" /\ wk' = [wk EXCEPT ![w] = "stream"]
      /\ deltas' = deltas \cup {n} /\ n.id = bound[w] /\ n.from = w
      /\ shown' = [shown EXCEPT ![w] = @ + 1]
      /\ late' = IF abandoned[w] THEN [late EXCEPT ![w] = @ + 1] ELSE late
      /\ UNCHANGED <<runVars, outcome, abandoned, emitted, chunks, msg, owners, bound, signalVars>>
    BY DEF EmitDelta, WorkerStep
<1> HIDE DEF n
<1>1. WorkerMoves(w, "stream")
    BY <1>0 DEF WorkerMoves, Busy
<1>2. /\ Busy(w) /\ wk'[w] = "stream"
      /\ UNCHANGED <<pc, call, attempt, err, result, abandoned, cancel, interrupt>>
      /\ Me' = Me /\ (AnySignalSet' <=> AnySignalSet)
      /\ \A v \in Workers : v # w => wk'[v] = wk[v]
      /\ w = Me => pc # "settle" \/ result # "complete"
      /\ Running /\ w[1] = call => w = Me
    BY <1>1, WorkerFacts
<1>3. /\ WorkerInv(w) /\ Pending(w) = 1 /\ Pending(w)' = 0 /\ emitted[w] /\ bound[w] # 0
      /\ bound[w] \in 1..Len(owners)
      /\ shown[w] \in Nat /\ late[w] \in Nat /\ chunks[w] \in 0..MaxChunks
      /\ shown'[w] = shown[w] + 1 /\ late'[w] = IF abandoned[w] THEN late[w] + 1 ELSE late[w]
      /\ \A v \in Workers : v # w => shown'[v] = shown[v] /\ late'[v] = late[v]
  <2>1. /\ WorkerInv(w) /\ Pending(w) = 1 /\ Pending(w)' = 0
        /\ shown[w] \in Nat /\ late[w] \in Nat /\ chunks[w] \in 0..MaxChunks
        /\ shown'[w] = shown[w] + 1 /\ late'[w] = IF abandoned[w] THEN late[w] + 1 ELSE late[w]
        /\ \A v \in Workers : v # w => shown'[v] = shown[v] /\ late'[v] = late[v]
      BY <1>0, <1>2 DEF Inv, TypeOK, Pending
  <2>2. emitted[w] /\ bound[w] # 0
      BY <1>0, <2>1 DEF WorkerInv
  <2>3. bound[w] \in 1..Len(owners)
      BY <2>2, Current DEF Inv, TypeOK
  <2> QED
      BY <2>1, <2>2, <2>3
<1>4. /\ late[w] = 0 /\ shown[w] + 1 <= chunks[w]
      /\ shown'[w] \in 0..MaxChunks /\ late'[w] \in 0..MaxChunks /\ late'[w] <= shown'[w]
      /\ late'[w] <= 1 /\ (~abandoned[w] => late'[w] = 0)
  <2>1. late[w] = 0 /\ shown[w] + 1 <= chunks[w]
      BY <1>0, <1>3 DEF WorkerInv
  <2> QED
      BY <1>3, <2>1, BoundsAssumption
<1>5. TypeOK'
  <2>1. shown' \in [Workers -> 0..MaxChunks]
      BY <1>0, <1>3, <1>4 DEF Inv, TypeOK
  <2>2. late' \in [Workers -> 0..MaxChunks]
    <3>1. \A v \in Workers : late'[v] \in 0..MaxChunks
        BY <1>3, <1>4 DEF Inv, TypeOK
    <3>2. late' = [v \in Workers |-> late'[v]]
        BY <1>0 DEF Inv, TypeOK
    <3> QED
        BY <3>1, <3>2
  <2>3. \A d \in deltas' : d.id \in 1..Len(owners) /\ d.from \in Workers
      BY <1>0, <1>3 DEF Inv, TypeOK
  <2> QED
      BY <1>0, <2>1, <2>2, <2>3 DEF Inv, TypeOK, runVars, signalVars
<1>6. RunInv' /\ OrderInv' /\ RetryInv' /\ \A v \in Workers : ReportInv(v)'
    BY <1>0, <1>1, WorkerOrder DEF Inv, RunInv
<1>7. StreamInv'
  <2>1. CASE w # Me
    <3>1. \A d \in deltas' : d.from = Me => d \in deltas
        BY <1>0, <2>1
    <3> QED
        BY <1>0, <1>2, <1>3, <2>1, <3>1, Current
           DEF Inv, StreamInv, RunInv, Running, Whole, Pending
  <2>2. CASE w = Me
    <3>1. pc \in {"await", "leave", "post"} => \A d \in deltas' : d.from = Me => d.id = msg
        BY <1>0, <2>2 DEF Inv, StreamInv
    <3>2. pc \in {"await", "post"} /\ ~AnySignalSet => chunks[w] = shown'[w] + Pending(w)'
      <4>1. pc \in {"await", "post"} /\ ~AnySignalSet => chunks[w] = shown[w] + Pending(w)
          BY <2>2 DEF Inv, StreamInv
      <4> QED
          BY <1>3, <4>1
    <3> QED
        BY <1>0, <1>2, <2>2, <3>1, <3>2 DEF Inv, StreamInv, RunInv
  <2> QED
      BY <2>1, <2>2
<1>8. MixInv'
  <2>1. ASSUME NEW v \in Workers, w[1] = v[1], w[2] < v[2] PROVE wk'[v] = "none"
      BY <1>0, <1>2, <2>1, Pairs DEF Inv, RetryInv, Attempts
  <2>2. pc \in {"attempt", "backoff"} => w[1] # call
      BY <1>0, <1>2 DEF Inv, OrderInv, Running
  <2>3. ASSUME NEW d \in deltas', NEW v \in Workers, d.from[1] = v[1], d.from[2] < v[2],
               wk'[v] # "none"
        PROVE  /\ Superseded(d)
               /\ wk'[v] = "emit" => d.id < bound[v]
               /\ \A e \in deltas' : e.from = v => d.id < e.id
    <3>1. d \in deltas /\ wk[v] # "none"
        BY <1>0, <1>2, <2>1, <2>3 DEF Busy
    <3>2. /\ Superseded(d)
          /\ wk[v] = "emit" => d.id < bound[v]
          /\ \A e \in deltas : e.from = v => d.id < e.id
        BY <2>3, <3>1 DEF Inv, MixInv
    <3> QED
        BY <1>0, <1>2, <3>2
  <2>4. ASSUME pc \in {"attempt", "backoff"}, NEW d \in deltas', d.from[1] = call
        PROVE  Superseded(d)
      BY <1>0, <2>2, <2>4 DEF Inv, MixInv
  <2>5. \A d \in deltas' : emitted[d.from]
      BY <1>0, <1>3 DEF Inv, MixInv
  <2>6. \A d \in deltas' : Superseded(d)' <=> Superseded(d)
      BY <1>0 DEF Superseded
  <2> QED
      BY <1>0, <1>2, <2>3, <2>4, <2>5, <2>6 DEF MixInv
<1>9. ASSUME NEW v \in Workers PROVE WorkerInv(v)'
  <2>1. CASE v # w
      BY <1>0, <1>2, <1>3, <2>1 DEF Inv, WorkerInv, Pending
  <2>2. CASE v = w
      BY <1>0, <1>2, <1>3, <1>4, <2>2 DEF WorkerInv
  <2> QED
      BY <2>1, <2>2
<1> QED
    BY <1>5, <1>6, <1>7, <1>8, <1>9 DEF Inv

-----------------------------------------------------------------------------
LEMMA NextInv == ASSUME Inv, [Next]_vars PROVE Inv'
<1>1. CASE UNCHANGED vars
  <2>1. TypeOK' /\ RunInv' /\ OrderInv' /\ RetryInv' /\ StreamInv' /\ MixInv'
      BY <1>1 DEF vars, runVars, workerVars, pipeVars, signalVars, Inv, TypeOK, RunInv,
           OrderInv, RetryInv, StreamInv, MixInv, Running, Whole, Pending, Superseded, Me,
           AnySignalSet
  <2>2. \A w \in Workers : ReportInv(w)' /\ WorkerInv(w)'
      BY <1>1 DEF vars, runVars, workerVars, pipeVars, signalVars, Inv, ReportInv, WorkerInv,
           Pending, Busy, Me, AnySignalSet
  <2> QED
      BY <2>1, <2>2 DEF Inv
<1>2. CASE RunStep
    BY <1>2, StartAttemptInv, AwaitAttemptInv, LeaveAttemptInv, BackoffInv, FinishCallInv,
       SettleInv DEF RunStep
<1>3. CASE BeginCall \/ StopCancelled \/ NewRun \/ Interrupt \/ Cancel
    BY <1>3, BeginCallInv, StopCancelledInv, NewRunInv, SignalInv
<1>4. ASSUME NEW w \in Workers,
             \/ OpenStream(w) \/ ReadChunk(w) \/ Gate(w) \/ BindDelta(w) \/ EmitDelta(w)
             \/ \E o \in Outcomes : EndStream(w, o)
      PROVE  Inv'
    BY <1>4, OpenStreamInv, ReadChunkInv, GateInv, BindDeltaInv, EmitDeltaInv, EndStreamInv
<1> QED
    BY <1>1, <1>2, <1>3, <1>4 DEF Next, Terminated

(* Every reachable state satisfies the inductive invariant: whatever the    *)
(* interleaving of the run thread, the abandoned workers and the signals.   *)
THEOREM Invariant == Spec => []Inv
<1>1. Init => Inv
    BY InitInv
<1>2. Inv /\ [Next]_vars => Inv'
    BY NextInv
<1> QED
    BY <1>1, <1>2, PTL DEF Spec

(* The variables keep their types (calls.py, _retry.py, pipe.py). *)
THEOREM TypeCorrect == Spec => []TypeOK
<1>1. Inv => TypeOK
    BY DEF Inv
<1> QED
    BY <1>1, Invariant, PTL

(* A call never returns the partial stream of a worker that left on a       *)
(* signal, and what it returns as complete was shown whole under the        *)
(* message it is emitted with (the checks at the end of _LLMCallRunner.run).*)
THEOREM ReturnedWhole == Spec => []ReturnedStreamWhole
<1>1. Inv => ReturnedStreamWhole
    BY DEF Inv, RunInv, StreamInv, Whole, ReturnedStreamWhole
<1> QED
    BY <1>1, Invariant, PTL

(* The output of two attempts of a call never shares a message id           *)
(* (_prepare_retry and emit_message_delta).                                 *)
THEOREM NeverMix == Spec => []AttemptsNeverMix
<1>1. ASSUME Inv PROVE AttemptsNeverMix
  <2>1. \A d \in deltas : /\ d.from \in Workers /\ wk[d.from] # "none" /\ d.id \in Nat
                          /\ d.from[2] \in Nat
    <3>1. \A d \in deltas : d.from \in Workers /\ emitted[d.from] /\ d.id \in Nat
        BY <1>1, Current DEF Inv, TypeOK, MixInv
    <3> QED
        BY <1>1, <3>1, Pairs DEF Inv, WorkerInv, Attempts
  <2>2. \A d, e \in deltas :
            d.from[1] = e.from[1] /\ d.from[2] < e.from[2]
                => d.from[1] \in Replacement /\ d.id < e.id
      BY <1>1, <2>1 DEF Inv, MixInv, Superseded
  <2> SUFFICES ASSUME NEW d \in deltas, NEW e \in deltas, d.from[1] = e.from[1],
                      d.from[2] # e.from[2]
               PROVE  d.from[1] \in Replacement /\ d.id # e.id
      BY DEF AttemptsNeverMix
  <2>3. CASE d.from[2] < e.from[2]
      BY <2>1, <2>2, <2>3
  <2>4. CASE e.from[2] < d.from[2]
      BY <2>1, <2>2, <2>4
  <2> QED
      BY <2>1, <2>3, <2>4
<1> QED
    BY <1>1, Invariant, PTL

(* An abandoned worker emits at most the delta that had passed the gate     *)
(* (_delta_gate), even when the interrupt is cleared for the next call.     *)
THEOREM OneLateDelta == Spec => []AtMostOneLateDelta
<1>1. Inv => AtMostOneLateDelta
    BY DEF Inv, WorkerInv, AtMostOneLateDelta
<1> QED
    BY <1>1, Invariant, PTL
=============================================================================
