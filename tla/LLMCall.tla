------------------------------- MODULE LLMCall -------------------------------
(***************************************************************************)
(* llm/calls.py and llm/_retry.py: successive streamed call_llm_api calls  *)
(* of one agent, with the message ids its EventPipe gives to the streamed  *)
(* deltas (runtime/pipe.py) and what the agent does with each result       *)
(* before it calls again (agent/prompt_llm_tool.py, llm/completion.py,     *)
(* agent/core.py).                                                         *)
(*                                                                         *)
(* Every attempt of a call runs on a worker thread of its own.  A worker   *)
(* that its caller abandoned is not stopped: it goes on reading its        *)
(* provider stream until it looks at its abandonment flag or the signals.  *)
(* The wait itself is ExternalCall's; here it ends with the outcome, with  *)
(* a signal or with a deadline.                                            *)
(***************************************************************************)
EXTENDS Integers, Sequences, FiniteSets

CONSTANTS
    MaxCalls,       \* bound on the calls made
    MaxAttempts,    \* max_attempts
    MaxChunks,      \* bound on the chunks a provider streams per attempt
    Timed,          \* the calls that have a timeout_s
    Replacement     \* the calls that are given start_replacement_stream

ASSUME BoundsAssumption ==
    MaxCalls \in Nat /\ MaxAttempts \in Nat \ {0} /\ MaxChunks \in Nat
ASSUME OptionsAssumption == Timed \cup Replacement \subseteq 1..MaxCalls

VARIABLES
    pc,         \* where the run thread is
    call,       \* the current call, 0 before the first
    attempt,    \* the current attempt of run_with_retry
    err,        \* the exception that ended the current attempt
    result,     \* how the current call ended
    wk,         \* where each worker is
    outcome,    \* what each worker has reported to a caller that may still read it
    abandoned,  \* attempt_abandoned
    emitted,    \* RetryState.output_emitted
    chunks,     \* content chunks each worker has appended
    msg,        \* _current_message_id, 0 for None
    owners,     \* for each message id, the call it was started for
    bound,      \* the message id a worker read in emit_message_delta
    deltas,     \* the MessageDeltaEvents: their id and the worker they are from
    shown,      \* how many deltas each worker emitted,
    late,       \* and how many of these after it was abandoned
    cancel, interrupt

runVars == <<pc, call, attempt, err, result>>
workerVars == <<wk, outcome, abandoned, emitted, chunks>>
pipeVars == <<msg, owners, bound, deltas, shown, late>>
signalVars == <<cancel, interrupt>>
vars == <<runVars, workerVars, pipeVars, signalVars>>

Calls == 1..MaxCalls
Attempts == 1..MaxAttempts
Workers == Calls \X Attempts
Me == <<call, attempt>>

Retryable == {"rate_limit", "unavailable"}              \* _RETRYABLE_LLM_ERRORS
ProviderErrors == Retryable \cup {"rejected"}
Signals == {"cancelled", "interrupted"}
\* "partial" is a stream that was left early; "filtered" one that ended with
\* the finish reason content_filter.
Streams == {"complete", "partial", "filtered"}
Outcomes == Streams \cup ProviderErrors \cup Signals
\* What a steerable agent answers by asking its user (LLMProviderRequestError).
Recoverable == {"rate_limit", "rejected", "filtered"}

AnySignalSet == cancel \/ interrupt
SignalRaised == IF cancel THEN "cancelled" ELSE "interrupted"

Init ==
    /\ pc = "idle" /\ call = 0 /\ attempt = 1 /\ err = "none"
    /\ result = "none"
    /\ wk = [w \in Workers |-> "none"]
    /\ outcome = [w \in Workers |-> "none"]
    /\ abandoned = [w \in Workers |-> FALSE]
    /\ emitted = [w \in Workers |-> FALSE]
    /\ chunks = [w \in Workers |-> 0]
    /\ msg = 0 /\ owners = <<>> /\ deltas = {}
    /\ bound = [w \in Workers |-> 0]
    /\ shown = [w \in Workers |-> 0]
    /\ late = [w \in Workers |-> 0]
    /\ cancel = FALSE /\ interrupt = FALSE

-----------------------------------------------------------------------------
(* The pipe.                                                                *)

\* start_message on behalf of call k.
StartMessage(k) ==
    /\ owners' = Append(owners, k)
    /\ msg' = Len(owners) + 1

\* emit_message consumes the current message id.
EmitMessage ==
    /\ msg' = 0
    /\ UNCHANGED owners

-----------------------------------------------------------------------------
(* The run thread.                                                          *)

\* get_completion starts a message, then call_llm_api starts its first attempt.
BeginCall ==
    /\ pc = "idle" /\ call < MaxCalls /\ ~cancel
    /\ pc' = "attempt" /\ call' = call + 1
    /\ StartMessage(call + 1)
    /\ UNCHANGED <<attempt, err, result, workerVars, bound, deltas, shown, late, signalVars>>

\* The attempt raises e; its abandonment flag is set by a later step.
RaiseInAttempt(e) ==
    /\ pc' = "leave"
    /\ err' = e
    /\ UNCHANGED <<call, attempt, result, workerVars, pipeVars, signalVars>>

\* run_cancellable_external_call up to the start of its worker.
StartAttempt ==
    /\ pc = "attempt"
    /\ \/ AnySignalSet /\ RaiseInAttempt(SignalRaised)
       \/ call \in Timed /\ RaiseInAttempt("timeout")
       \/ /\ ~AnySignalSet
          /\ pc' = "await"
          /\ wk' = [wk EXCEPT ![Me] = "open"]
          /\ UNCHANGED <<call, attempt, err, result, outcome, abandoned, emitted,
                         chunks, pipeVars, signalVars>>

TakeOutcome ==
    /\ outcome[Me] # "none"
    /\ \/ outcome[Me] \notin Streams /\ RaiseInAttempt(outcome[Me])
       \/ /\ outcome[Me] \in Streams
          /\ pc' = "post"
          /\ UNCHANGED <<call, attempt, err, result, workerVars, pipeVars, signalVars>>

\* As if the caller waited for the worker whatever the signals.
AwaitUnsignalled ==
    /\ pc = "await"
    /\ (call \in Timed /\ RaiseInAttempt("timeout")) \/ TakeOutcome

\* The poll for the outcome may return it although a signal was set since the
\* signals were last looked at.
AwaitAttempt ==
    /\ pc = "await"
    /\ \/ AnySignalSet /\ RaiseInAttempt(SignalRaised)
       \/ call \in Timed /\ RaiseInAttempt("timeout")
       \/ TakeOutcome

Fail(e) ==
    /\ pc' = "settle"
    /\ result' = e
    /\ err' = "none"
    /\ UNCHANGED <<call, attempt>>

\* run_with_retry and _prepare_retry: whether the failed attempt is retried.
MayRetry == err \in Retryable /\ attempt < MaxAttempts /\ (emitted[Me] => call \in Replacement)

LeaveAttemptIf(retry, superseded) ==
    /\ pc = "leave"
    /\ abandoned' = [abandoned EXCEPT ![Me] = TRUE]
    /\ \/ ~retry /\ Fail(err) /\ UNCHANGED <<msg, owners>>
       \/ /\ retry
          /\ pc' = "backoff"
          /\ IF superseded THEN StartMessage(call) ELSE UNCHANGED <<msg, owners>>
          /\ UNCHANGED <<call, attempt, err, result>>
    /\ outcome' = [outcome EXCEPT ![Me] = "none"]
    /\ UNCHANGED <<wk, emitted, chunks, bound, deltas, shown, late, signalVars>>

\* As if a replacement stream kept the message it replaces.
LeaveSameMessage == LeaveAttemptIf(MayRetry, FALSE)

\* _run_attempt sets attempt_abandoned; then either the call fails or, after a
\* replacement message was started for partial output, it backs off.
LeaveAttempt == LeaveAttemptIf(MayRetry, emitted[Me])

\* _cancellable_backoff_sleep, then the next attempt.
Backoff ==
    /\ pc = "backoff"
    /\ \/ AnySignalSet /\ Fail(SignalRaised)
       \/ /\ ~AnySignalSet
          /\ pc' = "attempt" /\ attempt' = attempt + 1 /\ err' = "none"
          /\ UNCHANGED <<call, result>>
    /\ UNCHANGED <<workerVars, pipeVars, signalVars>>

\* As if a stream result were returned without another look at the signals.
FinishUnchecked ==
    /\ pc = "post"
    /\ Fail(outcome[Me])
    /\ UNCHANGED <<workerVars, pipeVars, signalVars>>

\* The end of _LLMCallRunner.run: content filter, then the signals once more.
FinishCall ==
    /\ pc = "post"
    /\ \/ outcome[Me] = "filtered" /\ Fail("filtered")
       \/ outcome[Me] # "filtered" /\ AnySignalSet /\ Fail(SignalRaised)
       \/ outcome[Me] # "filtered" /\ ~AnySignalSet /\ Fail(outcome[Me])
    /\ UNCHANGED <<workerVars, pipeVars, signalVars>>

\* What becomes of the result.  A parsed response, a reprompt after a response
\* that does not parse and the answer of a user who was asked about a provider
\* error are each emitted as a message, as is the interruption note, after
\* the interrupt was cleared.  Anything else ends the run.
Settle ==
    /\ pc = "settle"
    /\ \/ /\ result \in {"complete", "partial", "interrupted"} \cup Recoverable
          /\ pc' = "idle"
          /\ interrupt' = (interrupt /\ result # "interrupted")
          /\ EmitMessage
       \/ /\ result \notin {"complete", "partial", "interrupted"} \cup Recoverable
          /\ pc' = "over"
          /\ UNCHANGED <<msg, owners, interrupt>>
    /\ attempt' = 1 /\ result' = "none"
    /\ outcome' = [outcome EXCEPT ![Me] = "none"]
    /\ UNCHANGED <<call, err, wk, abandoned, emitted, chunks, bound, deltas, shown, late, cancel>>

\* raise_if_cancelled before the next tool ends the run.
StopCancelled ==
    /\ pc = "idle" /\ cancel
    /\ pc' = "over"
    /\ UNCHANGED <<call, attempt, err, result, workerVars, pipeVars, signalVars>>

\* The agent is invoked again: initialize resets the pipe and its signals.
NewRun ==
    /\ pc = "over" /\ call < MaxCalls
    /\ pc' = "idle"
    /\ msg' = 0 /\ cancel' = FALSE /\ interrupt' = FALSE
    /\ UNCHANGED <<call, attempt, err, result, workerVars, owners, bound, deltas, shown, late>>

RunStep ==
    StartAttempt \/ AwaitAttempt \/ LeaveAttempt \/ Backoff \/ FinishCall \/ Settle

-----------------------------------------------------------------------------
(* The worker of an attempt, in _call_chat_completion.                      *)

WorkerStep(w, here, there) ==
    /\ wk[w] = here
    /\ wk' = [wk EXCEPT ![w] = there]

\* Nobody reads what the worker of an abandoned attempt reports.
Report(w, o) == outcome' = [outcome EXCEPT ![w] = IF abandoned[w] THEN "none" ELSE o]

\* As if the abandonment flag were not looked at.
SignalSetOnly(w) == AnySignalSet

CallAbandoned(w) == abandoned[w] \/ AnySignalSet

\* raise_if_set before the request is sent.
OpenStream(w) ==
    /\ \/ AnySignalSet /\ WorkerStep(w, "open", "ended") /\ Report(w, SignalRaised)
       \/ ~AnySignalSet /\ WorkerStep(w, "open", "stream") /\ UNCHANGED outcome
    /\ UNCHANGED <<runVars, abandoned, emitted, chunks, pipeVars, signalVars>>

\* The provider sends a chunk, and the loop looks at its flags first.
ReadChunk(w) ==
    /\ chunks[w] < MaxChunks
    /\ \/ /\ CallAbandoned(w)
          /\ WorkerStep(w, "stream", "ended")
          /\ Report(w, "partial")
          /\ UNCHANGED chunks
       \/ /\ ~CallAbandoned(w)
          /\ WorkerStep(w, "stream", "gate")
          /\ chunks' = [chunks EXCEPT ![w] = @ + 1]
          /\ UNCHANGED outcome
    /\ UNCHANGED <<runVars, abandoned, emitted, pipeVars, signalVars>>

\* The stream ends, or fails.
EndStream(w, o) ==
    /\ o \in {"complete", "filtered"} \cup ProviderErrors
    /\ WorkerStep(w, "stream", "ended")
    /\ Report(w, o)
    /\ UNCHANGED <<runVars, abandoned, emitted, chunks, pipeVars, signalVars>>

\* _delta_gate looks at the flags again and marks the attempt's output.
Gate(w) ==
    /\ \/ CallAbandoned(w) /\ WorkerStep(w, "gate", "stream") /\ UNCHANGED emitted
       \/ /\ ~CallAbandoned(w)
          /\ WorkerStep(w, "gate", "bind")
          /\ emitted' = [emitted EXCEPT ![w] = TRUE]
    /\ UNCHANGED <<runVars, outcome, abandoned, chunks, pipeVars, signalVars>>

\* emit_message_delta takes the current message id, or starts a message.
BindDelta(w) ==
    /\ WorkerStep(w, "bind", "emit")
    /\ \/ msg # 0 /\ bound' = [bound EXCEPT ![w] = msg] /\ UNCHANGED <<msg, owners>>
       \/ msg = 0 /\ StartMessage(w[1]) /\ bound' = [bound EXCEPT ![w] = msg']
    /\ UNCHANGED <<runVars, outcome, abandoned, emitted, chunks, deltas, shown, late, signalVars>>

EmitDelta(w) ==
    /\ WorkerStep(w, "emit", "stream")
    /\ deltas' = deltas \cup {[id |-> bound[w], from |-> w]}
    /\ shown' = [shown EXCEPT ![w] = @ + 1]
    /\ late' = IF abandoned[w] THEN [late EXCEPT ![w] = @ + 1] ELSE late
    /\ UNCHANGED <<runVars, outcome, abandoned, emitted, chunks, msg, owners, bound, signalVars>>

-----------------------------------------------------------------------------
Interrupt ==
    /\ ~interrupt /\ interrupt' = TRUE
    /\ UNCHANGED <<runVars, workerVars, pipeVars, cancel>>

Cancel ==
    /\ ~cancel /\ cancel' = TRUE
    /\ UNCHANGED <<runVars, workerVars, pipeVars, interrupt>>

\* Every call was made and no worker is left.
Terminated ==
    /\ pc \in {"idle", "over"} /\ call = MaxCalls
    /\ \A w \in Workers : wk[w] \in {"none", "ended"}
    /\ UNCHANGED vars

Next ==
    \/ BeginCall \/ RunStep \/ StopCancelled \/ NewRun
    \/ \E w \in Workers :
        \/ OpenStream(w) \/ ReadChunk(w) \/ Gate(w) \/ BindDelta(w) \/ EmitDelta(w)
        \/ \E o \in Outcomes : EndStream(w, o)
    \/ Interrupt \/ Cancel
    \/ Terminated

Spec == Init /\ [][Next]_vars

\* The run thread runs.  Nothing is assumed of providers and their workers.
FairSpec == Spec /\ WF_vars(RunStep)

-----------------------------------------------------------------------------
(* Properties                                                               *)

TypeOK ==
    /\ pc \in {"idle", "attempt", "await", "leave", "backoff", "post", "settle", "over"}
    /\ call \in 0..MaxCalls /\ attempt \in Attempts
    /\ err \in {"none", "timeout"} \cup Outcomes
    /\ result \in {"none", "timeout"} \cup Outcomes
    /\ wk \in [Workers -> {"none", "open", "stream", "gate", "bind", "emit", "ended"}]
    /\ outcome \in [Workers -> {"none"} \cup Outcomes]
    /\ abandoned \in [Workers -> BOOLEAN]
    /\ emitted \in [Workers -> BOOLEAN]
    /\ chunks \in [Workers -> 0..MaxChunks]
    /\ owners \in Seq(Calls) /\ msg \in 0..Len(owners)
    /\ bound \in [Workers -> 0..Len(owners)]
    /\ \A d \in deltas : d.id \in 1..Len(owners) /\ d.from \in Workers
    /\ shown \in [Workers -> 0..MaxChunks]
    /\ late \in [Workers -> 0..MaxChunks]
    /\ cancel \in BOOLEAN /\ interrupt \in BOOLEAN

\* A worker that leaves its stream on a signal reports what it has as an
\* ordinary success (_call_streaming_llm_api); the caller must never return it.
\* When a call does return a response, every chunk of it was shown to the sinks,
\* all of them under the message id that the response is emitted with.
ReturnedStreamWhole ==
    /\ result # "partial"
    /\ pc = "settle" /\ result = "complete" =>
           /\ shown[Me] = chunks[Me]
           /\ \A d \in deltas : d.from = Me => d.id = msg

\* Output that a retry supersedes never shares a message id with the output
\* that supersedes it; without start_replacement_stream, an attempt that
\* follows visible output does not exist.
AttemptsNeverMix ==
    \A d, e \in deltas :
        d.from[1] = e.from[1] /\ d.from[2] # e.from[2]
            => d.from[1] \in Replacement /\ d.id # e.id

\* The delta gate stays closed for an abandoned attempt when the interrupt is
\* cleared: at most the delta that had passed the gate still gets out.
AtMostOneLateDelta == \A w \in Workers : late[w] <= 1

\* A signal ends the call (its attempt, its wait or its backoff) even when
\* the provider never answers.
SignalEndsCall ==
    pc \in {"attempt", "await", "leave", "backoff", "post"} /\ AnySignalSet
        ~> pc \in {"settle", "idle", "over"}
=============================================================================
