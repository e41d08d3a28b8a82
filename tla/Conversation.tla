----------------------------- MODULE Conversation -----------------------------
(***************************************************************************)
(* Conversation compaction: compactify_messages_when_needed with what it   *)
(* rests on, summarize_conversation_segment (length attempts),             *)
(* get_completion (repair attempts) and the truncation of messages by age. *)
(*                                                                         *)
(* A message is what its size depends on: the characters of its longest    *)
(* string value, those around it (keys, escapes, the envelope of           *)
(* render_content), and its truncation rules.  The provider answers with   *)
(* any summary or with text that does not parse, or fails; cancel() and    *)
(* interrupt() come from other threads at any time.                        *)
(***************************************************************************)
EXTENDS Integers, Sequences

CONSTANTS
    MaxContext,      \* max_context_tokens of the endpoint
    Thresholds,      \* threshold_percent of the agents considered
    Boots,           \* bootstrap prefixes they start with
    NewMessages,     \* messages a cycle of the agent may add
    MaxMessages,     \* bound: messages a conversation is checked with
    Summaries,       \* lengths of the summaries a provider may return
    Escapes,         \* characters that encoding a summary adds
    LightMax,        \* LIGHT_MAX_CHARS
    StubChars,       \* size of a stubbed message
    ErrorDistance, StubDistance, RemoveDistance, \* of ERROR_RETRY and GRADED
    Overhead,        \* characters of a compacted message without its summary
    Tries,           \* tries of get_completion
    MaxCompactions   \* bound: compactions in a run

ASSUME SizesAssumption ==
    /\ {MaxContext, LightMax, StubChars, Overhead, MaxMessages, MaxCompactions} \subseteq Nat
    /\ Thresholds \subseteq Nat \ {0} /\ Tries \in Nat \ {0}
    /\ Summaries \subseteq Nat /\ Escapes \subseteq Nat
    /\ ErrorDistance \in Nat \ {0}

CharsPerToken == 4
LengthAttempts == 3 \* SUMMARY_LENGTH_ATTEMPTS
Ellipsis == 3

\* LIGHT_MAX_CHARS is 40 000.  The ellipsis of a summary that is cut fits into
\* the token the cut ends because it is a multiple of four.
ASSUME LightAssumption == LightMax % CharsPerToken = 0

-----------------------------------------------------------------------------
(* models/truncation.py and llm/_truncation.py                              *)

Truncation(threshold, severity) == [threshold |-> threshold, severity |-> severity]
NONE == 0
LIGHT == 1
STUB == 2
REMOVE == 3
DEFAULT == {Truncation(0, LIGHT)}
NO_TRUNCATION == {Truncation(-1, LIGHT)}
NO_MESSAGE == {Truncation(0, REMOVE)}
ERROR_RETRY == {Truncation(0, LIGHT), Truncation(ErrorDistance, REMOVE)}
GRADED == {Truncation(0, LIGHT), Truncation(StubDistance, STUB), Truncation(RemoveDistance, REMOVE)}

Message(kind, body, around, rules) == [kind |-> kind, body |-> body, around |-> around, rules |-> rules]

BootKinds == {"system", "startup"} \* BOOTSTRAP_MESSAGE_KINDS
Messages(kinds, rules) == [kind : kinds, body : Nat, around : Nat, rules : rules]
Rules == SUBSET [threshold : Int, severity : {LIGHT, STUB, REMOVE}]

\* What an agent puts into a conversation before its first cycle has the
\* default rules, and nothing later is of a bootstrap kind.
ASSUME BootsAssumption == Boots \subseteq Seq(Messages(BootKinds, {DEFAULT}))
ASSUME NewMessagesAssumption ==
    \A m \in NewMessages : m \in Messages({m.kind}, Rules) /\ m.kind \notin BootKinds

\* select_truncation: of the rules a message is old enough for, the one with
\* the largest threshold, and of those the most severe; NONE without a rule.
SelectTruncation(distance, rules) ==
    LET applicable == {r \in rules : r.threshold >= 0 /\ distance >= r.threshold}
    IN IF applicable = {} THEN NONE
       ELSE (CHOOSE r \in applicable : \A o \in applicable :
                r.threshold > o.threshold \/ (r.threshold = o.threshold /\ r.severity >= o.severity)).severity

\* truncate_content_for_context and _truncate_message_for_context.
Cut(m, severity) ==
    IF severity = NONE THEN m
    ELSE IF severity = STUB THEN [m EXCEPT !.body = 0, !.around = StubChars]
    ELSE [m EXCEPT !.body = IF @ > LightMax THEN LightMax + Ellipsis ELSE @]

\* get_truncated_messages_for_context: what becomes of message i, and the
\* messages that are left.
Severity(msgs, i) ==
    IF msgs[i].kind = "system" THEN NONE ELSE SelectTruncation(Len(msgs) - i, msgs[i].rules)
Shown(msgs) == {i \in DOMAIN msgs : Severity(msgs, i) # REMOVE}

\* estimate_conversation_tokens.
CeilDiv(n, d) == (n + d - 1) \div d
Tokens(msgs, i) ==
    LET severity == Severity(msgs, i)
        m == Cut(msgs[i], severity)
    IN IF severity = REMOVE THEN 0 ELSE CeilDiv(m.body + m.around, CharsPerToken)
TokenSums(msgs) ==
    LET sum[n \in 0 .. Len(msgs)] == IF n = 0 THEN 0 ELSE sum[n - 1] + Tokens(msgs, n)
    IN sum
EstimateTokens(msgs) == TokenSums(msgs)[Len(msgs)]

-----------------------------------------------------------------------------
VARIABLES
    messages,   \* the conversation of the agent
    count,      \* successful compactions, of CompactionState
    percent,    \* threshold_percent
    cancelled, interrupted, \* the control signals of the pipe
    pc,
    call,       \* the variables of the summary under way
    outcome,    \* of the last call of the tool
    history     \* messages and count when it began

signals == <<cancelled, interrupted>>
vars == <<messages, count, percent, signals, pc, call, outcome, history>>

NoSummary == [len |-> 0, esc |-> 0]
NoCall ==
    [maxChars |-> 0,        \* its budget
     attempt |-> 0,         \* length attempts begun
     shortest |-> {},       \* the shortest summary so far, when all were too long
     request |-> <<>>,      \* the messages of the summarizer
     repairs |-> <<>>,      \* what get_completion added to them
     summary |-> NoSummary] \* the last summary returned
SummaryValues == [len : Summaries, esc : Escapes]
Outcomes == {"none", "ok", "blocked", "compacted", "cancelled", "interrupted", "failed"}

Init ==
    /\ \E boot \in Boots : messages = boot
    /\ percent \in Thresholds
    /\ count = 0 /\ cancelled = FALSE /\ interrupted = FALSE
    /\ pc = "cycle" /\ outcome = "none"
    /\ call = NoCall
    /\ history = [messages |-> messages, count |-> 0]

\* _bootstrap_prefix_len.
PrefixLen(msgs) == CHOOSE n \in 0 .. Len(msgs) :
    /\ \A i \in 1 .. n : msgs[i].kind \in BootKinds
    /\ n < Len(msgs) => msgs[n + 1].kind \notin BootKinds
\* _compacted_message.
CompactedMessage(s) == Message("compacted", s.len, Overhead + s.esc, DEFAULT)
Candidate(msgs, s) == Append(SubSeq(msgs, 1, PrefixLen(msgs)), CompactedMessage(s))

OverThreshold(msgs) == MaxContext > 0 /\ EstimateTokens(msgs) * 100 >= percent * MaxContext
TargetTokens ==
    LET threshold == (MaxContext * percent) \div 100
    IN (IF threshold < MaxContext THEN threshold ELSE MaxContext) - 1
\* As if the budget did not count the message the summary comes in.
SummaryBudgetBare(msgs) ==
    (TargetTokens - EstimateTokens(SubSeq(msgs, 1, PrefixLen(msgs)))) * CharsPerToken
SummaryBudget(msgs) == (TargetTokens - EstimateTokens(Candidate(msgs, NoSummary))) * CharsPerToken

-----------------------------------------------------------------------------
(* The agent around the tool, and the control signals.                      *)

AddMessage(m) ==
    /\ pc = "cycle"
    /\ Len(messages) < MaxMessages
    /\ messages' = Append(messages, m)
    /\ outcome' = "none"
    /\ UNCHANGED <<count, percent, signals, pc, call, history>>

\* EventPipe.cancel and interrupt.
Cancel ==
    /\ ~cancelled /\ pc # "end"
    /\ cancelled' = TRUE
    /\ UNCHANGED <<messages, count, percent, interrupted, pc, call, outcome, history>>
Interrupt ==
    /\ ~interrupted /\ pc # "end"
    /\ interrupted' = TRUE
    /\ UNCHANGED <<messages, count, percent, cancelled, pc, call, outcome, history>>

\* The tool returns a status: the agent appends it as a message that no model
\* request shows.
Return(status, msgs) ==
    /\ outcome' = status
    /\ messages' = Append(msgs, Message("status", 1, 0, NO_MESSAGE))
    /\ pc' = "cycle"
    /\ call' = NoCall
\* The tool raises: the run ends, or handles the interruption and goes on.
Raise(error) ==
    /\ outcome' = error
    /\ pc' = IF error = "interrupted" THEN "handle" ELSE "end"
    /\ call' = NoCall
    /\ UNCHANGED <<messages, count>>
HandleInterrupt ==
    /\ pc = "handle"
    /\ interrupted' = FALSE
    /\ pc' = "cycle"
    /\ UNCHANGED <<messages, count, percent, cancelled, call, outcome, history>>

\* _check_controls.
Stopped == cancelled \/ interrupted
RaiseControl == Raise(IF cancelled THEN "cancelled" ELSE "interrupted")

-----------------------------------------------------------------------------
(* compactify_messages_when_needed                                          *)

\* As if the source had the truncation rules of any message.
SourceCapped == Message("source", LightMax + 1, 0, DEFAULT)

\* conversation_text of what follows the prefix, as _initial_messages sends it.
Source == Message("source", LightMax + 1, 0, NO_TRUNCATION)

CheckBudget ==
    /\ pc = "cycle"
    /\ count < MaxCompactions /\ Len(messages) <= MaxMessages
    /\ history' = [messages |-> messages, count |-> count]
    /\ IF Stopped THEN RaiseControl
       ELSE IF ~OverThreshold(messages) THEN Return("ok", messages) /\ UNCHANGED count
       ELSE IF PrefixLen(messages) = Len(messages) \/ SummaryBudget(messages) <= 0
       THEN Return("blocked", messages) /\ UNCHANGED count
       ELSE /\ pc' = "ask"
            /\ call' = [NoCall EXCEPT !.maxChars = SummaryBudget(messages), !.attempt = 1,
                                      !.request = <<Message("system", 1, 0, DEFAULT), Source>>]
            /\ UNCHANGED <<messages, count, outcome>>
    /\ UNCHANGED <<percent, signals>>

-----------------------------------------------------------------------------
(* get_completion and call_llm_api                                          *)

\* call_llm_api raises when a signal is up, before or while it waits.
CallStopped ==
    /\ pc = "ask"
    /\ Stopped
    /\ RaiseControl
    /\ UNCHANGED <<percent, signals, history>>

\* The provider fails for good, or with an error no prompt can repair.
CallFails ==
    /\ pc = "ask"
    /\ Raise("failed")
    /\ UNCHANGED <<percent, signals, history>>

\* The answer does not parse or validate: _reprompt_on_error, and another try
\* while there are any.
CallMalformed ==
    /\ pc = "ask"
    /\ IF Len(call.repairs) + 1 < Tries
       THEN /\ call' = [call EXCEPT !.repairs = Append(@, Message("error", LightMax + 1, 0, ERROR_RETRY))]
            /\ UNCHANGED <<messages, count, pc, outcome>>
       ELSE Raise("failed")
    /\ UNCHANGED <<percent, signals, history>>

CallAnswers(s) ==
    /\ pc = "ask"
    /\ call' = [call EXCEPT !.summary = s]
    /\ pc' = "answered"
    /\ UNCHANGED <<messages, count, percent, signals, outcome, history>>

-----------------------------------------------------------------------------
(* summarize_conversation_segment                                           *)

\* _append_length_feedback.
Feedback == <<Message("draft", LightMax + 1, 0, DEFAULT), Message("feedback", 1, 0, DEFAULT)>>

\* _complete_with_length_limit keeps the first of its shortest summaries.
Shortest(old, new) ==
    IF old = {} \/ \E t \in old : t.len = 0 \/ new.len < t.len THEN {new} ELSE old

\* _complete_summary returns; one that fits is taken, another gets feedback.
TakeSummary ==
    /\ pc = "answered"
    /\ IF cancelled THEN RaiseControl
       ELSE LET shortest == Shortest(call.shortest, call.summary) IN
            /\ IF call.summary.len <= call.maxChars
               THEN pc' = "measure" /\ UNCHANGED call
               ELSE IF call.attempt < LengthAttempts
               THEN /\ pc' = "ask"
                    /\ call' = [call EXCEPT !.attempt = @ + 1, !.shortest = shortest, !.repairs = <<>>,
                                            !.request = @ \o Feedback]
               ELSE /\ pc' = "measure"
                    /\ call' = [call EXCEPT !.summary = CHOOSE t \in shortest : TRUE]
            /\ UNCHANGED <<messages, count, outcome>>
    /\ UNCHANGED <<percent, signals, history>>

\* The candidate with the summary in it is within the limits.
Fits == /\ call.summary.len <= call.maxChars
        /\ EstimateTokens(Candidate(messages, call.summary)) <= TargetTokens

Measure ==
    /\ pc = "measure"
    /\ IF Stopped THEN RaiseControl
       ELSE IF ~Fits THEN Return("blocked", messages) /\ UNCHANGED count
       ELSE pc' = "commit" /\ UNCHANGED <<messages, count, outcome, call>>
    /\ UNCHANGED <<percent, signals, history>>

\* As if the counter were stepped before the last check of the controls.
CommitEarlyCount ==
    /\ pc = "commit"
    /\ count' = count + 1
    /\ IF Stopped
       THEN /\ outcome' = "cancelled" /\ pc' = "end"
            /\ call' = NoCall
            /\ UNCHANGED messages
       ELSE Return("compacted", Candidate(messages, call.summary))
    /\ UNCHANGED <<percent, signals, history>>

\* The last _check_controls, and the replacement.
Commit ==
    /\ pc = "commit"
    /\ IF Stopped THEN RaiseControl
       ELSE Return("compacted", Candidate(messages, call.summary)) /\ count' = count + 1
    /\ UNCHANGED <<percent, signals, history>>

Done == (pc = "end" \/ (pc = "cycle" /\ (count = MaxCompactions \/ Len(messages) > MaxMessages))) /\ UNCHANGED vars

Tool == \/ CheckBudget \/ CallStopped \/ CallFails \/ CallMalformed
        \/ \E s \in SummaryValues : CallAnswers(s)
        \/ TakeSummary \/ Measure \/ Commit \/ HandleInterrupt
Next == Tool \/ Cancel \/ Interrupt \/ (\E m \in NewMessages : AddMessage(m)) \/ Done

Spec == Init /\ [][Next]_vars

-----------------------------------------------------------------------------
(***************************************************************************)
(* The budget is right on both sides.  A compaction helps: with the status *)
(* message appended the conversation is below the threshold and within the *)
(* context, so the next check of the same conversation is "ok" and         *)
(* compaction cannot chase itself.  And a summary within maxChars whose    *)
(* text needs no escapes always fits, so a blocked compaction is never the *)
(* fault of the arithmetic.                                                *)
(***************************************************************************)
CompactionSuffices ==
    /\ outcome = "compacted" => ~OverThreshold(messages) /\ EstimateTokens(messages) < MaxContext
    /\ pc = "measure" /\ call.summary.len <= call.maxChars /\ call.summary.esc = 0 => Fits

(***************************************************************************)
(* All or nothing: while the tool works, and whenever it does not report   *)
(* "compacted", conversation and counter are as they were when it began    *)
(* (plus the status message); else the counter has moved by one and the    *)
(* startup messages are all there, with one message after them ("Failed    *)
(* attempts preserve the conversation and success counter").               *)
(***************************************************************************)
CompactionAtomic ==
    \/ pc = "cycle" /\ outcome = "none"
    \/ /\ pc # "cycle" \/ outcome # "compacted"
       /\ count = history.count
       /\ SubSeq(messages, 1, Len(history.messages)) = history.messages
       /\ Len(messages) <= Len(history.messages) + 1
    \/ /\ outcome = "compacted"
       /\ count = history.count + 1
       /\ LET n == PrefixLen(history.messages)
          IN /\ Len(messages) = n + 2
             /\ SubSeq(messages, 1, n) = SubSeq(history.messages, 1, n)

(***************************************************************************)
(* No request to the summarizer shows the source conversation cut or       *)
(* dropped, however many drafts, feedbacks and repair prompts follow it,   *)
(* and the latest repair prompt is always shown ("never silently cut       *)
(* before summary").                                                       *)
(***************************************************************************)
Sent == call.request \o call.repairs
SourceNeverCut ==
    pc = "ask" =>
        /\ Cut(Sent[2], Severity(Sent, 2)).body = LightMax + 1 /\ 2 \in Shown(Sent)
        /\ Len(Sent) \in Shown(Sent)
=============================================================================
