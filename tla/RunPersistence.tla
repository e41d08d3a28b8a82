---------------------------- MODULE RunPersistence ----------------------------
(***************************************************************************)
(* runtime/sinks.py: PersistenceSink, with the lifecycle events its        *)
(* EventPipe sends it (runtime/pipe.py) and the activity markers of        *)
(* runtime/persistence/activity.py.                                        *)
(*                                                                         *)
(* Every agent has a sink of its own.  A run is one document on disk,      *)
(* replaced atomically on each change, and a marker file that exists while *)
(* the run is active.  Each file operation is a step: it may fail, the     *)
(* process may die before the next one, and other threads see the files    *)
(* in between.                                                             *)
(***************************************************************************)
EXTENDS Integers, Sequences, FiniteSets

CONSTANTS
    Agents,
    MaxRuns,        \* bound on the runs of each agent
    MaxRows,        \* bound on the messages of each invocation
    WritesFail,     \* whether file operations may raise
    Crashes,        \* whether the process may die
    Revisits,       \* whether agents are shown, run dry or fail to resolve
                    \* their endpoint after an earlier run
    NoDoc

ASSUME BoundsAssumption == MaxRuns \in Nat \ {0} /\ MaxRows \in Nat
ASSUME SwitchesAssumption == {WritesFail, Crashes, Revisits} \subseteq BOOLEAN

VARIABLES
    pc,         \* where each agent's invocation is, as far as its sink is concerned
    held,       \* the run its sink holds (_conversation_run), 0 for None
    mem,        \* the document of that run in memory
    runs,       \* how many runs each agent has started
    seq,        \* _sequence of its pipe
    dry,        \* dry_run of its pipe
    doc,        \* the documents on disk
    marked,     \* the runs with a marker file
    faulted,    \* whether a file operation of this process has failed
    up          \* whether the process runs

sinkVars == <<held, mem>>
pipeVars == <<runs, seq, dry>>
diskVars == <<doc, marked, faulted>>
persistVars == <<pc, sinkVars, pipeVars, diskVars, up>>

Runs == Agents \X (1..MaxRuns)
Terminal == {"completed", "failed", "cancelled"}
Positions == {"idle", "mark", "running", "abort", "clear", "dry"}
Records == [status : Terminal \cup {"running"}, rows : Seq(Nat)]
NewRecord == [status |-> "running", rows |-> <<>>]
Run(a) == <<a, held[a]>>

ASSUME NoDocAssumption == NoDoc \notin Records

Init ==
    /\ pc = [a \in Agents |-> "idle"]
    /\ held = [a \in Agents |-> 0]
    /\ mem = [a \in Agents |-> NewRecord]
    /\ runs = [a \in Agents |-> 0]
    /\ seq = [a \in Agents |-> 0]
    /\ dry = [a \in Agents |-> FALSE]
    /\ doc = [r \in Runs |-> NoDoc]
    /\ marked = {}
    /\ faulted = FALSE
    /\ up = TRUE

At(a, here) == up /\ pc[a] = here
Goto(a, there) == pc' = [pc EXCEPT ![a] = there]

-----------------------------------------------------------------------------
(* _write_run: the document m of run r replaces the one on disk.            *)
WriteRun(a, r, m, there) ==
    /\ mem' = [mem EXCEPT ![a] = m]
    /\ doc' = [doc EXCEPT ![r] = m]
    /\ Goto(a, there)
    /\ UNCHANGED faulted

\* The write raises: the document in memory has changed and the one on disk has
\* not.
WriteRaises(a, m, there) ==
    /\ WritesFail
    /\ mem' = [mem EXCEPT ![a] = m]
    /\ Goto(a, there)
    /\ faulted' = TRUE
    /\ UNCHANGED doc

\* As if the marker came before the document.
StartMarked(a) ==
    /\ At(a, "idle") /\ runs[a] < MaxRuns
    /\ runs' = [runs EXCEPT ![a] = @ + 1]
    /\ held' = [held EXCEPT ![a] = runs[a] + 1]
    /\ seq' = [seq EXCEPT ![a] = 1]
    /\ dry' = [dry EXCEPT ![a] = FALSE]
    /\ mem' = [mem EXCEPT ![a] = NewRecord]
    /\ marked' = marked \cup {<<a, runs[a] + 1>>}
    /\ Goto(a, "mark")
    /\ UNCHANGED <<doc, faulted, up>>

\* initialize and the first half of _start_run: a fresh run and its document.
StartRun(a) ==
    /\ At(a, "idle") /\ runs[a] < MaxRuns
    /\ runs' = [runs EXCEPT ![a] = @ + 1]
    /\ held' = [held EXCEPT ![a] = runs[a] + 1]
    /\ seq' = [seq EXCEPT ![a] = 1]
    /\ dry' = [dry EXCEPT ![a] = FALSE]
    /\ \/ WriteRun(a, <<a, runs[a] + 1>>, NewRecord, "mark")
       \/ WriteRaises(a, NewRecord, "abort")
    /\ UNCHANGED <<marked, up>>

\* As if an error of the marker were swallowed.
MarkOrNot(a) ==
    /\ At(a, "mark") /\ Goto(a, "running")
    /\ marked' = marked \cup {Run(a)} \/ (WritesFail /\ UNCHANGED marked)
    /\ UNCHANGED <<sinkVars, pipeVars, doc, faulted, up>>

\* The second half: mark_conversation_active.
MarkActive(a) ==
    /\ At(a, "mark")
    /\ \/ marked' = marked \cup {Run(a)} /\ Goto(a, "running") /\ UNCHANGED faulted
       \/ WritesFail /\ Goto(a, "abort") /\ faulted' = TRUE /\ UNCHANGED marked
    /\ UNCHANGED <<sinkVars, pipeVars, doc, up>>

\* emit_message and _save_message.  A sink that holds no run drops the row.
EmitMessage(a, here) ==
    /\ At(a, here) /\ seq[a] <= MaxRows
    /\ seq' = [seq EXCEPT ![a] = @ + 1]
    /\ LET m == [mem[a] EXCEPT !.rows = Append(@, seq[a] + 1)]
       IN  \/ held[a] # 0 /\ WriteRun(a, Run(a), m, here)
           \/ held[a] # 0 /\ WriteRaises(a, m, IF here = "running" THEN "abort" ELSE "idle")
           \/ held[a] = 0 /\ UNCHANGED <<pc, mem, doc, faulted>>
    /\ UNCHANGED <<held, runs, dry, marked, up>>

\* finalize_run(status) and _stop_run up to its write.
WriteFinal(a, status) ==
    LET m == [mem[a] EXCEPT !.status = status]
    IN  \/ WriteRun(a, Run(a), m, "clear")
        \/ WriteRaises(a, m, "idle")

\* As if _stop_run cleared the marker first.
StopUnmarking(a, status) ==
    /\ At(a, "running") \/ (At(a, "abort") /\ status = "failed")
    /\ WriteFinal(a, status)
    /\ marked' = marked \ {Run(a)}
    /\ UNCHANGED <<held, pipeVars, up>>

StopRun(a, status) ==
    /\ At(a, "running") \/ (At(a, "abort") /\ status = "failed")
    /\ WriteFinal(a, status)
    /\ UNCHANGED <<held, pipeVars, marked, up>>

\* As if a sink that stopped its run had not to clear the marker.
ClearNothing(a) ==
    /\ At(a, "clear")
    /\ Goto(a, "idle")
    /\ UNCHANGED <<sinkVars, pipeVars, diskVars, up>>

\* clear_conversation_active, the end of _stop_run.  The sink keeps the run.
ClearActive(a) ==
    /\ At(a, "clear")
    /\ Goto(a, "idle")
    /\ \/ marked' = marked \ {Run(a)} /\ UNCHANGED faulted
       \/ WritesFail /\ faulted' = TRUE /\ UNCHANGED marked
    /\ UNCHANGED <<sinkVars, pipeVars, doc, up>>

\* invoke fails before initialize, because the endpoint cannot be resolved:
\* finalize_run(FAILED) reaches the sink with no "started" before it, unless
\* the pipe is still dry.
ResolveFails(a) ==
    /\ Revisits
    /\ At(a, "idle") /\ ~dry[a] /\ held[a] # 0
    /\ WriteFinal(a, "failed")
    /\ UNCHANGED <<held, pipeVars, marked, up>>

\* show_agent_info and invoke(dry_run=True): initialize restarts the sequence
\* but emits nothing; the messages are emitted all the same.
BeginDry(a) ==
    /\ Revisits
    /\ At(a, "idle") /\ ~dry[a]
    /\ seq' = [seq EXCEPT ![a] = 0]
    /\ dry' = [dry EXCEPT ![a] = TRUE]
    /\ Goto(a, "dry")
    /\ UNCHANGED <<sinkVars, runs, diskVars, up>>

EndDry(a) ==
    /\ At(a, "dry")
    /\ Goto(a, "idle")
    /\ UNCHANGED <<sinkVars, pipeVars, diskVars, up>>

SinkStep(a) ==
    \/ MarkActive(a)
    \/ \E s \in Terminal : StopRun(a, s)
    \/ ClearActive(a)

-----------------------------------------------------------------------------
(* The process dies, and the host clears the markers before it starts again.*)

Crash ==
    /\ Crashes /\ up
    /\ up' = FALSE
    /\ pc' = [a \in Agents |-> "idle"]
    /\ held' = [a \in Agents |-> 0]
    /\ mem' = [a \in Agents |-> NewRecord]
    /\ UNCHANGED <<pipeVars, diskVars>>

\* clear_active_markers, one marker at a time.
ClearStale(r) ==
    /\ ~up /\ r \in marked
    /\ marked' = marked \ {r}
    /\ UNCHANGED <<pc, sinkVars, pipeVars, doc, faulted, up>>

Boot ==
    /\ ~up /\ marked = {}
    /\ up' = TRUE
    /\ dry' = [a \in Agents |-> FALSE]
    /\ faulted' = FALSE
    /\ UNCHANGED <<pc, sinkVars, runs, seq, doc, marked>>

AgentStep ==
    \E a \in Agents :
        \/ StartRun(a) \/ SinkStep(a)
        \/ EmitMessage(a, "running") \/ EmitMessage(a, "dry")
        \/ ResolveFails(a) \/ BeginDry(a) \/ EndDry(a)

ProcessStep == Crash \/ Boot \/ \E r \in Runs : ClearStale(r)

Next == AgentStep \/ ProcessStep

Spec == Init /\ [][Next]_persistVars

-----------------------------------------------------------------------------
(* Properties                                                               *)

TypeOK ==
    /\ pc \in [Agents -> Positions]
    /\ held \in [Agents -> 0..MaxRuns] /\ runs \in [Agents -> 0..MaxRuns]
    /\ mem \in [Agents -> Records]
    /\ seq \in [Agents -> 0..(MaxRows + 1)]
    /\ dry \in [Agents -> BOOLEAN]
    /\ doc \in [Runs -> Records \cup {NoDoc}]
    /\ marked \subseteq Runs
    /\ faulted \in BOOLEAN /\ up \in BOOLEAN

\* A marker always belongs to a document: _start_run writes the document
\* first, also when the process dies or a write fails in between.
ActiveHasRecord == \A r \in marked : doc[r] # NoDoc

\* While an invocation runs, its marker exists and its document says so: what
\* reads the markers never takes a running agent for an inactive one.
RunningIsVisible ==
    \A a \in Agents : At(a, "running") => Run(a) \in marked /\ doc[Run(a)].status = "running"

\* A marker disappears only after the document has its final status, or
\* because the process that wrote it is gone: whoever sees the marker vanish
\* reads the complete run.
FinalBeforeClear ==
    [][\A r \in marked \ marked' : ~up \/ doc[r].status \in Terminal]_persistVars

\* Unless a file operation failed, an agent that is not running has no marker,
\* also after a crash: nobody waits for a run that is over.
IdleIsUnmarked ==
    ~faulted => \A a \in Agents : At(a, "idle") => \A n \in 1..MaxRuns : <<a, n>> \notin marked

\* What reads the marker directory is told the truth about every agent: each
\* run in progress shows, and unless a file operation failed no finished or
\* killed run shows, whichever step of the sink the process died in.
MarkersHonest == RunningIsVisible /\ IdleIsUnmarked
=============================================================================
