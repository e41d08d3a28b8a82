# Verification of roboz

This directory holds TLA+ models of [roboz](../src/README.md), a Python framework
that runs LLM agents: their TLC configurations, and machine-checked proofs about
them.  Module names below are files of this directory; source paths are relative
to `src/src/roboz/`.  `PROJECT.json` maps every definition to the lines it models.

- [The system and its parts](#the-system-and-its-parts)
- [The modules](#the-modules)
- [Runs, bounds and fairness](#runs-bounds-and-fairness)
- [Findings and observations](#findings-and-observations)
- [Proofs](#proofs)
- [Limits: what is not modelled](#limits-what-is-not-modelled)
- [Plan](#plan)

## The system and its parts

An **agent** (`agent/core.py`) is a loop on one thread: it picks a tool (a default
tool, a tool chained to the last one, or the tool the model asked for), runs it,
and goes on until a tool returns `Stop`.  A tool may be another agent.  Asking the
model is a tool too; it goes through `llm/calls.py`, which runs every attempt of a
provider call on a worker thread.  An **event pipe** per agent (`runtime/pipe.py`)
carries messages and lifecycle events to sinks, and holds the two control signals
(cancel, interrupt) that other threads set.  A **persistence sink** writes each run
to a document and keeps a marker file while the run is active.  The **Librarian** is
a background agent that turns these documents into snapshots and the snapshots
into a memory, and stops when no marker is left.  The **script service** is a process
of its own that runs trusted scripts for agents over a Unix socket.  The **file tools**
take a stream of tagged tokens or a patch, derive the operations it needs, have the
**guard** check them against the sandbox's policy and ask the user, and run a native
program.  **Compaction** replaces a conversation that nears the model's context by a
summary.  The **health monitor** checks the external dependencies of a deployment in
the background.  A **deployment** is a graph of agent definitions with capabilities,
which is inspected for dependencies and built into agents; background children run in
threads of their own.

| Part | State | Operations | Talks to | What makes it correct |
|---|---|---|---|---|
| External calls `runtime/_external.py` | slot semaphore, one-place result queue, abandonment flag per call | acquire slot, start worker, await result, worker body | pipe signals, every blocking call | slots are conserved; a late result is never reported; a signal or deadline ends the wait |
| LLM calls `llm/calls.py`, `llm/_retry.py` | attempt number, abandonment and output flags, stream text | attempt, stream, delta gate, retry, backoff | external calls, pipe | no partial stream is returned; attempts do not mix; no delta in a foreign message |
| Event pipe `runtime/pipe.py` | signals, current message id, sequence, sinks | initialize, emit, delta, cancel, interrupt, finalize | sinks, agent, workers | signals reach the run; a start has its stop |
| Agent loop `agent/core.py` and helpers | current tool and output, default queue, loaded skills, active tools; context variables of the thread | invoke, step, skills, chains, interruption, nesting | pipe, tools, nested agents | the context comes back; the schedule and skill order hold; signals take effect |
| Run persistence `runtime/sinks.py`, `runtime/persistence/` | run in memory, document, marker | start, save message, stop, clear stale markers | pipe; read by the Librarian | markers never lie about running agents; final status before the marker goes |
| Librarian `shed/agents/librarian.py`, `shed/tools/*` | snapshots, memories, coverage cursors, watermark, last check | sweep, consolidate, purge, check, sleep | run documents and markers | no row lost or hidden, nothing pending deleted, it stops after a final sweep |
| Script service `shed/tools/safe_scripts/` | connection slots, execution gate, process groups, connections | accept, handshake, list, execute, terminate, stop; client request, health check | agents as clients, Bash | one script at a time; completion after cleanup; nothing outlives its client, deadline or service |
| File commands and patches `shed/tools/cli_commands/`, `apply_patch.py`, `guard.py`, `shed/sandbox.py` | remaining commands, status and pipe of the last one, what was asked and approved | resolve, guard, ask, execute, continue | file system, user, native programs | no effect without every operation granted and agreed to; a sequence runs like a shell list |
| Conversation compaction `shed/tools/compactification/`, `llm/_truncation.py`, `llm/completion.py` | the messages, the count of compactions, drafts and repair prompts of a summary | estimate, summarize, repair, measure, commit | LLM calls, pipe | all or nothing; the result fits; the summary is made from the whole source |
| Health monitor `shed/dependency_health.py` | scheduler, check in flight, slots, cached status | start, round, observe, time out, stop | dependencies of a deployment | one check per dependency, slots conserved within a start, everything observed again |
| Deployment `deployment.py` | graph of definitions, capabilities and selection, inspection | attach, add, select, inspect, build | agents, background agents, health monitor | only trees are built; inspections cover builds; sinks go to the right agents |
| Background agents `agent/background_agent.py` | thread, check count, signal of the start | check (a default tool of the parent), cancel | agent, pipe | one thread at a time; no cancel carried into a new run, none lost by one that has started |
| Data models, tools and skills, provider adapters, orchestrator, command line, code generation | configuration or none | | | not modelled, see [Limits](#limits-what-is-not-modelled) |

What is hard to test here, and what the properties are aimed at: worker threads
that outlive their callers (`_external.py`, `calls.py`); flags that are checked and
used in two steps (`calls.py:557`); exceptions from sinks inside `finally` clauses
(`core.py:716`); signals that arrive between any two steps; file operations that
fail, or a process that dies, between a document and its marker (`sinks.py:187`);
a Librarian that reads files while their writers run; process groups that ignore
SIGTERM or outlive their leader (`safe_scripts/server.py:137`); commands on a tree
whose effect reaches entries that no operand names (`transfers.py:169`); a check that
outlives its timeout while the next round begins (`dependency_health.py:155`); a size
budget made of estimates that round (`compactify_messages.py:172`).  `PROJECT.json`
lists each hazard at its line with the properties that would catch it.

## The modules

| Module | Models | Composition |
|---|---|---|
| `CallContract` | what `run_cancellable_external_call` promises: an abstract specification | implemented by `ExternalCall` (`ImplementsContract`) |
| `ExternalCall` | `run_cancellable_external_call`: callers, workers, slots, signals, deadlines | `Contract == INSTANCE CallContract` |
| `LLMCall` | successive streamed `call_llm_api` calls of one agent with retries and message ids | the wait of `ExternalCall` in one step |
| `AgentLoop` | `Agent.invoke` of an agent and of the agents nested in it, to any depth, the context variables, the lifecycle events | what a model call may raise is what `LLMCall` shows it to raise |
| `RunPersistence` | `PersistenceSink`, documents and markers, failing writes, crashes, restarts | lifecycle events as `AgentLoop` emits them |
| `Librarian` | the maintenance cycle and its files | EXTENDS `RunPersistence`: the agents it watches |
| `SafeScripts` | script service, sessions, client, process groups | |
| `FileTree` | what each file command accepts, needs and does, as functions of a directory tree | pure |
| `FileCommands` | the guarded chain resolve, guard, ask, execute, continue, and patches | EXTENDS `FileTree` |
| `Conversation` | compaction, summaries with length attempts and repair, truncation by age | provider outcomes as inputs |
| `Health` | `DependencyHealthMonitor` | |
| `BackgroundAgent` | the tool that keeps a child running in a thread | |
| `Deployment` | `DeployableAgent`: graph, capabilities, inspection, build | EXTENDS `BackgroundAgent`: the handles it builds |
| `ExternalCallProofs`, `LLMCallProofs`, `AgentLoopProofs`, `SafeScriptsProofs`, `FileCommandsProofs`, `ConversationProofs` | theorems | extend the module they are about |
| `DeploymentProofs` | theorems about `Deployment` and `Health` | EXTENDS both |
| `RunPersistenceProofs` | theorems about `RunPersistence` and `Librarian` | EXTENDS `Librarian` |
| `MC...` | values for the constants of the module they are named after | |

**ExternalCall.**  A call's `pc` follows `_acquire_slot` (signals, deadline, take),
`_start_worker` and `_await_result` (signals, deadline, get) in the code's order;
`wk` follows `_worker`: the function, `_put_outcome`, the release.  `free` is the
semaphore's value, `queue` the one-place queue.  The function is never assumed to
return.  Calls of several run threads share the pool.

**LLMCall.**  One run thread makes calls in sequence; every attempt has a worker
`<<call, attempt>>` that goes `open`, `stream`, `gate`, `bind`, `emit`: the delta
gate, the read of the pipe's current message id and the emission are steps of
their own, because the code takes no lock around them.  `LeaveAttempt` is the
`except` clause of `run_with_retry` with `_prepare_retry`; `Settle` is what the
agent does with the result before it calls again: an interrupted call asks the
user, which clears the interrupt, and starts a new message.

**AgentLoop.**  `setup` is how the agents were made.  `EnterContext` binds the three
context variables, `Begin` is the part of `invoke` before its loop, `CheckCancelled`
occurs twice per step as in `_advance_by_step`, `GetNextTool` is `get_next_tool`
with skills and the default queue (a tool that is not the model may return an `Invoke`
too, `Invokes`), `AllowsUser` is `allows_user_interaction`, true of all but autonomous agents, `StartTool`, `ToolReturns` and `ToolRaises` are
the tool observer, `UserAnswers` is `_handle_interrupt`, `Finalize` is the `finally`
clause, in which a sink may raise.  A nested agent runs while its caller is at
`"run"`, and may call a further one; an agent never runs inside itself, because
`_walk` refuses a deployment with a cycle.

**RunPersistence.**  Every file operation is a step.  `WriteRun` and `WriteRaises` are
the two outcomes of `_write_run`; `MarkActive` and `ClearActive` are the marker's;
`Crash` and `Boot` lose memory and keep files.  `faulted` records that a file
operation of this process has failed; it is used by properties only.

**Librarian.**  A summary is the set of rows it was made from.  A sweep lists the
documents, loads one, waits for the summary (`"summary"`), checks again whether it
was overtaken, and publishes under the next time stamp; consolidation does the
same for memories, with the latest memory's time stamp as its watermark; `Purge` is
retention by age, `CheckInactive` the check that must succeed twice.  `covered` and
`owed` are history variables for properties.

**SafeScripts.**  A request has a `client` (position, kind, result), a `link` (both ends,
the request, the frames under way), a `session` (position in `handle` and in the
generator `Scripts.events`, and the completion it will send) and a `group` (leader,
other members, who holds the pipe, what was written and read).  `LeaveLoop` is every
way out of the `while` loop of `_execute`; from there the positions `terminate`,
`unlock`, `send` are the order in which the `ExitStack` unwinds.  Deadlines are
actions: `DeadlineExpires`, `HandshakeTimeout`, `SendTimeout`, `Kill` (the grace
period of `_terminate`).

**FileTree.**  A tree maps paths to kinds: file, hard-linked file, directory, symbolic
link.  For each of the 17 commands the module says when `prepare` accepts the tokens,
which READ, CREATE and DELETE operations it lists, and, external to the repository, what
the native program changes, in units that happen whole or not at all.  `TransferOps` is `transfers.py`:
the entries that a copy or move of a tree creates, overwrites and removes below its target.

**FileCommands.**  `pc` is the tool of the chain that runs next.  `PrepareStep` takes the
next command of the stream, `CheckPolicy` is the verdict of the policy, `AskUser` one
prompt, `RunCommand` the executor with its look at the verdict, `NextCommand` decides by
the exit status which command is reached next, `PreparePatch`, `RewriteFile` and
`ReplaceText` are the patch; one that fails may have made parents or truncated the file.
A program starts only where its working directory exists and may fail after any part of
its effect.  `effects` are the operations a step
really did; `SandboxPolicy` is the policy `shed/sandbox.py` derives from its folders.

**Conversation.**  A message is the size of its content and its truncation rules.  `CheckBudget`
is the token estimate and its threshold, `SummaryBudget` the size left for the summary,
`CallAnswers`, `CallMalformed`, `CallFails` and `CallStopped` are `get_completion` (repair
prompt, tries), `TakeSummary` the length attempts of `summarize_conversation_segment`,
`Measure` and `Commit` the test of the candidate and the replacement.
Signals are set by other threads at every step and looked at where the code looks.

**Health.**  `task` is the registry `_inflight`, `obs` the observer of a dependency (waits,
or waits with a timeout), `threads` the worker threads at work.  `CheckReturns` frees the
slot and marks the task done; `ClearInflight` is the done-callback, which may come late
and belong to an older task (`callback = "old"`).  `StopScheduler` and `StopChecks` are
the two halves of `stop()`: the slots of the checks it cuts off come back although their
threads go on, in `abandoned`, each with the number of the `stop()`.

**BackgroundAgent.**  `Check` is `run_background_agent` up to its wait, `StartFails` the
thread that cannot be started, `StartSeen` and `StartTimeout` are the two ends of the wait.
`Initialize` and `EmitStarted` are the two parts of the pipe's `initialize` in the child's
thread: the signals are cleared, and then the event is emitted, to sinks that may take
their time or raise; `CancelChild` may come at any time, in between too.

**Deployment.**  `Ways` are the paths `_walk` follows, so that a cycle or a shared child
shows itself as it does in the code.  A way takes no edge twice, so that
their number is bounded.  Configuration changes come in any order;
`covers` records that nothing but a selection has changed since the last inspection.
A selection that was never made (`NoSelection`) follows the defaults, an empty one
disables every optional capability.
`BuildNode` builds one definition with the sinks it is handed and the factory's, if there
is one; `BuildRaises` gives the build up.

Operators whose comments begin with "Mutant" or "As if" are not part of the
specification: each is a plausible error of one definition, and the property named
with it in `PROJECT.json` fails when it takes that definition's place.

## Runs, bounds and fairness

`tlc -config X.cfg MCModule` in this directory.  Passing runs:

| Run | Bounds | Shows |
|---|---|---|
| `ExternalCall` | two threads with a call each (one timed), one slot | `SlotAccounting`; `ImplementsContract`: refinement of `CallContract`; `WaitEnds` although functions may never return; `PoolRecovers` if they do |
| `LLMCall` | two calls (the first with replacement streams, the second timed), two attempts, two chunks | `ReturnedStreamWhole`, `AttemptsNeverMix`, `AtMostOneLateDelta`, `SignalEndsCall` |
| `AgentLoop` | a root agent and a nested one, which in one setup nests a third, in five setups that cover the three modes, chains, defaults, skills in and out of order | `ContextRestored`, `StartedIsStopped`, `CancelEndsRun`, `InterruptNotLost` |
| `RunPersistence` | one agent, two runs of two rows, everything may fail | `ActiveHasRecord`, `MarkersHonest`, `FinalBeforeClear` |
| `Librarian` | one watched agent with two runs, one Librarian, retention at its tightest | `CoverageHonest`, `WatermarkSafe`, `SweptBeforeStop`, `PurgeSparesPending`, `LibrarianStops` |
| `SafeScripts` | a script and a second request of any kind, two slots, an output limit and a socket buffer of one | `GateGuardsProcess`, `CompletionMeansClean`, `NotStartedIsHonest`, `SuccessIsWhole` |
| `SafeScriptsStop` | a script and a listing or health check, one slot | `StopEndsService`, `ScriptsDie` |
| `FileCommands` | a project, a shared and a read-only area and a path outside; all trees over four varying entries; four policies; 303 command lines and 24 patches | `EffectsAuthorized`, `ConsentFirst`, `RunsLikeZsh` |
| `Health` | two network dependencies over one slot, one local, one `stop()` | `NoOverlappingChecks`, `SlotsBoundChecks`, `KeepsObserving` |
| `Conversation` | a context of 10 tokens, thresholds below and above 100 %, three prefixes (one that leaves a summary no room), conversations of up to five messages, two compactions | `CompactionSuffices`, `CompactionAtomic`, `SourceNeverCut` |
| `Deployment` | four definitions, two of one name, up to three of twelve attachments, two other changes, with and without a factory of sinks, three calls of the tool for a background child | `WalkAcceptsTrees`, `InspectionCovers`, `BuildFollowsGraph`, `OneCleanRun`, `StartedHeedsCancel` |

`HealthStuck` is expected to be violated, see [below](#findings-and-observations).

Why the bounds are enough: a slot is contended as soon as there are two calls for
one; a second call is what a late worker of the first can disturb, and two chunks
are what a late one can be late for; nested agents of different modes, two deep, are
what the context variables can be confused between; a second run is what a stale marker,
cursor or sink can belong to.  `MinPending = 4` and `SnapshotLimit = 3` in the
Librarian's run are as tight as `LimitsAssumption` permits.  The code does not enforce
it: its defaults (3 and 100) meet it, and with a lower limit retention can delete what is
pending.  One chunk over the limit of one is what `output_limit` needs.
The trees of `FileCommands` have, at one place or another, each kind over each kind, a
directory that is not empty on either side of a transfer, hidden and ignore files, and
two names of one file; the command lines have each command with each flag that changes
what it needs, and lists of up to four commands with every operator.  The sizes of
`Conversation` are such that estimates round both ways and that summaries fall below,
on and above the budget; one is longer than `LightMax`.  In `Deployment` three edges make a cycle below the root, a
shared child and a repeated name.  The bounds that cap something unbounded are named
constants: `MaxCalls`, `MaxAttempts` (a parameter of the code), `MaxChunks`, `MaxRuns`,
`MaxRows`, `MaxStops`, `MaxMessages`, `MaxCompactions`, `MaxEdges`, `MaxChanges`,
`MaxChecks`.

`Deployment` has a `VIEW`: once a background child was called, states that differ only in
how they were configured and built count as one.  Nothing but the children's threads
changes from then on, and graph and build were checked when the build ended.

Deadlock is checked in every run but those of `SafeScripts`, where all requests may
be over and the service down, or waiting for requests that do not come.

Fairness, and why the code justifies it:

- `ExternalCall`: weak fairness of every caller's step (it polls at a fixed interval),
  of the worker's steps other than its function (`put` cannot block on a queue of one
  that is written once; `release` never blocks), and of the clock.  `FnsReturn`, that
  functions return, is an explicit hypothesis of `PoolRecovers`.
- `LLMCall`: weak fairness of the run thread only.  Provider streams may stall.
- `AgentLoop`: weak fairness of each agent's thread; that includes that tools return
  or raise and users answer.  `CancelEndsRun` and `InterruptNotLost` exempt the time
  in which a nested agent runs, for which they are stated on their own.
- `Librarian`: weak fairness of the Librarian's steps (summaries return or raise) and
  of what a watched agent's sink has to do next (`SinkStep`): a run that was started is
  marked, ends and loses its marker.  That runs end is an assumption: the Librarian
  rightly goes on beside one that does not.  No run need start, and none need write.
- `SafeScripts`: weak fairness of the service's main thread, of session threads and of
  the service's own timeouts.  Nothing is assumed of clients and scripts; the
  execution deadline is a hypothesis of the second half of `ScriptsDie` only.
- `Health` (`LoopFairness`): weak fairness of what the event loop has ready and of the
  timeout; strong fairness of `StartCheck`, because asyncio's semaphore serves its
  waiters in order, so that one that finds a slot free again and again gets it.  That
  checks return in the end is a hypothesis of `FairSpec`; under `StuckSpec` only local
  checks do.
- `FileCommands`, `Conversation` and `Deployment` have safety properties only.

## Findings and observations

One run is expected to be violated: the code disagrees with a sentence of its own
documentation (quoted in `PROJECT.json`).

- `HealthStuck` / `LocalStaysObserved`: the wait for a slot has no time limit
  (`shed/dependency_health.py:164`) and a round waits for all its observers, so two
  network checks that never return over one slot keep the round from ending, and no
  dependency is checked again, local ones included.

Observed while modelling; the models contain these behaviours and no property rules
them out:

- the delta gate (`llm/calls.py:557`) checks its flags, and `emit_message_delta` reads
  the current message id afterwards: a worker that passed the gate before an
  interruption emits its chunk into the next stream, at most one per worker
  (`AtMostOneLateDelta`);
- `invoke` forgets which skills were loaded but not the tools they added
  (`agent/core.py:689`), so that a second run is offered them without the skill;
- an invocation whose endpoint cannot be resolved stops a run that it never started;
  the sink still holds the previous run and overwrites its status
  (`runtime/sinks.py:219`);
- the coverage cursor of a conversation lives in its newest snapshot; where retention
  deletes that file the conversation is summarized from its first row again
  (`shed/tools/snapshot_conversations.py:205`), which costs calls and loses nothing;
- a signal sent just before `EventPipe.initialize` is cleared by it; a background child
  that is cancelled before its run has cleared the signals runs on, even where the tool
  has returned because its wait timed out;
- `stop()` of the health monitor cancels tasks whose threads cannot be cancelled, and
  their slots are free at once (`shed/dependency_health.py:118`): after a restart more
  network checks can be at work than `max_concurrency`, although the docstrings say that
  it bounds them (54) and that active checkers "retain their slots until completion,
  including workers that cannot be cancelled" (127).  `SlotsBoundChecks` states the bound
  that does hold, for each start of the monitor, and counts the threads that were cut off
  with the start they belong to;
- after a start that timed out, the next heartbeat of a background child says "alive"
  although its first event was never seen;
- a steerable or deterministic agent nested in an autonomous one has no host channel and
  asks on the command line;
- a run that starts and ends between the Librarian's last two checks leaves snapshots
  that the final pass publishes but does not consolidate;
- two Librarians on one project can put a snapshot behind the other's watermark;
- an agent that is shown or run dry after a run restarts the sequence of its pipe, and its
  messages are added to the document of the finished run, under numbers below the
  cursor of a snapshot, so that the Librarian never summarizes them (`CoverageHonest`
  fails with `Revisits = TRUE`, which the run `Librarian` and its theorems exclude);
- a session thread that cannot be started loses its connection slot for good
  (`leaked` in `SafeScripts`);
- a conversation that stays over its threshold because no summary fits is "blocked" in
  every cycle, each time after up to three summaries;
- the budget of a summary is exact only because `LIGHT_MAX_CHARS` (40 000) is a multiple of
  four: a summary above it is measured with three characters of ellipsis, which fit into
  the token the cut ends in.  With another limit (`LightMax = 23` and without
  `LightAssumption`, in the run `Conversation`) a summary within its budget is "blocked";
- another model selected after an inspection leaves the health monitor with the
  resources of the old one, until the next inspection.

## Proofs

`tlapm M.tla`.  All eight modules prove an inductive invariant (`Init => Inv`,
`Inv /\ [Next]_vars => Inv'`, one lemma per action) and derive the theorems from it.
They hold for every value of the constants that satisfies the named assumptions.  Every
safety property of the passing runs is proved; liveness is [only model-checked](#only-model-checked).

**`ExternalCallProofs`**, from `CallsAssumption` (finitely many calls),
`OwnerAssumption`, `TimedAssumption` and `SlotsAssumption` (a positive pool):

- `TypeCorrect` (`TypeOK`): in particular `free \in 0..Slots`, so that the release of the
  BoundedSemaphore never raises;
- `SlotsConserved` (`SlotAccounting`): `free` plus the calls that account for a slot is
  the pool size;
- `LateOutcomeIgnored` (`OutcomeIsWorkers`): what a call returns is what its own
  function did;
- `Refinement` (`ImplementsContract`): the runner implements `CallContract`.  The
  refinement mapping reads a call's status off `pc` and its function off `wk`; every
  step is a step of the contract or a stutter (`NextRefines`).  The one hard case is
  that a function only starts where fewer than `Slots` run (`RoomToStart`): the running
  functions are among the other calls that hold a slot, and the call itself holds one
  that they do not.

`SlotAccounting` needs to know that a worker is started only for a call that holds a
slot, `OutcomeIsWorkers` that what is in a queue is what the worker put there.  `CallInv`
says both: before its start a call has no worker, a queue that is not empty holds the
outcome of a worker past its `put`, and a call is done exactly when it has a result.
That the set of calls that account for a slot gains or loses exactly one element is
`HolderAdded` and `HolderRemoved`, from the library's facts on cardinality.

**`LLMCallProofs`**, from `BoundsAssumption`, for any number of calls, attempts and
chunks: `TypeCorrect`, `ReturnedWhole` (`ReturnedStreamWhole`), `NeverMix`
(`AttemptsNeverMix`) and `OneLateDelta` (`AtMostOneLateDelta`).  None of them is
inductive.  What makes attempts separate is that an attempt is retried on an error its
worker reported, so that only the last attempt of a call can leave a live worker behind
(`RetryInv`, with `OrderInv` for which workers have started), and that what an attempt
emitted before it was retried lies below the message ids given afterwards (`MixInv`).  A
worker that was abandoned passes the gate no more; what it can still emit is the one
chunk it holds (`WorkerInv`).

**`AgentLoopProofs`**, from `SetupsAssumption`, `DefaultsAssumption`, `InvokesAssumption`, `NestedAssumption`,
`SkillsAssumption` and `NamesAssumption`, for any agents nested to any depth:
`TypeCorrect`, `ContextComesBack` (`ContextRestored`) and `EveryStartStops`
(`StartedIsStopped`).  The context variables are one set for the thread, so that what an
agent finds when it is resumed depends on all agents below it.  `Nesting` is the chain of
the agents that run; by `NestInv` each of them runs the next one as its tool, the context
the next one has saved is its own, and only the innermost one's is bound.

**`RunPersistenceProofs`**, from `BoundsAssumption`, `SwitchesAssumption`,
`NoDocAssumption`, for any agents, with or without failing writes, crashes and revisits:

- `TypeCorrect` (`TypeOK`), `MarkersHaveRecords` (`ActiveHasRecord`),
  `MarkersTellWhoRuns` (`MarkersHonest`, both halves: `RunningIsVisible` and
  `IdleIsUnmarked`) and `StatusBeforeClear` (`FinalBeforeClear`, an action property).

`RunningIsVisible` speaks of one position of the sink; it is inductive only together
with what holds at the others, which is `SinkInv` (while a run is marked or running its
document on disk says so; at `"clear"` the final status is on disk).  `IdleIsUnmarked`
needs `CleanInv` (without file errors the only markers are those of runs at `"running"`
or `"clear"`), and both need `DownInv` (a dead process has no positions).  Distinct
agents have distinct runs (`RunsApart`), so that one agent's step leaves what is said
of the others alone.

The module also has the theorems on the `Librarian`, with `LimitsAssumption` added:

- `LibTypeCorrect` (`LibTypeOK`), and `LibImplementsSinks`: with the Librarian beside
  them the sinks still satisfy `Spec`, so that everything above holds there too;
- `CoverageIsHonest` (`CoverageHonest`), where no run is revisited.  Rows are only added at
  the end of a document (`RowInv`), and what a snapshot, or one that is being made,
  claims to cover is in its summary and stays all there is up to its cursor (`CoverInv`);
- `WatermarkIsSafe` (`WatermarkSafe`) and `PendingIsSpared` (`PurgeSparesPending`), for
  one Librarian: a memory holds what was published before it, the one that is being made
  holds everything, and retention only comes when little is pending (`FoldInv`);
- `StopsAfterSweep` (`SweptBeforeStop`), under both hypotheses: the rows of ended runs that a sweep
  owes are kept in a snapshot, in its summary or still ahead of it, and kept once the
  sweep is over (`OwedInv`).

The hypotheses are needed: a run that is revisited adds rows below the cursor, and a
second Librarian can publish behind the first one's watermark (both under
[observations](#findings-and-observations)).  That the newest snapshot and the last row
exist is `LargestExists`, from the well-foundedness of the subset order on finite sets.

**`SafeScriptsProofs`**, from `RequestsAssumption`, `AsksAssumption`, `SlotsAssumption`,
`LimitAssumption` and `BufferAssumption`, for any number of requests: `TypeCorrect`,
`GateGuards` (`GateGuardsProcess`), `CompletionClean` (`CompletionMeansClean`),
`NotStarted` (`NotStartedIsHonest`), `SuccessWhole` (`SuccessIsWhole`), and
`SlotsAccounted` (`SlotAccounting`, which no run checks: every slot is free, held by a
live session or lost with a thread that did not start). The properties tie the client's
result to the group's state although session, socket and process lie between them;
`Consistent` says what one request's client, link, session and group may look like together
(`CallerInv`, `SessionInv`, `GroupInv`, `WireInv`), `LockInv` who holds the execution gate,
`SlotInv` how the slots add up. A request's step leaves the others' records alone, so each
action is proved for one request.

**`FileCommandsProofs`**, from `PoliciesAssumption`, `PatchesAssumption` (a path is a
sequence of names) and `RequestsAssumption` (a request is a sequence of tokens, its controls
are among the four), for any trees, policies, requests and patches:

- `ConsentComesFirst` (`ConsentFirst`).  `ChainInv` says where the chain can be: nothing
  is asked, decided or done before the guard; a prompt is only reached past the policy;
  only an allowed step reaches the executor of patches, while the executor of commands
  sees denials too and has to look at the status.  `FileTree` is not expanded: the
  theorem holds whatever commands need and do;
- `EffectsAreAuthorized` (`EffectsAuthorized`).  One lemma per group of commands shows
  that the operations the resolver lists cover what the native program does in the same
  tree (`CommandCovered`, for all 17 commands); `GuardedInv` says that what the executor
  has is what the guard saw, in the tree the guard saw.  With `ChainInv` everything that
  is done was cleared;
- `ListsRunLikeZsh` (`RunsLikeZsh`).  The property follows the status of the list from its
  first pipeline on; `next_command` looks ahead from the command that ended and knows its
  exit status only.  `StatusIs` shows that the recursive status exists for every list,
  `PastIsPast` that later commands do not change which earlier ones run.  `NextIs` says
  what `next_command` takes from what remains in terms of the whole list, `NextRuns` that
  of the commands up to there zsh runs just that one, because every pipeline in between
  that does not run passes the status on.  `ListInv`: what ran are the commands before the
  present one that zsh runs, each with its input, and zsh runs the present one.

**`DeploymentProofs`**, from `RootAssumption` and `AttachmentsAssumption`, for any
definitions, graphs, capabilities and selections:

- `BackgroundRunsAreClean` (`OneCleanRun`).  That the tool starts no second thread needs
  `ThreadInv`: the thread it remembers is the only one there is, also after a start that
  was given up.  What it says of signals is relative to the clear: before it a cancel is
  of the past, after it of this run;
- `StartedChildHeedsCancel` (`StartedHeedsCancel`, an action property): an event that was
  seen means that the thread, if it lives, has the clear behind it;
- `OnlyTreesAreWalked` (`WalkAcceptsTrees`).  A way that has not come back can be made
  longer along every edge, because its edges leave distinct agents and so are no more
  than there are (`LongerIsWay`, by the pigeonhole principle); so the ways of an accepted
  graph end in all agents that can be reached.  In a tree two ways to one agent
  are one: a shortest counterexample would have a shorter one (`OneWay`);
- `InspectionKnowsBuild` (`InspectionCovers`) and `BuildIsTheGraph` (`BuildFollowsGraph`).
  `BuildInv`: what is begun are agents of the walk with the sinks their one way entitles
  them to, and the children of what is finished are begun, so that nothing is missing
  when nothing is left to build.

The module also has the theorems on `Health`, from `DepsAssumption`, `ConcurrencyAssumption`
and `StopsAssumption`: `NeverOverlap` (`NoOverlappingChecks`) and `SlotsAreKept`
(`SlotsBoundChecks`).  Both properties speak of threads, and what keeps a second thread
from starting is the registered task: `TaskInv` says that a dependency has a thread
exactly while its registered task is running, whatever its observer does, and
`SemaphoreInv` that the semaphore lacks one slot for each such network task.  What a
`stop()` cuts off are the checks that ran then, and no more is added to them later
(`CutOffInv`), so the bound passes over to them.

**`ConversationProofs`**, from `SizesAssumption`, `LightAssumption` (`LIGHT_MAX_CHARS` is a
multiple of the characters of a token), `BootsAssumption` and `NewMessagesAssumption` (what
is there before the first cycle has the default rules, what an agent adds later is of no
bootstrap kind), for any context size, thresholds, messages and summaries:

- `TypeCorrect` (`TypeOK`);
- `SufficientCompaction` (`CompactionSuffices`).  The estimate is a sum over the messages,
  defined by recursion.  That such a sum exists for every conversation and is the only one
  is `SumsExist` and `SumsAgree`; from then on a message more is a term more (`OneMore`).
  Under the default rules a message is shown alike at any age (`AgeIsIrrelevant`), so that
  neither the message of the summary nor the status message changes what stands before it
  (`CandidateEstimate`, `StatusIsFree`).  What remains is arithmetic: characters left times
  four are tokens left (`SummaryWithin`), and what is below the threshold in tokens is
  below the percentage (`BelowThreshold`);
- `AllOrNothing` (`CompactionAtomic`).  `AtomicInv`: while the tool works, and after it has
  raised, conversation and counter are those it began with; what it returned tells which
  of the two conversations there is now.  The prefix that is kept consists of the bootstrap
  messages and is found in every conversation (`PrefixIs`);
- `SourceIsWhole` (`SourceNeverCut`).  `RequestInv`: the source stays the second message,
  with rules that never apply, and the newest message has rules that cannot drop it while
  it is the newest.

### Only model-checked

- Liveness: fairness and ENABLED are out of this prover's reach.

Induction with an operator as a parameter cannot be instantiated for the installed
provers; where a proof above needs induction it takes a least or largest counterexample
from a finite set.  So it is with the recursive functions, the sums of `Conversation` and
the status of a list in `FileCommands`: that the recursion has a solution up to every number
is shown for the set of numbers up to which it has one (`UpTo`, `Upwards`).

## Limits: what is not modelled

Abstractions inside the modules: messages are model values, sizes or counters; prompts,
wording, logging and display are left out; time is an action that may happen, never a
number; SIGKILL is immediate; processes that leave their process group are out of
the script service's reach; local script execution drives the same generator as the
service with the sink in place of the socket and is not repeated; the pipe's sequence
counter is taken to be atomic (CPython's global lock).  A service killed by SIGKILL
leaves its script running and its socket in place; nothing in the code is meant to
hold then.

- File commands: paths are resolved and have no `..` or trailing slashes; special files,
  moves across file systems, permissions and time stamps are left out; operations are
  asked in any order; display options stand for one flag, those that take a value are
  omitted.  Other processes do not change the tree between guard and execution, which
  `get_run_file_command` disclaims.  `ls` and `find` are granted READ of their starting
  points only, as in the code.  A patch creates missing parents under the grant for the
  file.
- Conversation: which string of a JSON content is cut is reduced to sizes, so a summary
  over `LIGHT_MAX_CHARS` is later shown cut like any message; the provider's context error
  is one of the ways a call fails.
- Health: `run_once` called by hand, `start()` racing `stop()` and the limit of asyncio's
  thread pool are left out.
- Deployment: a run makes one build; handles are followed one at a time, because they
  share nothing.  What a capability's own builder constructs is the resources its tools
  report.  Validation of names and of a dependency's identity is left out.

Not modelled, because there is no state or interaction to check: data models, tools and
skills as declarations, provider adapters (pure translation), prompts, the generated
endpoint inventory (compared with its source by a test), the orchestrator and the
command line (they construct the parts above from files), logging and environment
lookup, PDF and image tools (one call into a library), the examples.  `PROJECT.json`
(`components`) gives the reason for each.

## Plan

All the modules planned exist.  What would extend the project:

1. A run history that only grows, as an abstract specification for `RunPersistence`.
2. `AgentLoop` with compaction as one of its default tools, composed with `Conversation`.
