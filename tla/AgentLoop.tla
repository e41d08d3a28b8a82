------------------------------ MODULE AgentLoop ------------------------------
(***************************************************************************)
(* agent/core.py: Agent.invoke and its step loop, with the tool observer   *)
(* (agent/_tool_observer.py), nested agents (agent/nested_agent.py), the   *)
(* execution context they share (agent/_execution_context.py and the       *)
(* output binding of runtime/io.py) and the lifecycle half of EventPipe    *)
(* (runtime/pipe.py).                                                      *)
(*                                                                         *)
(* One thread runs the agent Top and, while one of its tools is a nested   *)
(* agent, that agent inside it, and so on to any depth.  Each agent has    *)
(* its own pipe, which other threads cancel or interrupt at any time.      *)
(* What a tool does is left open: it returns any output its type allows or *)
(* raises.                                                                 *)
(***************************************************************************)
EXTENDS Integers, Sequences, FiniteSets

CONSTANTS
    Agents, Top,
    Tools,          \* names of tools, skill wrappers included
    Setups,         \* how the agents may have been made (see Mode and below)
    Defaults,       \* [Agents -> Seq(Tools)]: default_tools
    Chained,        \* [Tools -> SUBSET Tools]: chained_to, empty if active
    Skills,         \* the tools that wrap a skill
    DependsOn,      \* [Skills -> Skills \cup {NoTool}]
    SkillTools,     \* [Skills -> SUBSET Tools]
    Nested,         \* [Tools -> Agents \cup {NoAgent}]: run_nested_agent tools
    Stopping,       \* the tools that may return Stop
    Invokes,        \* [Tools -> SUBSET Tools]: what a tool's own Invoke may name
    HostOutput,     \* the channel bound by the host: "api" or NoOutput
    PromptLLM, NoTool, NoAgent, NoOutput

ASSUME SetupsAssumption ==
    \A s \in Setups :
        /\ s.mode \in [Agents -> {"steerable", "autonomous", "deterministic"}]
        /\ s.active \in [Agents -> SUBSET Tools]
        /\ s.autoLoad \in [Agents -> Seq(Skills)]
        /\ \A a \in Agents : s.mode[a] = "deterministic" => Defaults[a] # <<>>
ASSUME DefaultsAssumption ==
    \A a \in Agents :
        /\ Defaults[a] \in Seq(Tools)
        /\ \A i \in 1..Len(Defaults[a]) :
             Chained[Defaults[a][i]] = {} /\ Invokes[Defaults[a][i]] = {}
ASSUME InvokesAssumption == Invokes \in [Tools -> SUBSET Tools]
ASSUME NestedAssumption ==
    Top \in Agents /\ Nested \in [Tools -> (Agents \ {Top}) \cup {NoAgent}]
ASSUME SkillsAssumption ==
    /\ Skills \subseteq Tools
    /\ DependsOn \in [Skills -> Skills \cup {NoTool}]
    /\ SkillTools \in [Skills -> SUBSET Tools]
ASSUME NamesAssumption ==
    /\ Tools \cap {"plain", "stop", PromptLLM, NoTool} = {} /\ PromptLLM # NoTool
    /\ NoAgent \notin Agents
    /\ HostOutput \in {"api", NoOutput} /\ NoOutput \notin {"api", "cli"}

VARIABLES
    setup,          \* how the agents were made
    pc, cur, out,   \* position in the loop, last tool, last output
    queue,          \* _ephemeral_default_tools
    loaded,         \* _loaded_skills
    offered,        \* active_tools
    exit,           \* exit status and exception of the invocation that is ending
    cancel, interrupt,
    open,           \* agents whose pipe emitted "started" and not yet "stopped"
    ctx,            \* the context variables: endpoint owner, output, agent stack
    saved, pushed   \* their reset tokens, and whether the stack was pushed

loopVars == <<cur, out, queue, loaded, offered>>
signalVars == <<cancel, interrupt>>
ctxVars == <<ctx, saved, pushed>>
vars == <<setup, pc, loopVars, exit, signalVars, open, ctxVars>>

Mode == setup.mode                  \* the execution mode of each agent
AutoLoaded == setup.autoLoad        \* its automatic skills, in order

AllowsUser(a) == Mode[a] # "autonomous"                 \* allows_user_interaction
NoExit == [status |-> "none", exc |-> "none"]
Inside == {"begin", "check", "pick", "picked", "ready", "run", "ask", "final"}
HostContext == [endpoint |-> NoAgent, output |-> HostOutput, stack |-> <<>>]
InLoop(a) == pc[a] \in {"check", "pick", "picked", "ready", "run", "ask"}

Init ==
    /\ setup \in Setups
    /\ pc = [a \in Agents |-> "out"]
    /\ cur = [a \in Agents |-> NoTool]
    /\ out = [a \in Agents |-> "plain"]
    /\ queue = [a \in Agents |-> <<>>]
    /\ loaded = [a \in Agents |-> {}]
    /\ offered = setup.active
    /\ exit = NoExit
    /\ cancel = [a \in Agents |-> FALSE]
    /\ interrupt = [a \in Agents |-> FALSE]
    /\ open = {}
    /\ ctx = HostContext
    /\ saved = [a \in Agents |-> HostContext]
    /\ pushed = [a \in Agents |-> FALSE]

Goto(a, there) == pc' = [pc EXCEPT ![a] = there]

-----------------------------------------------------------------------------
(* Entering and leaving an invocation.                                      *)

\* bind_agent_endpoint and bind_output, at the start of a's invoke.
EnterContext(a) ==
    /\ saved' = [saved EXCEPT ![a] = ctx]
    /\ pushed' = [pushed EXCEPT ![a] = FALSE]
    /\ ctx' = [ctx EXCEPT !.endpoint = a,
                          !.output = IF ~AllowsUser(a) THEN NoOutput
                                     ELSE IF ctx.output = NoOutput THEN "cli" ELSE ctx.output]

\* The first n automatic skills load: each one's dependency is an earlier one.
AutoLoads(a, n) ==
    \A i \in 1..n :
        LET d == DependsOn[AutoLoaded[a][i]]
        IN  d = NoTool \/ \E j \in 1..(i - 1) : AutoLoaded[a][j] = d

\* What invoke's except clauses make of an exception.
ExitFor(e) ==
    [status |-> IF e \in {"stop_agent", "keyboard", "cancelled"} THEN "cancelled" ELSE "failed",
     exc |-> IF e \in {"stop_agent", "cancelled"} THEN "none" ELSE e]

\* invoke leaves its loop; finally: finalize_run is next.
Leave(a, x) ==
    /\ Goto(a, "final")
    /\ exit' = x

\* The endpoint cannot be resolved: finalize_run runs, but no "started" was
\* emitted and the agent stack was not pushed.
ResolveFails(a) ==
    /\ pc[a] = "begin" /\ Mode[a] # "deterministic"
    /\ Leave(a, ExitFor("other"))
    /\ UNCHANGED <<loopVars, signalVars, open, ctxVars>>

\* initialize clears both signals and emits "started".
InitializePipe(a) ==
    /\ cancel' = [cancel EXCEPT ![a] = FALSE]
    /\ interrupt' = [interrupt EXCEPT ![a] = FALSE]
    /\ open' = open \cup {a}

\* A sink raises while it is told of the start, before push_active_agent.
StartSinkRaises(a) ==
    /\ pc[a] = "begin"
    /\ InitializePipe(a)
    /\ Leave(a, ExitFor("other"))
    /\ UNCHANGED <<loopVars, ctxVars>>

\* The first n automatic skills have been loaded, in a set of loaded skills that
\* starts empty; the tools of earlier runs stay.
AutoLoad(a, n) ==
    LET now == {AutoLoaded[a][i] : i \in 1..n}
    IN  /\ loaded' = [loaded EXCEPT ![a] = now]
        /\ offered' = [offered EXCEPT ![a] = @ \cup UNION {SkillTools[s] : s \in now}]

\* initialize, push_active_agent, the initial messages and the automatic
\* skills; a sink may raise at any of their messages.
Begin(a) ==
    /\ pc[a] = "begin"
    /\ InitializePipe(a)
    /\ ctx' = [ctx EXCEPT !.stack = Append(@, a)]
    /\ pushed' = [pushed EXCEPT ![a] = TRUE]
    /\ \/ /\ AutoLoads(a, Len(AutoLoaded[a]))
          /\ AutoLoad(a, Len(AutoLoaded[a]))
          /\ Goto(a, "check") /\ UNCHANGED exit
       \/ /\ \/ \E n \in 0..Len(AutoLoaded[a]) : AutoLoads(a, n) /\ AutoLoad(a, n)
             \/ UNCHANGED <<loaded, offered>>
          /\ Leave(a, ExitFor("other"))
    /\ UNCHANGED <<cur, out, queue, saved>>

\* The context variables as their tokens restore them.
RestoredContext(a) ==
    [saved[a] EXCEPT !.stack = IF pushed[a] THEN saved[a].stack ELSE ctx.stack]

\* What invoke kept in its frame is gone.  So is the schedule, which an agent
\* keeps, but which its next invocation replaces by an empty one.
DropFrame(a) ==
    /\ cur' = [cur EXCEPT ![a] = NoTool]
    /\ out' = [out EXCEPT ![a] = "plain"]
    /\ queue' = [queue EXCEPT ![a] = <<>>]
    /\ saved' = [saved EXCEPT ![a] = HostContext]
    /\ pushed' = [pushed EXCEPT ![a] = FALSE]
    /\ UNCHANGED <<loaded, offered>>

\* As if a sink that raises kept the bindings from being reset.
FinalizeForgetful(a) ==
    /\ pc[a] = "final"
    /\ Goto(a, "out")
    /\ open' = open \ {a}
    /\ \/ UNCHANGED exit /\ ctx' = RestoredContext(a)
       \/ exit' = [exit EXCEPT !.exc = "other"] /\ UNCHANGED ctx
    /\ DropFrame(a)
    /\ UNCHANGED signalVars

\* As if finalize_run were skipped when an exception is propagating.
FinalizeReturned(a) ==
    /\ pc[a] = "final"
    /\ Goto(a, "out")
    /\ open' = IF exit.exc = "none" THEN open \ {a} ELSE open
    /\ ctx' = RestoredContext(a)
    /\ exit' \in {exit, [exit EXCEPT !.exc = "other"]}
    /\ DropFrame(a)
    /\ UNCHANGED signalVars

\* finalize_run emits "stopped"; when a sink raises, the bindings are reset
\* all the same and the sink's exception replaces the outcome.
Finalize(a) ==
    /\ pc[a] = "final"
    /\ Goto(a, "out")
    /\ open' = open \ {a}
    /\ ctx' = RestoredContext(a)
    /\ exit' \in {exit, [exit EXCEPT !.exc = "other"]}
    /\ DropFrame(a)
    /\ UNCHANGED signalVars

InvokeTop ==
    /\ pc[Top] = "out"
    /\ Goto(Top, "begin")
    /\ EnterContext(Top)
    /\ exit' = NoExit
    /\ UNCHANGED <<loopVars, signalVars, open>>

-----------------------------------------------------------------------------
(* One step of the loop: _advance_by_step.                                  *)

\* An exception in _advance_by_step.  An agent that is not autonomous turns a
\* provider error and an interruption into a question to its user, and a
\* KeyboardInterrupt while the interrupt flag is set.
Interruption(a, e) == e = "interrupted" \/ (e = "keyboard" /\ interrupt[a])
AsksUser(a, e) == AllowsUser(a) /\ (e = "provider" \/ Interruption(a, e))

Raise(a, e) ==
    \/ /\ AsksUser(a, e)
       /\ Goto(a, "ask")
       /\ interrupt' = [interrupt EXCEPT ![a] = @ /\ ~Interruption(a, e)]
       /\ exit' = NoExit
    \/ /\ ~AsksUser(a, e)
       /\ Leave(a, ExitFor(e))
       /\ UNCHANGED interrupt

\* As if the pipe's cancellation signal were never looked at.
NeverCancelled(a) == FALSE

Cancelled(a) == cancel[a]

\* raise_if_cancelled at the top of the step, and again before the tool.
CheckCancelled(a, here, there) ==
    /\ pc[a] = here
    /\ \/ Cancelled(a) /\ Raise(a, "cancelled")
       \/ ~Cancelled(a) /\ Goto(a, there) /\ UNCHANGED <<exit, interrupt>>
    /\ UNCHANGED <<loopVars, cancel, open, ctxVars>>

\* pop_ephemeral_default_tool: the queue after a refill, if one is needed.
Cycle(a) == IF Mode[a] = "deterministic" THEN Defaults[a] ELSE Append(Defaults[a], PromptLLM)
Refilled(a) == IF queue[a] = <<>> THEN Cycle(a) ELSE queue[a]

Choose(a, t) ==
    /\ cur' = [cur EXCEPT ![a] = t]
    /\ Goto(a, "picked")
    /\ UNCHANGED <<exit, interrupt>>

PickRaises(a) == Raise(a, "other") /\ UNCHANGED <<cur, queue, loaded, offered>>

PopDefault(a) ==
    /\ Choose(a, Head(Refilled(a)))
    /\ queue' = [queue EXCEPT ![a] = Tail(Refilled(a))]
    /\ UNCHANGED <<loaded, offered>>

\* _init_skill: load the skill's tools once, after its dependency.
LoadSkill(a, s) ==
    \/ /\ s \in loaded[a] \/ DependsOn[s] \in loaded[a] \cup {NoTool}
       /\ loaded' = [loaded EXCEPT ![a] = @ \cup {s}]
       /\ offered' = [offered EXCEPT ![a] = @ \cup SkillTools[s]]
       /\ Choose(a, s)
       /\ UNCHANGED queue
    \/ /\ s \notin loaded[a] /\ DependsOn[s] \notin loaded[a] \cup {NoTool}
       /\ PickRaises(a)

\* get_next_tool.  An Invoke names one of the offered tools or raises; after an
\* ordinary output the chain conditions hold for some of the tools chained to
\* the last one.
GetNextTool(a) ==
    /\ pc[a] = "pick"
    /\ \/ out[a] \in offered[a] \cap Skills /\ LoadSkill(a, out[a])
       \/ /\ out[a] \in offered[a] \ Skills
          /\ Choose(a, out[a])
          /\ UNCHANGED <<queue, loaded, offered>>
       \/ out[a] \in Tools \ offered[a] /\ PickRaises(a)
       \/ /\ out[a] = "plain"
          /\ \E links \in SUBSET {p \in Tools : cur[a] \in Chained[p]} :
               \/ links = {} /\ PopDefault(a)
               \/ /\ \E p \in links : links = {p} /\ Choose(a, p)
                  /\ UNCHANGED <<queue, loaded, offered>>
               \/ Cardinality(links) > 1 /\ PickRaises(a)
    /\ UNCHANGED <<out, cancel, open, ctxVars>>

\* Whether a's tool runs a nested agent.
InNested(a) == cur[a] \in Tools /\ Nested[cur[a]] # NoAgent

\* The observed tool starts; a nested agent's invoke starts inside it.  No agent
\* runs inside itself: _walk refuses an agent graph with a cycle.
StartTool(a) ==
    /\ pc[a] = "ready"
    /\ IF InNested(a)
       THEN /\ pc[Nested[cur[a]]] = "out"
            /\ pc' = [pc EXCEPT ![a] = "run", ![Nested[cur[a]]] = "begin"]
            /\ EnterContext(Nested[cur[a]])
       ELSE Goto(a, "run") /\ UNCHANGED ctxVars
    /\ UNCHANGED <<loopVars, exit, signalVars, open>>

\* The tool returned o: its message is appended and emitted, and a Stop ends
\* the loop.
Yield(a, o) ==
    /\ out' = [out EXCEPT ![a] = o]
    /\ IF o = "stop" THEN Leave(a, [status |-> "completed", exc |-> "none"])
       ELSE Goto(a, "check") /\ exit' = NoExit
    /\ UNCHANGED interrupt

\* The output of a tool that is not prompt_llm: any that its type allows.
Returns(t, o) == o = "plain" \/ (o = "stop" /\ t \in Stopping) \/ o \in Invokes[t]

\* As if prompt_llm were not given the pipe's interrupt signal.
ToolReturnsUnsignalled(a, o) ==
    /\ pc[a] = "run" /\ ~InNested(a)
    /\ IF cur[a] = PromptLLM
       THEN o \in offered[a] /\ ~cancel[a]
       ELSE Returns(cur[a], o)
    /\ Yield(a, o)
    /\ UNCHANGED <<cur, queue, loaded, offered, cancel, open, ctxVars>>

\* A call of the model does not return while a signal is set (LLMCall).
ToolReturns(a, o) ==
    /\ pc[a] = "run" /\ ~InNested(a)
    /\ IF cur[a] = PromptLLM
       THEN o \in offered[a] /\ ~cancel[a] /\ ~interrupt[a]
       ELSE Returns(cur[a], o)
    /\ Yield(a, o)
    /\ UNCHANGED <<cur, queue, loaded, offered, cancel, open, ctxVars>>

ToolRaises(a, e) ==
    /\ pc[a] = "run" /\ ~InNested(a)
    /\ e = "interrupted" => interrupt[a]
    /\ e = "cancelled" => cancel[a]
    /\ Raise(a, e)
    /\ UNCHANGED <<loopVars, cancel, open, ctxVars>>

\* run_nested_agent: a nested agent that was cancelled returns like one that
\* completed; any other exception of its invoke is its parent's tool's.
NestedReturns(a) ==
    /\ pc[a] = "run" /\ InNested(a) /\ pc[Nested[cur[a]]] = "out"
    /\ LET e == exit.exc
       IN  IF e = "none" THEN Yield(a, "plain") ELSE Raise(a, e) /\ UNCHANGED out
    /\ UNCHANGED <<cur, queue, loaded, offered, cancel, open, ctxVars>>

\* _handle_interrupt and _handle_provider_request_error: the user answers, and
\* scheduling starts over with the first default tool...
UserAnswers(a) ==
    /\ pc[a] = "ask"
    /\ Goto(a, "check")
    /\ cur' = [cur EXCEPT ![a] = NoTool]
    /\ out' = [out EXCEPT ![a] = "plain"]
    /\ queue' = [queue EXCEPT ![a] = <<>>]
    /\ UNCHANGED <<loaded, offered, exit, signalVars, open, ctxVars>>

\* ... or asking raises, which no handler of the step loop catches.
AskRaises(a, e) ==
    /\ pc[a] = "ask"
    /\ Leave(a, ExitFor(e))
    /\ UNCHANGED <<loopVars, signalVars, open, ctxVars>>

-----------------------------------------------------------------------------
Cancel(a) ==
    /\ ~cancel[a]
    /\ cancel' = [cancel EXCEPT ![a] = TRUE]
    /\ UNCHANGED <<pc, loopVars, exit, interrupt, open, ctxVars>>

Interrupt(a) ==
    /\ ~interrupt[a]
    /\ interrupt' = [interrupt EXCEPT ![a] = TRUE]
    /\ UNCHANGED <<pc, loopVars, exit, cancel, open, ctxVars>>

ToolErrors == {"provider", "interrupted", "cancelled", "stop_agent", "keyboard", "other"}

Proceed(a) ==
    \/ ResolveFails(a) \/ StartSinkRaises(a) \/ Begin(a)
    \/ CheckCancelled(a, "check", "pick")
    \/ GetNextTool(a)
    \/ CheckCancelled(a, "picked", "ready")
    \/ StartTool(a)
    \/ \E o \in Tools \cup {"plain", "stop"} : ToolReturns(a, o)
    \/ \E e \in ToolErrors : ToolRaises(a, e)
    \/ NestedReturns(a)
    \/ UserAnswers(a)
    \/ \E e \in {"keyboard", "other"} : AskRaises(a, e)
    \/ Finalize(a)

Step(a) == Proceed(a) /\ UNCHANGED setup

Next ==
    \/ (InvokeTop \/ \E a \in Agents : Cancel(a) \/ Interrupt(a)) /\ UNCHANGED setup
    \/ \E a \in Agents : Step(a)

Spec == Init /\ [][Next]_vars

\* The thread runs, and every tool and every question to the user ends.
FairSpec == Spec /\ \A a \in Agents : WF_vars(Step(a))

-----------------------------------------------------------------------------
(* Properties                                                               *)

Contexts == [endpoint : Agents \cup {NoAgent}, output : {"api", "cli", NoOutput},
             stack : Seq(Agents)]

TypeOK ==
    /\ setup \in Setups
    /\ pc \in [Agents -> {"out"} \cup Inside]
    /\ cur \in [Agents -> Tools \cup {PromptLLM, NoTool}]
    /\ out \in [Agents -> Tools \cup {"plain", "stop"}]
    /\ queue \in [Agents -> Seq(Tools \cup {PromptLLM})]
    /\ loaded \in [Agents -> SUBSET Skills]
    /\ offered \in [Agents -> SUBSET Tools]
    /\ cancel \in [Agents -> BOOLEAN] /\ interrupt \in [Agents -> BOOLEAN]
    /\ open \subseteq Agents
    /\ ctx \in Contexts /\ saved \in [Agents -> Contexts] /\ pushed \in [Agents -> BOOLEAN]

\* An agent is being invoked, and no agent is being invoked inside it.
Innermost(a) == pc[a] # "out" /\ ~(pc[a] = "run" /\ InNested(a) /\ pc[Nested[cur[a]]] # "out")

\* However invoke ends, its finally clause leaves the context variables to its
\* caller as they were: the endpoint is the innermost agent's, the output
\* channel is the one of its mode (none if it is autonomous, else the host's
\* unless an agent around it has none), and the stack holds the running agents
\* in the order they nest.
ContextRestored ==
    /\ pc[Top] = "out" => ctx = HostContext
    /\ \A a \in Agents : Innermost(a) =>
         /\ ctx.endpoint = a
         /\ ctx.output = NoOutput <=> ~AllowsUser(a)
         /\ ctx.output = "cli" =>
              HostOutput = NoOutput \/ \E b \in Agents : pc[b] # "out" /\ ~AllowsUser(b)
    /\ \A a \in Agents : pushed[a] <=> \E i \in DOMAIN ctx.stack : ctx.stack[i] = a
    /\ \A i \in DOMAIN ctx.stack :
         ctx.stack[i] = IF i = 1 THEN Top ELSE Nested[cur[ctx.stack[i - 1]]]

\* An agent whose "started" event was emitted and that is not running any
\* more has emitted "stopped", whichever exception ended it.
StartedIsStopped == \A a \in open : pc[a] # "out"

\* A cancelled agent's run ends; while a nested agent runs, its parent's
\* cancellation waits for it.
CancelEndsRun ==
    \A a \in Agents :
        cancel[a] /\ InLoop(a) ~> ~InLoop(a) \/ (pc[a] = "run" /\ InNested(a))

\* An interruption of a model-driven agent reaches its user, or ends its run:
\* default tools, chains and further model calls do not run on in spite of it.
InterruptNotLost ==
    \A a \in Agents :
        Mode[a] # "deterministic" /\ interrupt[a] /\ InLoop(a)
            ~> pc[a] = "ask" \/ ~interrupt[a] \/ ~InLoop(a) \/ (pc[a] = "run" /\ InNested(a))
=============================================================================
