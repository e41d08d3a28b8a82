--------------------------- MODULE AgentLoopProofs ---------------------------
(***************************************************************************)
(* Proofs about AgentLoop for any agents, tools and skills, nested to any  *)
(* depth.                                                                  *)
(*                                                                         *)
(* The agents that are running form a chain: the endpoint of the context   *)
(* is the innermost one, what it saved when it began holds the agents      *)
(* around it, and the context that each of these saw is what the next one  *)
(* in the chain has saved (NestInv).  When an invocation ends, the saved   *)
(* context is therefore the one of the agent that called.                  *)
(***************************************************************************)
EXTENDS AgentLoop, SequenceTheorems, TLAPS

\* The agents that are being invoked, outermost first.
Nesting == Append(saved[ctx.endpoint].stack, ctx.endpoint)

\* What the context variables are while a itself runs.
OutputOf(a, inherited) ==
    IF ~AllowsUser(a) THEN NoOutput ELSE IF inherited = NoOutput THEN "cli" ELSE inherited
StackOf(a) == IF pushed[a] THEN Append(saved[a].stack, a) ELSE saved[a].stack
ContextOf(a) == [endpoint |-> a, output |-> OutputOf(a, saved[a].output), stack |-> StackOf(a)]

IdleInv == pc[Top] = "out" => ctx = HostContext /\ \A a \in Agents : pc[a] = "out"

\* Only the two ends of an invocation are not on the agent stack.
PushInv ==
    \A a \in Agents : /\ pc[a] \in {"out", "begin"} => ~pushed[a]
                      /\ pc[a] \notin {"out", "begin", "final"} => pushed[a]

\* Agent k[i] runs k[i + 1] as its tool.
Calls(k, i) ==
    /\ pc[k[i]] = "run" /\ InNested(k[i]) /\ Nested[cur[k[i]]] = k[i + 1]
    /\ saved[k[i + 1]] = ContextOf(k[i])

\* The channel is only taken from an agent by the host or by an agent around it.
Muted(k, i) == HostOutput = NoOutput \/ \E j \in 1..(i - 1) : ~AllowsUser(k[j])

ChainOf(k) ==
    /\ k[1] = Top
    /\ \A a \in Agents : pc[a] # "out" <=> \E i \in 1..Len(k) : k[i] = a
    /\ \A i, j \in 1..Len(k) : k[i] = k[j] => i = j
    /\ \A i \in 1..(Len(k) - 1) : Calls(k, i)
    /\ \A i \in 1..Len(k) : saved[k[i]].output \in {NoOutput, "cli"} => Muted(k, i)

NestInv ==
    pc[Top] # "out" =>
        /\ ctx.endpoint \in Agents /\ ctx = ContextOf(ctx.endpoint)
        /\ saved[Top] = HostContext
        /\ ChainOf(Nesting)

Inv == TypeOK /\ IdleInv /\ PushInv /\ NestInv

-----------------------------------------------------------------------------
(* Types. *)

LEMMA SetupTypes ==
    ASSUME TypeOK, NEW a \in Agents
    PROVE  /\ Mode[a] \in {"steerable", "autonomous", "deterministic"}
           /\ AutoLoaded[a] \in Seq(Skills)
           /\ Len(AutoLoaded[a]) \in Nat
           /\ \A i \in 1..Len(AutoLoaded[a]) : AutoLoaded[a][i] \in Skills
           /\ Defaults[a] \in Seq(Tools)
           /\ Mode[a] = "deterministic" => Defaults[a] # <<>>
<1>1. AutoLoaded[a] \in Seq(Skills)
    BY SetupsAssumption DEF TypeOK, AutoLoaded
<1>2. /\ Len(AutoLoaded[a]) \in Nat
      /\ \A i \in 1..Len(AutoLoaded[a]) : AutoLoaded[a][i] \in Skills
    BY <1>1, LenProperties, ElementOfSeq
<1> QED
    BY <1>1, <1>2, SetupsAssumption, DefaultsAssumption DEF TypeOK, Mode

LEMMA EnterTypes ==
    ASSUME TypeOK, NEW a \in Agents, EnterContext(a)
    PROVE  /\ ctx' \in Contexts /\ saved' \in [Agents -> Contexts]
           /\ pushed' \in [Agents -> BOOLEAN]
<1>1. ctx \in Contexts /\ saved \in [Agents -> Contexts] /\ pushed \in [Agents -> BOOLEAN]
    BY DEF TypeOK
<1>2. ctx' \in Contexts
    BY <1>1 DEF EnterContext, Contexts
<1> QED
    BY <1>1, <1>2 DEF EnterContext

LEMMA AutoLoadTypes ==
    ASSUME TypeOK, NEW a \in Agents, NEW n \in 0..Len(AutoLoaded[a]), AutoLoad(a, n)
    PROVE  loaded' \in [Agents -> SUBSET Skills] /\ offered' \in [Agents -> SUBSET Tools]
<1> DEFINE now == {AutoLoaded[a][i] : i \in 1..n}
<1>1. now \in SUBSET Skills
    BY SetupTypes
<1>2. /\ loaded' = [loaded EXCEPT ![a] = now]
      /\ offered' = [offered EXCEPT ![a] = @ \cup UNION {SkillTools[s] : s \in now}]
    BY DEF AutoLoad
<1> HIDE DEF now
<1>3. UNION {SkillTools[s] : s \in now} \in SUBSET Tools
    BY <1>1, SkillsAssumption
<1> QED
    BY <1>1, <1>2, <1>3 DEF TypeOK

LEMMA ExtremeTypes ==
    ASSUME TypeOK, UNCHANGED setup, NEW a \in Agents,
           ResolveFails(a) \/ StartSinkRaises(a) \/ Begin(a) \/ Finalize(a)
    PROVE  TypeOK'
<1>0. \A x \in {"check", "final", "out"} : x \in {"out"} \cup Inside
    BY DEF Inside
<1>1. CASE ResolveFails(a)
    BY <1>0, <1>1 DEF ResolveFails, Leave, Goto, TypeOK, loopVars, signalVars, ctxVars
<1>2. CASE StartSinkRaises(a)
    BY <1>0, <1>2 DEF StartSinkRaises, InitializePipe, Leave, Goto, TypeOK, loopVars, ctxVars
<1>3. CASE Begin(a)
  <2>1. loaded' \in [Agents -> SUBSET Skills] /\ offered' \in [Agents -> SUBSET Tools]
    <3>1. CASE \E n \in 0..Len(AutoLoaded[a]) : AutoLoad(a, n)
        BY <3>1, AutoLoadTypes
    <3>2. CASE UNCHANGED <<loaded, offered>>
        BY <3>2 DEF TypeOK
    <3>3. Len(AutoLoaded[a]) \in 0..Len(AutoLoaded[a])
        BY SetupTypes
    <3> QED
        BY <1>3, <3>1, <3>2, <3>3 DEF Begin
  <2>2. pc' \in [Agents -> {"out"} \cup Inside]
      BY <1>0, <1>3 DEF Begin, Leave, Goto, TypeOK
  <2>3. ctx' \in Contexts
    <3>1. ctx' = [ctx EXCEPT !.stack = Append(ctx.stack, a)] /\ Append(ctx.stack, a) \in Seq(Agents)
        BY <1>3, AppendProperties DEF Begin, TypeOK, Contexts
    <3> QED
        BY <3>1 DEF TypeOK, Contexts
  <2>4. /\ cancel' \in [Agents -> BOOLEAN] /\ interrupt' \in [Agents -> BOOLEAN]
        /\ open' \subseteq Agents /\ pushed' \in [Agents -> BOOLEAN]
      BY <1>3 DEF Begin, InitializePipe, TypeOK
  <2> QED
      BY <1>3, <2>1, <2>2, <2>3, <2>4 DEF Begin, TypeOK
<1>4. CASE Finalize(a)
  <2>1. RestoredContext(a) \in Contexts
    <3>1. ctx \in Contexts /\ saved[a] \in Contexts
        BY DEF TypeOK
    <3> QED
        BY <3>1 DEF RestoredContext, Contexts
  <2>2. HostContext \in Contexts
      BY NamesAssumption, EmptySeq DEF HostContext, Contexts
  <2>3. <<>> \in Seq(Tools \cup {PromptLLM})
      BY EmptySeq
  <2> QED
      BY <1>0, <1>4, <2>1, <2>2, <2>3 DEF Finalize, Goto, DropFrame, TypeOK, signalVars
<1> QED
    BY <1>1, <1>2, <1>3, <1>4

LEMMA RaiseTypes ==
    ASSUME TypeOK, NEW a \in Agents, NEW e, Raise(a, e)
    PROVE  pc' \in [Agents -> {"out"} \cup Inside] /\ interrupt' \in [Agents -> BOOLEAN]
<1>1. (interrupt[a] /\ ~Interruption(a, e)) \in BOOLEAN
    OBVIOUS
<1> QED
    BY <1>1 DEF Raise, Leave, Goto, TypeOK, Inside

LEMMA PickTypes ==
    ASSUME TypeOK, UNCHANGED setup, NEW a \in Agents, GetNextTool(a)
    PROVE  TypeOK'
<1>0. UNCHANGED <<setup, out, cancel, open, ctx, saved, pushed>>
    BY DEF GetNextTool, ctxVars
<1>1. ASSUME NEW t \in Tools \cup {PromptLLM}, Choose(a, t)
      PROVE  /\ cur' \in [Agents -> Tools \cup {PromptLLM, NoTool}]
             /\ pc' \in [Agents -> {"out"} \cup Inside] /\ interrupt' = interrupt
    BY <1>1 DEF Choose, Goto, TypeOK, Inside
<1>2. CASE PickRaises(a)
    BY <1>0, <1>2, RaiseTypes DEF PickRaises, TypeOK
<1>3. CASE PopDefault(a)
  <2>1. Refilled(a) \in Seq(Tools \cup {PromptLLM}) /\ Refilled(a) # <<>>
    <3>1. Defaults[a] \in Seq(Tools \cup {PromptLLM})
        BY SetupTypes
    <3>2. /\ Append(Defaults[a], PromptLLM) \in Seq(Tools \cup {PromptLLM})
          /\ Append(Defaults[a], PromptLLM) # <<>>
        BY <3>1, AppendProperties
    <3>3. queue[a] \in Seq(Tools \cup {PromptLLM})
        BY DEF TypeOK
    <3> QED
        BY <3>1, <3>2, <3>3, SetupTypes DEF Refilled, Cycle
  <2>2. /\ Head(Refilled(a)) \in Tools \cup {PromptLLM}
        /\ Tail(Refilled(a)) \in Seq(Tools \cup {PromptLLM})
      BY <2>1, HeadTailProperties
  <2> QED
      BY <1>0, <1>1, <1>3, <2>2 DEF PopDefault, TypeOK
<1>4. CASE out[a] \in offered[a] \cap Skills /\ LoadSkill(a, out[a])
  <2>1. out[a] \in Tools /\ SkillTools[out[a]] \in SUBSET Tools
      BY <1>4, SkillsAssumption
  <2>2. CASE /\ loaded' = [loaded EXCEPT ![a] = @ \cup {out[a]}]
             /\ offered' = [offered EXCEPT ![a] = @ \cup SkillTools[out[a]]]
             /\ Choose(a, out[a]) /\ UNCHANGED queue
      BY <1>0, <1>1, <1>4, <2>1, <2>2 DEF TypeOK
  <2> QED
      BY <1>2, <1>4, <2>2 DEF LoadSkill
<1>5. ASSUME NEW t \in Tools, Choose(a, t), UNCHANGED <<queue, loaded, offered>> PROVE TypeOK'
    BY <1>0, <1>1, <1>5 DEF TypeOK
<1>6. CASE /\ out[a] \in offered[a] \ Skills /\ Choose(a, out[a])
           /\ UNCHANGED <<queue, loaded, offered>>
    BY <1>5, <1>6 DEF TypeOK
<1>7. CASE \E links \in SUBSET {p \in Tools : cur[a] \in Chained[p]} :
               \/ links = {} /\ PopDefault(a)
               \/ /\ \E p \in links : links = {p} /\ Choose(a, p)
                  /\ UNCHANGED <<queue, loaded, offered>>
               \/ Cardinality(links) > 1 /\ PickRaises(a)
    BY <1>2, <1>3, <1>5, <1>7
<1> QED
    BY <1>2, <1>4, <1>6, <1>7 DEF GetNextTool

LEMMA ToolTypes ==
    ASSUME TypeOK, UNCHANGED setup, NEW a \in Agents,
           \/ CheckCancelled(a, "check", "pick") \/ CheckCancelled(a, "picked", "ready")
           \/ StartTool(a)
           \/ \E o \in Tools \cup {"plain", "stop"} : ToolReturns(a, o)
           \/ \E e \in ToolErrors : ToolRaises(a, e)
           \/ NestedReturns(a) \/ UserAnswers(a)
           \/ \E e \in {"keyboard", "other"} : AskRaises(a, e)
    PROVE  TypeOK'
<1>0. \A x \in {"out", "begin", "check", "pick", "ready", "run", "final"} : x \in {"out"} \cup Inside
    BY DEF Inside
<1>1. ASSUME NEW here, NEW there \in {"pick", "ready"}, CheckCancelled(a, here, there)
      PROVE  TypeOK'
  <2>1. pc' \in [Agents -> {"out"} \cup Inside] /\ interrupt' \in [Agents -> BOOLEAN]
    <3>1. CASE Raise(a, "cancelled")
        BY <3>1, RaiseTypes
    <3>2. CASE Goto(a, there) /\ UNCHANGED interrupt
        BY <1>0, <3>2 DEF Goto, TypeOK
    <3> QED
        BY <1>1, <3>1, <3>2 DEF CheckCancelled
  <2> QED
      BY <1>1, <2>1 DEF CheckCancelled, TypeOK, loopVars, ctxVars
<1>2. CASE StartTool(a)
  <2>1. CASE InNested(a)
    <3>1. Nested[cur[a]] \in Agents
        BY <2>1, NestedAssumption DEF InNested
    <3>2. /\ ctx' \in Contexts /\ saved' \in [Agents -> Contexts]
          /\ pushed' \in [Agents -> BOOLEAN]
        BY <1>2, <2>1, <3>1, EnterTypes DEF StartTool
    <3> QED
        BY <1>0, <1>2, <2>1, <3>1, <3>2 DEF StartTool, TypeOK, loopVars, signalVars
  <2>2. CASE ~InNested(a)
      BY <1>0, <1>2, <2>2 DEF StartTool, Goto, TypeOK, loopVars, signalVars, ctxVars
  <2> QED
      BY <2>1, <2>2
<1>3. ASSUME NEW o \in Tools \cup {"plain", "stop"}, Yield(a, o)
      PROVE  /\ pc' \in [Agents -> {"out"} \cup Inside] /\ interrupt' = interrupt
             /\ out' \in [Agents -> Tools \cup {"plain", "stop"}]
    BY <1>0, <1>3 DEF Yield, Leave, Goto, TypeOK
<1>4. ASSUME NEW o \in Tools \cup {"plain", "stop"}, ToolReturns(a, o) PROVE TypeOK'
    BY <1>3, <1>4 DEF ToolReturns, TypeOK, ctxVars
<1>5. ASSUME NEW e, ToolRaises(a, e) PROVE TypeOK'
    BY <1>5, RaiseTypes DEF ToolRaises, TypeOK, loopVars, ctxVars
<1>6. CASE NestedReturns(a)
    BY <1>3, <1>6, RaiseTypes DEF NestedReturns, TypeOK, ctxVars
<1>7. CASE UserAnswers(a)
  <2>1. <<>> \in Seq(Tools \cup {PromptLLM})
      BY EmptySeq
  <2> QED
      BY <1>0, <1>7, <2>1 DEF UserAnswers, Goto, TypeOK, signalVars, ctxVars
<1>8. ASSUME NEW e, AskRaises(a, e) PROVE TypeOK'
    BY <1>0, <1>8 DEF AskRaises, Leave, Goto, TypeOK, loopVars, signalVars, ctxVars
<1> QED
    BY <1>1, <1>2, <1>4, <1>5, <1>6, <1>7, <1>8

LEMMA InitTypes == Init => TypeOK
<1> SUFFICES ASSUME Init PROVE TypeOK
    OBVIOUS
<1>1. HostContext \in Contexts
    BY NamesAssumption, EmptySeq DEF HostContext, Contexts
<1>2. <<>> \in Seq(Tools \cup {PromptLLM})
    BY EmptySeq
<1>3. setup.active \in [Agents -> SUBSET Tools]
    BY SetupsAssumption DEF Init
<1> QED
    BY <1>1, <1>2, <1>3 DEF Init, TypeOK

LEMMA NextTypes == ASSUME TypeOK, [Next]_vars PROVE TypeOK'
<1>1. CASE UNCHANGED vars
    BY <1>1 DEF vars, loopVars, signalVars, ctxVars, TypeOK, Contexts
<1>2. CASE InvokeTop /\ UNCHANGED setup
  <2>1. pc' \in [Agents -> {"out"} \cup Inside]
      BY <1>2, NestedAssumption DEF InvokeTop, Goto, TypeOK, Inside
  <2> QED
      BY <1>2, <2>1, EnterTypes, NestedAssumption DEF InvokeTop, TypeOK, loopVars, signalVars
<1>3. ASSUME NEW a \in Agents, Cancel(a) \/ Interrupt(a), UNCHANGED setup PROVE TypeOK'
    BY <1>3 DEF Cancel, Interrupt, TypeOK, loopVars, ctxVars
<1>4. ASSUME NEW a \in Agents, Step(a) PROVE TypeOK'
    BY <1>4, ExtremeTypes, PickTypes, ToolTypes DEF Step, Proceed
<1> QED
    BY <1>1, <1>2, <1>3, <1>4 DEF Next

-----------------------------------------------------------------------------
(* The chain of running agents. *)

LEMMA ChainFacts ==
    ASSUME Inv, pc[Top] # "out"
    PROVE  /\ ctx.endpoint \in Agents /\ saved[ctx.endpoint].stack \in Seq(Agents)
           /\ Nesting \in Seq(Agents) /\ Len(Nesting) \in Nat \ {0}
           /\ Len(Nesting) = Len(saved[ctx.endpoint].stack) + 1
           /\ Nesting[Len(Nesting)] = ctx.endpoint
           /\ \A i \in 1..(Len(Nesting) - 1) : Nesting[i] = saved[ctx.endpoint].stack[i]
           /\ \A i \in 1..Len(Nesting) : Nesting[i] \in Agents
           /\ ChainOf(Nesting)
<1>1. ctx.endpoint \in Agents /\ saved[ctx.endpoint].stack \in Seq(Agents)
    BY DEF Inv, TypeOK, NestInv, Contexts
<1>2. /\ Nesting \in Seq(Agents) /\ Len(Nesting) = Len(saved[ctx.endpoint].stack) + 1
      /\ Nesting[Len(Nesting)] = ctx.endpoint
      /\ \A i \in 1..Len(saved[ctx.endpoint].stack) : Nesting[i] = saved[ctx.endpoint].stack[i]
    BY <1>1, AppendProperties DEF Nesting
<1>3. Len(saved[ctx.endpoint].stack) \in Nat
    BY <1>1, LenProperties
<1>4. \A i \in 1..Len(Nesting) : Nesting[i] \in Agents
    BY <1>2, ElementOfSeq
<1>5. Len(Nesting) \in Nat \ {0} /\ Len(Nesting) - 1 = Len(saved[ctx.endpoint].stack)
    BY <1>2, <1>3
<1> QED
    BY <1>1, <1>2, <1>4, <1>5 DEF Inv, NestInv

(* Only the innermost agent of the chain is not waiting for another one. *)
LEMMA OnlyInnermost ==
    ASSUME Inv, NEW a \in Agents, Innermost(a)
    PROVE  a = ctx.endpoint /\ pc[Top] # "out"
<1>1. pc[Top] # "out"
    BY DEF Inv, IdleInv, Innermost
<1>2. PICK i \in 1..Len(Nesting) : Nesting[i] = a
    BY <1>1, ChainFacts DEF ChainOf, Innermost
<1>3. CASE i = Len(Nesting)
    BY <1>1, <1>2, <1>3, ChainFacts
<1>4. CASE i # Len(Nesting)
  <2>1. i \in 1..(Len(Nesting) - 1) /\ i + 1 \in 1..Len(Nesting)
      BY <1>1, <1>4, ChainFacts
  <2>2. Calls(Nesting, i) /\ pc[Nesting[i + 1]] # "out"
      BY <1>1, <2>1, ChainFacts DEF ChainOf
  <2> QED
      BY <1>2, <2>2 DEF Calls, Innermost
<1> QED
    BY <1>1, <1>3, <1>4

(* The innermost agent goes on inside its invocation. *)
LEMMA InnermostMoves ==
    ASSUME Inv, NEW a \in Agents, Innermost(a), TypeOK', UNCHANGED <<setup, saved>>,
           NEW x, x # "out", pc' = [pc EXCEPT ![a] = x],
           \A b \in Agents : b # a => cur'[b] = cur[b] /\ pushed'[b] = pushed[b],
           x = "begin" => ~pushed'[a], x \notin {"begin", "final"} => pushed'[a],
           ctx' = ContextOf(a)'
    PROVE  Inv'
<1>1. a = ctx.endpoint /\ pc[Top] # "out"
    BY OnlyInnermost
<1>2. /\ pc'[a] = x /\ \A b \in Agents : b # a => pc'[b] = pc[b]
      /\ \A b \in Agents : pc'[b] # "out" <=> pc[b] # "out"
      /\ Top \in Agents
    BY NestedAssumption DEF Inv, TypeOK, Innermost
<1>3. IdleInv' /\ PushInv'
    BY <1>1, <1>2 DEF Inv, IdleInv, PushInv
<1>4. ctx'.endpoint = a /\ Nesting' = Nesting
    BY <1>1 DEF ContextOf, Nesting
<1> DEFINE k == Nesting
<1>5. ChainOf(k)'
  <2>0. /\ ChainOf(k) /\ Len(k) \in Nat \ {0} /\ k[Len(k)] = a /\ k' = k
        /\ \A i \in 1..Len(k) : k[i] \in Agents
      BY <1>1, <1>4, ChainFacts
  <2> HIDE DEF k
  <2>1. \A i \in 1..(Len(k) - 1) : k[i] # a /\ i \in 1..Len(k)
    <3>1. \A i \in 1..(Len(k) - 1) : i \in 1..Len(k) /\ i # Len(k) /\ Len(k) \in 1..Len(k)
        BY <2>0
    <3> QED
        BY <2>0, <3>1 DEF ChainOf
  <2>2. ASSUME NEW i \in 1..(Len(k) - 1) PROVE Calls(k, i)'
    <3>1. Calls(k, i) /\ k[i] \in Agents /\ k[i] # a
        BY <2>0, <2>1 DEF ChainOf
    <3>2. ContextOf(k[i])' = ContextOf(k[i])
        BY <2>0, <3>1 DEF ContextOf, OutputOf, StackOf, AllowsUser, Mode
    <3> QED
        BY <1>2, <2>0, <3>1, <3>2 DEF Calls, InNested
  <2>3. \A i \in 1..Len(k) : saved[k[i]].output \in {NoOutput, "cli"} => Muted(k, i)'
      BY <2>0 DEF ChainOf, Muted, AllowsUser, Mode
  <2> QED
      BY <1>2, <2>0, <2>2, <2>3 DEF ChainOf
<1>6. NestInv'
    BY <1>1, <1>4, <1>5 DEF Inv, NestInv
<1> QED
    BY <1>3, <1>6 DEF Inv

(* The same when the context variables are not touched. *)
LEMMA LoopMoves ==
    ASSUME Inv, NEW a \in Agents, Innermost(a), TypeOK', UNCHANGED <<setup, ctxVars>>,
           NEW x \in Inside \ {"begin"}, pc' = [pc EXCEPT ![a] = x],
           \A b \in Agents : b # a => cur'[b] = cur[b],
           pc[a] \in {"begin", "final"} => x = "final"
    PROVE  Inv'
<1>1. /\ ctx' = ctx /\ saved' = saved /\ pushed' = pushed /\ setup' = setup
      /\ x # "out" /\ x # "begin"
    BY DEF ctxVars, Inside
<1>2. x # "final" => pushed'[a]
    BY <1>1 DEF Inv, PushInv, Innermost
<1>3. ctx = ContextOf(a)
    BY OnlyInnermost DEF Inv, NestInv
<1>4. ctx' = ContextOf(a)'
    BY <1>1, <1>3 DEF ContextOf, OutputOf, StackOf, AllowsUser, Mode
<1> QED
    BY <1>1, <1>2, <1>4, InnermostMoves

LEMMA BeginMoves ==
    ASSUME Inv, TypeOK', UNCHANGED setup, NEW a \in Agents, Begin(a)
    PROVE  Inv'
<1>0. /\ pc[a] = "begin" /\ Innermost(a)
      /\ ctx' = [ctx EXCEPT !.stack = Append(@, a)]
      /\ pushed' = [pushed EXCEPT ![a] = TRUE]
      /\ UNCHANGED <<cur, saved>>
    BY DEF Begin, Innermost
<1>1. PICK x \in {"check", "final"} : pc' = [pc EXCEPT ![a] = x]
    BY DEF Begin, Leave, Goto
<1>2. ctx = ContextOf(a) /\ ~pushed[a]
    BY <1>0, OnlyInnermost DEF Inv, NestInv, PushInv
<1>3. pushed'[a] /\ \A b \in Agents : b # a => pushed'[b] = pushed[b]
    BY <1>0 DEF Inv, TypeOK
<1>4. ctx' = ContextOf(a)'
  <2>1. ctx'.endpoint = a /\ ctx'.output = OutputOf(a, saved[a].output)
        /\ ctx'.stack = Append(saved[a].stack, a)
      BY <1>0, <1>2 DEF ContextOf, StackOf
  <2>2. ctx' = [endpoint |-> a, output |-> OutputOf(a, saved[a].output),
                stack |-> Append(saved[a].stack, a)]
      BY <1>0, <1>2, <2>1 DEF ContextOf
  <2> QED
      BY <1>0, <1>3, <2>2 DEF ContextOf, StackOf, OutputOf, AllowsUser, Mode
<1> QED
    BY <1>0, <1>1, <1>3, <1>4, InnermostMoves

(* A nested agent begins: the chain grows by one. *)
LEMMA NestedBegins ==
    ASSUME Inv, TypeOK', UNCHANGED setup, NEW a \in Agents, StartTool(a), InNested(a)
    PROVE  Inv'
<1>b. PICK b : b = Nested[cur[a]]
    OBVIOUS
<1>k. PICK k : k = Nesting
    OBVIOUS
<1>m. PICK m : m = Append(k, b)
    OBVIOUS
<1>0. /\ pc[a] = "ready" /\ b \in Agents \ {Top} /\ pc[b] = "out" /\ a # b
      /\ pc' = [pc EXCEPT ![a] = "run", ![b] = "begin"]
      /\ EnterContext(b) /\ UNCHANGED <<setup, cur>>
    BY <1>b, NestedAssumption DEF StartTool, InNested, loopVars
<1>1. a = ctx.endpoint /\ pc[Top] # "out" /\ pushed[a] /\ Top \in Agents
    BY <1>0, OnlyInnermost, NestedAssumption DEF Innermost, Inv, PushInv
<1>2. /\ k \in Seq(Agents) /\ Len(k) \in Nat \ {0} /\ k[Len(k)] = a /\ ChainOf(k)
      /\ k = Append(saved[a].stack, a) /\ \A i \in 1..Len(k) : k[i] \in Agents
      /\ ctx = ContextOf(a) /\ ctx.stack = k
    BY <1>1, <1>k, ChainFacts DEF Nesting, Inv, NestInv, ContextOf, StackOf
<1>3. /\ pc'[a] = "run" /\ pc'[b] = "begin" /\ \A c \in Agents : c # a /\ c # b => pc'[c] = pc[c]
      /\ saved'[b] = ctx /\ \A c \in Agents : c # b => saved'[c] = saved[c]
      /\ ~pushed'[b] /\ \A c \in Agents : c # b => pushed'[c] = pushed[c]
      /\ ctx'.endpoint = b /\ ctx'.stack = ctx.stack
      /\ ctx'.output = OutputOf(b, ctx.output)
    BY <1>0 DEF EnterContext, Inv, TypeOK, OutputOf, Contexts
<1>4. IdleInv' /\ PushInv'
    BY <1>0, <1>1, <1>3 DEF Inv, IdleInv, PushInv
<1>5. ctx' = ContextOf(b)'
  <2>1. ctx' = [endpoint |-> b, output |-> OutputOf(b, ctx.output), stack |-> ctx.stack]
      BY <1>0, <1>2 DEF EnterContext, OutputOf, ContextOf
  <2> QED
      BY <1>0, <1>3, <2>1 DEF ContextOf, OutputOf, StackOf, AllowsUser, Mode
<1>6. Nesting' = m
    BY <1>2, <1>3, <1>m DEF Nesting
<1>7. /\ Len(m) = Len(k) + 1 /\ Len(m) - 1 = Len(k) /\ m[Len(m)] = b /\ m[Len(k) + 1] = b
      /\ \A i \in 1..Len(k) : m[i] = k[i]
      /\ \A i \in 1..Len(m) : i \in 1..Len(k) \/ i = Len(m)
      /\ 1 \in 1..Len(k) /\ Len(m) \in 1..Len(m) /\ 1..Len(k) \subseteq 1..Len(m)
      /\ \A i \in 1..(Len(k) - 1) : i \in 1..Len(k) /\ i + 1 \in 1..Len(k)
      /\ \A i \in 1..Len(k) : i # Len(k) => i \in 1..(Len(k) - 1)
      /\ Len(k) \in 1..(Len(m) - 1)
    BY <1>0, <1>2, <1>m, AppendProperties
<1>8. \A i \in 1..Len(k) : k[i] # b /\ k[i] \in Agents
    BY <1>0, <1>2 DEF ChainOf
<1>9. ASSUME NEW i \in 1..(Len(m) - 1) PROVE Calls(m, i)'
  <2>0. i \in 1..Len(k) /\ k[i] \in Agents /\ k[i] # b /\ m[i] = k[i]
      BY <1>7, <1>8, <1>9
  <2>1. CASE i = Len(k)
    <3>1. saved'[a] = saved[a] /\ pushed'[a] = pushed[a] /\ setup' = setup
        BY <1>0, <1>3
    <3>2. ContextOf(a)' = ContextOf(a)
        BY <3>1 DEF ContextOf, OutputOf, StackOf, AllowsUser, Mode
    <3> QED
        BY <1>0, <1>b, <1>2, <1>3, <1>7, <2>0, <2>1, <3>2 DEF Calls, InNested
  <2>2. CASE i # Len(k)
    <3>1. i \in 1..(Len(k) - 1) /\ i + 1 \in 1..Len(k) /\ m[i + 1] = k[i + 1]
        BY <1>7, <2>0, <2>2
    <3>2. Calls(k, i) /\ k[i] # a /\ k[i + 1] # b /\ k[i + 1] \in Agents
        BY <1>2, <1>8, <2>0, <2>2, <3>1, <1>7 DEF ChainOf
    <3>3. ContextOf(k[i])' = ContextOf(k[i])
        BY <1>0, <1>3, <2>0 DEF ContextOf, OutputOf, StackOf, AllowsUser, Mode
    <3>4. pc'[k[i]] = pc[k[i]] /\ saved'[k[i + 1]] = saved[k[i + 1]] /\ cur' = cur
        BY <1>0, <1>3, <2>0, <3>2
    <3>5. Calls(k, i)'
        BY <3>2, <3>3, <3>4 DEF Calls, InNested
    <3> QED
        BY <2>0, <3>1, <3>5
           DEF Calls, InNested, ContextOf, OutputOf, StackOf, AllowsUser, Mode
  <2> QED
      BY <2>1, <2>2
<1>10. ASSUME NEW i \in 1..Len(m), saved'[m[i]].output \in {NoOutput, "cli"} PROVE Muted(m, i)'
  <2>1. \A j \in 1..Len(k) : Muted(k, j) => Muted(m, j)'
    <3> SUFFICES ASSUME NEW j \in 1..Len(k), Muted(k, j) PROVE Muted(m, j)'
        OBVIOUS
    <3>1. \A h \in 1..(j - 1) : h \in 1..Len(k)
        BY <1>2
    <3> QED
        BY <1>0, <1>7, <3>1 DEF Muted, AllowsUser, Mode
  <2>2. CASE i \in 1..Len(k)
    <3>1. saved'[m[i]] = saved[k[i]]
        BY <1>3, <1>7, <1>8, <2>2
    <3> QED
        BY <1>2, <1>10, <2>1, <2>2, <3>1 DEF ChainOf
  <2>3. CASE i = Len(m)
    <3>1. OutputOf(a, saved[a].output) \in {NoOutput, "cli"}
        BY <1>2, <1>3, <1>7, <1>10, <2>3 DEF ContextOf
    <3>2. CASE ~AllowsUser(a)
      <4>1. Len(k) \in 1..(i - 1) /\ m[Len(k)] = a
          BY <1>2, <1>7, <2>3
      <4> QED
          BY <1>0, <3>2, <4>1 DEF Muted, AllowsUser, Mode
    <3>3. CASE AllowsUser(a)
      <4>1. saved[k[Len(k)]].output \in {NoOutput, "cli"} /\ Len(k) \in 1..Len(k)
          BY <1>2, <3>1, <3>3 DEF OutputOf
      <4>2. Muted(m, Len(k))'
          BY <1>2, <2>1, <4>1 DEF ChainOf
      <4>3. \A h \in 1..(Len(k) - 1) : h \in 1..(i - 1)
          BY <1>2, <1>7, <2>3
      <4> QED
          BY <4>2, <4>3 DEF Muted
    <3> QED
        BY <3>2, <3>3
  <2> QED
      BY <1>7, <2>2, <2>3
<1>11. ChainOf(m)'
  <2>1. m[1] = Top
      BY <1>2, <1>7 DEF ChainOf
  <2>2. ASSUME NEW c \in Agents PROVE pc'[c] # "out" <=> \E i \in 1..Len(m) : m[i] = c
    <3>1. CASE c = b
        BY <1>3, <1>7, <3>1
    <3>2. CASE c # b
      <4>1. pc'[c] # "out" <=> pc[c] # "out"
          BY <1>0, <1>3, <3>2
      <4>2. pc[c] # "out" <=> \E i \in 1..Len(k) : k[i] = c
          BY <1>2 DEF ChainOf
      <4>3. (\E i \in 1..Len(k) : k[i] = c) <=> \E i \in 1..Len(m) : m[i] = c
          BY <1>7, <3>2
      <4> QED
          BY <4>1, <4>2, <4>3
    <3> QED
        BY <3>1, <3>2
  <2>3. ASSUME NEW i \in 1..Len(m), NEW j \in 1..Len(m), m[i] = m[j] PROVE i = j
    <3>0. /\ i \in 1..Len(k) => m[i] = k[i] /\ k[i] # b
          /\ j \in 1..Len(k) => m[j] = k[j] /\ k[j] # b
          /\ i \in 1..Len(k) \/ (i = Len(m) /\ m[i] = b)
          /\ j \in 1..Len(k) \/ (j = Len(m) /\ m[j] = b)
        BY <1>7, <1>8
    <3>1. CASE i \in 1..Len(k) /\ j \in 1..Len(k)
      <4>1. k[i] = k[j]
          BY <2>3, <3>0, <3>1
      <4> QED
          BY <1>2, <3>1, <4>1 DEF ChainOf
    <3> QED
        BY <2>3, <3>0, <3>1
  <2> QED
      BY <1>9, <1>10, <2>1, <2>2, <2>3 DEF ChainOf
<1>12. NestInv'
  <2>1. ChainOf(Nesting)'
      BY <1>6, <1>11 DEF ChainOf, Calls, Muted
  <2>2. saved'[Top] = HostContext
      BY <1>0, <1>1, <1>3 DEF Inv, NestInv
  <2> QED
      BY <1>0, <1>3, <1>5, <2>1, <2>2 DEF NestInv
<1> QED
    BY <1>4, <1>12 DEF Inv

(* The innermost invocation ends: the chain loses its last agent, and the   *)
(* context is again the one of the agent that called it.                    *)
LEMMA InnermostEnds ==
    ASSUME Inv, TypeOK', UNCHANGED setup, NEW a \in Agents, Finalize(a)
    PROVE  Inv'
<1>k. PICK k : k = Nesting
    OBVIOUS
<1>0. /\ pc[a] = "final" /\ pc' = [pc EXCEPT ![a] = "out"] /\ ctx' = RestoredContext(a)
      /\ Top \in Agents
      /\ \A c \in Agents : c # a => pc'[c] = pc[c] /\ cur'[c] = cur[c]
      /\ \A c \in Agents : c # a => saved'[c] = saved[c] /\ pushed'[c] = pushed[c]
      /\ ~pushed'[a] /\ pc'[a] = "out"
    BY NestedAssumption DEF Finalize, Goto, DropFrame, Inv, TypeOK
<1>1. a = ctx.endpoint /\ pc[Top] # "out" /\ ctx = ContextOf(a)
    BY <1>0, OnlyInnermost DEF Innermost, Inv, NestInv
<1>2. ctx' = saved[a]
  <2>1. saved[a] \in Contexts
      BY DEF Inv, TypeOK
  <2>2. ~pushed[a] => ctx.stack = saved[a].stack
      BY <1>1 DEF ContextOf, StackOf
  <2>3. RestoredContext(a) = [saved[a] EXCEPT !.stack = saved[a].stack]
      BY <2>2 DEF RestoredContext
  <2> QED
      BY <1>0, <2>1, <2>3 DEF Contexts
<1>3. /\ k \in Seq(Agents) /\ Len(k) \in Nat \ {0} /\ k[Len(k)] = a /\ ChainOf(k)
      /\ k = Append(saved[a].stack, a) /\ \A i \in 1..Len(k) : k[i] \in Agents
    BY <1>1, <1>k, ChainFacts DEF Nesting
<1>4. PushInv'
    BY <1>0 DEF Inv, PushInv
<1>5. CASE Len(k) = 1
  <2>1. a = Top
      BY <1>3, <1>5 DEF ChainOf
  <2>2. \A c \in Agents : pc[c] # "out" => c = a
    <3>1. \A i \in 1..Len(k) : k[i] = a
        BY <1>3, <1>5
    <3> QED
        BY <1>3, <3>1 DEF ChainOf
  <2>3. ctx' = HostContext
      BY <1>1, <1>2, <2>1 DEF Inv, NestInv
  <2>4. IdleInv' /\ NestInv'
      BY <1>0, <2>1, <2>2, <2>3 DEF IdleInv, NestInv
  <2> QED
      BY <1>4, <2>4 DEF Inv
<1>6. CASE Len(k) # 1
  <2>n. PICK n : n = Len(k) - 1
      OBVIOUS
  <2>c. PICK c : c = k[n]
      OBVIOUS
  <2>0. /\ n \in Nat \ {0} /\ Len(k) = n + 1 /\ n \in 1..Len(k) /\ n + 1 \in 1..Len(k)
        /\ \A i \in 1..n : i \in 1..Len(k) /\ i # n + 1
        /\ \A i \in 1..Len(k) : i \in 1..n \/ i = n + 1
        /\ \A i \in 1..(n - 1) : i \in 1..n /\ i + 1 \in 1..n
        /\ 1 \in 1..n
      BY <1>3, <1>6, <2>n
  <2>1. \A i \in 1..n : k[i] # a /\ k[i] \in Agents
      BY <1>3, <2>0 DEF ChainOf
  <2>2. c \in Agents /\ c # a /\ Top # a /\ k[1] = Top
      BY <1>3, <2>0, <2>1, <2>c DEF ChainOf
  <2>3. /\ pc[c] = "run" /\ saved[a] = ContextOf(c) /\ pushed[c] /\ \A i \in 1..n : Calls(k, i)
    <3>1. \A i \in 1..n : Calls(k, i)
        BY <1>3, <2>n DEF ChainOf
    <3>2. pc[c] = "run" /\ saved[k[n + 1]] = ContextOf(c)
        BY <2>0, <2>c, <3>1 DEF Calls
    <3> QED
        BY <1>3, <2>0, <2>2, <3>1, <3>2 DEF Inv, PushInv
  <2>4. saved'[c] = saved[c] /\ pushed'[c] = pushed[c] /\ ContextOf(c)' = ContextOf(c)
      BY <1>0, <2>2 DEF ContextOf, OutputOf, StackOf, AllowsUser, Mode
  <2>5. ctx' = ContextOf(c) /\ ctx'.endpoint = c /\ saved[c].stack \in Seq(Agents)
      BY <1>2, <2>2, <2>3 DEF ContextOf, Inv, TypeOK, Contexts
  <2>m. PICK m : m = Append(saved[c].stack, c)
      OBVIOUS
  <2>6. Nesting' = m
      BY <2>4, <2>5, <2>m DEF Nesting
  <2>7. saved[a].stack = m
      BY <2>3, <2>m DEF ContextOf, StackOf
  <2>8. m \in Seq(Agents) /\ Len(m) = n /\ \A i \in 1..n : m[i] = k[i]
    <3>1. m \in Seq(Agents)
        BY <2>2, <2>5, <2>m, AppendProperties
    <3>2. k = Append(m, a) /\ Len(m) \in Nat
        BY <1>3, <2>7, <3>1, LenProperties
    <3>3. Len(k) = Len(m) + 1 /\ \A i \in 1..Len(m) : k[i] = m[i]
        BY <3>1, <3>2, AppendProperties
    <3>4. Len(m) = n
        BY <2>0, <3>2, <3>3
    <3> QED
        BY <3>1, <3>3, <3>4
  <2>9. ChainOf(m)'
    <3>1. m[1] = Top
        BY <2>0, <2>2, <2>8
    <3>2. ASSUME NEW d \in Agents PROVE pc'[d] # "out" <=> \E i \in 1..n : k[i] = d
      <4>1. CASE d = a
          BY <1>0, <2>1, <4>1
      <4>2. CASE d # a
        <5>1. pc'[d] # "out" <=> \E i \in 1..Len(k) : k[i] = d
            BY <1>0, <1>3, <4>2 DEF ChainOf
        <5>2. (\E i \in 1..Len(k) : k[i] = d) <=> \E i \in 1..n : k[i] = d
            BY <1>3, <2>0, <4>2
        <5> QED
            BY <5>1, <5>2
      <4> QED
          BY <4>1, <4>2
    <3>3. \A i, j \in 1..n : m[i] = m[j] => i = j
        BY <1>3, <2>0, <2>8 DEF ChainOf
    <3>4. ASSUME NEW i \in 1..(n - 1) PROVE Calls(m, i)'
      <4>1. /\ Calls(k, i) /\ k[i] # a /\ k[i + 1] # a /\ k[i] \in Agents /\ k[i + 1] \in Agents
            /\ m[i] = k[i] /\ m[i + 1] = k[i + 1]
          BY <2>0, <2>1, <2>3, <2>8, <3>4
      <4>2. /\ pc'[k[i]] = pc[k[i]] /\ cur'[k[i]] = cur[k[i]] /\ saved'[k[i]] = saved[k[i]]
            /\ pushed'[k[i]] = pushed[k[i]] /\ saved'[k[i + 1]] = saved[k[i + 1]]
          BY <1>0, <4>1
      <4>3. ContextOf(k[i])' = ContextOf(k[i])
          BY <4>2 DEF ContextOf, OutputOf, StackOf, AllowsUser, Mode
      <4>4. Calls(k, i)'
          BY <4>1, <4>2, <4>3 DEF Calls, InNested
      <4> QED
          BY <4>1, <4>4 DEF Calls, InNested, ContextOf, OutputOf, StackOf, AllowsUser, Mode
    <3>5. ASSUME NEW i \in 1..n, saved'[m[i]].output \in {NoOutput, "cli"} PROVE Muted(m, i)'
      <4>1. saved'[m[i]] = saved[k[i]] /\ i \in 1..Len(k)
          BY <1>0, <2>0, <2>1, <2>8
      <4>2. Muted(k, i)
          BY <1>3, <3>5, <4>1 DEF ChainOf
      <4>3. \A j \in 1..(i - 1) : m[j] = k[j]
          BY <2>0, <2>8
      <4> QED
          BY <4>2, <4>3 DEF Muted, AllowsUser, Mode
    <3> QED
        BY <2>8, <3>1, <3>2, <3>3, <3>4, <3>5 DEF ChainOf
  <2>10. IdleInv'
      BY <1>0, <1>1, <2>2 DEF IdleInv
  <2>11. NestInv'
    <3>1. ChainOf(Nesting)'
        BY <2>6, <2>9 DEF ChainOf, Calls, Muted
    <3>2. saved'[Top] = HostContext
        BY <1>0, <1>1, <2>2 DEF Inv, NestInv
    <3>3. ctx' = ContextOf(ctx.endpoint)'
        BY <2>4, <2>5 DEF ContextOf, OutputOf, StackOf, AllowsUser, Mode
    <3> QED
        BY <2>2, <2>5, <3>1, <3>2, <3>3 DEF NestInv
  <2> QED
      BY <1>4, <2>10, <2>11 DEF Inv
<1> QED
    BY <1>5, <1>6

LEMMA TopBegins ==
    ASSUME Inv, TypeOK', UNCHANGED setup, InvokeTop
    PROVE  Inv'
<1>0. /\ pc[Top] = "out" /\ Top \in Agents /\ ctx = HostContext
      /\ \A c \in Agents : pc[c] = "out" /\ ~pushed[c]
      /\ pc'[Top] = "begin" /\ \A c \in Agents : c # Top => pc'[c] = "out"
      /\ saved'[Top] = HostContext /\ ~pushed'[Top]
      /\ \A c \in Agents : c # Top => pushed'[c] = pushed[c]
    BY NestedAssumption DEF InvokeTop, EnterContext, Goto, Inv, TypeOK, IdleInv, PushInv
<1>1. /\ ctx' = [endpoint |-> Top, output |-> OutputOf(Top, HostOutput), stack |-> <<>>]
      /\ ctx'.endpoint = Top
    BY <1>0 DEF InvokeTop, EnterContext, OutputOf, HostContext
<1>2. ctx' = ContextOf(Top)'
    BY <1>0, <1>1 DEF ContextOf, OutputOf, StackOf, AllowsUser, Mode, HostContext
<1>m. PICK m : m = <<Top>>
    OBVIOUS
<1>3. Nesting' = m
  <2>1. saved'[ctx'.endpoint].stack = <<>>
      BY <1>0, <1>1 DEF HostContext
  <2>2. Append(<<>>, Top) = <<Top>>
      OBVIOUS
  <2> QED
      BY <1>1, <1>m, <2>1, <2>2 DEF Nesting
<1>4. Len(m) = 1 /\ m[1] = Top
    BY <1>m
<1>5. ChainOf(m)'
  <2>1. \A i \in 1..Len(m) : saved'[m[i]].output \in {NoOutput, "cli"} => Muted(m, i)'
    <3>1. saved'[m[1]].output \in {NoOutput, "cli"} => HostOutput = NoOutput
        BY <1>0, <1>4, NamesAssumption DEF HostContext
    <3> QED
        BY <1>4, <3>1 DEF Muted
  <2> QED
      BY <1>0, <1>4, <2>1 DEF ChainOf
<1>6. NestInv'
  <2>1. ChainOf(Nesting)'
      BY <1>3, <1>5 DEF ChainOf, Calls, Muted
  <2> QED
      BY <1>0, <1>1, <1>2, <2>1 DEF NestInv
<1>7. IdleInv' /\ PushInv'
    BY <1>0 DEF IdleInv, PushInv
<1> QED
    BY <1>6, <1>7 DEF Inv

(* What the chain depends on. *)
LEMMA SameChain ==
    ASSUME Inv, TypeOK', UNCHANGED <<setup, pc, cur, ctxVars>>
    PROVE  Inv'
<1>1. UNCHANGED <<ctx, saved, pushed>>
    BY DEF ctxVars
<1>2. IdleInv' /\ PushInv'
    BY <1>1 DEF Inv, IdleInv, PushInv
<1>3. NestInv'
  <2>k. PICK k : k = Nesting
      OBVIOUS
  <2>1. Nesting' = k
      BY <1>1, <2>k DEF Nesting
  <2>2. \A a : ContextOf(a)' = ContextOf(a)
      BY <1>1 DEF ContextOf, OutputOf, StackOf, AllowsUser, Mode
  <2>3. \A i : Calls(k, i) => Calls(k, i)'
      BY <1>1, <2>2 DEF Calls, InNested
  <2>4. \A i : Muted(k, i) => Muted(k, i)'
      BY DEF Muted, AllowsUser, Mode
  <2>5. ChainOf(k) => ChainOf(k)'
      BY <1>1, <2>3, <2>4 DEF ChainOf
  <2>6. ChainOf(k)' => ChainOf(Nesting)'
      BY <2>1 DEF ChainOf, Calls, Muted
  <2>7. ContextOf(ctx.endpoint)' = ContextOf(ctx.endpoint)
      BY <1>1 DEF ContextOf, OutputOf, StackOf, AllowsUser, Mode
  <2> QED
      BY <1>1, <2>k, <2>5, <2>6, <2>7 DEF Inv, NestInv
<1> QED
    BY <1>2, <1>3 DEF Inv

(* The position that a loses in its loop, or keeps. *)
LEMMA RaiseMoves ==
    ASSUME NEW a \in Agents, NEW e, Raise(a, e)
    PROVE  \E x \in Inside \ {"begin"} : pc' = [pc EXCEPT ![a] = x]
BY DEF Raise, Leave, Goto, Inside

LEMMA ProceedInv ==
    ASSUME Inv, TypeOK', UNCHANGED setup, NEW a \in Agents, Proceed(a)
    PROVE  Inv'
<1>0. /\ cur \in [Agents -> Tools \cup {PromptLLM, NoTool}]
      /\ \A x \in {"check", "pick", "picked", "ready", "run", "ask", "final"} : x \in Inside \ {"begin"}
    BY DEF Inv, TypeOK, Inside
<1>1. CASE ResolveFails(a) \/ StartSinkRaises(a)
  <2>1. pc[a] = "begin" /\ pc' = [pc EXCEPT ![a] = "final"] /\ UNCHANGED <<cur, ctxVars>>
      BY <1>1 DEF ResolveFails, StartSinkRaises, Leave, Goto, loopVars
  <2>2. Innermost(a)
      BY <2>1 DEF Innermost
  <2> QED
      BY <1>0, <2>1, <2>2, LoopMoves
<1>2. CASE Begin(a)
    BY <1>2, BeginMoves
<1>3. ASSUME NEW here \in {"check", "picked"}, NEW there \in {"pick", "ready"},
             CheckCancelled(a, here, there)
      PROVE  Inv'
  <2>1. pc[a] = here /\ UNCHANGED <<cur, ctxVars>> /\ Innermost(a)
      BY <1>3 DEF CheckCancelled, loopVars, Innermost
  <2>2. PICK x \in Inside \ {"begin"} : pc' = [pc EXCEPT ![a] = x]
      BY <1>0, <1>3, RaiseMoves DEF CheckCancelled, Goto
  <2> QED
      BY <2>1, <2>2, LoopMoves
<1>4. CASE GetNextTool(a)
  <2>1. pc[a] = "pick" /\ UNCHANGED ctxVars /\ Innermost(a)
      BY <1>4 DEF GetNextTool, Innermost
  <2>2. CASE PickRaises(a)
    <3>1. UNCHANGED cur
        BY <2>2 DEF PickRaises
    <3>2. PICK x \in Inside \ {"begin"} : pc' = [pc EXCEPT ![a] = x]
        BY <2>2, RaiseMoves DEF PickRaises
    <3> QED
        BY <2>1, <3>1, <3>2, LoopMoves
  <2>3. ASSUME NEW t, Choose(a, t) PROVE Inv'
    <3>1. pc' = [pc EXCEPT ![a] = "picked"] /\ \A b \in Agents : b # a => cur'[b] = cur[b]
        BY <1>0, <2>3 DEF Choose, Goto
    <3> QED
        BY <1>0, <2>1, <3>1, LoopMoves
  <2>4. PickRaises(a) \/ \E t : Choose(a, t)
      BY <1>4 DEF GetNextTool, LoadSkill, PopDefault
  <2> QED
      BY <2>2, <2>3, <2>4
<1>5. CASE StartTool(a) /\ InNested(a)
    BY <1>5, NestedBegins
<1>6. CASE StartTool(a) /\ ~InNested(a)
  <2>1. pc[a] = "ready" /\ pc' = [pc EXCEPT ![a] = "run"] /\ UNCHANGED <<cur, ctxVars>>
      BY <1>6 DEF StartTool, Goto, loopVars
  <2>2. Innermost(a)
      BY <2>1 DEF Innermost
  <2> QED
      BY <1>0, <2>1, <2>2, LoopMoves
<1>7. ASSUME pc[a] = "run", ~InNested(a) \/ pc[Nested[cur[a]]] = "out", UNCHANGED <<cur, ctxVars>>,
             (\E o : Yield(a, o)) \/ (\E e : Raise(a, e))
      PROVE  Inv'
  <2>1. Innermost(a)
      BY <1>7 DEF Innermost
  <2>2. PICK x \in Inside \ {"begin"} : pc' = [pc EXCEPT ![a] = x]
      BY <1>0, <1>7, RaiseMoves DEF Yield, Leave, Goto
  <2> QED
      BY <1>7, <2>1, <2>2, LoopMoves
<1>8. CASE \/ \E o \in Tools \cup {"plain", "stop"} : ToolReturns(a, o)
           \/ \E e \in ToolErrors : ToolRaises(a, e)
    BY <1>7, <1>8 DEF ToolReturns, ToolRaises, loopVars
<1>9. CASE NestedReturns(a)
    BY <1>7, <1>9 DEF NestedReturns
<1>10. CASE UserAnswers(a) \/ \E e \in {"keyboard", "other"} : AskRaises(a, e)
  <2>1. pc[a] = "ask" /\ UNCHANGED ctxVars /\ \A b \in Agents : b # a => cur'[b] = cur[b]
      BY <1>0, <1>10 DEF UserAnswers, AskRaises, loopVars
  <2>2. PICK x \in Inside \ {"begin"} : pc' = [pc EXCEPT ![a] = x]
      BY <1>0, <1>10 DEF UserAnswers, AskRaises, Leave, Goto
  <2>3. Innermost(a)
      BY <2>1 DEF Innermost
  <2> QED
      BY <2>1, <2>2, <2>3, LoopMoves
<1>11. CASE Finalize(a)
    BY <1>11, InnermostEnds
<1> QED
    BY <1>1, <1>2, <1>3, <1>4, <1>5, <1>6, <1>8, <1>9, <1>10, <1>11 DEF Proceed

LEMMA NextInv == ASSUME Inv, [Next]_vars PROVE Inv'
<1>0. TypeOK'
    BY NextTypes DEF Inv
<1>1. CASE UNCHANGED vars
    BY <1>0, <1>1, SameChain DEF vars, loopVars
<1>2. CASE InvokeTop /\ UNCHANGED setup
    BY <1>0, <1>2, TopBegins
<1>3. ASSUME NEW a \in Agents, Cancel(a) \/ Interrupt(a), UNCHANGED setup PROVE Inv'
    BY <1>0, <1>3, SameChain DEF Cancel, Interrupt, loopVars
<1>4. ASSUME NEW a \in Agents, Step(a) PROVE Inv'
    BY <1>0, <1>4, ProceedInv DEF Step
<1> QED
    BY <1>1, <1>2, <1>3, <1>4 DEF Next

LEMMA InitInv == Init => Inv
<1> SUFFICES ASSUME Init PROVE Inv
    OBVIOUS
<1> QED
    BY InitTypes, NestedAssumption DEF Init, Inv, IdleInv, PushInv, NestInv

(* Every reachable state satisfies the inductive invariant. *)
THEOREM Invariant == Spec => []Inv
<1>1. Inv /\ [Next]_vars => Inv'
    BY NextInv
<1> QED
    BY <1>1, InitInv, PTL DEF Spec

(* The variables keep their types, whatever tools and skills return. *)
THEOREM TypeCorrect == Spec => []TypeOK
<1>1. Inv => TypeOK
    BY DEF Inv
<1> QED
    BY <1>1, Invariant, PTL

(* Whatever ends an invocation, at any depth, the context variables are     *)
(* those of the innermost running agent, and the host's when none is left   *)
(* (the finally clauses of Agent.invoke).                                   *)
THEOREM ContextComesBack == Spec => []ContextRestored
<1>1. ASSUME Inv PROVE ContextRestored
  <2>1. CASE pc[Top] = "out"
    <3>1. ctx = HostContext /\ \A a \in Agents : pc[a] = "out" /\ ~pushed[a]
        BY <1>1, <2>1 DEF Inv, IdleInv, PushInv
    <3>2. ctx.stack = <<>>
        BY <3>1 DEF HostContext
    <3> QED
        BY <2>1, <3>1, <3>2 DEF ContextRestored, Innermost
  <2>2. CASE pc[Top] # "out"
    <3>k. PICK k : k = Nesting
        OBVIOUS
    <3>e. PICK e : e = ctx.endpoint
        OBVIOUS
    <3>0. /\ e \in Agents /\ ctx = ContextOf(e) /\ k[Len(k)] = e /\ ChainOf(k)
          /\ Len(k) \in Nat \ {0} /\ saved[e].stack \in Seq(Agents)
          /\ Len(k) = Len(saved[e].stack) + 1 /\ k = Append(saved[e].stack, e)
          /\ \A i \in 1..(Len(k) - 1) : k[i] = saved[e].stack[i]
          /\ \A i \in 1..Len(k) : k[i] \in Agents
        BY <1>1, <2>2, <3>k, <3>e, ChainFacts DEF Inv, NestInv, Nesting
    <3>1. /\ DOMAIN ctx.stack = 1..(IF pushed[e] THEN Len(k) ELSE Len(k) - 1)
          /\ \A i \in DOMAIN ctx.stack : ctx.stack[i] = k[i] /\ i \in 1..Len(k)
      <4>1. CASE pushed[e]
        <5>1. ctx.stack = k /\ DOMAIN k = 1..Len(k)
            BY <3>0, <4>1, AppendProperties DEF ContextOf, StackOf
        <5> QED
            BY <4>1, <5>1
      <4>2. CASE ~pushed[e]
        <5>1. ctx.stack = saved[e].stack /\ DOMAIN ctx.stack = 1..(Len(k) - 1)
            BY <3>0, <4>2 DEF ContextOf, StackOf
        <5> QED
            BY <3>0, <4>2, <5>1
      <4> QED
          BY <4>1, <4>2
    <3>2. \A i \in 1..(Len(k) - 1) : pushed[k[i]] /\ Nested[cur[k[i]]] = k[i + 1]
      <4>1. \A i \in 1..(Len(k) - 1) : Calls(k, i) /\ k[i] \in Agents
          BY <3>0 DEF ChainOf
      <4> QED
          BY <1>1, <4>1 DEF Calls, Inv, PushInv
    <3>3. ASSUME NEW a \in Agents
          PROVE  pushed[a] <=> \E i \in DOMAIN ctx.stack : ctx.stack[i] = a
      <4>1. ASSUME pushed[a] PROVE \E i \in DOMAIN ctx.stack : ctx.stack[i] = a
        <5>1. PICK i \in 1..Len(k) : k[i] = a
            BY <1>1, <3>0, <4>1 DEF Inv, PushInv, ChainOf
        <5>2. i \in DOMAIN ctx.stack
            BY <3>0, <3>1, <4>1, <5>1
        <5> QED
            BY <3>1, <5>1, <5>2
      <4>2. ASSUME NEW i \in DOMAIN ctx.stack, ctx.stack[i] = a PROVE pushed[a]
        <5>1. CASE i = Len(k)
            BY <3>0, <3>1, <4>2, <5>1
        <5>2. CASE i # Len(k)
          <6>1. i \in 1..(Len(k) - 1) /\ k[i] = a
              BY <3>0, <3>1, <4>2, <5>2
          <6> QED
              BY <3>2, <6>1
        <5> QED
            BY <5>1, <5>2
      <4> QED
          BY <4>1, <4>2
    <3>4. ASSUME NEW i \in DOMAIN ctx.stack
          PROVE  ctx.stack[i] = IF i = 1 THEN Top ELSE Nested[cur[ctx.stack[i - 1]]]
      <4>1. CASE i = 1
          BY <3>0, <3>1, <4>1 DEF ChainOf
      <4>2. CASE i # 1
        <5>1. i - 1 \in 1..(Len(k) - 1) /\ i - 1 \in DOMAIN ctx.stack /\ (i - 1) + 1 = i
            BY <3>0, <3>1, <4>2
        <5> QED
            BY <3>1, <3>2, <4>2, <5>1
      <4> QED
          BY <4>1, <4>2
    <3>5. ASSUME NEW a \in Agents, Innermost(a)
          PROVE  /\ ctx.endpoint = a
                 /\ ctx.output = NoOutput <=> ~AllowsUser(a)
                 /\ ctx.output = "cli" =>
                      HostOutput = NoOutput \/ \E b \in Agents : pc[b] # "out" /\ ~AllowsUser(b)
      <4>1. a = e
          BY <1>1, <3>5, <3>e, OnlyInnermost
      <4>2. ctx.output = OutputOf(e, saved[e].output)
          BY <3>0 DEF ContextOf
      <4>3. ctx.output = NoOutput <=> ~AllowsUser(a)
          BY <4>1, <4>2, NamesAssumption DEF OutputOf
      <4>4. ASSUME ctx.output = "cli"
            PROVE  HostOutput = NoOutput \/ \E b \in Agents : pc[b] # "out" /\ ~AllowsUser(b)
        <5>1. saved[k[Len(k)]].output \in {NoOutput, "cli"} /\ Len(k) \in 1..Len(k)
            BY <3>0, <4>2, <4>4, NamesAssumption DEF OutputOf
        <5>2. Muted(k, Len(k))
            BY <3>0, <5>1 DEF ChainOf
        <5>3. \A j \in 1..(Len(k) - 1) : k[j] \in Agents /\ pc[k[j]] # "out"
            BY <3>0 DEF ChainOf
        <5> QED
            BY <5>2, <5>3 DEF Muted
      <4> QED
          BY <3>e, <4>1, <4>3, <4>4
    <3> QED
        BY <2>2, <3>3, <3>4, <3>5 DEF ContextRestored
  <2> QED
      BY <2>1, <2>2
<1> QED
    BY <1>1, Invariant, PTL

(* Every "started" is followed by its "stopped": finalize_run is reached    *)
(* however an invocation ends.                                              *)
THEOREM EveryStartStops == Spec => []StartedIsStopped
<1>1. Init => StartedIsStopped
    BY DEF Init, StartedIsStopped
<1>2. ASSUME TypeOK, TypeOK', StartedIsStopped, [Next]_vars PROVE StartedIsStopped'
  <2>1. ASSUME NEW a \in Agents, NEW x \in Inside, pc' = [pc EXCEPT ![a] = x],
               open' \subseteq open \cup {a}
        PROVE  StartedIsStopped'
      BY <1>2, <2>1 DEF StartedIsStopped, TypeOK, Inside
  <2>2. CASE UNCHANGED <<pc, open>>
      BY <1>2, <2>2 DEF StartedIsStopped
  <2>3. ASSUME NEW a \in Agents, Proceed(a) PROVE StartedIsStopped'
    <3>1. CASE Finalize(a)
        BY <1>2, <3>1 DEF Finalize, Goto, StartedIsStopped, TypeOK
    <3>2. CASE StartTool(a) /\ InNested(a)
      <4>1. open' = open /\ pc' = [pc EXCEPT ![a] = "run", ![Nested[cur[a]]] = "begin"]
          BY <3>2 DEF StartTool
      <4>2. \A b \in Agents : pc'[b] = "out" => pc[b] = "out"
          BY <1>2, <4>1 DEF TypeOK
      <4> QED
          BY <1>2, <4>1, <4>2 DEF StartedIsStopped, TypeOK
    <3>3. CASE ~Finalize(a) /\ ~(StartTool(a) /\ InNested(a))
      <4>1. /\ open' \subseteq open \cup {a}
            /\ \E x \in Inside : pc' = [pc EXCEPT ![a] = x]
          BY <2>3, <3>3, RaiseMoves DEF Proceed, ResolveFails, StartSinkRaises, Begin,
             InitializePipe, CheckCancelled, GetNextTool, LoadSkill, PopDefault, PickRaises,
             Choose, StartTool, ToolReturns, ToolRaises, NestedReturns, Yield, UserAnswers,
             AskRaises, Leave, Goto, Inside
      <4> QED
          BY <2>1, <4>1
    <3> QED
        BY <3>1, <3>2, <3>3
  <2>4. CASE InvokeTop
    <3>1. open' \subseteq open \cup {Top} /\ pc' = [pc EXCEPT ![Top] = "begin"]
        BY <2>4 DEF InvokeTop, Goto
    <3> QED
        BY <2>1, <3>1, NestedAssumption DEF Inside
  <2> QED
      BY <1>2, <2>2, <2>3, <2>4 DEF Next, Step, Cancel, Interrupt, vars
<1> QED
    BY <1>1, <1>2, TypeCorrect, PTL DEF Spec
=============================================================================
