------------------------------ MODULE Deployment ------------------------------
(***************************************************************************)
(* deployment.py: DeployableAgent.  Definitions of agents are put together *)
(* into a graph of nested and background children, given capabilities and  *)
(* a selection of them, inspected for their external dependencies and      *)
(* built into runtime agents; the handles of the background agents are     *)
(* then run by their parents (BackgroundAgent).                            *)
(*                                                                         *)
(* One application thread configures and builds.  A capability is its      *)
(* label, the attributes its build() needs and the resources of its tools; *)
(* an agent's endpoint is a fixed model or follows a ModelSelector.        *)
(***************************************************************************)
EXTENDS Naturals, Sequences, FiniteSets, BackgroundAgent

CONSTANTS
    Root,
    NameOf,         \* [Agents -> names]
    ModeOf,         \* [Agents -> execution modes]
    EndpointOf,     \* [Agents -> a resource, "route" or "none"], to begin with
    Endpoints,      \* the ones an application may set
    Labels,         \* [capability names -> label, needs and uses]
    Declared,       \* [Agents -> SUBSET capability names] by the constructor
    Extra,          \* capability names that may be added later
    Choices,        \* selections an application may ask for: name-choice pairs
    NoSelection,    \* None, which is not the empty selection
    Attachments,    \* children an application may attach
    Attributes,
    Models,         \* the resources of the ModelSelector's models
    DefaultModel,   \* its initial selection
    MaxEdges,       \* bound: children attached
    MaxChanges      \* bound: other changes of the configuration

\* An attachment of a child; nth tells two of the same child apart.
Edges == [from : Agents, to : Agents, how : {"nested", "background"}, nth : 1 .. 2]
ASSUME AttachmentsAssumption == Attachments \subseteq Edges
ASSUME ModelsAssumption == DefaultModel \in Models
ASSUME RootAssumption == Root \in Agents /\ IsFiniteSet(Agents)
ASSUME DeclaredAssumption ==
    Declared \in [Agents -> SUBSET DOMAIN Labels] /\ Extra \subseteq DOMAIN Labels

VARIABLES
    children,   \* _nested_agents and _background_agents: the edges of the graph
    caps,       \* _capabilities
    selection,  \* _capability_selection: a set of name-choice pairs, or NoSelection
    attrs,      \* _attributes
    endpoint,   \* agent_endpoint
    model,      \* the selection of the ModelSelector
    inspected,  \* what external_dependencies last returned
    covers,     \* the configuration is as it was then, selections aside
    changes,
    phase,      \* configuring, building or running
    factory,    \* whether build was given an event_sink_factory
    todo,       \* builds under way: node, whether it gets the caller's sinks (sinks)
                \* and sinks of its own from the factory (own)
    built,      \* the agents built, with their sinks and capabilities
    handles     \* background handles

configVars == <<children, caps, selection, attrs, endpoint, model, inspected, covers, changes>>
buildVars == <<phase, factory, todo, built, handles>>
vars == <<configVars, buildVars, bgVars>>

Init ==
    /\ children = {}
    /\ caps = Declared
    /\ selection = [a \in Agents |-> NoSelection]
    /\ attrs = [a \in Agents |-> {}]
    /\ endpoint = EndpointOf
    /\ model = DefaultModel
    /\ inspected = {} /\ covers = FALSE /\ changes = 0
    /\ phase = "configure" /\ factory = FALSE /\ todo = {} /\ built = {} /\ handles = {}
    /\ BgInit

-----------------------------------------------------------------------------
(* The graph.                                                               *)

\* _walk: the ways from a definition down its children, as sequences of edges.
\* A way goes on where it has not met its agent before, so that it takes no
\* edge twice.
At(root, way, k) == IF k = 0 THEN root ELSE way[k].to
Ancestors(root, way, k) == {At(root, way, j) : j \in 0 .. k - 1}
End(root, way) == At(root, way, Len(way))
Ways(root) ==
    {w \in UNION {[1 .. n -> children] : n \in 0 .. Cardinality(children)} :
        \A k \in DOMAIN w : /\ w[k].from = At(root, w, k - 1)
                            /\ At(root, w, k - 1) \notin Ancestors(root, w, k - 1)}

\* As if a definition met twice were visited once.
WalkAcceptsSeen(root) ==
    /\ \A w \in Ways(root) : End(root, w) \notin Ancestors(root, w, Len(w))
    /\ \A v, w \in Ways(root) : NameOf[End(root, v)] = NameOf[End(root, w)] => End(root, v) = End(root, w)
\* The walk raises where a way comes back to one of its agents and where two
\* ways end in agents of one name.
WalkAccepts(root) ==
    /\ \A w \in Ways(root) : End(root, w) \notin Ancestors(root, w, Len(w))
    /\ \A v, w \in Ways(root) : NameOf[End(root, v)] = NameOf[End(root, w)] => v = w
Foreground(w) == \A k \in DOMAIN w : w[k].how = "nested"
Walk(root, includeBackground) ==
    {End(root, w) : w \in {w \in Ways(root) : includeBackground \/ Foreground(w)}}

-----------------------------------------------------------------------------
(* Capabilities.                                                            *)

\* resolve_capabilities, for the capability c of agent a.
Resolve(a, c) ==
    LET label == Labels[c]
        asked == IF selection[a] = NoSelection THEN {"on"}
                 ELSE {x.choice : x \in {x \in selection[a] : x.cap = c}}
        choice == IF asked = {} THEN "off" ELSE CHOOSE x \in asked : TRUE
    IN IF ~label.selectable THEN "on"
       ELSE IF label.kind = "skill" /\ choice = "on" THEN label.loading ELSE choice
Enabled(a) == {c \in caps[a] : Resolve(a, c) # "off"}

\* _capability_errors is empty, for all capabilities or the enabled ones.
AttributesMet(a, cs) == \A c \in cs : Labels[c].needs \subseteq attrs[a]

\* set_capability_selection accepts; None clears the selection.
SelectionOk(a, choices) ==
    choices # NoSelection => \A x \in choices :
        /\ x.cap \in caps[a]
        /\ ~Labels[x.cap].selectable => x.choice = "on"
        /\ x.choice \in {"on_demand", "automatic"} => Labels[x.cap].kind = "skill"

\* _build_inputs: the field of the agent a capability goes to.
Route(a, c) ==
    LET choice == Resolve(a, c) IN
    IF Labels[c].kind = "skill"
    THEN IF choice = "automatic" \/ (choice = "on" /\ Labels[c].loading = "automatic")
         THEN "auto_loaded_skills" ELSE "skills"
    ELSE IF Labels[c].default THEN "default_tools" ELSE "tools"

\* LLMEndpointRoute follows the selector.
EndpointResources(a) ==
    IF ModeOf[a] = "deterministic" \/ endpoint[a] = "none" THEN {}
    ELSE IF endpoint[a] = "route" THEN {model} ELSE {endpoint[a]}

-----------------------------------------------------------------------------
(* Configuration, while nothing is being built.                             *)

\* A change of anything but a selection outdates the last inspection.
Change(outdates) ==
    /\ phase = "configure"
    /\ changes < MaxChanges /\ changes' = changes + 1
    /\ covers' = (covers /\ ~outdates)
    /\ UNCHANGED <<children, inspected, buildVars, bgVars>>

\* add_nested_agents and add_background_agents.
AddChild(edge) ==
    /\ phase = "configure"
    /\ Cardinality(children) < MaxEdges /\ edge \notin children
    /\ children' = children \cup {edge}
    /\ covers' = FALSE
    /\ UNCHANGED <<caps, selection, attrs, endpoint, model, inspected, changes, buildVars, bgVars>>

\* add_capabilities, which rejects a name that is there.
AddCapability(a, c) ==
    /\ c \notin caps[a]
    /\ caps' = [caps EXCEPT ![a] = @ \cup {c}]
    /\ Change(TRUE)
    /\ UNCHANGED <<selection, attrs, endpoint, model>>
SetSelection(a, choices) ==
    /\ SelectionOk(a, choices)
    /\ selection' = [selection EXCEPT ![a] = choices]
    /\ Change(FALSE)
    /\ UNCHANGED <<caps, attrs, endpoint, model>>
SetAttributes(a, x) ==
    /\ x \notin attrs[a]
    /\ attrs' = [attrs EXCEPT ![a] = @ \cup {x}]
    /\ Change(TRUE)
    /\ UNCHANGED <<caps, selection, endpoint, model>>
\* set_agent_endpoint, with None for "none".
SetEndpoint(a, e) ==
    /\ e # endpoint[a]
    /\ endpoint' = [endpoint EXCEPT ![a] = e]
    /\ Change(TRUE)
    /\ UNCHANGED <<caps, selection, attrs, model>>
\* ModelSelector.select.
SelectModel(m) ==
    /\ m # model
    /\ model' = m
    /\ Change(TRUE)
    /\ UNCHANGED <<caps, selection, attrs, endpoint>>

\* As if only what is selected were inspected.
InspectSelected ==
    /\ phase = "configure"
    /\ WalkAccepts(Root) /\ \A a \in Walk(Root, TRUE) : AttributesMet(a, caps[a])
    /\ inspected' = UNION {EndpointResources(a) \cup UNION {Labels[c].uses : c \in Enabled(a)} : a \in Walk(Root, TRUE)}
    /\ covers' = TRUE
    /\ UNCHANGED <<children, caps, selection, attrs, endpoint, model, changes, buildVars, bgVars>>

\* external_dependencies: every declared capability of every agent.
Inspect ==
    /\ phase = "configure"
    /\ WalkAccepts(Root) /\ \A a \in Walk(Root, TRUE) : AttributesMet(a, caps[a])
    /\ inspected' = UNION {EndpointResources(a) \cup UNION {Labels[c].uses : c \in caps[a]} : a \in Walk(Root, TRUE)}
    /\ covers' = TRUE
    /\ UNCHANGED <<children, caps, selection, attrs, endpoint, model, changes, buildVars, bgVars>>

-----------------------------------------------------------------------------
(* build                                                                    *)

Validates(a) == WalkAccepts(a) /\ \A x \in Walk(a, TRUE) : AttributesMet(x, Enabled(x))
ChildrenOf(a, how) == {e.to : e \in {e \in children : e.from = a /\ e.how = how}}

BeginBuild ==
    /\ phase = "configure"
    /\ Validates(Root)
    /\ phase' = "building"
    /\ factory' \in BOOLEAN
    /\ todo' = {[node |-> Root, sinks |-> TRUE, own |-> factory']}
    /\ UNCHANGED <<configVars, built, handles, bgVars>>

\* What Agent.__init__ asks of the mode of an agent.
Constructible(a) ==
    /\ ModeOf[a] # "deterministic" => endpoint[a] # "none"
    /\ ModeOf[a] = "deterministic" =>
        ChildrenOf(a, "background") # {} \/ \E c \in Enabled(a) : Route(a, c) = "default_tools"

\* As if the children of a background agent got the sinks of the root again.
BuildNodeAllSinks(b) ==
    /\ phase = "building" /\ b \in todo
    /\ Validates(b.node) /\ Constructible(b.node)
    /\ built' = built \cup {[agent |-> b.node, sinks |-> b.sinks, own |-> b.own,
                             inputs |-> {<<Route(b.node, c), c>> : c \in Enabled(b.node)}]}
    /\ handles' = handles \cup ChildrenOf(b.node, "background")
    /\ todo' = (todo \ {b}) \cup {[node |-> x, sinks |-> TRUE, own |-> b.own] : x \in ChildrenOf(b.node, "nested")}
                            \cup {[node |-> x, sinks |-> FALSE, own |-> b.own] : x \in ChildrenOf(b.node, "background")}
    /\ phase' = IF todo' = {} THEN "running" ELSE phase
    /\ UNCHANGED <<configVars, factory, bgVars>>

\* build of one definition: nested children inherit the sinks of the call,
\* background children get none, and the factory goes to both.
BuildNode(b) ==
    /\ phase = "building" /\ b \in todo
    /\ Validates(b.node) /\ Constructible(b.node)
    /\ built' = built \cup {[agent |-> b.node, sinks |-> b.sinks, own |-> b.own,
                             inputs |-> {<<Route(b.node, c), c>> : c \in Enabled(b.node)}]}
    /\ handles' = handles \cup ChildrenOf(b.node, "background")
    /\ todo' = (todo \ {b}) \cup {[node |-> x, sinks |-> b.sinks, own |-> b.own] : x \in ChildrenOf(b.node, "nested")}
                            \cup {[node |-> x, sinks |-> FALSE, own |-> b.own] : x \in ChildrenOf(b.node, "background")}
    /\ phase' = IF todo' = {} THEN "running" ELSE phase
    /\ UNCHANGED <<configVars, factory, bgVars>>

\* An agent that cannot be made: the whole build is given up.
BuildRaises ==
    /\ phase = "building"
    /\ \E b \in todo : ~(Validates(b.node) /\ Constructible(b.node))
    /\ phase' = "configure" /\ factory' = FALSE /\ todo' = {} /\ built' = {} /\ handles' = {}
    /\ UNCHANGED <<configVars, bgVars>>

\* The parents of the handles run them.  Handles share nothing, so one of
\* them is followed at a time.
RunHandle(b) ==
    /\ phase = "running" /\ b \in handles
    /\ \A x \in handles \ {b} : checks[x] = 0
    /\ BgNext(b)
    /\ UNCHANGED <<configVars, buildVars>>

Done == phase # "building" /\ UNCHANGED vars

Next ==
    \/ \E edge \in Attachments : AddChild(edge)
    \/ \E a \in Agents :
        \/ \E c \in Extra : AddCapability(a, c)
        \/ \E choices \in Choices : SetSelection(a, choices)
        \/ \E x \in Attributes : SetAttributes(a, x)
        \/ \E e \in Endpoints : SetEndpoint(a, e)
        \/ RunHandle(a)
    \/ \E m \in Models : SelectModel(m)
    \/ Inspect \/ BeginBuild \/ (\E b \in todo : BuildNode(b)) \/ BuildRaises
    \/ Done

Spec == Init /\ [][Next]_vars

-----------------------------------------------------------------------------
(***************************************************************************)
(* What _walk accepts is a tree with distinct names, said from the edges:  *)
(* of the agents that can be reached, the root is nobody's child, every    *)
(* other one is attached once, and no two have one name.  Cycles and       *)
(* shared children are both out, however late they were attached.          *)
(***************************************************************************)
Closed(agents) == Root \in agents /\ \A e \in children : e.from \in agents => e.to \in agents
Reach == {a \in Agents : \A agents \in SUBSET Agents : Closed(agents) => a \in agents}
WalkAcceptsTrees ==
    LET reached == Reach
        parents(a) == Cardinality({e \in children : e.from \in reached /\ e.to = a})
    IN WalkAccepts(Root) <=>
        /\ \A a \in reached : parents(a) = IF a = Root THEN 0 ELSE 1
        /\ \A a, b \in reached : NameOf[a] = NameOf[b] => a = b

(***************************************************************************)
(* An inspection before the build knows every resource of every agent that *)
(* was built, whatever was selected or deselected in between ("Inspect the *)
(* full declared graph, independently of capability selection").           *)
(***************************************************************************)
Uses(r) == EndpointResources(r.agent) \cup UNION {Labels[i[2]].uses : i \in r.inputs}
InspectionCovers == covers => \A r \in built : Uses(r) \subseteq inspected

(***************************************************************************)
(* A finished build has one runtime agent per definition of the graph; the *)
(* caller's sinks are on the agents agent_names lists without background   *)
(* branches, and no others; sinks of their own, where build was given a    *)
(* factory, are on all of them; every background child has its handle.     *)
(***************************************************************************)
BuildFollowsGraph ==
    LET all == Walk(Root, TRUE) IN
    phase = "running" =>
        /\ \A a \in Agents : Cardinality({r \in built : r.agent = a}) = IF a \in all THEN 1 ELSE 0
        /\ {r.agent : r \in {r \in built : r.sinks}} = Walk(Root, FALSE)
        /\ \A r \in built : r.own = factory
        /\ handles = {e.to : e \in {e \in children : e.from \in all /\ e.how = "background"}}
=============================================================================
