----------------------------- MODULE MCAgentLoop -----------------------------
(* The agent "root" with two default tools, a tool with a chained tool, a   *)
(* tool that stops, a skill that builds on another and a nested agent         *)
(* "child", which in one setup nests the agent "inner".                       *)
EXTENDS AgentLoop

MCAgents == {"root", "child", "inner"}
MCTools == {"d1", "d2", "t", "p", "q", "halt", "nest", "deep", "s1", "s2", "e"}
MCDefaults == [a \in MCAgents |-> IF a = "root" THEN <<"d1", "d2">> ELSE <<>>]
MCChained == [t \in MCTools |-> CASE t = "p" -> {"t", "d2"} [] t = "q" -> {"t"} [] OTHER -> {}]
MCNested == [t \in MCTools |-> CASE t = "nest" -> "child" [] t = "deep" -> "inner" [] OTHER -> NoAgent]
MCStopping == {"halt"}
\* "p" goes on to the nested agent where it is offered; "t" to a tool that stops
\* or to one that only a skill brings.
MCInvokes == [t \in MCTools |-> CASE t = "p" -> {"nest"} [] t = "t" -> {"halt", "e"} [] OTHER -> {}]
MCSkills == {"s1", "s2"}
MCDependsOn == [s \in MCSkills |-> IF s = "s1" THEN NoTool ELSE "s1"]
MCSkillTools == [s \in MCSkills |-> IF s = "s2" THEN {"e"} ELSE {}]

\* Tools for chains and nesting.
Chaining == [active |-> [a \in MCAgents |-> IF a = "root" THEN {"t", "halt", "nest"} ELSE {"halt"}],
             autoLoad |-> [a \in MCAgents |-> <<>>]]
\* Tools for skills: the root loads s1 by itself; the child has no s1 for its s2.
Skilled == [active |-> [a \in MCAgents |-> IF a = "root" THEN {"halt", "s1", "s2", "nest"}
                                          ELSE {"halt", "s2"}],
            autoLoad |-> [a \in MCAgents |-> IF a = "root" THEN <<"s1">> ELSE <<>>]]
\* Automatic skills that cannot all be loaded.
Misordered == [active |-> [a \in MCAgents |-> {"halt", "s1", "s2"}],
               autoLoad |-> [a \in MCAgents |-> <<"s2", "s1">>]]

\* Agents that nest two deep.
Nesting == [active |-> [root |-> {"nest"}, child |-> {"deep"}, inner |-> {"halt"}],
            autoLoad |-> [a \in MCAgents |-> <<>>]]

Made(root, child, with) ==
    [mode |-> [root |-> root, child |-> child, inner |-> "steerable"],
     active |-> with.active, autoLoad |-> with.autoLoad]

\* A steerable root over an autonomous child, an autonomous one over a steerable
\* child, a root without a model over a steerable child, one that cannot begin
\* and one whose child nests a steerable agent.
SkilledSetup == {Made("autonomous", "steerable", Skilled)}
AllSetups == SkilledSetup \cup
             {Made("steerable", "autonomous", Chaining),
              Made("deterministic", "steerable", Chaining),
              Made("steerable", "autonomous", Misordered),
              Made("steerable", "autonomous", Nesting)}
=============================================================================
