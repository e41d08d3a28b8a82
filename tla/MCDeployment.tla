----------------------------- MODULE MCDeployment -----------------------------
(* Four definitions, two of one name.  The root declares a fixed tool and    *)
(* two optional capabilities, the worker w a default tool that needs an      *)
(* attribute.                                                                *)
EXTENDS Deployment, TLC
CONSTANTS r, n, w, d

MCAgents == {r, n, w, d}
MCName == r :> "root" @@ n :> "helper" @@ w :> "worker" @@ d :> "helper"
MCMode == r :> "steerable" @@ n :> "autonomous" @@ w :> "deterministic" @@ d :> "autonomous"
MCEndpoint == r :> "route" @@ n :> "m1" @@ w :> "none" @@ d :> "none"
Label(kind, selectable, default, loading, needs, uses) ==
    [kind |-> kind, selectable |-> selectable, default |-> default, loading |-> loading,
     needs |-> needs, uses |-> uses]
MCLabels ==
    [files |-> Label("tool", FALSE, FALSE, "none", {}, {"exe"}),
     web   |-> Label("skill", TRUE, FALSE, "automatic", {}, {"net"}),
     watch |-> Label("tool", TRUE, TRUE, "none", {"path"}, {"socket"}),
     plan  |-> Label("skill", FALSE, FALSE, "on_demand", {}, {"exe", "db"})]
MCDeclared == r :> {"files", "web"} @@ n :> {"plan"} @@ w :> {"watch"} @@ d :> {}
Attach(a, how, b, nth) == [from |-> a, to |-> b, how |-> how, nth |-> nth]
MCAttachments ==
    {Attach(x[1], how, x[2], 1) : x \in {<<r, n>>, <<r, w>>, <<n, w>>, <<w, n>>}, how \in {"nested", "background"}}
    \cup {Attach(r, "nested", d, 1), Attach(n, "nested", r, 1), Attach(w, "background", w, 1), Attach(r, "nested", n, 2)}
Choice(c, x) == [cap |-> c, choice |-> x]
MCChoices == {NoSelection, {}, {Choice("files", "on")}, {Choice("web", "on_demand")},
              {Choice("files", "off")}, {Choice("watch", "automatic")}}

\* Once a child was called nothing but handles and their threads can change, and
\* what the graph and the build have to satisfy was checked when the build ended.
Called == \E b \in Agents : checks[b] > 0 \/ cancelled[b] # "down"
View == IF Called THEN <<phase, handles, bgVars>> ELSE <<vars>>
=============================================================================
