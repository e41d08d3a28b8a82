--------------------------- MODULE DeploymentProofs ---------------------------
(***************************************************************************)
(* Proofs about Deployment, for any definitions, attachments, capabilities *)
(* and number of checks.                                                   *)
(*                                                                         *)
(* OneCleanRun is not inductive: that the tool starts no second thread     *)
(* needs to know that the thread it remembers is the only one there is,    *)
(* whether or not its caller saw it start.  That no cancel() is lost after *)
(* the start was seen (StartedHeedsCancel) needs the event to be the one   *)
(* of the present run, which has its clear behind it.                      *)
(*                                                                         *)
(* The properties of the graph rest on the ways of _walk.  Parts of a way  *)
(* are ways, a way that has not come back goes on along every edge, and in *)
(* a graph that is accepted each agent has one way, which decides about    *)
(* its sinks.  What a build has begun is closed under attachment once      *)
(* nothing is left to build (BuildInv).                                    *)
(*                                                                         *)
(* Last, the monitor that watches a deployment's dependencies (Health), of *)
(* which a deployment knows no more than what an inspection returns: the   *)
(* two share no variable.  Its properties speak of threads, and what keeps *)
(* a second thread from starting is the task that is registered.  TaskInv  *)
(* ties the two together: a dependency has a thread (that no stop() cut    *)
(* off) exactly while its registered task runs, whatever its observer does *)
(* meanwhile.                                                              *)
(***************************************************************************)
EXTENDS Deployment, Health, FiniteSetTheorems, WellFoundedInduction, TLAPS

ThreadStates == {"none", "spawned", "cleared", "running", "dead"}
Signals == {"down", "run", "before"}

Remembered(b) ==
    /\ alive[b] = IF Alive(b) THEN 1 ELSE 0
    /\ thread[b] \in {"cleared", "running"} => cancelled[b] # "before"
    /\ event[b] => thread[b] \in {"running", "dead"}

ThreadInv ==
    /\ thread \in [Agents -> ThreadStates]
    /\ alive \in [Agents -> Nat]
    /\ cancelled \in [Agents -> Signals]
    /\ event \in [Agents -> BOOLEAN]
    /\ \A b \in Agents : Remembered(b)

-----------------------------------------------------------------------------
\* No thread has been started.
LEMMA InitInv == Init => ThreadInv
  BY DEF Init, BgInit, ThreadInv, Remembered, Alive, ThreadStates, Signals

\* What the others do is of no concern to b.
LEMMA OtherAgents ==
  ASSUME ThreadInv, NEW b \in Agents,
         thread' \in [Agents -> ThreadStates],
         alive' \in [Agents -> Nat],
         cancelled' \in [Agents -> Signals],
         event' \in [Agents -> BOOLEAN],
         \A x \in Agents \ {b} : /\ thread'[x] = thread[x] /\ alive'[x] = alive[x]
                                 /\ cancelled'[x] = cancelled[x] /\ event'[x] = event[x],
         Remembered(b)'
  PROVE  ThreadInv'
  BY DEF ThreadInv, Remembered, Alive

\* The tool starts a thread only where none is alive, and its event is new.
LEMMA CheckKeeps ==
  ASSUME ThreadInv, NEW b \in Agents, Check(b)
  PROVE  ThreadInv'
  <1>1. CASE Alive(b)
    BY <1>1 DEF Check, ThreadInv, Remembered, Alive
  <1>2. CASE ~Alive(b)
    <2>1. /\ thread' = [thread EXCEPT ![b] = "spawned"] /\ alive' = [alive EXCEPT ![b] = @ + 1]
          /\ cancelled' = [cancelled EXCEPT ![b] = IF @ = "run" THEN "before" ELSE @]
          /\ event' = [event EXCEPT ![b] = FALSE]
      BY <1>2 DEF Check
    <2>2. alive[b] = 0
      BY <1>2 DEF ThreadInv, Remembered
    <2>3. Remembered(b)'
      BY <2>1, <2>2 DEF ThreadInv, Remembered, Alive
    <2>4. /\ thread' \in [Agents -> ThreadStates] /\ alive' \in [Agents -> Nat]
          /\ cancelled' \in [Agents -> Signals] /\ event' \in [Agents -> BOOLEAN]
      BY <2>1, <2>2 DEF ThreadInv, ThreadStates, Signals
    <2>5. QED
      BY <2>1, <2>3, <2>4, OtherAgents DEF ThreadInv
  <1>3. QED
    BY <1>1, <1>2

\* The thread clears its signals, says that it started, ends or is cancelled.
LEMMA ThreadMoves ==
  ASSUME ThreadInv, NEW b \in Agents,
         StartFails(b) \/ Initialize(b) \/ EmitStarted(b) \/ ThreadEnds(b) \/ CancelChild(b)
  PROVE  ThreadInv'
  <1>1. CASE StartFails(b)
    <2>1. Remembered(b)' /\ UNCHANGED <<alive, cancelled>>
      BY <1>1 DEF StartFails, ThreadInv, Remembered, Alive
    <2>2. thread' \in [Agents -> ThreadStates] /\ event' \in [Agents -> BOOLEAN]
      BY <1>1 DEF StartFails, ThreadInv, ThreadStates
    <2>3. QED
      BY <1>1, <2>1, <2>2, OtherAgents DEF StartFails, ThreadInv
  <1>2. CASE Initialize(b)
    <2>1. Remembered(b)' /\ UNCHANGED <<alive, event>>
      BY <1>2 DEF Initialize, ThreadInv, Remembered, Alive
    <2>2. thread' \in [Agents -> ThreadStates] /\ cancelled' \in [Agents -> Signals]
      BY <1>2 DEF Initialize, ThreadInv, ThreadStates, Signals
    <2>3. QED
      BY <1>2, <2>1, <2>2, OtherAgents DEF Initialize, ThreadInv
  <1>3. CASE EmitStarted(b)
    <2>1. Remembered(b)' /\ UNCHANGED <<alive, cancelled>>
      BY <1>3 DEF EmitStarted, ThreadInv, Remembered, Alive
    <2>2. thread' \in [Agents -> ThreadStates]
      BY <1>3 DEF EmitStarted, ThreadInv, ThreadStates
    <2>3. event' \in [Agents -> BOOLEAN]
      <3>1. (event[b] \/ sink[b]) \in BOOLEAN
        OBVIOUS
      <3>2. QED
        BY <1>3, <3>1 DEF EmitStarted, ThreadInv
    <2>4. QED
      BY <1>3, <2>1, <2>2, <2>3, OtherAgents DEF EmitStarted, ThreadInv
  <1>4. CASE ThreadEnds(b)
    <2>1. alive[b] = 1
      BY <1>4 DEF ThreadEnds, ThreadInv, Remembered
    <2>2. Remembered(b)' /\ UNCHANGED <<cancelled, event>> /\ alive' \in [Agents -> Nat]
      BY <1>4, <2>1 DEF ThreadEnds, ThreadInv, Remembered, Alive
    <2>3. thread' \in [Agents -> ThreadStates]
      BY <1>4 DEF ThreadEnds, ThreadInv, ThreadStates
    <2>4. QED
      BY <1>4, <2>2, <2>3, OtherAgents DEF ThreadEnds, ThreadInv
  <1>5. CASE CancelChild(b)
    <2>1. Remembered(b)' /\ UNCHANGED <<thread, alive, event>>
      BY <1>5 DEF CancelChild, ThreadInv, Remembered, Alive
    <2>2. cancelled' \in [Agents -> Signals]
      BY <1>5 DEF CancelChild, ThreadInv, Signals
    <2>3. QED
      BY <1>5, <2>1, <2>2, OtherAgents DEF CancelChild, ThreadInv
  <1>6. QED
    BY <1>1, <1>2, <1>3, <1>4, <1>5

LEMMA ThreadKeeps ==
  ASSUME ThreadInv, NEW b \in Agents, BgNext(b)
  PROVE  ThreadInv'
  <1>1. CASE StartSeen(b) \/ StartTimeout(b)
    BY <1>1 DEF StartSeen, StartTimeout, Unsubscribe, ThreadInv, Remembered, Alive
  <1>2. QED
    BY <1>1, CheckKeeps, ThreadMoves DEF BgNext

\* Configuration, inspection and build leave the background agents alone.
LEMMA QuietStep ==
  ASSUME ThreadInv, UNCHANGED bgVars
  PROVE  ThreadInv'
  BY DEF bgVars, ThreadInv, Remembered, Alive

LEMMA StepInv == ThreadInv /\ [Next]_vars => ThreadInv'
  <1> SUFFICES ASSUME ThreadInv, [Next]_vars PROVE ThreadInv'
    OBVIOUS
  <1>1. ASSUME NEW b \in Agents, RunHandle(b) PROVE ThreadInv'
    BY <1>1, ThreadKeeps DEF RunHandle
  <1>2. CASE \E edge \in Attachments : AddChild(edge)
    BY <1>2, QuietStep DEF AddChild
  <1>3. ASSUME NEW a \in Agents,
               \/ \E c \in Extra : AddCapability(a, c)
               \/ \E choices \in Choices : SetSelection(a, choices)
               \/ \E x \in Attributes : SetAttributes(a, x)
               \/ \E e \in Endpoints : SetEndpoint(a, e)
        PROVE  ThreadInv'
    BY <1>3, QuietStep DEF AddCapability, SetSelection, SetAttributes, SetEndpoint, Change
  <1>4. CASE (\E m \in Models : SelectModel(m)) \/ Inspect
    BY <1>4, QuietStep DEF SelectModel, Change, Inspect
  <1>5. CASE BeginBuild \/ (\E b \in todo : BuildNode(b)) \/ BuildRaises
    BY <1>5, QuietStep DEF BeginBuild, BuildNode, BuildRaises
  <1>6. CASE Done \/ UNCHANGED vars
    BY <1>6, QuietStep DEF Done, vars
  <1>7. QED
    BY <1>1, <1>2, <1>3, <1>4, <1>5, <1>6 DEF Next

LEMMA Invariant == Spec => []ThreadInv
  BY InitInv, StepInv, PTL DEF Spec

\* A background child has one thread at most, and a run that has cleared its
\* signals heeds no cancel() that came before it did.
THEOREM BackgroundRunsAreClean == Spec => []OneCleanRun
  <1>1. ThreadInv => OneCleanRun
    BY DEF ThreadInv, Remembered, OneCleanRun
  <1>2. QED
    BY <1>1, Invariant, PTL

\* Only Initialize and a new thread touch a signal that is up, and neither
\* happens to a child that was seen to start and whose thread is alive.
LEMMA SignalStays ==
  ASSUME ThreadInv, [Next]_vars, NEW b \in Agents,
         event[b], Alive(b), cancelled[b] # "down"
  PROVE  cancelled'[b] # "down"
  <1>1. thread[b] = "running"
    BY DEF ThreadInv, Remembered, Alive
  <1>2. ASSUME NEW a \in Agents, RunHandle(a) PROVE cancelled'[b] # "down"
    <2>1. cancelled' = cancelled \/ a # b => cancelled'[b] = cancelled[b]
      BY <1>2 DEF RunHandle, BgNext, Check, StartFails, StartSeen, StartTimeout, Unsubscribe,
                  Initialize, EmitStarted, ThreadEnds, CancelChild, ThreadInv
    <2>2. CASE a = b
      BY <1>1, <1>2, <2>2 DEF RunHandle, BgNext, Check, StartFails, StartSeen, StartTimeout,
                  Unsubscribe, Initialize, EmitStarted, ThreadEnds, CancelChild, Alive
    <2>3. QED
      BY <2>1, <2>2
  <1>3. CASE UNCHANGED bgVars
    BY <1>3 DEF bgVars
  <1>4. QED
    BY <1>2, <1>3 DEF Next, AddChild, AddCapability, SetSelection, SetAttributes, SetEndpoint,
         SelectModel, Change, Inspect, BeginBuild, BuildNode, BuildRaises, Done, vars

\* After a child was seen to start, no cancel() is lost before its thread ends.
THEOREM StartedChildHeedsCancel == Spec => StartedHeedsCancel
  <1>1. ThreadInv /\ [Next]_vars =>
          [\A b \in Agents :
             event[b] /\ Alive(b) /\ cancelled[b] # "down" => cancelled'[b] # "down"]_bgVars
    BY SignalStays
  <1>2. QED
    BY <1>1, Invariant, PTL DEF Spec, StartedHeedsCancel

-----------------------------------------------------------------------------
(* The ways of _walk in a graph of attachments.                             *)

GraphOk == children \subseteq Edges /\ IsFiniteSet(children)

\* What a way is, without the bound on its length.
LEMMA WayIs ==
  ASSUME NEW root, NEW w \in Ways(root)
  PROVE  /\ w \in Seq(children) /\ Len(w) \in 0 .. Cardinality(children)
         /\ \A k \in 1 .. Len(w) : /\ w[k] \in children
                                   /\ w[k].from = At(root, w, k - 1)
                                   /\ At(root, w, k - 1) \notin Ancestors(root, w, k - 1)
  <1>1. PICK n \in 0 .. Cardinality(children) : w \in [1 .. n -> children]
    BY DEF Ways
  <1>2. w \in Seq(children) /\ Len(w) = n /\ DOMAIN w = 1 .. n
    BY <1>1
  <1>3. QED
    BY <1>1, <1>2 DEF Ways

LEMMA IsWay ==
  ASSUME NEW root, NEW w \in Seq(children), Len(w) \in 0 .. Cardinality(children),
         \A k \in 1 .. Len(w) : /\ w[k].from = At(root, w, k - 1)
                                /\ At(root, w, k - 1) \notin Ancestors(root, w, k - 1)
  PROVE  w \in Ways(root)
  <1>1. w \in [1 .. Len(w) -> children]
    OBVIOUS
  <1>2. QED
    BY <1>1 DEF Ways

LEMMA EdgesFinite ==
  ASSUME GraphOk
  PROVE  Cardinality(children) \in Nat
  BY FS_CardinalityType DEF GraphOk

\* A way meets agents.
LEMMA WayMeetsAgents ==
  ASSUME GraphOk, NEW root \in Agents, NEW w \in Ways(root), NEW k \in 0 .. Len(w)
  PROVE  At(root, w, k) \in Agents
  BY WayIs DEF GraphOk, Edges, At

LEMMA EmptyWay ==
  ASSUME GraphOk, NEW root
  PROVE  <<>> \in Ways(root) /\ End(root, <<>>) = root
  <1> DEFINE w == <<>>
  <1>1. w \in Seq(children) /\ Len(w) = 0
    OBVIOUS
  <1> HIDE DEF w
  <1>2. Len(w) \in 0 .. Cardinality(children) /\ 1 .. Len(w) = {}
    BY <1>1, EdgesFinite
  <1>3. w \in Ways(root)
    BY <1>1, <1>2, IsWay
  <1>4. End(root, w) = root
    BY <1>1 DEF End, At
  <1>5. QED
    BY <1>3, <1>4 DEF w

\* What a way has come through is a way.
LEMMA PrefixIsWay ==
  ASSUME GraphOk, NEW root, NEW w \in Ways(root), NEW k \in 0 .. Len(w)
  PROVE  /\ SubSeq(w, 1, k) \in Ways(root) /\ Len(SubSeq(w, 1, k)) = k
         /\ End(root, SubSeq(w, 1, k)) = At(root, w, k)
  <1> DEFINE v == SubSeq(w, 1, k)
  <1>1. w \in Seq(children) /\ Len(w) \in 0 .. Cardinality(children)
    BY WayIs
  <1>2. v \in Seq(children) /\ Len(v) = k /\ \A i \in 1 .. k : v[i] = w[i]
    BY <1>1
  <1>3. \A i \in 0 .. k : At(root, v, i) = At(root, w, i)
    BY <1>2 DEF At
  <1>4. \A i \in 1 .. k : Ancestors(root, v, i - 1) = Ancestors(root, w, i - 1)
    BY <1>3 DEF Ancestors
  <1> HIDE DEF v
  <1>5. v \in Ways(root)
    <2>1. Len(v) \in 0 .. Cardinality(children)
      BY <1>1, <1>2, EdgesFinite
    <2>2. \A i \in 1 .. Len(v) : /\ v[i].from = At(root, v, i - 1)
                                 /\ At(root, v, i - 1) \notin Ancestors(root, v, i - 1)
      <3> SUFFICES ASSUME NEW i \in 1 .. k
                   PROVE  /\ v[i].from = At(root, v, i - 1)
                          /\ At(root, v, i - 1) \notin Ancestors(root, v, i - 1)
        BY <1>2
      <3>1. i \in 1 .. Len(w) /\ i - 1 \in 0 .. k
        BY <1>1
      <3>2. QED
        BY <1>2, <1>3, <1>4, <3>1, WayIs
    <2>3. QED
      BY <1>2, <2>1, <2>2, IsWay
  <1>6. QED
    BY <1>2, <1>3, <1>5 DEF v, End

\* A way that has not come back goes on along every edge of its end: its edges
\* leave distinct agents, so they are no more than there are.
LEMMA LongerIsWay ==
  ASSUME GraphOk, NEW root, NEW w \in Ways(root),
         End(root, w) \notin Ancestors(root, w, Len(w)),
         NEW e \in children, e.from = End(root, w)
  PROVE  /\ Append(w, e) \in Ways(root) /\ Len(Append(w, e)) = Len(w) + 1
         /\ End(root, Append(w, e)) = e.to
  <1> DEFINE n == Len(w)
             v == Append(w, e)
  <1>1. w \in Seq(children) /\ n \in Nat
    BY WayIs
  <1>2. v \in Seq(children) /\ Len(v) = n + 1 /\ v[n + 1] = e /\ \A i \in 1 .. n : v[i] = w[i]
    BY <1>1
  <1>3. At(root, v, n + 1) = e.to /\ \A i \in 0 .. n : At(root, v, i) = At(root, w, i)
    BY <1>1, <1>2 DEF At
  <1>4. \A i \in 1 .. n + 1 : Ancestors(root, v, i - 1) = Ancestors(root, w, i - 1)
    BY <1>1, <1>3 DEF Ancestors
  <1> HIDE DEF v
  <1>5. ASSUME NEW i \in 1 .. n + 1
        PROVE  /\ v[i].from = At(root, v, i - 1)
               /\ At(root, v, i - 1) \notin Ancestors(root, v, i - 1)
    <2>1. i - 1 \in 0 .. n
      BY <1>1
    <2>2. CASE i = n + 1
      BY <1>1, <1>2, <1>3, <1>4, <2>1, <2>2 DEF End
    <2>3. CASE i # n + 1
      <3>1. i \in 1 .. Len(w)
        BY <1>1, <2>3
      <3>2. QED
        BY <1>2, <1>3, <1>4, <2>1, <3>1, WayIs
    <2>4. QED
      BY <2>2, <2>3
  <1>6. v \in Injection(1 .. n + 1, children)
    <2>1. ASSUME NEW i \in 1 .. n + 1, NEW j \in 1 .. n + 1, i < j PROVE v[i] # v[j]
      <3>1. i - 1 \in 0 .. (j - 1) - 1
        BY <1>1, <2>1
      <3>2. At(root, v, i - 1) \in Ancestors(root, v, j - 1)
        BY <3>1 DEF Ancestors
      <3>3. QED
        BY <1>5, <3>2
    <2>2. \A i, j \in 1 .. n + 1 : v[i] = v[j] => i = j
      BY <1>1, <2>1
    <2>3. v \in [1 .. n + 1 -> children]
      BY <1>1, <1>2
    <2>4. QED
      BY <2>2, <2>3 DEF Injection, IsInjective
  <1>7. n + 1 <= Cardinality(children)
    <2>1. Cardinality(1 .. n + 1) <= Cardinality(children)
      BY <1>6, FS_Injection DEF GraphOk
    <2>2. Cardinality(1 .. n + 1) = n + 1
      BY <1>1, FS_Interval
    <2>3. QED
      BY <2>1, <2>2
  <1>8. v \in Ways(root)
    <2>1. Len(v) \in 0 .. Cardinality(children)
      BY <1>1, <1>2, <1>7, EdgesFinite
    <2>2. QED
      BY <1>2, <1>5, <2>1, IsWay
  <1>9. QED
    BY <1>2, <1>3, <1>8 DEF v, End

\* A finite set of numbers that is not empty has a least one: among the sets of
\* its numbers below each of them there is a smallest, which is empty.
LEMMA LeastExists ==
  ASSUME NEW S, S \subseteq Nat, IsFiniteSet(S), S # {}
  PROVE  \E i \in S : \A j \in S : i <= j
  <1> DEFINE Less(i) == {j \in S : j < i}
             T == {Less(i) : i \in S}
  <1>1. T \subseteq SUBSET S /\ T # {}
    OBVIOUS
  <1>2. PICK U \in T : \A V \in T : <<V, U>> \notin StrictSubsetOrdering(S)
    <2> HIDE DEF T
    <2>1. T \subseteq FiniteSubsetsOf(S)
      BY <1>1, FS_FiniteSubsetsOfFinite
    <2>2. QED
      BY <1>1, <2>1, FS_StrictSubsetOrderingWellFounded, WFMin
  <1>3. PICK i \in S : U = Less(i)
    OBVIOUS
  <1>4. ASSUME NEW j \in S, j < i PROVE FALSE
    <2>1. j \in U /\ j \notin Less(j)
      <3>1. j \in Nat /\ ~(j < j)
        OBVIOUS
      <3>2. QED
        BY <1>3, <1>4, <3>1
    <2>2. Less(j) \subseteq U
      <3>1. \A k \in S : k < j => k < i
        BY <1>4
      <3>2. QED
        BY <1>3, <3>1
    <2>3. Less(j) \in T /\ <<Less(j), U>> \in StrictSubsetOrdering(S)
      BY <2>1, <2>2, <1>3 DEF StrictSubsetOrdering
    <2>4. QED
      BY <2>3, <1>2
  <1>5. QED
    BY <1>4

\* A way never leaves a set that has its root and the children of its members:
\* there would be a first agent outside.
LEMMA WayStaysIn ==
  ASSUME NEW root, NEW S, root \in S, \A e \in children : e.from \in S => e.to \in S,
         NEW w \in Ways(root), NEW k \in 0 .. Len(w)
  PROVE  At(root, w, k) \in S
  <1> DEFINE T == {i \in 0 .. Len(w) : At(root, w, i) \notin S}
  <1> SUFFICES ASSUME T # {} PROVE FALSE
    OBVIOUS
  <1>1. w \in Seq(children) /\ Len(w) \in Nat
    BY WayIs
  <1>2. T \subseteq Nat /\ IsFiniteSet(T)
    <2>1. IsFiniteSet(0 .. Len(w))
      BY <1>1, FS_Interval
    <2>2. T \subseteq 0 .. Len(w)
      OBVIOUS
    <2> HIDE DEF T
    <2>3. T \in SUBSET (0 .. Len(w)) /\ T \subseteq Nat
      BY <1>1, <2>2
    <2>4. IsFiniteSet(T)
      BY <2>1, <2>3, FS_Subset
    <2>5. QED
      BY <2>3, <2>4
  <1>3. PICK i \in T : \A j \in T : i <= j
    <2> HIDE DEF T
    <2>1. QED
      BY <1>2, LeastExists
  <1>4. i # 0
    BY DEF At
  <1>5. i - 1 \in 0 .. Len(w) /\ i \in 1 .. Len(w)
    BY <1>1, <1>4
  <1>6. At(root, w, i - 1) \in S
    BY <1>3, <1>5
  <1>7. w[i] \in children /\ w[i].from = At(root, w, i - 1)
    BY <1>5, WayIs
  <1>8. At(root, w, i) = w[i].to
    BY <1>4 DEF At
  <1>9. QED
    BY <1>6, <1>7, <1>8

-----------------------------------------------------------------------------
(* In a graph that _walk accepts.                                           *)

\* The agents it lists are closed under attachment, and each has one way.
LEMMA WalkIsClosed ==
  ASSUME GraphOk, NEW root \in Agents, WalkAccepts(root)
  PROVE  /\ root \in Walk(root, TRUE)
         /\ \A e \in children : e.from \in Walk(root, TRUE) => e.to \in Walk(root, TRUE)
  <1>1. root \in Walk(root, TRUE)
    BY EmptyWay DEF Walk
  <1>2. ASSUME NEW e \in children, e.from \in Walk(root, TRUE) PROVE e.to \in Walk(root, TRUE)
    <2>1. PICK w \in Ways(root) : e.from = End(root, w)
      BY <1>2 DEF Walk
    <2>2. Append(w, e) \in Ways(root) /\ End(root, Append(w, e)) = e.to
      BY <2>1, LongerIsWay DEF WalkAccepts
    <2>3. QED
      BY <2>2 DEF Walk
  <1>3. QED
    BY <1>1, <1>2

LEMMA WalkIsAgents ==
  ASSUME GraphOk, NEW root \in Agents, NEW background
  PROVE  Walk(root, background) \subseteq Agents
  <1> SUFFICES ASSUME NEW w \in Ways(root) PROVE End(root, w) \in Agents
    BY DEF Walk
  <1>1. Len(w) \in 0 .. Len(w)
    BY WayIs
  <1>2. QED
    BY <1>1, WayMeetsAgents DEF End

\* A way meets agents that can be reached, in any graph.
LEMMA WayReaches ==
  ASSUME GraphOk, NEW w \in Ways(Root), NEW k \in 0 .. Len(w)
  PROVE  At(Root, w, k) \in Reach
  <1>1. \A S \in SUBSET Agents : Closed(S) => At(Root, w, k) \in S
    BY WayStaysIn DEF Closed
  <1>2. QED
    BY <1>1, RootAssumption, WayMeetsAgents DEF Reach

\* The agents _walk lists are those that can be reached.
LEMMA WalkIsReach ==
  ASSUME GraphOk, WalkAccepts(Root)
  PROVE  Walk(Root, TRUE) = Reach
  <1>1. ASSUME NEW w \in Ways(Root) PROVE End(Root, w) \in Reach
    <2>1. Len(w) \in 0 .. Len(w)
      BY WayIs
    <2>2. QED
      BY <2>1, WayReaches DEF End
  <1>2. Closed(Walk(Root, TRUE)) /\ Walk(Root, TRUE) \subseteq Agents
    BY WalkIsClosed, WalkIsAgents, RootAssumption DEF Closed
  <1>3. Reach \subseteq Walk(Root, TRUE)
    BY <1>2 DEF Reach
  <1>4. QED
    BY <1>1, <1>3 DEF Walk

-----------------------------------------------------------------------------
(* _walk accepts trees and nothing else.                                    *)

Into(a) == {e \in children : e.from \in Reach /\ e.to = a}

\* A way from the root, its last edge and what comes before.
LEMMA LastEdge ==
  ASSUME GraphOk, NEW w \in Ways(Root), Len(w) # 0
  PROVE  /\ w[Len(w)] \in Into(End(Root, w))
         /\ Len(w) - 1 \in 0 .. Len(w)
         /\ SubSeq(w, 1, Len(w) - 1) \in Ways(Root)
         /\ Len(SubSeq(w, 1, Len(w) - 1)) = Len(w) - 1
         /\ End(Root, SubSeq(w, 1, Len(w) - 1)) = w[Len(w)].from
         /\ w = Append(SubSeq(w, 1, Len(w) - 1), w[Len(w)])
  <1> DEFINE n == Len(w)
  <1>1. w \in Seq(children) /\ n \in Nat /\ n \in 1 .. Len(w) /\ n - 1 \in 0 .. Len(w)
    BY WayIs
  <1>2. w[n] \in children /\ w[n].from = At(Root, w, n - 1) /\ w[n].to = End(Root, w)
    BY <1>1, WayIs DEF End, At
  <1>3. w[n].from \in Reach
    BY <1>1, <1>2, WayReaches
  <1>4. /\ SubSeq(w, 1, n - 1) \in Ways(Root) /\ Len(SubSeq(w, 1, n - 1)) = n - 1
        /\ End(Root, SubSeq(w, 1, n - 1)) = At(Root, w, n - 1)
    BY <1>1, PrefixIsWay
  <1>5. w = Append(SubSeq(w, 1, n - 1), w[n])
    BY <1>1
  <1>6. QED
    BY <1>1, <1>2, <1>3, <1>4, <1>5 DEF Into

\* Where the root is nobody's child and the others are attached once, two ways
\* that end in one agent are one: else there would be a shortest way with
\* another one to its end, and both would have come by the same edge.
LEMMA OneWay ==
  ASSUME GraphOk, Into(Root) = {},
         \A a \in Reach : \A d, e \in Into(a) : d = e,
         NEW v \in Ways(Root), NEW w \in Ways(Root), End(Root, v) = End(Root, w)
  PROVE  v = w
  <1> DEFINE Twice(x) == \E y \in Ways(Root) : End(Root, x) = End(Root, y) /\ x # y
             T == {n \in 0 .. Cardinality(children) : \E x \in Ways(Root) : Len(x) = n /\ Twice(x)}
  <1>1. \A x \in Ways(Root) : Twice(x) => Len(x) \in T
    BY WayIs
  <1> SUFFICES ASSUME T # {} PROVE FALSE
    BY <1>1
  <1>2. T \subseteq Nat /\ IsFiniteSet(T)
    <2>1. IsFiniteSet(0 .. Cardinality(children))
      BY EdgesFinite, FS_Interval
    <2>2. T \subseteq 0 .. Cardinality(children)
      OBVIOUS
    <2> HIDE DEF T
    <2>3. IsFiniteSet(T)
      BY <2>1, <2>2, FS_Subset
    <2>4. QED
      BY EdgesFinite, <2>2, <2>3
  <1>3. PICK n \in T : \A m \in T : n <= m
    <2> HIDE DEF T
    <2>1. QED
      BY <1>2, LeastExists
  <1>4. PICK x \in Ways(Root), y \in Ways(Root) : Len(x) = n /\ End(Root, x) = End(Root, y) /\ x # y
    OBVIOUS
  <1> HIDE DEF T
  <1>5. x \in Seq(children) /\ y \in Seq(children)
    BY WayIs
  <1>6. ASSUME NEW z \in Ways(Root), Len(z) = 0 PROVE z = <<>> /\ End(Root, z) = Root
    BY <1>6, WayIs, EmptyWay
  <1>7. Len(x) # 0 /\ Len(y) # 0
    <2>1. ASSUME NEW z \in Ways(Root), Len(z) # 0 PROVE End(Root, z) # Root
      BY <2>1, LastEdge
    <2>2. QED
      BY <1>4, <1>6, <2>1
  <1> DEFINE px == SubSeq(x, 1, Len(x) - 1)
             py == SubSeq(y, 1, Len(y) - 1)
  <1>8. x[Len(x)] = y[Len(y)]
    <2>1. x[Len(x)] \in Into(End(Root, x)) /\ y[Len(y)] \in Into(End(Root, x))
      BY <1>4, <1>7, LastEdge
    <2>2. End(Root, x) \in Reach
      <3>1. Len(x) \in 0 .. Len(x)
        BY <1>5
      <3>2. QED
        BY <3>1, WayReaches DEF End
    <2>3. QED
      BY <2>1, <2>2
  <1>9. /\ px \in Ways(Root) /\ py \in Ways(Root) /\ Len(px) = Len(x) - 1
        /\ End(Root, px) = End(Root, py)
        /\ x = Append(px, x[Len(x)]) /\ y = Append(py, x[Len(x)])
    BY <1>7, <1>8, LastEdge
  <1> HIDE DEF px, py
  <1>10. px # py
    BY <1>4, <1>9
  <1>11. Len(px) \in T
    BY <1>1, <1>9, <1>10
  <1>12. QED
    BY <1>3, <1>4, <1>5, <1>9, <1>11

TreeOk ==
    /\ \A a \in Reach : Cardinality(Into(a)) = IF a = Root THEN 0 ELSE 1
    /\ \A a, b \in Reach : NameOf[a] = NameOf[b] => a = b

LEMMA TreeIsAccepted ==
  ASSUME GraphOk, TreeOk
  PROVE  WalkAccepts(Root)
  <1>1. ASSUME NEW a PROVE IsFiniteSet(Into(a))
    BY FS_Subset DEF GraphOk, Into
  <1>2. Root \in Reach
    BY RootAssumption DEF Reach, Closed
  <1>3. Into(Root) = {}
    BY <1>1, <1>2, FS_EmptySet DEF TreeOk
  <1>4. ASSUME NEW a \in Reach, NEW d \in Into(a), NEW e \in Into(a) PROVE d = e
    <2>1. a # Root
      BY <1>3, <1>4
    <2>2. Cardinality(Into(a)) = 1
      BY <2>1 DEF TreeOk
    <2>3. QED
      BY <1>1, <2>2, FS_Singleton
  <1>5. \A v, w \in Ways(Root) : End(Root, v) = End(Root, w) => v = w
    BY <1>3, <1>4, OneWay
  <1>6. ASSUME NEW w \in Ways(Root), NEW j \in 0 .. Len(w) - 1, End(Root, w) = At(Root, w, j)
        PROVE  FALSE
    <2>1. Len(w) \in Nat /\ j \in 0 .. Len(w) /\ j # Len(w)
      BY WayIs
    <2>2. /\ SubSeq(w, 1, j) \in Ways(Root) /\ Len(SubSeq(w, 1, j)) = j
          /\ End(Root, SubSeq(w, 1, j)) = At(Root, w, j)
      BY <2>1, PrefixIsWay
    <2>3. SubSeq(w, 1, j) = w
      BY <1>5, <1>6, <2>2
    <2>4. QED
      BY <2>1, <2>2, <2>3
  <1>7. ASSUME NEW v \in Ways(Root), NEW w \in Ways(Root), NameOf[End(Root, v)] = NameOf[End(Root, w)]
        PROVE  v = w
    <2>1. Len(v) \in 0 .. Len(v) /\ Len(w) \in 0 .. Len(w)
      BY WayIs
    <2>2. End(Root, v) \in Reach /\ End(Root, w) \in Reach
      BY <2>1, WayReaches DEF End
    <2>3. QED
      BY <1>5, <1>7, <2>2 DEF TreeOk
  <1>8. QED
    BY <1>6, <1>7 DEF WalkAccepts, Ancestors

LEMMA AcceptedIsTree ==
  ASSUME GraphOk, WalkAccepts(Root)
  PROVE  TreeOk
  <1>1. ASSUME NEW a \in Reach PROVE \E w \in Ways(Root) : a = End(Root, w)
    BY WalkIsReach DEF Walk
  <1>2. ASSUME NEW e \in children, e.from \in Reach
        PROVE  \E w \in Ways(Root) : /\ Append(w, e) \in Ways(Root)
                                     /\ End(Root, Append(w, e)) = e.to
                                     /\ e.to # Root
                                     /\ w \in Seq(children)
    <2>1. PICK w \in Ways(Root) : e.from = End(Root, w)
      BY <1>1, <1>2
    <2>2. /\ Append(w, e) \in Ways(Root) /\ Len(Append(w, e)) = Len(w) + 1
          /\ End(Root, Append(w, e)) = e.to
      BY <2>1, LongerIsWay DEF WalkAccepts
    <2>3. w \in Seq(children) /\ 0 \in 0 .. (Len(w) + 1) - 1
      BY WayIs
    <2>4. Root \in Ancestors(Root, Append(w, e), Len(Append(w, e)))
      BY <2>2, <2>3 DEF Ancestors, At
    <2>5. e.to # Root
      BY <2>2, <2>4 DEF WalkAccepts
    <2>6. QED
      BY <2>2, <2>3, <2>5
  <1>3. ASSUME NEW a, NEW d \in Into(a), NEW e \in Into(a) PROVE d = e
    <2>1. PICK v \in Ways(Root) : Append(v, d) \in Ways(Root) /\ End(Root, Append(v, d)) = a /\ v \in Seq(children)
      BY <1>2 DEF Into
    <2>2. PICK w \in Ways(Root) : Append(w, e) \in Ways(Root) /\ End(Root, Append(w, e)) = a /\ w \in Seq(children)
      BY <1>2 DEF Into
    <2>3. Append(v, d) = Append(w, e)
      BY <2>1, <2>2 DEF WalkAccepts
    <2>4. d \in children /\ e \in children
      BY DEF Into
    <2>5. Append(v, d)[Len(Append(v, d))] = d /\ Append(w, e)[Len(Append(w, e))] = e
      BY <2>1, <2>2, <2>4
    <2>6. QED
      BY <2>3, <2>5
  <1>4. Into(Root) = {}
    BY <1>2 DEF Into
  <1>5. ASSUME NEW a \in Reach, a # Root PROVE Cardinality(Into(a)) = 1
    <2>1. PICK w \in Ways(Root) : a = End(Root, w)
      BY <1>1
    <2>2. Len(w) # 0
      BY <1>5, <2>1 DEF End, At
    <2>3. w[Len(w)] \in Into(a)
      BY <2>1, <2>2, LastEdge
    <2>4. Into(a) = {w[Len(w)]}
      BY <1>3, <2>3
    <2>5. QED
      BY <2>4, FS_Singleton
  <1>6. ASSUME NEW a \in Reach, NEW b \in Reach, NameOf[a] = NameOf[b] PROVE a = b
    <2>1. PICK v \in Ways(Root) : a = End(Root, v)
      BY <1>1
    <2>2. PICK w \in Ways(Root) : b = End(Root, w)
      BY <1>1
    <2>3. QED
      BY <1>6, <2>1, <2>2 DEF WalkAccepts
  <1>7. QED
    BY <1>4, <1>5, <1>6, FS_EmptySet DEF TreeOk

-----------------------------------------------------------------------------
(* Inspection and build.  While a build is under way the graph is one that  *)
(* _walk accepts and nothing is configured; what is to be built, and what   *)
(* was, are agents of the walk with the sinks their way entitles them to.   *)

WayTo(a) == CHOOSE w \in Ways(Root) : End(Root, w) = a
Sinks(a) == Foreground(WayTo(a))
Inputs(a) == {<<Route(a, c), c>> : c \in Enabled(a)}
Resources == UNION {EndpointResources(a) \cup UNION {Labels[c].uses : c \in caps[a]} : a \in Walk(Root, TRUE)}
Begun == {b.node : b \in todo} \cup {r.agent : r \in built}
Finished == {r.agent : r \in built}

BuildInv ==
    /\ phase \in {"configure", "building", "running"}
    /\ phase = "configure" => todo = {} /\ built = {} /\ handles = {}
    /\ phase # "configure" => WalkAccepts(Root) /\ Root \in Begun
    /\ phase = "running" => todo = {}
    /\ \A b \in todo : /\ b.node \in Walk(Root, TRUE)
                       /\ b = [node |-> b.node, sinks |-> Sinks(b.node), own |-> factory]
    /\ \A r \in built : /\ r.agent \in Walk(Root, TRUE)
                        /\ r = [agent |-> r.agent, sinks |-> Sinks(r.agent), own |-> factory, inputs |-> Inputs(r.agent)]
    /\ \A e \in children : e.from \in Finished => e.to \in Begun
    /\ handles = {e.to : e \in {e \in children : e.from \in Finished /\ e.how = "background"}}

CoverInv == covers => inspected = Resources
GraphInv == GraphOk /\ BuildInv /\ CoverInv

\* An agent of the walk has its way, and so have its children.
LEMMA WayToAgent ==
  ASSUME GraphOk, WalkAccepts(Root), NEW w \in Ways(Root)
  PROVE  WayTo(End(Root, w)) = w
  <1>1. \A v \in Ways(Root) : End(Root, v) = End(Root, w) => v = w
    BY DEF WalkAccepts
  <1>2. QED
    BY <1>1 DEF WayTo

LEMMA SinksOfChild ==
  ASSUME GraphOk, WalkAccepts(Root), NEW e \in children, e.from \in Walk(Root, TRUE)
  PROVE  /\ e.to \in Walk(Root, TRUE)
         /\ Sinks(e.to) = (Sinks(e.from) /\ e.how = "nested")
  <1>1. PICK w \in Ways(Root) : e.from = End(Root, w)
    BY DEF Walk
  <1>2. Append(w, e) \in Ways(Root) /\ End(Root, Append(w, e)) = e.to
    BY <1>1, LongerIsWay DEF WalkAccepts
  <1>3. WayTo(e.from) = w /\ WayTo(e.to) = Append(w, e)
    BY <1>1, <1>2, WayToAgent
  <1>4. w \in Seq(children)
    BY WayIs
  <1>5. Foreground(Append(w, e)) = (Foreground(w) /\ e.how = "nested")
    <2>1. /\ DOMAIN Append(w, e) = 1 .. Len(w) + 1 /\ DOMAIN w = 1 .. Len(w) /\ Len(w) \in Nat
          /\ Append(w, e)[Len(w) + 1] = e /\ \A k \in 1 .. Len(w) : Append(w, e)[k] = w[k]
      BY <1>4
    <2>2. QED
      <3>1. Foreground(w) <=> \A k \in 1 .. Len(w) : Append(w, e)[k].how = "nested"
        BY <2>1 DEF Foreground
      <3>2. Foreground(Append(w, e)) <=> \A k \in 1 .. Len(w) + 1 : Append(w, e)[k].how = "nested"
        BY <2>1 DEF Foreground
      <3>3. 1 .. Len(w) + 1 = (1 .. Len(w)) \cup {Len(w) + 1}
        BY <2>1
      <3>4. Foreground(Append(w, e)) <=> Foreground(w) /\ e.how = "nested"
        BY <2>1, <3>1, <3>2, <3>3
      <3>5. QED
        BY <3>4 DEF Foreground
  <1>6. QED
    BY <1>2, <1>3, <1>5, WalkIsClosed, RootAssumption DEF Sinks

\* What is built depends on the graph, the capabilities and the selection only.
LEMMA SameWalk ==
  ASSUME children' = children, NEW root
  PROVE  /\ Ways(root)' = Ways(root)
         /\ \A background : Walk(root, background)' = Walk(root, background)
         /\ WalkAccepts(root)' = WalkAccepts(root)
  <1>1. Ways(root)' = Ways(root)
    BY DEF Ways, At, Ancestors
  <1>2. QED
    BY <1>1 DEF Walk, WalkAccepts, End, At, Ancestors, Foreground

LEMMA SameConfig ==
  ASSUME children' = children, caps' = caps, endpoint' = endpoint, model' = model
  PROVE  /\ Walk(Root, TRUE)' = Walk(Root, TRUE) /\ WalkAccepts(Root)' = WalkAccepts(Root)
         /\ Resources' = Resources
         /\ \A a : Sinks(a)' = Sinks(a)
         /\ selection' = selection => \A a : Inputs(a)' = Inputs(a)
  <1>1. Ways(Root)' = Ways(Root) /\ Walk(Root, TRUE)' = Walk(Root, TRUE) /\ WalkAccepts(Root)' = WalkAccepts(Root)
    BY SameWalk
  <1>2. \A a : Sinks(a)' = Sinks(a)
    BY <1>1 DEF Sinks, WayTo, Foreground, End, At
  <1>3. \A a : EndpointResources(a)' = EndpointResources(a)
    BY DEF EndpointResources
  <1>4. Resources' = Resources
    BY <1>1, <1>3 DEF Resources
  <1>5. selection' = selection => \A a : Inputs(a)' = Inputs(a)
    BY DEF Inputs, Enabled, Route, Resolve
  <1>6. QED
    BY <1>1, <1>2, <1>4, <1>5

LEMMA NothingBuilt ==
  ASSUME phase' = "configure", todo' = {}, built' = {}, handles' = {}
  PROVE  BuildInv'
  BY DEF BuildInv, Finished, Begun

LEMMA GraphInit == Init => GraphInv
  <1> SUFFICES ASSUME Init PROVE GraphInv
    OBVIOUS
  <1>1. GraphOk
    BY FS_EmptySet DEF Init, GraphOk
  <1>2. BuildInv /\ CoverInv
    BY DEF Init, BuildInv, CoverInv, Finished, Begun
  <1>3. QED
    BY <1>1, <1>2 DEF GraphInv

\* A change of the configuration happens between builds and, unless it is a
\* selection, outdates the inspection.
LEMMA ConfigureKeeps ==
  ASSUME GraphInv,
         \/ \E edge \in Attachments : AddChild(edge)
         \/ \E a \in Agents : \/ \E c \in Extra : AddCapability(a, c)
                              \/ \E choices \in Choices : SetSelection(a, choices)
                              \/ \E x \in Attributes : SetAttributes(a, x)
                              \/ \E e \in Endpoints : SetEndpoint(a, e)
         \/ \E m \in Models : SelectModel(m)
         \/ Inspect
  PROVE  GraphInv'
  <1>1. phase = "configure" /\ UNCHANGED <<phase, todo, built, handles>>
    BY DEF AddChild, AddCapability, SetSelection, SetAttributes, SetEndpoint, SelectModel, Inspect, Change, buildVars
  <1>2. BuildInv'
    BY <1>1, NothingBuilt DEF GraphInv, BuildInv
  <1>3. GraphOk'
    <2>1. CASE children' = children
      BY <2>1 DEF GraphInv, GraphOk
    <2>2. ASSUME NEW edge \in Attachments, children' = children \cup {edge} PROVE GraphOk'
      BY <2>2, AttachmentsAssumption, FS_AddElement DEF GraphInv, GraphOk
    <2>3. QED
      BY <2>1, <2>2 DEF AddChild, AddCapability, SetSelection, SetAttributes, SetEndpoint, SelectModel, Inspect, Change
  <1>4. CoverInv'
    <2>1. \/ ~covers'
          \/ UNCHANGED <<children, caps, endpoint, model>> /\ covers' = covers /\ inspected' = inspected
          \/ UNCHANGED <<children, caps, endpoint, model>> /\ inspected' = Resources
      <3>1. CASE Inspect
        BY <3>1 DEF Inspect, Resources
      <3>2. CASE \E a \in Agents : \E choices \in Choices : SetSelection(a, choices)
        BY <3>2 DEF SetSelection, Change, GraphInv, BuildInv
      <3>3. QED
        BY <3>1, <3>2 DEF AddChild, AddCapability, SetAttributes, SetEndpoint, SelectModel, Change
    <2>2. UNCHANGED <<children, caps, endpoint, model>> => Resources' = Resources
      BY SameConfig
    <2>3. covers => inspected = Resources
      BY DEF GraphInv, CoverInv
    <2>4. covers' => inspected' = Resources'
      <3>1. CASE ~covers'
        BY <3>1
      <3>2. CASE UNCHANGED <<children, caps, endpoint, model>> /\ covers' = covers /\ inspected' = inspected
        BY <2>2, <2>3, <3>2
      <3>3. CASE UNCHANGED <<children, caps, endpoint, model>> /\ inspected' = Resources
        BY <2>2, <3>3
      <3>4. QED
        BY <2>1, <3>1, <3>2, <3>3
    <2>5. QED
      BY <2>4 DEF CoverInv
  <1>5. QED
    BY <1>2, <1>3, <1>4 DEF GraphInv

LEMMA BeginKeeps ==
  ASSUME GraphInv, BeginBuild
  PROVE  BuildInv'
  <1>1. /\ UNCHANGED <<children, caps, selection, endpoint, model, built, handles>> /\ built = {} /\ handles = {}
        /\ phase' = "building" /\ todo' = {[node |-> Root, sinks |-> TRUE, own |-> factory']} /\ WalkAccepts(Root) /\ GraphOk
    BY DEF BeginBuild, configVars, GraphInv, BuildInv, Validates
  <1>2. Root \in Walk(Root, TRUE) /\ Sinks(Root) = TRUE
    <2>1. <<>> \in Ways(Root) /\ End(Root, <<>>) = Root
      BY <1>1, EmptyWay
    <2>2. WayTo(Root) = <<>>
      BY <1>1, <2>1, WayToAgent
    <2>3. QED
      BY <2>1, <2>2 DEF Walk, Sinks, Foreground
  <1>3. /\ Walk(Root, TRUE)' = Walk(Root, TRUE) /\ WalkAccepts(Root)' = WalkAccepts(Root)
        /\ Sinks(Root)' = Sinks(Root)
    BY <1>1, SameConfig
  <1>4. Finished' = {} /\ Root \in Begun'
    BY <1>1 DEF Finished, Begun
  <1>5. \A b \in todo' : b.node \in Walk(Root, TRUE)' /\ b = [node |-> b.node, sinks |-> Sinks(b.node)', own |-> factory']
    <2> SUFFICES ASSUME NEW b \in todo'
                 PROVE  b.node \in Walk(Root, TRUE)' /\ b = [node |-> b.node, sinks |-> Sinks(b.node)', own |-> factory']
      OBVIOUS
    <2>1. b.node = Root /\ b = [node |-> Root, sinks |-> TRUE, own |-> factory']
      BY <1>1
    <2>2. Sinks(b.node)' = TRUE
      BY <1>2, <1>3, <2>1
    <2>3. QED
      BY <1>2, <1>3, <2>1, <2>2
  <1>6. handles' = {e.to : e \in {e \in children' : e.from \in Finished' /\ e.how = "background"}}
    BY <1>1, <1>4
  <1>7. QED
    BY <1>1, <1>3, <1>4, <1>5, <1>6 DEF BuildInv

\* The children of an agent that is built are begun, with the sinks their way
\* entitles them to.
LEMMA BuildKeeps ==
  ASSUME GraphInv, NEW b \in todo, BuildNode(b)
  PROVE  BuildInv'
  <1> DEFINE rec == [agent |-> b.node, sinks |-> b.sinks, own |-> b.own, inputs |-> Inputs(b.node)]
             nested == {[node |-> x, sinks |-> b.sinks, own |-> b.own] : x \in ChildrenOf(b.node, "nested")}
             background == {[node |-> x, sinks |-> FALSE, own |-> b.own] : x \in ChildrenOf(b.node, "background")}
  <1>1. /\ UNCHANGED <<children, caps, selection, endpoint, model, factory>>
        /\ phase = "building" /\ phase' = (IF todo' = {} THEN "running" ELSE phase)
        /\ built' = built \cup {rec}
        /\ todo' = (todo \ {b}) \cup nested \cup background
        /\ handles' = handles \cup ChildrenOf(b.node, "background")
    BY DEF BuildNode, configVars, Inputs
  <1>2. WalkAccepts(Root) /\ GraphOk /\ b.node \in Walk(Root, TRUE) /\ b.sinks = Sinks(b.node) /\ b.own = factory
    <2>1. b = [node |-> b.node, sinks |-> Sinks(b.node), own |-> factory]
      BY DEF GraphInv, BuildInv
    <2>2. b.sinks = Sinks(b.node) /\ b.own = factory
      BY <2>1
    <2>3. QED
      BY <1>1, <2>2 DEF GraphInv, BuildInv
  <1>3. /\ Walk(Root, TRUE)' = Walk(Root, TRUE) /\ WalkAccepts(Root)' = WalkAccepts(Root)
        /\ \A a : Sinks(a)' = Sinks(a) /\ Inputs(a)' = Inputs(a)
    BY <1>1, SameConfig
  <1>4. rec.agent = b.node /\ rec = [agent |-> rec.agent, sinks |-> Sinks(rec.agent), own |-> factory, inputs |-> Inputs(rec.agent)]
    BY <1>2
  <1>5. Finished' = Finished \cup {b.node}
    BY <1>1, <1>4 DEF Finished
  <1>6. ASSUME NEW t \in nested \cup background
        PROVE  t.node \in Walk(Root, TRUE) /\ t = [node |-> t.node, sinks |-> Sinks(t.node), own |-> factory]
    <2>1. PICK e \in children : /\ e.from = b.node
                                /\ t = [node |-> e.to, sinks |-> (b.sinks /\ e.how = "nested"), own |-> b.own]
      <3>1. CASE t \in nested
        <4>1. PICK e \in children : e.from = b.node /\ e.how = "nested" /\ t = [node |-> e.to, sinks |-> b.sinks, own |-> b.own]
          BY <3>1 DEF ChildrenOf
        <4>2. (b.sinks /\ e.how = "nested") = b.sinks
          BY <1>2, <4>1 DEF Sinks, Foreground
        <4>3. QED
          BY <4>1, <4>2
      <3>2. CASE t \in background
        <4>1. PICK e \in children : e.from = b.node /\ e.how = "background" /\ t = [node |-> e.to, sinks |-> FALSE, own |-> b.own]
          BY <3>2 DEF ChildrenOf
        <4>2. (b.sinks /\ e.how = "nested") = FALSE
          BY <4>1
        <4>3. QED
          BY <4>1, <4>2
      <3>3. QED
        BY <3>1, <3>2
    <2>2. e.to \in Walk(Root, TRUE) /\ Sinks(e.to) = (b.sinks /\ e.how = "nested")
      BY <1>2, <2>1, SinksOfChild
    <2>3. t.node = e.to /\ t = [node |-> e.to, sinks |-> Sinks(e.to), own |-> factory]
      BY <1>2, <2>1, <2>2
    <2>4. QED
      BY <2>2, <2>3
  <1>7. ASSUME NEW e \in children, e.from = b.node
        PROVE  \E t \in nested \cup background : t.node = e.to
    <2>1. e.how \in {"nested", "background"}
      BY <1>2 DEF GraphOk, Edges
    <2>2. e.to \in ChildrenOf(b.node, e.how)
      BY <1>7 DEF ChildrenOf
    <2>3. CASE e.how = "nested"
      <3>1. [node |-> e.to, sinks |-> b.sinks, own |-> b.own] \in nested
        BY <2>2, <2>3
      <3> HIDE DEF nested, background
      <3>2. QED
        BY <3>1
    <2>4. CASE e.how = "background"
      <3>1. [node |-> e.to, sinks |-> FALSE, own |-> b.own] \in background
        BY <2>2, <2>4
      <3> HIDE DEF nested, background
      <3>2. QED
        BY <3>1
    <2>5. QED
      BY <2>1, <2>3, <2>4
  <1>8. Begun' = Begun \cup {t.node : t \in nested \cup background}
    <2>1. Begun' = {t.node : t \in todo'} \cup Finished'
      BY DEF Begun, Finished
    <2>2. Begun = {t.node : t \in todo} \cup Finished
      BY DEF Begun, Finished
    <2> HIDE DEF nested, background
    <2>3. QED
      BY <1>1, <1>5, <2>1, <2>2
  <1> HIDE DEF nested, background, rec
  <1>9. \A t \in todo' : /\ t.node \in Walk(Root, TRUE)' /\ t = [node |-> t.node, sinks |-> Sinks(t.node)', own |-> factory']
    BY <1>1, <1>3, <1>6 DEF GraphInv, BuildInv
  <1>10. \A r \in built' : /\ r.agent \in Walk(Root, TRUE)'
                           /\ r = [agent |-> r.agent, sinks |-> Sinks(r.agent)', own |-> factory', inputs |-> Inputs(r.agent)']
    BY <1>1, <1>2, <1>3, <1>4 DEF GraphInv, BuildInv
  <1>11. \A e \in children' : e.from \in Finished' => e.to \in Begun'
    BY <1>1, <1>5, <1>7, <1>8 DEF GraphInv, BuildInv
  <1>12. handles' = {e.to : e \in {e \in children' : e.from \in Finished' /\ e.how = "background"}}
    BY <1>1, <1>5 DEF GraphInv, BuildInv, ChildrenOf
  <1>13. Root \in Begun' /\ WalkAccepts(Root)'
    BY <1>1, <1>2, <1>3, <1>8 DEF GraphInv, BuildInv
  <1>14. phase' \in {"building", "running"} /\ (phase' = "running" => todo' = {})
    BY <1>1
  <1>15. QED
    BY <1>9, <1>10, <1>11, <1>12, <1>13, <1>14 DEF BuildInv

LEMMA GraphStep == GraphInv /\ [Next]_vars => GraphInv'
  <1> SUFFICES ASSUME GraphInv, [Next]_vars PROVE GraphInv'
    OBVIOUS
  <1>1. ASSUME UNCHANGED <<children, caps, selection, endpoint, model, inspected, covers>>
        PROVE  GraphOk' /\ CoverInv'
    BY <1>1, SameConfig DEF GraphInv, GraphOk, CoverInv
  <1>2. CASE UNCHANGED vars \/ Done \/ \E a \in Agents : RunHandle(a)
    <2>1. UNCHANGED <<configVars, buildVars>>
      BY <1>2 DEF vars, Done, RunHandle
    <2>2. BuildInv'
      BY <2>1, SameConfig DEF configVars, buildVars, GraphInv, BuildInv, Begun, Finished
    <2>3. QED
      BY <1>1, <2>1, <2>2 DEF configVars, GraphInv
  <1>3. CASE BeginBuild
    BY <1>1, <1>3, BeginKeeps DEF BeginBuild, configVars, GraphInv
  <1>4. CASE \E b \in todo : BuildNode(b)
    BY <1>1, <1>4, BuildKeeps DEF BuildNode, configVars, GraphInv
  <1>5. CASE BuildRaises
    BY <1>1, <1>5, NothingBuilt DEF BuildRaises, configVars, GraphInv
  <1>6. QED
    BY <1>2, <1>3, <1>4, <1>5, ConfigureKeeps DEF Next

LEMMA GraphInvariant == Spec => []GraphInv
  BY GraphInit, GraphStep, PTL DEF Spec

(***************************************************************************)
(* _walk accepts a graph exactly when it is a tree with distinct names     *)
(* below the root, for any definitions and any attachments, in whatever    *)
(* order they were made.                                                   *)
(***************************************************************************)
THEOREM OnlyTreesAreWalked == Spec => []WalkAcceptsTrees
  <1>1. GraphInv => WalkAcceptsTrees
    <2> SUFFICES ASSUME GraphInv PROVE WalkAcceptsTrees
      OBVIOUS
    <2>1. WalkAccepts(Root) <=> TreeOk
      BY TreeIsAccepted, AcceptedIsTree DEF GraphInv
    <2>2. QED
      BY <2>1 DEF WalkAcceptsTrees, TreeOk, Into
  <1>2. QED
    BY <1>1, GraphInvariant, PTL

(***************************************************************************)
(* Every resource of every agent that was built is among those that        *)
(* external_dependencies reported, as long as nothing but a selection      *)
(* changed after it was called.                                            *)
(***************************************************************************)
THEOREM InspectionKnowsBuild == Spec => []InspectionCovers
  <1>1. GraphInv => InspectionCovers
    <2> SUFFICES ASSUME GraphInv, covers, NEW r \in built PROVE Uses(r) \subseteq inspected
      BY DEF InspectionCovers
    <2>1. inspected = Resources
      BY DEF GraphInv, CoverInv
    <2>2. r.agent \in Walk(Root, TRUE)
      BY DEF GraphInv, BuildInv
    <2>3. r.inputs = Inputs(r.agent)
      <3>1. r = [agent |-> r.agent, sinks |-> Sinks(r.agent), own |-> factory, inputs |-> Inputs(r.agent)]
        BY DEF GraphInv, BuildInv
      <3>2. QED
        BY <3>1
    <2>4. ASSUME NEW i \in r.inputs PROVE i[2] \in caps[r.agent]
      BY <2>3 DEF Inputs, Enabled
    <2>5. Uses(r) \subseteq EndpointResources(r.agent) \cup UNION {Labels[c].uses : c \in caps[r.agent]}
      BY <2>4 DEF Uses
    <2>6. EndpointResources(r.agent) \cup UNION {Labels[c].uses : c \in caps[r.agent]} \subseteq Resources
      BY <2>2 DEF Resources
    <2>7. QED
      BY <2>1, <2>5, <2>6
  <1>2. QED
    BY <1>1, GraphInvariant, PTL

(***************************************************************************)
(* A finished build has one agent per definition of the graph, the         *)
(* caller's sinks on those of the foreground and on no others, sinks of the *)
(* factory, if it was given one, on all, and a handle for every background *)
(* child.                                                                  *)
(***************************************************************************)
THEOREM BuildIsTheGraph == Spec => []BuildFollowsGraph
  <1>1. GraphInv => BuildFollowsGraph
    <2> SUFFICES ASSUME GraphInv, phase = "running" PROVE BuildFollowsGraph
      BY DEF BuildFollowsGraph
    <2>1. GraphOk /\ WalkAccepts(Root) /\ todo = {}
      BY DEF GraphInv, BuildInv
    <2>2. Begun = Finished
      BY <2>1 DEF Begun, Finished
    <2>3. Root \in Finished /\ \A e \in children : e.from \in Finished => e.to \in Finished
      BY <2>2 DEF GraphInv, BuildInv
    <2>4. Finished \subseteq Walk(Root, TRUE)
      BY DEF GraphInv, BuildInv, Finished
    <2>5. Walk(Root, TRUE) \subseteq Finished
      <3> SUFFICES ASSUME NEW w \in Ways(Root) PROVE End(Root, w) \in Finished
        BY DEF Walk
      <3>1. Len(w) \in 0 .. Len(w)
        BY WayIs
      <3>2. QED
        BY <2>3, <3>1, WayStaysIn DEF End
    <2>6. \A r, s \in built : r.agent = s.agent => r = s
      BY DEF GraphInv, BuildInv
    <2>7. ASSUME NEW a \in Agents
          PROVE  Cardinality({r \in built : r.agent = a}) = IF a \in Walk(Root, TRUE) THEN 1 ELSE 0
      <3> DEFINE mine == {r \in built : r.agent = a}
      <3>1. CASE a \in Walk(Root, TRUE)
        <4>1. PICK r \in built : r.agent = a
          BY <2>5, <3>1 DEF Finished
        <4>2. mine = {r}
          BY <2>6, <4>1
        <4> HIDE DEF mine
        <4>3. QED
          BY <3>1, <4>2, FS_Singleton DEF mine
      <3>2. CASE a \notin Walk(Root, TRUE)
        <4>1. mine = {}
          BY <2>4, <3>2 DEF Finished
        <4> HIDE DEF mine
        <4>2. QED
          BY <3>2, <4>1, FS_EmptySet DEF mine
      <3>3. QED
        BY <3>1, <3>2
    <2>8. {r.agent : r \in {r \in built : r.sinks}} = Walk(Root, FALSE)
      <3>1. \A r \in built : r.sinks = Sinks(r.agent)
        <4> SUFFICES ASSUME NEW r \in built PROVE r.sinks = Sinks(r.agent)
          OBVIOUS
        <4>1. r = [agent |-> r.agent, sinks |-> Sinks(r.agent), own |-> factory, inputs |-> Inputs(r.agent)]
          BY DEF GraphInv, BuildInv
        <4>2. QED
          BY <4>1
      <3>2. {r.agent : r \in {r \in built : r.sinks}} = {a \in Finished : Sinks(a)}
        BY <3>1 DEF Finished
      <3>3. \A w \in Ways(Root) : Sinks(End(Root, w)) = Foreground(w)
        BY <2>1, WayToAgent DEF Sinks
      <3>4. Walk(Root, FALSE) = {a \in Walk(Root, TRUE) : Sinks(a)}
        BY <3>3 DEF Walk
      <3>5. QED
        BY <2>4, <2>5, <3>2, <3>4
    <2>9. handles = {e.to : e \in {e \in children : e.from \in Walk(Root, TRUE) /\ e.how = "background"}}
      <3>1. Finished = Walk(Root, TRUE)
        BY <2>4, <2>5
      <3>2. QED
        BY <3>1 DEF GraphInv, BuildInv
    <2>10. ASSUME NEW r \in built PROVE r.own = factory
      <3>1. r = [agent |-> r.agent, sinks |-> Sinks(r.agent), own |-> factory, inputs |-> Inputs(r.agent)]
        BY <2>10 DEF GraphInv, BuildInv
      <3>2. QED
        BY <3>1
    <2>11. QED
      BY <2>7, <2>8, <2>9, <2>10 DEF BuildFollowsGraph
  <1>2. QED
    BY <1>1, GraphInvariant, PTL

-----------------------------------------------------------------------------
(* The health monitor.                                                      *)

HealthTypeInv ==
    /\ task \in [Deps -> {"none", "queued", "running", "done"}]
    /\ obs \in [Deps -> {"none", "waits", "timed"}]
    /\ callback \in [Deps -> {"none", "own", "old"}]
    /\ threads \in [Deps -> Nat]
    /\ slots \in Nat

TaskInv == \A d \in Deps : threads[d] = IF task[d] = "running" THEN 1 ELSE 0

RunningTasks == {d \in Network : task[d] = "running"}
SemaphoreInv == slots = MaxConcurrency - Cardinality(RunningTasks)

HealthInv == HealthTypeInv /\ TaskInv /\ SemaphoreInv

\* No stop() that is still to come, or to reach the checks, has cut any off.
StopsInv ==
    /\ stops \in Nat
    /\ sched = "stopping" => stops > 0
    /\ \A n \in Nat :
         n > stops \/ (n = stops /\ sched = "stopping") => CutOff(n) = {}

CutOffInv == \A n \in Nat : Cardinality(CutOff(n)) <= MaxConcurrency

-----------------------------------------------------------------------------
\* RunningTasks is finite, so that its cardinality is a number.
LEMMA RunningTasksFinite == IsFiniteSet(RunningTasks) /\ Cardinality(RunningTasks) \in Nat
  <1>1. IsFiniteSet(Deps) /\ RunningTasks \subseteq Deps
    BY DepsAssumption DEF RunningTasks
  <1>2. QED
    BY <1>1, FS_Subset, FS_CardinalityType

\* The initial state: nothing runs and every slot is free.
LEMMA HealthInitInv == HealthInit => HealthInv
  <1> SUFFICES ASSUME HealthInit PROVE HealthInv
    OBVIOUS
  <1>1. HealthTypeInv /\ TaskInv
    BY ConcurrencyAssumption DEF HealthInit, HealthTypeInv, TaskInv
  <1>2. RunningTasks = {}
    BY DepsAssumption DEF HealthInit, RunningTasks
  <1>3. SemaphoreInv
    BY <1>2, FS_EmptySet, ConcurrencyAssumption DEF HealthInit, SemaphoreInv
  <1>4. QED
    BY <1>1, <1>3 DEF HealthInv

\* A step that leaves threads, slots and the set of running tasks alone.
LEMMA QuietHealthStep ==
  ASSUME HealthInv, HealthTypeInv', UNCHANGED <<threads, slots>>,
         \A d \in Deps : task'[d] = "running" <=> task[d] = "running"
  PROVE  HealthInv'
  <1>1. TaskInv'
    BY DEF HealthInv, TaskInv
  <1>2. RunningTasks' = RunningTasks
    BY DepsAssumption DEF RunningTasks
  <1>3. SemaphoreInv'
    BY <1>2 DEF HealthInv, SemaphoreInv
  <1>4. QED
    BY <1>1, <1>3 DEF HealthInv

\* _run_check: a new thread, and for a network check one slot less.
LEMMA StartStep ==
  ASSUME HealthInv, NEW d \in Deps, StartCheck(d)
  PROVE  HealthInv'
  <1> USE DEF HealthInv, StartCheck
  <1>1. slots' \in Nat /\ task' = [task EXCEPT ![d] = "running"]
    BY DEF HealthTypeInv, Slot
  <1>2. HealthTypeInv' /\ TaskInv'
    BY <1>1 DEF HealthTypeInv, TaskInv
  <1>3. CASE d \in Network
    <2>1. d \notin RunningTasks /\ RunningTasks' = RunningTasks \cup {d}
      BY <1>1, <1>3, DepsAssumption DEF RunningTasks, HealthTypeInv
    <2>2. Cardinality(RunningTasks') = Cardinality(RunningTasks) + 1
      BY <2>1, RunningTasksFinite, FS_AddElement
    <2>3. SemaphoreInv'
      BY <1>3, <2>2, RunningTasksFinite, ConcurrencyAssumption DEF SemaphoreInv, Slot
    <2>4. QED
      BY <1>2, <2>3
  <1>4. CASE d \notin Network
    <2>1. RunningTasks' = RunningTasks
      BY <1>1, <1>4, DepsAssumption DEF RunningTasks, HealthTypeInv
    <2>2. SemaphoreInv'
      BY <1>4, <2>1 DEF SemaphoreInv, Slot, HealthTypeInv
    <2>3. QED
      BY <1>2, <2>2
  <1>5. QED
    BY <1>3, <1>4

\* The thread of a check returns: by TaskInv its task is the running one,
\* and it gives its slot back.
LEMMA ReturnStep ==
  ASSUME HealthInv, NEW d \in Deps, CheckReturns(d)
  PROVE  HealthInv'
  <1> USE DEF HealthInv, CheckReturns
  <1>1. task[d] = "running" /\ threads[d] = 1
    BY DEF TaskInv
  <1>2. task' = [task EXCEPT ![d] = "done"] /\ slots' = slots + Slot(d)
    BY <1>1
  <1>3. HealthTypeInv' /\ TaskInv'
    BY <1>1, <1>2 DEF HealthTypeInv, TaskInv, Slot
  <1>4. CASE d \in Network
    <2>1. d \in RunningTasks /\ RunningTasks' = RunningTasks \ {d}
      BY <1>1, <1>2, <1>4, DepsAssumption DEF RunningTasks, HealthTypeInv
    <2>2. Cardinality(RunningTasks') = Cardinality(RunningTasks) - 1
      BY <2>1, RunningTasksFinite, FS_RemoveElement
    <2>3. SemaphoreInv'
      BY <1>2, <1>4, <2>2, RunningTasksFinite, ConcurrencyAssumption DEF SemaphoreInv, Slot
    <2>4. QED
      BY <1>3, <2>3
  <1>5. CASE d \notin Network
    <2>1. RunningTasks' = RunningTasks
      BY <1>1, <1>2, <1>5, DepsAssumption DEF RunningTasks, HealthTypeInv
    <2>2. SemaphoreInv'
      BY <1>2, <1>5, <2>1 DEF SemaphoreInv, Slot, HealthTypeInv
    <2>3. QED
      BY <1>3, <2>2
  <1>6. QED
    BY <1>4, <1>5

\* stop: every running task is cut off from its thread, and all their slots
\* come back.
LEMMA StopStep ==
  ASSUME HealthInv, StopChecks
  PROVE  HealthInv'
  <1> DEFINE cut == {d \in Deps : task[d] = "running"}
  <1>1. /\ threads' = [d \in Deps |-> IF d \in cut THEN threads[d] - 1 ELSE threads[d]]
        /\ slots' = slots + Cardinality(cut \cap Network)
        /\ task' = [d \in Deps |-> "none"] /\ callback' = [d \in Deps |-> "none"]
        /\ obs' = obs
    BY DEF StopChecks
  <1>2. cut \cap Network = RunningTasks
    BY DepsAssumption DEF RunningTasks
  <1>3. slots' = slots + Cardinality(RunningTasks)
    BY <1>1, <1>2
  <1>4. slots' = MaxConcurrency /\ MaxConcurrency \in Nat
    BY <1>3, RunningTasksFinite, ConcurrencyAssumption DEF HealthInv, SemaphoreInv
  <1>5. HealthTypeInv' /\ TaskInv'
    <2>1. threads' = [d \in Deps |-> 0]
      BY <1>1 DEF HealthInv, HealthTypeInv, TaskInv
    <2>2. QED
      BY <1>1, <1>4, <2>1 DEF HealthInv, HealthTypeInv, TaskInv
  <1>6. SemaphoreInv'
    <2>1. RunningTasks' = {}
      BY <1>1, DepsAssumption DEF RunningTasks
    <2>2. QED
      BY <1>4, <2>1, FS_EmptySet DEF SemaphoreInv
  <1>7. QED
    BY <1>5, <1>6 DEF HealthInv

-----------------------------------------------------------------------------
\* Every step of scheduler, checks, observers, threads and stop() keeps HealthInv.
LEMMA HealthStepInv == HealthInv /\ [HealthNext]_healthVars => HealthInv'
  <1> SUFFICES ASSUME HealthInv, [HealthNext]_healthVars PROVE HealthInv'
    OBVIOUS
  <1>1. CASE Start \/ EndRound \/ WakeUp \/ UNCHANGED healthVars
    BY <1>1, QuietHealthStep DEF Start, EndRound, WakeUp, healthVars, HealthInv, HealthTypeInv
  <1>2. CASE BeginRound
    <2>1. HealthTypeInv'
      BY <1>2 DEF BeginRound, HealthInv, HealthTypeInv
    <2>2. \A d \in Deps : task'[d] = "running" <=> task[d] = "running"
      BY <1>2 DEF BeginRound, InFlight, HealthInv, HealthTypeInv
    <2>3. QED
      BY <1>2, <2>1, <2>2, QuietHealthStep DEF BeginRound
  <1>3. CASE StopScheduler
    <2>1. HealthTypeInv'
      BY <1>3 DEF StopScheduler, HealthInv, HealthTypeInv
    <2>2. \A d \in Deps : task'[d] = "running" <=> task[d] = "running"
      BY <1>3 DEF StopScheduler, HealthInv, HealthTypeInv
    <2>3. QED
      BY <1>3, <2>1, <2>2, QuietHealthStep DEF StopScheduler
  <1>4. CASE StopChecks
    BY <1>4, StopStep
  <1>5. ASSUME NEW d \in Deps, StartCheck(d) PROVE HealthInv'
    BY <1>5, StartStep
  <1>6. ASSUME NEW d \in Deps, CheckReturns(d) PROVE HealthInv'
    BY <1>6, ReturnStep
  <1>7. ASSUME NEW d \in Deps, TimedWait(d) \/ RecordTimeout(d) \/ AbandonedReturns(d) PROVE HealthInv'
    BY <1>7, QuietHealthStep DEF TimedWait, RecordTimeout, AbandonedReturns, HealthInv, HealthTypeInv
  <1>8. ASSUME NEW d \in Deps, NEW status \in Statuses, RecordAnswer(d, status) PROVE HealthInv'
    <2>1. HealthTypeInv' /\ UNCHANGED <<threads, slots>>
      BY <1>8 DEF RecordAnswer, HealthInv, HealthTypeInv
    <2>2. \A x \in Deps : task'[x] = "running" <=> task[x] = "running"
      BY <1>8 DEF RecordAnswer, HealthInv, HealthTypeInv
    <2>3. QED
      BY <2>1, <2>2, QuietHealthStep
  <1>9. ASSUME NEW d \in Deps, ClearInflight(d) PROVE HealthInv'
    <2>1. HealthTypeInv' /\ UNCHANGED <<threads, slots>>
      BY <1>9 DEF ClearInflight, HealthInv, HealthTypeInv
    <2>2. \A x \in Deps : task'[x] = "running" <=> task[x] = "running"
      BY <1>9 DEF ClearInflight, HealthInv, HealthTypeInv
    <2>3. QED
      BY <2>1, <2>2, QuietHealthStep
  <1>10. QED
    BY <1>1, <1>2, <1>3, <1>4, <1>5, <1>6, <1>7, <1>8, <1>9 DEF HealthNext

LEMMA HealthInvariant == HealthSpec => []HealthInv
  BY HealthInitInv, HealthStepInv, PTL DEF HealthSpec

\* However rounds, timeouts, late answers, stale callbacks and stop() come
\* together, no check starts while the thread of an earlier one is at work.
THEOREM NeverOverlap == HealthSpec => []NoOverlappingChecks
  <1>1. HealthInv => NoOverlappingChecks
    BY DEF HealthInv, TaskInv, NoOverlappingChecks
  <1>2. QED
    BY <1>1, HealthInvariant, PTL

\* The running network checks of one moment: at most max_concurrency.
LEMMA RunningBounded ==
  ASSUME HealthInv
  PROVE  Cardinality(RunningTasks) <= MaxConcurrency
  BY RunningTasksFinite, ConcurrencyAssumption DEF HealthInv, HealthTypeInv, SemaphoreInv

\* stop() reaches the checks: those it cuts off are the running ones, and no
\* other stop() has its number.
LEMMA StopCutsOff ==
  ASSUME HealthInv, StopsInv, CutOffInv, StopChecks
  PROVE  StopsInv' /\ CutOffInv'
  <1>1. /\ stops' = stops /\ sched' = "off" /\ sched = "stopping"
        /\ \A d \in Network, n \in Nat :
              <<d, n>> \in abandoned' <=> <<d, n>> \in abandoned \/ (n = stops /\ task[d] = "running")
    BY DepsAssumption DEF StopChecks
  <1>2. \A n \in Nat : n # stops => CutOff(n)' = CutOff(n)
    BY <1>1 DEF CutOff
  <1>3. CutOff(stops)' = RunningTasks
    BY <1>1 DEF CutOff, RunningTasks, StopsInv
  <1>4. StopsInv'
    BY <1>1, <1>2 DEF StopsInv
  <1>5. CutOffInv'
    <2> SUFFICES ASSUME NEW n \in Nat PROVE Cardinality(CutOff(n)') <= MaxConcurrency
      BY DEF CutOffInv
    <2>1. CASE n = stops
      BY <1>1, <1>3, <2>1, RunningBounded DEF CutOff
    <2>2. CASE n # stops
      BY <1>2, <2>2 DEF CutOffInv
    <2>3. QED
      BY <2>1, <2>2
  <1>6. QED
    BY <1>4, <1>5

\* Threads that return to nobody only leave the sets of those cut off.
LEMMA AbandonedLeave ==
  ASSUME StopsInv, CutOffInv, NEW d \in Deps, AbandonedReturns(d)
  PROVE  StopsInv' /\ CutOffInv'
  <1>1. stops' = stops /\ sched' = sched /\ abandoned' \subseteq abandoned
    BY DEF AbandonedReturns
  <1>2. \A n \in Nat : CutOff(n)' \subseteq CutOff(n)
    BY <1>1 DEF CutOff
  <1>3. StopsInv'
    BY <1>1, <1>2 DEF StopsInv
  <1>4. CutOffInv'
    <2> SUFFICES ASSUME NEW n \in Nat PROVE Cardinality(CutOff(n)') <= MaxConcurrency
      BY DEF CutOffInv
    <2> DEFINE before == CutOff(n)
               after == CutOff(n)'
    <2>1. IsFiniteSet(before) /\ after \subseteq before
      BY <1>2, DepsAssumption, FS_Subset DEF CutOff
    <2>2. Cardinality(before) <= MaxConcurrency
      BY DEF CutOffInv
    <2> HIDE DEF before, after
    <2>3. Cardinality(after) <= Cardinality(before) /\ Cardinality(after) \in Nat /\ Cardinality(before) \in Nat
      BY <2>1, FS_Subset, FS_CardinalityType
    <2>4. Cardinality(after) <= MaxConcurrency
      BY <2>2, <2>3, ConcurrencyAssumption
    <2>5. QED
      BY <2>4 DEF after
  <1>5. QED
    BY <1>3, <1>4

\* Every other step leaves the threads that were cut off alone.
LEMMA CutOffStep ==
  ASSUME HealthInv, StopsInv, CutOffInv, [HealthNext]_healthVars
  PROVE  StopsInv' /\ CutOffInv'
  <1>1. CASE StopChecks
    BY <1>1, StopCutsOff
  <1>2. ASSUME NEW d \in Deps, AbandonedReturns(d) PROVE StopsInv' /\ CutOffInv'
    BY <1>2, AbandonedLeave
  <1>3. CASE StopScheduler
    <2>1. stops' = stops + 1 /\ abandoned' = abandoned /\ sched # "stopping"
      BY <1>3 DEF StopScheduler
    <2>2. \A n \in Nat : CutOff(n)' = CutOff(n)
      BY <2>1 DEF CutOff
    <2>3. QED
      BY <2>1, <2>2 DEF StopsInv, CutOffInv
  <1>4. ASSUME UNCHANGED <<abandoned, stops>>, sched' = "stopping" => sched = "stopping"
        PROVE  StopsInv' /\ CutOffInv'
    <2>1. \A n \in Nat : CutOff(n)' = CutOff(n)
      BY <1>4 DEF CutOff
    <2>2. QED
      BY <1>4, <2>1 DEF StopsInv, CutOffInv
  <1>5. CASE Start \/ BeginRound \/ EndRound \/ WakeUp \/ UNCHANGED healthVars
    BY <1>4, <1>5 DEF Start, BeginRound, EndRound, WakeUp, healthVars
  <1>6. ASSUME NEW d \in Deps,
               \/ StartCheck(d) \/ CheckReturns(d) \/ TimedWait(d) \/ RecordTimeout(d)
               \/ \E status \in Statuses : RecordAnswer(d, status)
               \/ ClearInflight(d)
        PROVE  StopsInv' /\ CutOffInv'
    BY <1>4, <1>6
       DEF StartCheck, CheckReturns, TimedWait, RecordTimeout, RecordAnswer, ClearInflight
  <1>7. QED
    BY <1>1, <1>2, <1>3, <1>5, <1>6 DEF HealthNext

LEMMA CutOffInvariant == HealthSpec => [](HealthInv /\ StopsInv /\ CutOffInv)
  <1>1. HealthInit => StopsInv /\ CutOffInv
    <2> SUFFICES ASSUME HealthInit PROVE StopsInv /\ CutOffInv
      OBVIOUS
    <2>1. stops = 0 /\ sched = "off" /\ \A n \in Nat : CutOff(n) = {}
      BY DEF HealthInit, CutOff
    <2>2. QED
      BY <2>1, FS_EmptySet, ConcurrencyAssumption DEF StopsInv, CutOffInv
  <1>2. HealthInv /\ StopsInv /\ CutOffInv /\ [HealthNext]_healthVars
          => (HealthInv /\ StopsInv /\ CutOffInv)'
    BY HealthStepInv, CutOffStep
  <1>3. QED
    BY <1>1, <1>2, HealthInitInv, PTL DEF HealthSpec

\* Of one start of the monitor at most max_concurrency network checks are at
\* work, timed out ones and those that its stop() cut off included.  The
\* theorem bounds each start and not their sum: stop() frees the slots of
\* threads that go on, so that after a restart more may be at work.
THEOREM SlotsAreKept == HealthSpec => []SlotsBoundChecks
  <1>1. ASSUME HealthInv, StopsInv, CutOffInv PROVE SlotsBoundChecks
    <2>1. {d \in Network : threads[d] > 0} = RunningTasks
      BY <1>1, DepsAssumption DEF HealthInv, TaskInv, RunningTasks
    <2>2. Cardinality(RunningTasks) <= MaxConcurrency
      BY <1>1, RunningBounded
    <2>3. \A n \in 1..stops : Cardinality(CutOff(n)) <= MaxConcurrency
      BY <1>1 DEF StopsInv, CutOffInv
    <2>4. QED
      BY <1>1, <2>1, <2>2, <2>3 DEF SlotsBoundChecks, HealthInv, SemaphoreInv, RunningTasks
  <1>2. QED
    BY <1>1, CutOffInvariant, PTL
=============================================================================
