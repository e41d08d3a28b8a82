------------------------- MODULE RunPersistenceProofs -------------------------
(***************************************************************************)
(* Proofs about RunPersistence, and about the Librarian that reads its     *)
(* files, for any agents and any number of runs and rows, with failing     *)
(* file operations, crashes and revisits.                                  *)
(*                                                                         *)
(* What observers rely on is not inductive: that a running agent stays     *)
(* visible needs to know which document its sink is about to write, and    *)
(* that a marker is only removed after the final status, which document is *)
(* on disk when _stop_run comes to the marker.  SinkInv relates the        *)
(* position of each sink to the files, CleanInv says which markers there   *)
(* can be unless a file operation failed.                                  *)
(*                                                                         *)
(* The Librarian adds what a document's rows are to the summaries made of  *)
(* them: documents only grow at their end (RowInv), a coverage cursor      *)
(* claims what is in its summary and no more (CoverInv), a memory holds    *)
(* what was published before it (FoldInv), and a row that is owed at the   *)
(* final sweep is kept, ahead of it or in its summary (OwedInv).           *)
(***************************************************************************)
EXTENDS Librarian, FiniteSetTheorems, WellFoundedInduction, TLAPS

SinkInv ==
    \A a \in Agents :
        /\ pc[a] \in {"mark", "running", "abort", "clear"} => held[a] # 0
        /\ pc[a] \in {"mark", "running"} => /\ mem[a].status = "running"
                                            /\ doc[Run(a)] # NoDoc
                                            /\ doc[Run(a)].status = "running"
        /\ pc[a] = "running" => Run(a) \in marked
        /\ pc[a] = "clear" => /\ doc[Run(a)] # NoDoc
                              /\ doc[Run(a)].status \in Terminal

DownInv == ~up => \A a \in Agents : pc[a] = "idle"

CleanInv ==
    up /\ ~faulted =>
        \A a \in Agents :
            /\ pc[a] # "abort"
            /\ \A n \in 1..MaxRuns :
                 <<a, n>> \in marked => pc[a] \in {"running", "clear"} /\ n = held[a]

Inv == TypeOK /\ ActiveHasRecord /\ SinkInv /\ DownInv /\ CleanInv

-----------------------------------------------------------------------------
\* The document of a fresh run is a record, and no record is NoDoc.
LEMMA NewRecordType == NewRecord \in Records /\ NewRecord # NoDoc
  <1>1. <<>> \in Seq(Nat)
    OBVIOUS
  <1>2. NewRecord \in Records
    BY <1>1 DEF NewRecord, Records
  <1>3. QED
    BY <1>2, NoDocAssumption

\* Before the first run there is no file and no fault.
LEMMA InitInv == Init => Inv
  <1> SUFFICES ASSUME Init PROVE Inv
    OBVIOUS
  <1> USE DEF Init
  <1>1. TypeOK
    <2>1. 0 \in 0..MaxRuns /\ 0 \in 0..(MaxRows + 1)
      BY BoundsAssumption
    <2>2. mem \in [Agents -> Records] /\ doc \in [Runs -> Records \cup {NoDoc}]
      BY NewRecordType
    <2>3. QED
      BY <2>1, <2>2 DEF TypeOK, Positions
  <1>2. ActiveHasRecord /\ SinkInv /\ DownInv /\ CleanInv
    BY DEF ActiveHasRecord, SinkInv, DownInv, CleanInv
  <1>3. QED
    BY <1>1, <1>2 DEF Inv

\* Changing the status of a record, or adding a row, gives a record.
LEMMA RecordKept ==
  ASSUME NEW m \in Records
  PROVE  /\ m # NoDoc
         /\ \A s \in Terminal : /\ [m EXCEPT !.status = s] \in Records
                                /\ [m EXCEPT !.status = s].status = s
         /\ \A n \in Nat : /\ [m EXCEPT !.rows = Append(@, n)] \in Records
                           /\ [m EXCEPT !.rows = Append(@, n)].status = m.status
  <1>1. m # NoDoc
    BY NoDocAssumption
  <1>2. \A s \in Terminal : /\ [m EXCEPT !.status = s] \in Records
                            /\ [m EXCEPT !.status = s].status = s
    BY DEF Records, Terminal
  <1>3. \A n \in Nat : /\ [m EXCEPT !.rows = Append(@, n)] \in Records
                       /\ [m EXCEPT !.rows = Append(@, n)].status = m.status
    <2> SUFFICES ASSUME NEW n \in Nat
                 PROVE  /\ [m EXCEPT !.rows = Append(@, n)] \in Records
                        /\ [m EXCEPT !.rows = Append(@, n)].status = m.status
      OBVIOUS
    <2>1. m.rows \in Seq(Nat) /\ m.status \in Terminal \cup {"running"}
      BY DEF Records
    <2>2. Append(m.rows, n) \in Seq(Nat)
      BY <2>1
    <2>3. QED
      BY <2>1, <2>2 DEF Records
  <1>4. QED
    BY <1>1, <1>2, <1>3

\* Sinks of different agents hold different runs.
LEMMA RunsApart ==
  ASSUME TypeOK, NEW a \in Agents, NEW b \in Agents
  PROVE  /\ held[b] # 0 => Run(b) \in Runs
         /\ b # a => Run(b) # Run(a)
  BY BoundsAssumption DEF TypeOK, Run, Runs

\* Writing a record, or failing to, keeps the types of what it changes.
LEMMA WriteType ==
  ASSUME TypeOK, NEW a \in Agents, NEW r \in Runs, NEW m \in Records,
         NEW there \in Positions, NEW other \in Positions,
         WriteRun(a, r, m, there) \/ WriteRaises(a, m, other)
  PROVE  /\ pc' \in [Agents -> Positions] /\ mem' \in [Agents -> Records]
         /\ doc' \in [Runs -> Records \cup {NoDoc}] /\ faulted' \in BOOLEAN
  BY DEF TypeOK, WriteRun, WriteRaises, Goto

\* A new run: its document is written before anything else is.
LEMMA StartRunInv ==
  ASSUME Inv, NEW a \in Agents, StartRun(a)
  PROVE  Inv'
  <1> USE DEF Inv, StartRun, At
  <1>1. /\ NewRecord \in Records /\ NewRecord # NoDoc
        /\ <<a, runs[a] + 1>> \in Runs /\ runs[a] + 1 \in 1..MaxRuns
    <2>1. runs[a] \in 0..MaxRuns /\ runs[a] < MaxRuns
      BY DEF TypeOK
    <2>2. runs[a] + 1 \in 1..MaxRuns
      BY <2>1, BoundsAssumption
    <2>3. QED
      BY <2>2, NewRecordType DEF Runs
  <1>2. TypeOK'
    <2>1. /\ 1 \in 0..(MaxRows + 1) /\ runs[a] + 1 \in 0..MaxRuns
      BY <1>1, BoundsAssumption
    <2>2. /\ held' \in [Agents -> 0..MaxRuns] /\ runs' \in [Agents -> 0..MaxRuns]
          /\ seq' \in [Agents -> 0..(MaxRows + 1)] /\ dry' \in [Agents -> BOOLEAN]
      BY <2>1 DEF TypeOK
    <2>3. /\ pc' \in [Agents -> Positions] /\ mem' \in [Agents -> Records]
          /\ doc' \in [Runs -> Records \cup {NoDoc}] /\ faulted' \in BOOLEAN
      BY <1>1, WriteType DEF Positions
    <2>4. QED
      BY <2>2, <2>3 DEF TypeOK
  <1> USE DEF Goto, WriteRun, WriteRaises
  <1>3. ActiveHasRecord'
    BY <1>1 DEF ActiveHasRecord, TypeOK
  <1>4. SinkInv'
    <2> SUFFICES ASSUME NEW b \in Agents PROVE SinkInv!(b)'
      BY DEF SinkInv
    <2>1. CASE b = a
      <3>1. Run(a)' = <<a, runs[a] + 1>> /\ held'[a] # 0
        BY <1>1 DEF Run, TypeOK
      <3>2. QED
        BY <1>1, <2>1, <3>1, NewRecordType DEF SinkInv, TypeOK, NewRecord
    <2>2. CASE b # a
      <3>1. Run(b)' = Run(b) /\ Run(b) # <<a, runs[a] + 1>>
        BY <2>2 DEF Run, TypeOK
      <3>2. QED
        BY <1>1, <2>2, <3>1, RunsApart DEF SinkInv, TypeOK
    <2>3. QED
      BY <2>1, <2>2
  <1>5. DownInv'
    BY DEF DownInv
  <1>6. CleanInv'
    BY <1>1 DEF CleanInv, TypeOK
  <1>7. QED
    BY <1>2, <1>3, <1>4, <1>5, <1>6

\* The marker follows the document of the run.
LEMMA MarkActiveInv ==
  ASSUME Inv, NEW a \in Agents, MarkActive(a)
  PROVE  Inv'
  <1> USE DEF Inv, MarkActive, At, Goto, sinkVars, pipeVars
  <1>1. Run(a) \in Runs /\ doc[Run(a)] # NoDoc
    BY BoundsAssumption DEF SinkInv, Run, Runs, TypeOK
  <1>2. TypeOK'
    BY <1>1 DEF TypeOK, Positions
  <1>3. ActiveHasRecord'
    BY <1>1 DEF ActiveHasRecord
  <1>4. SinkInv'
    BY <1>1 DEF SinkInv, TypeOK, Run
  <1>5. DownInv'
    BY DEF DownInv
  <1>6. CleanInv'
    BY <1>1 DEF CleanInv, TypeOK, Run
  <1>7. QED
    BY <1>2, <1>3, <1>4, <1>5, <1>6

\* A row keeps the status of the document it is added to.
LEMMA EmitMessageInv ==
  ASSUME Inv, NEW a \in Agents, NEW here \in {"running", "dry"}, EmitMessage(a, here)
  PROVE  Inv'
  <1> USE DEF Inv, EmitMessage, At
  <1> DEFINE m == [mem[a] EXCEPT !.rows = Append(@, seq[a] + 1)]
  <1>1. seq[a] + 1 \in Nat /\ seq[a] + 1 \in 0..(MaxRows + 1)
    BY BoundsAssumption DEF TypeOK
  <1>2. m \in Records /\ m # NoDoc /\ m.status = mem[a].status
    BY <1>1, RecordKept, NoDocAssumption DEF TypeOK
  <1>3. CASE held[a] = 0
    BY <1>1, <1>3 DEF TypeOK, ActiveHasRecord, SinkInv, DownInv, CleanInv, Run
  <1>4. CASE held[a] # 0
    <2>1. Run(a) \in Runs
      BY <1>4, BoundsAssumption DEF Run, Runs, TypeOK
    <2>2. TypeOK'
      <3>1. /\ pc' \in [Agents -> Positions] /\ mem' \in [Agents -> Records]
            /\ doc' \in [Runs -> Records \cup {NoDoc}] /\ faulted' \in BOOLEAN
        BY <1>2, <1>4, <2>1, WriteType DEF Positions
      <3>2. seq' \in [Agents -> 0..(MaxRows + 1)]
        BY <1>1 DEF TypeOK
      <3>3. QED
        BY <3>1, <3>2 DEF TypeOK
    <2> HIDE DEF m
    <2> USE DEF Goto, WriteRun, WriteRaises
    <2>3. ActiveHasRecord'
      BY <1>2, <1>4, <2>1 DEF ActiveHasRecord, TypeOK, m
    <2>4. SinkInv'
      <3> SUFFICES ASSUME NEW b \in Agents PROVE SinkInv!(b)'
        BY DEF SinkInv
      <3>1. Run(b)' = Run(b)
        BY DEF Run
      <3>2. CASE b = a
        BY <1>2, <1>4, <2>1, <3>1, <3>2 DEF SinkInv, TypeOK, m
      <3>3. CASE b # a
        BY <1>4, <2>1, <3>1, <3>3, RunsApart DEF SinkInv, TypeOK, m
      <3>4. QED
        BY <3>2, <3>3
    <2>5. DownInv'
      BY <1>4 DEF DownInv, m
    <2>6. CleanInv'
      BY <1>4 DEF CleanInv, TypeOK, m
    <2>7. QED
      BY <2>2, <2>3, <2>4, <2>5, <2>6
  <1>5. QED
    BY <1>3, <1>4

\* The final status, written by _stop_run before it comes to the marker.
LEMMA WriteFinalInv ==
  ASSUME Inv, NEW a \in Agents, NEW s \in Terminal, up, held[a] # 0,
         pc[a] \in {"running", "abort", "idle"}, WriteFinal(a, s),
         UNCHANGED <<held, pipeVars, marked, up>>
  PROVE  Inv'
  <1> USE DEF Inv, WriteFinal, pipeVars
  <1> DEFINE m == [mem[a] EXCEPT !.status = s]
  <1>1. m \in Records /\ m # NoDoc /\ m.status = s
    BY RecordKept, NoDocAssumption DEF TypeOK
  <1>2. Run(a) \in Runs
    BY BoundsAssumption DEF Run, Runs, TypeOK
  <1>3. TypeOK'
    <2>1. /\ pc' \in [Agents -> Positions] /\ mem' \in [Agents -> Records]
          /\ doc' \in [Runs -> Records \cup {NoDoc}] /\ faulted' \in BOOLEAN
      BY <1>1, <1>2, WriteType DEF Positions
    <2>2. QED
      BY <2>1 DEF TypeOK
  <1>4. WriteRun(a, Run(a), m, "clear") \/ WriteRaises(a, m, "idle")
    OBVIOUS
  <1> HIDE DEF m, WriteFinal
  <1> USE DEF Goto, WriteRun, WriteRaises
  <1>5. ActiveHasRecord'
    BY <1>1, <1>2, <1>4 DEF ActiveHasRecord, TypeOK
  <1>6. SinkInv'
    <2> SUFFICES ASSUME NEW b \in Agents PROVE SinkInv!(b)'
      BY DEF SinkInv
    <2>1. Run(b)' = Run(b)
      BY DEF Run
    <2>2. CASE b = a
      BY <1>1, <1>2, <1>4, <2>1, <2>2 DEF SinkInv, TypeOK
    <2>3. CASE b # a
      BY <1>2, <1>4, <2>1, <2>3, RunsApart DEF SinkInv, TypeOK
    <2>4. QED
      BY <2>2, <2>3
  <1>7. DownInv'
    BY DEF DownInv
  <1>8. CleanInv'
    BY <1>4 DEF CleanInv, TypeOK
  <1>9. QED
    BY <1>3, <1>5, <1>6, <1>7, <1>8

\* The marker is removed.
LEMMA ClearActiveInv ==
  ASSUME Inv, NEW a \in Agents, ClearActive(a)
  PROVE  Inv'
  <1> USE DEF Inv, ClearActive, At, Goto, sinkVars, pipeVars
  <1>1. TypeOK'
    BY DEF TypeOK, Positions
  <1>2. ActiveHasRecord'
    BY DEF ActiveHasRecord
  <1>3. SinkInv'
    BY DEF SinkInv, TypeOK, Run
  <1>4. DownInv'
    BY DEF DownInv
  <1>5. CleanInv'
    BY DEF CleanInv, TypeOK, Run
  <1>6. QED
    BY <1>1, <1>2, <1>3, <1>4, <1>5

\* Showing an agent and dry runs touch no file and hold no new run.
LEMMA DryInv ==
  ASSUME Inv, NEW a \in Agents, BeginDry(a) \/ EndDry(a)
  PROVE  Inv'
  <1> USE DEF Inv, BeginDry, EndDry, At, Goto, sinkVars, pipeVars, diskVars
  <1>1. TypeOK'
    <2>1. 0 \in 0..(MaxRows + 1)
      BY BoundsAssumption
    <2>2. QED
      BY <2>1 DEF TypeOK, Positions
  <1>2. ActiveHasRecord' /\ DownInv'
    BY DEF ActiveHasRecord, DownInv
  <1>3. SinkInv'
    BY DEF SinkInv, TypeOK, Run
  <1>4. CleanInv'
    BY DEF CleanInv, TypeOK
  <1>5. QED
    BY <1>1, <1>2, <1>3, <1>4

\* A crash loses the sinks and keeps the files; the host then clears the
\* markers and starts again.
LEMMA ProcessInv ==
  ASSUME Inv, ProcessStep
  PROVE  Inv'
  <1> USE DEF Inv, pipeVars, diskVars, sinkVars
  <1>1. CASE Crash
    <2> USE <1>1 DEF Crash
    <2>1. TypeOK'
      <3>1. 0 \in 0..MaxRuns
        BY BoundsAssumption
      <3>2. QED
        BY <3>1, NewRecordType DEF TypeOK, Positions
    <2>2. ActiveHasRecord' /\ DownInv' /\ CleanInv' /\ SinkInv'
      BY DEF ActiveHasRecord, DownInv, CleanInv, SinkInv
    <2>3. QED
      BY <2>1, <2>2
  <1>2. CASE Boot
    BY <1>2 DEF Boot, TypeOK, ActiveHasRecord, SinkInv, DownInv, CleanInv, Run
  <1>3. ASSUME NEW r \in Runs, ClearStale(r) PROVE Inv'
    BY <1>3 DEF ClearStale, TypeOK, ActiveHasRecord, SinkInv, DownInv, CleanInv, Run
  <1>4. QED
    BY <1>1, <1>2, <1>3 DEF ProcessStep

\* Every step keeps the invariant.
LEMMA NextInv == Inv /\ [Next]_persistVars => Inv'
  <1> SUFFICES ASSUME Inv, [Next]_persistVars PROVE Inv'
    OBVIOUS
  <1>1. CASE UNCHANGED persistVars
    BY <1>1 DEF persistVars, sinkVars, pipeVars, diskVars, Inv, TypeOK, ActiveHasRecord,
                SinkInv, DownInv, CleanInv, Run
  <1>2. CASE ProcessStep
    BY <1>2, ProcessInv
  <1>3. ASSUME NEW a \in Agents, StartRun(a) PROVE Inv'
    BY <1>3, StartRunInv
  <1>4. ASSUME NEW a \in Agents, SinkStep(a) PROVE Inv'
    <2>1. CASE MarkActive(a)
      BY <2>1, MarkActiveInv
    <2>2. ASSUME NEW s \in Terminal, StopRun(a, s) PROVE Inv'
      <3>1. up /\ pc[a] \in {"running", "abort"} /\ held[a] # 0
        BY <2>2 DEF StopRun, At, Inv, SinkInv
      <3>2. QED
        BY <2>2, <3>1, WriteFinalInv DEF StopRun
    <2>3. CASE ClearActive(a)
      BY <2>3, ClearActiveInv
    <2>4. QED
      BY <1>4, <2>1, <2>2, <2>3 DEF SinkStep
  <1>5. ASSUME NEW a \in Agents, EmitMessage(a, "running") \/ EmitMessage(a, "dry") PROVE Inv'
    BY <1>5, EmitMessageInv
  <1>6. ASSUME NEW a \in Agents, ResolveFails(a) PROVE Inv'
    BY <1>6, WriteFinalInv DEF ResolveFails, At, Terminal
  <1>7. ASSUME NEW a \in Agents, BeginDry(a) \/ EndDry(a) PROVE Inv'
    BY <1>7, DryInv
  <1>8. QED
    BY <1>1, <1>2, <1>3, <1>4, <1>5, <1>6, <1>7 DEF Next, AgentStep

\* The inductive invariant holds in every reachable state.
LEMMA Invariant == Spec => []Inv
  BY InitInv, NextInv, PTL DEF Spec

-----------------------------------------------------------------------------
\* Type correctness of the sinks, the pipes and the files.
THEOREM TypeCorrect == Spec => []TypeOK
  <1>1. Inv => TypeOK
    BY DEF Inv
  <1>2. QED
    BY <1>1, Invariant, PTL

\* Whatever fails and whenever the process dies, a marker file that
\* mark_conversation_active wrote always has the document of its run.
THEOREM MarkersHaveRecords == Spec => []ActiveHasRecord
  <1>1. Inv => ActiveHasRecord
    BY DEF Inv
  <1>2. QED
    BY <1>1, Invariant, PTL

\* While an invocation runs, its marker exists and its document says that it
\* is running, for any number of agents.
THEOREM RunsAreVisible == Spec => []RunningIsVisible
  <1>1. Inv => RunningIsVisible
    BY DEF Inv, SinkInv, RunningIsVisible, At
  <1>2. QED
    BY <1>1, Invariant, PTL

\* As long as no file operation fails, agents that do not run have no marker,
\* also after a crash.
THEOREM NoMarkerLeftBehind == Spec => []IdleIsUnmarked
  <1>1. Inv => IdleIsUnmarked
    BY DEF Inv, CleanInv, IdleIsUnmarked, At
  <1>2. QED
    BY <1>1, Invariant, PTL

\* The marker directory tells which agents run, for any number of agents and
\* runs, through crashes and restarts, unless a file operation failed.
THEOREM MarkersTellWhoRuns == Spec => []MarkersHonest
  <1>1. RunningIsVisible /\ IdleIsUnmarked => MarkersHonest
    BY DEF MarkersHonest
  <1>2. QED
    BY <1>1, RunsAreVisible, NoMarkerLeftBehind, PTL

\* _stop_run removes a marker only after the final status is on disk.
THEOREM StatusBeforeClear == Spec => FinalBeforeClear
  <1> DEFINE Safe == \A r \in marked \ marked' : ~up \/ doc[r].status \in Terminal
  <1>1. Inv /\ [Next]_persistVars => [Safe]_persistVars
    <2> SUFFICES ASSUME Inv, Next PROVE Safe
      OBVIOUS
    <2>1. ASSUME NEW a \in Agents, ClearActive(a) PROVE Safe
      BY <2>1 DEF ClearActive, At, Inv, SinkInv
    <2>2. CASE \E r \in Runs : ClearStale(r)
      BY <2>2 DEF ClearStale
    <2>3. CASE UNCHANGED marked
      BY <2>3
    <2>4. CASE \E a \in Agents : MarkActive(a)
      BY <2>4 DEF MarkActive
    <2>5. QED
      BY <2>1, <2>2, <2>3, <2>4 DEF Next, AgentStep, ProcessStep, SinkStep, StartRun, StopRun,
         EmitMessage, ResolveFails, BeginDry, EndDry, Crash, Boot, diskVars
  <1>2. QED
    BY <1>1, Invariant, PTL DEF Spec, FinalBeforeClear

-----------------------------------------------------------------------------
(* The Librarian.  Revisits are left out (an agent that is shown after its   *)
(* run adds rows to the finished document, below what was summarized).       *)

RowNums(m) == {m.rows[i] : i \in DOMAIN m.rows}

\* Document m has the rows of d, and the others are later ones.
Continues(m, d) ==
    /\ RowNums(d) \subseteq RowNums(m)
    /\ \A n \in RowNums(m) \ RowNums(d) : \A k \in RowNums(d) : k < n

\* What a sink holds in memory continues the document on disk, which says
\* "running" until _stop_run writes it; a run that was not started has none.
SinkRows(a) ==
    /\ pc[a] # "dry" /\ held[a] <= runs[a]
    /\ pc[a] \in {"mark", "running", "abort"} =>
         /\ RowNums(mem[a]) \subseteq 1..seq[a]
         /\ doc[Run(a)] # NoDoc =>
              doc[Run(a)].status = "running" /\ Continues(mem[a], doc[Run(a)])
    /\ \A n \in 1..MaxRuns : n > runs[a] => doc[<<a, n>>] = NoDoc

RowInv ==
    /\ \A a \in Agents : SinkRows(a)
    /\ \A r \in Runs : doc[r] # NoDoc => RowNums(doc[r]) \subseteq Nat \ {0}

\* A coverage cursor points at a row that exists, and whatever is up to it is
\* in the summary.
Claims(docs, r, covers, holds) ==
    /\ r \in Runs /\ docs[r] # NoDoc
    /\ covers \in RowNums(docs[r])
    /\ \A n \in RowNums(docs[r]) : n <= covers => <<r, n>> \in holds

CoverInv ==
    /\ \A f \in archive : f.kind = "snapshot" => Claims(doc, f.run, f.covers, f.holds)
    /\ \A l \in Librarians : lpc[l] \in {"summary", "publish"} =>
         Claims(doc, job[l].run, job[l].covers, job[l].holds)

OneLibrarian == \A k, l \in Librarians : k = l

\* A memory holds what was published before it; the one that is being made
\* holds everything; and retention only comes when little is pending.
FoldInv ==
    /\ \A m \in Memories : \A f \in archive : f.stamp <= m.stamp => f.holds \subseteq m.holds
    /\ \A l \in Librarians :
         /\ lpc[l] \in {"memory", "memorize"} =>
              /\ job[l].since = Watermark
              /\ \A f \in archive : f.holds \subseteq job[l].holds
         /\ lpc[l] = "purge" => Cardinality(Pending) < MinPending

Kept == UNION {f.holds : f \in archive}

\* The rows a Librarian owes are those of ended runs: while it sweeps they are
\* kept, ahead of it or in its summary; afterwards they are kept.
OwedInv ==
    \A l \in Librarians :
        /\ owed[l] \subseteq EndedRows
        /\ lpc[l] \in {"sweep", "summary", "publish"} =>
             \A x \in owed[l] :
                 \/ x[1] \in todo[l] \/ x \in Kept
                 \/ lpc[l] # "sweep" /\ x[1] = job[l].run /\ x[2] <= job[l].covers
        /\ lpc[l] \in {"memory", "memorize", "purge", "check", "stopped"} => owed[l] \subseteq Kept

\* A finite set of numbers that is not empty has a largest one: among the sets
\* of its numbers above each of them there is a smallest, which is empty.
LEMMA LargestExists ==
  ASSUME NEW S, S \subseteq Nat, IsFiniteSet(S), S # {}
  PROVE  \E i \in S : \A j \in S : j <= i
  <1> DEFINE More(i) == {j \in S : j > i}
             T == {More(i) : i \in S}
  <1>1. T \subseteq SUBSET S /\ T # {}
    OBVIOUS
  <1>2. T \subseteq FiniteSubsetsOf(S)
    <2> HIDE DEF T
    <2>1. QED
      BY <1>1, FS_FiniteSubsetsOfFinite
  <1>3. PICK U \in T : \A V \in T : <<V, U>> \notin StrictSubsetOrdering(S)
    <2> HIDE DEF T
    <2>1. QED
      BY <1>1, <1>2, FS_StrictSubsetOrderingWellFounded, WFMin
  <1>4. PICK i \in S : U = More(i)
    OBVIOUS
  <1>5. ASSUME NEW j \in S, j > i PROVE FALSE
    <2>1. j \in U /\ j \notin More(j)
      <3>1. j \in Nat /\ ~(j > j)
        OBVIOUS
      <3>2. QED
        BY <1>4, <1>5, <3>1
    <2>2. More(j) \subseteq U
      <3>1. \A k \in S : k > j => k > i
        BY <1>5
      <3>2. QED
        BY <1>4, <3>1
    <2>3. More(j) \in T /\ <<More(j), U>> \in StrictSubsetOrdering(S)
      BY <2>1, <2>2, <1>4 DEF StrictSubsetOrdering
    <2>4. QED
      BY <2>3, <1>3
  <1>6. QED
    BY <1>5

\* Adding a row or changing the status leaves the other rows of a document.
LEMMA RowsOfRecord ==
  /\ RowNums(NewRecord) = {}
  /\ \A m \in Records : \A n \in Nat :
       RowNums([m EXCEPT !.rows = Append(@, n)]) = RowNums(m) \cup {n}
  /\ \A m \in Records : \A s : RowNums([m EXCEPT !.status = s]) = RowNums(m)
  <1>1. RowNums(NewRecord) = {}
    BY DEF RowNums, NewRecord
  <1>2. ASSUME NEW m \in Records, NEW n \in Nat
        PROVE  RowNums([m EXCEPT !.rows = Append(@, n)]) = RowNums(m) \cup {n}
    <2>1. m.rows \in Seq(Nat) /\ [m EXCEPT !.rows = Append(@, n)].rows = Append(m.rows, n)
      BY DEF Records
    <2>2. /\ DOMAIN Append(m.rows, n) = 1..(Len(m.rows) + 1)
          /\ DOMAIN m.rows = 1..Len(m.rows) /\ Len(m.rows) \in Nat
          /\ \A i \in 1..Len(m.rows) : Append(m.rows, n)[i] = m.rows[i]
          /\ Append(m.rows, n)[Len(m.rows) + 1] = n
      BY <2>1
    <2>3. 1..(Len(m.rows) + 1) = (1..Len(m.rows)) \cup {Len(m.rows) + 1}
      BY <2>2
    <2>4. QED
      BY <2>1, <2>2, <2>3 DEF RowNums
  <1>3. \A m \in Records : \A s : RowNums([m EXCEPT !.status = s]) = RowNums(m)
    BY DEF RowNums, Records
  <1>4. QED
    BY <1>1, <1>2, <1>3

\* The rows of a document are finitely many numbers.
LEMMA RowsAreNumbers ==
  ASSUME NEW m \in Records
  PROVE  RowNums(m) \subseteq Nat /\ IsFiniteSet(RowNums(m))
  <1>1. m.rows \in Seq(Nat) /\ Len(m.rows) \in Nat /\ DOMAIN m.rows = 1..Len(m.rows)
    BY DEF Records
  <1>2. RowNums(m) \subseteq Nat
    BY <1>1 DEF RowNums
  <1>3. m.rows \in Surjection(1..Len(m.rows), RowNums(m))
    BY <1>1 DEF RowNums, Surjection
  <1>4. IsFiniteSet(RowNums(m))
    BY <1>1, <1>3, FS_NatSurjection DEF ExistsSurjection
  <1>5. QED
    BY <1>2, <1>4

\* What happens to the document of a run: it is made, or it goes on, which
\* ends with its final status.
DocsGrow ==
    \A r \in Runs :
        \/ doc'[r] = doc[r]
        \/ doc[r] = NoDoc
        \/ doc'[r] # NoDoc /\ doc[r].status = "running" /\ Continues(doc'[r], doc[r])

\* Writing to the document of a run in progress.
LEMMA WriteGrows ==
  ASSUME Inv, RowInv, NEW a \in Agents, pc[a] \in {"mark", "running", "abort"},
         NEW m \in Records, Continues(m, mem[a]) \/ RowNums(m) = RowNums(mem[a]),
         doc' = [doc EXCEPT ![Run(a)] = m] \/ UNCHANGED doc
  PROVE  DocsGrow /\ Continues(m, mem[a])
  <1>1. Continues(m, mem[a])
    BY DEF Continues
  <1>2. m # NoDoc /\ Run(a) \in Runs /\ doc \in [Runs -> Records \cup {NoDoc}]
    BY NoDocAssumption, RunsApart DEF Inv, SinkInv, TypeOK
  <1>3. doc[Run(a)] # NoDoc => doc[Run(a)].status = "running" /\ Continues(m, doc[Run(a)])
    <2>1. doc[Run(a)] # NoDoc => doc[Run(a)].status = "running" /\ Continues(mem[a], doc[Run(a)])
      BY DEF RowInv, SinkRows
    <2>2. /\ mem[a] \in Records
          /\ \A n \in RowNums(mem[a]) : n \in Nat
          /\ \A n \in RowNums(m) : n \in Nat
      BY RowsAreNumbers DEF Inv, TypeOK
    <2>3. QED
      BY <1>1, <2>1, <2>2, RowsAreNumbers, <1>2 DEF Continues
  <1>4. QED
    BY <1>1, <1>2, <1>3 DEF DocsGrow

\* A step of one sink leaves the rows of the others alone.
LEMMA RowsFrom ==
  ASSUME Inv, RowInv, NEW a \in Agents, SinkRows(a)',
         \A b \in Agents \ {a} :
            /\ pc'[b] = pc[b] /\ held'[b] = held[b] /\ runs'[b] = runs[b]
            /\ mem'[b] = mem[b] /\ seq'[b] = seq[b],
         \A r \in Runs : r[1] # a => doc'[r] = doc[r],
         \A r \in Runs : doc'[r] # NoDoc /\ doc'[r] # doc[r] => RowNums(doc'[r]) \subseteq Nat \ {0}
  PROVE  RowInv'
  <1>1. ASSUME NEW b \in Agents, b # a PROVE SinkRows(b)'
    <2>1. SinkRows(b) /\ Run(b)' = Run(b)
      BY <1>1 DEF RowInv, Run
    <2>2. \A n \in 1..MaxRuns : doc'[<<b, n>>] = doc[<<b, n>>]
      BY <1>1 DEF Runs
    <2>3. pc[b] \in {"mark", "running", "abort"} => doc'[Run(b)] = doc[Run(b)]
      BY <2>2, BoundsAssumption DEF Inv, SinkInv, TypeOK, Run
    <2>4. Continues(mem[b], doc[Run(b)])' <=> Continues(mem'[b], doc'[Run(b)'])
      BY DEF Continues, RowNums
    <2>5. QED
      BY <1>1, <2>1, <2>2, <2>3, <2>4 DEF SinkRows
  <1>2. \A r \in Runs : doc'[r] # NoDoc => RowNums(doc'[r]) \subseteq Nat \ {0}
    BY DEF RowInv
  <1>3. QED
    BY <1>1, <1>2 DEF RowInv

\* A new run has no document yet.
LEMMA StartRunRows ==
  ASSUME Inv, RowInv, NEW a \in Agents, StartRun(a)
  PROVE  RowInv' /\ DocsGrow
  <1> DEFINE r == <<a, runs[a] + 1>>
  <1>1. /\ TypeOK /\ runs[a] \in Nat /\ runs[a] + 1 \in 1..MaxRuns
        /\ r \in Runs /\ doc[r] = NoDoc
    BY BoundsAssumption DEF Inv, TypeOK, StartRun, RowInv, SinkRows, Runs
  <1>2. doc' = [doc EXCEPT ![r] = NewRecord] \/ UNCHANGED doc
    BY DEF StartRun, WriteRun, WriteRaises
  <1>3. /\ pc' = [pc EXCEPT ![a] = pc'[a]] /\ pc'[a] \in {"mark", "abort"}
        /\ held' = [held EXCEPT ![a] = runs[a] + 1] /\ runs' = [runs EXCEPT ![a] = runs[a] + 1]
        /\ mem' = [mem EXCEPT ![a] = NewRecord] /\ seq' = [seq EXCEPT ![a] = 1]
    BY <1>1 DEF StartRun, WriteRun, WriteRaises, Goto, TypeOK
  <1>4. DocsGrow
    BY <1>1, <1>2 DEF DocsGrow, TypeOK
  <1>5. Run(a)' = r
    BY <1>1, <1>3 DEF Run, TypeOK
  <1>6. doc'[r] \in {NewRecord, NoDoc}
    BY <1>1, <1>2 DEF TypeOK
  <1>7. SinkRows(a)'
    <2>1. RowNums(NewRecord) = {} /\ NewRecord.status = "running"
      BY RowsOfRecord DEF NewRecord
    <2>2. mem'[a] = NewRecord /\ pc'[a] # "dry" /\ held'[a] = runs[a] + 1 /\ runs'[a] = runs[a] + 1
      BY <1>1, <1>3 DEF TypeOK
    <2>3. \A n \in 1..MaxRuns : n > runs[a] + 1 => doc'[<<a, n>>] = NoDoc
      <3> SUFFICES ASSUME NEW n \in 1..MaxRuns, n > runs[a] + 1 PROVE doc'[<<a, n>>] = NoDoc
        OBVIOUS
      <3>1. <<a, n>> # r /\ <<a, n>> \in Runs /\ doc[<<a, n>>] = NoDoc
        BY <1>1 DEF RowInv, SinkRows, Runs
      <3>2. QED
        BY <1>1, <1>2, <3>1 DEF TypeOK
    <2>4. RowNums(NewRecord) \subseteq 1..seq'[a] /\ Continues(NewRecord, NewRecord)
      BY <2>1 DEF Continues
    <2> HIDE DEF r
    <2>5. QED
      BY <1>1, <1>5, <1>6, <2>1, <2>2, <2>3, <2>4 DEF SinkRows
  <1>8. RowInv'
    <2>1. \A q \in Runs : q[1] # a => doc'[q] = doc[q]
      BY <1>1, <1>2 DEF TypeOK
    <2>2. \A q \in Runs : doc'[q] # NoDoc /\ doc'[q] # doc[q] => RowNums(doc'[q]) \subseteq Nat \ {0}
      BY <1>1, <1>2, RowsOfRecord DEF TypeOK
    <2>3. \A b \in Agents \ {a} :
            /\ pc'[b] = pc[b] /\ held'[b] = held[b] /\ runs'[b] = runs[b]
            /\ mem'[b] = mem[b] /\ seq'[b] = seq[b]
      BY <1>1, <1>3 DEF TypeOK
    <2> HIDE DEF r
    <2>4. QED
      BY <1>1, <1>7, <2>1, <2>2, <2>3, RowsFrom
  <1>9. QED
    BY <1>4, <1>8

\* A row is numbered after all the rows before it.
LEMMA EmitMessageRows ==
  ASSUME Inv, RowInv, NEW a \in Agents, EmitMessage(a, "running")
  PROVE  RowInv' /\ DocsGrow
  <1> DEFINE n == seq[a] + 1
             m == [mem[a] EXCEPT !.rows = Append(@, n)]
  <1>1. /\ TypeOK /\ pc[a] = "running" /\ held[a] # 0 /\ Run(a) \in Runs
        /\ mem[a] \in Records /\ seq[a] \in Nat /\ n \in Nat
        /\ SinkRows(a)
    BY RunsApart, BoundsAssumption DEF Inv, SinkInv, TypeOK, EmitMessage, At, RowInv
  <1>2. m \in Records /\ RowNums(m) = RowNums(mem[a]) \cup {n}
    BY <1>1, RecordKept, RowsOfRecord
  <1>3. RowNums(mem[a]) \subseteq 1..seq[a]
    BY <1>1 DEF SinkRows
  <1>4. Continues(m, mem[a]) /\ RowNums(m) \subseteq 1..n
    <2>1. \A k \in RowNums(mem[a]) : k \in Nat /\ k < n /\ k \in 1..n
      BY <1>1, <1>3
    <2>2. n \in 1..n
      BY <1>1
    <2> HIDE DEF m, n
    <2>3. QED
      BY <1>2, <2>1, <2>2 DEF Continues
  <1>5. /\ doc' = [doc EXCEPT ![Run(a)] = m] \/ UNCHANGED doc
        /\ mem' = [mem EXCEPT ![a] = m] /\ seq' = [seq EXCEPT ![a] = n]
        /\ pc' = [pc EXCEPT ![a] = pc'[a]] /\ pc'[a] \in {"running", "abort"}
        /\ UNCHANGED <<held, runs>>
    BY <1>1 DEF EmitMessage, WriteRun, WriteRaises, Goto, TypeOK
  <1> HIDE DEF m, n
  <1>6. DocsGrow
    BY <1>1, <1>2, <1>4, <1>5, WriteGrows
  <1>7. SinkRows(a)'
    <2>1. mem'[a] = m /\ seq'[a] = n /\ Run(a)' = Run(a) /\ doc[Run(a)] # NoDoc
      BY <1>1, <1>5 DEF TypeOK, Run, Inv, SinkInv
    <2>2. doc[Run(a)].status = "running" /\ Continues(m, doc[Run(a)]) /\ m.status = "running"
      <3>1. doc[Run(a)].status = "running" /\ Continues(mem[a], doc[Run(a)])
        BY <1>1, <2>1 DEF SinkRows
      <3>2. m.status = "running"
        BY <1>1, <1>2, RecordKept DEF Inv, SinkInv, m
      <3>3. \A k \in RowNums(doc[Run(a)]) : k < n
        BY <1>1, <1>3, <3>1 DEF Continues, n
      <3>4. QED
        BY <1>2, <3>1, <3>2, <3>3 DEF Continues
    <2>3. Continues(m, m)
      BY DEF Continues
    <2>4. doc'[Run(a)].status = "running" /\ Continues(m, doc'[Run(a)])
      BY <1>1, <1>5, <2>2, <2>3 DEF TypeOK
    <2>5. \A k \in 1..MaxRuns : k > runs[a] => doc'[<<a, k>>] = NoDoc
      <3>1. \A k \in 1..MaxRuns : k > runs[a] => <<a, k>> # Run(a) /\ doc[<<a, k>>] = NoDoc
        BY <1>1 DEF SinkRows, Run, TypeOK
      <3>2. QED
        BY <1>1, <1>5, <3>1 DEF TypeOK, Runs
    <2>6. QED
      BY <1>1, <1>4, <1>5, <2>1, <2>4, <2>5 DEF SinkRows
  <1>8. RowInv'
    <2>1. \A r \in Runs : r[1] # a => doc'[r] = doc[r]
      BY <1>1, <1>5 DEF TypeOK, Run
    <2>2. \A r \in Runs : doc'[r] # NoDoc /\ doc'[r] # doc[r] => RowNums(doc'[r]) \subseteq Nat \ {0}
      BY <1>1, <1>4, <1>5 DEF TypeOK
    <2>3. \A b \in Agents \ {a} :
            /\ pc'[b] = pc[b] /\ held'[b] = held[b] /\ runs'[b] = runs[b]
            /\ mem'[b] = mem[b] /\ seq'[b] = seq[b]
      BY <1>1, <1>5 DEF TypeOK
    <2>4. QED
      BY <1>1, <1>7, <2>1, <2>2, <2>3, RowsFrom
  <1>9. QED
    BY <1>6, <1>8

\* The final document has the rows that the sink has seen.
LEMMA StopRunRows ==
  ASSUME Inv, RowInv, NEW a \in Agents, NEW s \in Terminal, StopRun(a, s)
  PROVE  RowInv' /\ DocsGrow
  <1> DEFINE m == [mem[a] EXCEPT !.status = s]
  <1>1. /\ TypeOK /\ pc[a] \in {"running", "abort"} /\ held[a] # 0 /\ Run(a) \in Runs
        /\ mem[a] \in Records /\ seq[a] \in Nat /\ SinkRows(a)
    BY RunsApart, BoundsAssumption DEF Inv, SinkInv, TypeOK, StopRun, At, RowInv
  <1>2. m \in Records /\ RowNums(m) = RowNums(mem[a])
    BY <1>1, RecordKept, RowsOfRecord
  <1>3. RowNums(m) \subseteq Nat \ {0}
    BY <1>1, <1>2 DEF SinkRows
  <1>4. /\ doc' = [doc EXCEPT ![Run(a)] = m] \/ UNCHANGED doc
        /\ mem' = [mem EXCEPT ![a] = m]
        /\ pc' = [pc EXCEPT ![a] = pc'[a]] /\ pc'[a] \in {"clear", "idle"}
        /\ UNCHANGED <<held, runs, seq>>
    BY <1>1 DEF StopRun, WriteFinal, WriteRun, WriteRaises, Goto, TypeOK, pipeVars
  <1> HIDE DEF m
  <1>5. DocsGrow
    BY <1>1, <1>2, <1>4, WriteGrows
  <1>6. SinkRows(a)'
    <2>1. \A k \in 1..MaxRuns : k > runs[a] => <<a, k>> # Run(a) /\ doc[<<a, k>>] = NoDoc
      BY <1>1 DEF SinkRows, Run, TypeOK
    <2>2. \A k \in 1..MaxRuns : k > runs[a] => doc'[<<a, k>>] = NoDoc
      BY <1>1, <1>4, <2>1 DEF TypeOK, Runs
    <2>3. QED
      BY <1>1, <1>4, <2>2 DEF SinkRows
  <1>7. RowInv'
    <2>1. \A r \in Runs : r[1] # a => doc'[r] = doc[r]
      BY <1>1, <1>4 DEF TypeOK, Run
    <2>2. \A r \in Runs : doc'[r] # NoDoc /\ doc'[r] # doc[r] => RowNums(doc'[r]) \subseteq Nat \ {0}
      BY <1>1, <1>3, <1>4 DEF TypeOK
    <2>3. \A b \in Agents \ {a} :
            /\ pc'[b] = pc[b] /\ held'[b] = held[b] /\ runs'[b] = runs[b]
            /\ mem'[b] = mem[b] /\ seq'[b] = seq[b]
      BY <1>1, <1>4 DEF TypeOK
    <2>4. QED
      BY <1>6, <2>1, <2>2, <2>3, RowsFrom
  <1>8. QED
    BY <1>5, <1>7

\* Markers, crashes and restarts change no document.
LEMMA MarkerRows ==
  ASSUME Inv, RowInv,
         \/ \E a \in Agents : MarkActive(a) \/ ClearActive(a)
         \/ ProcessStep
         \/ UNCHANGED persistVars
  PROVE  RowInv' /\ DocsGrow
  <1>1. UNCHANGED <<doc, runs, seq>>
    BY DEF MarkActive, ClearActive, ProcessStep, Crash, Boot, ClearStale, persistVars, pipeVars, diskVars
  <1>2. ASSUME NEW b \in Agents PROVE SinkRows(b)'
    <2>1. SinkRows(b) /\ b \in DOMAIN pc /\ runs[b] \in Nat
      BY <1>2, BoundsAssumption DEF RowInv, Inv, TypeOK
    <2>2. CASE pc'[b] = "idle" /\ held'[b] = 0
      BY <1>1, <2>1, <2>2 DEF SinkRows
    <2>3. CASE /\ UNCHANGED <<held, mem>>
               /\ pc'[b] # "dry"
               /\ pc'[b] \in {"mark", "running", "abort"} => pc[b] \in {"mark", "running", "abort"}
      BY <1>1, <2>1, <2>3 DEF SinkRows, Run
    <2>4. ASSUME NEW a \in Agents, MarkActive(a) \/ ClearActive(a) PROVE SinkRows(b)'
      BY <2>1, <2>3, <2>4, <1>2 DEF MarkActive, ClearActive, At, Goto, sinkVars, SinkRows, Inv, TypeOK
    <2>5. CASE Crash
      BY <2>2, <2>5, <1>2 DEF Crash
    <2>6. QED
      BY <2>1, <2>3, <2>4, <2>5 DEF ProcessStep, Boot, ClearStale, persistVars, sinkVars, SinkRows
  <1>3. QED
    BY <1>1, <1>2 DEF RowInv, DocsGrow

\* Every step of the agents and their process.
LEMMA RowStep ==
  ASSUME ~Revisits, Inv, RowInv, [Next]_persistVars
  PROVE  RowInv' /\ DocsGrow
  <1>1. ASSUME NEW a \in Agents, StartRun(a) PROVE RowInv' /\ DocsGrow
    BY <1>1, StartRunRows
  <1>2. ASSUME NEW a \in Agents, EmitMessage(a, "running") PROVE RowInv' /\ DocsGrow
    BY <1>2, EmitMessageRows
  <1>3. ASSUME NEW a \in Agents, NEW s \in Terminal, StopRun(a, s) PROVE RowInv' /\ DocsGrow
    BY <1>3, StopRunRows
  <1>4. \A a \in Agents : ~EmitMessage(a, "dry") /\ ~EndDry(a)
    BY DEF EmitMessage, EndDry, At, RowInv, SinkRows
  <1>5. \A a \in Agents : ~ResolveFails(a) /\ ~BeginDry(a)
    BY DEF ResolveFails, BeginDry
  <1>6. QED
    BY <1>1, <1>2, <1>3, <1>4, <1>5, MarkerRows DEF Next, AgentStep, SinkStep

LEMMA RowInit == Init => RowInv
  <1>1. Init => \A a \in Agents : SinkRows(a)
    BY BoundsAssumption DEF Init, SinkRows, Runs
  <1>2. QED
    BY <1>1 DEF RowInv, Init

-----------------------------------------------------------------------------
(* The Librarian's files and its sweep.                                      *)

\* What is still to be looked at are documents.
TodoInv == \A l \in Librarians : \A r \in todo[l] : doc[r] # NoDoc

\* The Librarian's steps are stutters of the sinks it watches, which take their
\* own steps next to it.
LEMMA LibPersists == [LibNext]_vars => [Next]_persistVars
  <1> USE DEF Next, ProcessStep
  <1>1. CASE UNCHANGED vars
    BY <1>1 DEF vars
  <1>2. CASE AgentStep \/ CrashAll \/ Boot \/ \E r \in Runs : ClearStale(r)
    BY <1>2 DEF CrashAll
  <1>3. ASSUME NEW l \in Librarians, Invoke(l) \/ Abort(l) \/ LibStep(l)
        PROVE  UNCHANGED persistVars
    BY <1>3 DEF Invoke, Abort, LibStep, ListConversations, LoadConversation, RecheckSnapshot,
       PublishSnapshot, BeginConsolidation, RecheckMemory, PublishMemory, Purge, CheckInactive,
       StopCheck, SleepBetweenRuns, Wake
  <1>4. QED
    BY <1>1, <1>2, <1>3 DEF LibNext

\* A document is never lost.
LEMMA DocsStay ==
  ASSUME Inv, [Next]_persistVars
  PROVE  \A r \in Runs : doc[r] # NoDoc => doc'[r] # NoDoc
  <1>1. NewRecord # NoDoc /\ \A a \in Agents : mem[a] \in Records /\ seq[a] + 1 \in Nat
    BY NewRecordType, BoundsAssumption DEF Inv, TypeOK
  <1>2. ASSUME NEW a \in Agents, NEW r, NEW m \in Records, NEW here, NEW there,
               WriteRun(a, r, m, here) \/ WriteRaises(a, m, there)
        PROVE  \A q \in Runs : doc[q] # NoDoc => doc'[q] # NoDoc
    BY <1>2, NoDocAssumption DEF WriteRun, WriteRaises, Inv, TypeOK
  <1>3. ASSUME NEW a \in Agents, StartRun(a)
        PROVE  \A q \in Runs : doc[q] # NoDoc => doc'[q] # NoDoc
    BY <1>2, <1>3, NewRecordType DEF StartRun
  <1>4. ASSUME NEW a \in Agents, NEW here, EmitMessage(a, here)
        PROVE  \A q \in Runs : doc[q] # NoDoc => doc'[q] # NoDoc
    <2>1. [mem[a] EXCEPT !.rows = Append(@, seq[a] + 1)] \in Records
      BY <1>1, RecordKept
    <2>2. QED
      BY <1>2, <1>4, <2>1 DEF EmitMessage
  <1>5. ASSUME NEW a \in Agents, NEW s \in Terminal, StopRun(a, s) \/ ResolveFails(a)
        PROVE  \A q \in Runs : doc[q] # NoDoc => doc'[q] # NoDoc
    <2>1. \A t \in Terminal : [mem[a] EXCEPT !.status = t] \in Records
      BY <1>1, RecordKept
    <2>2. PICK t \in Terminal : WriteFinal(a, t)
      BY <1>5 DEF StopRun, ResolveFails, Terminal
    <2>3. QED
      BY <1>2, <2>1, <2>2 DEF WriteFinal
  <1>6. CASE UNCHANGED doc
    BY <1>6
  <1>7. QED
    BY <1>3, <1>4, <1>5, <1>6 DEF Next, AgentStep, SinkStep, ProcessStep, MarkActive, ClearActive,
       BeginDry, EndDry, Crash, Boot, ClearStale, persistVars, diskVars, Terminal

\* latest_timestamped_file: there is one, wherever there are files.
LEMMA LatestIsLast ==
  ASSUME LibTypeOK, NEW files, files \subseteq archive, files # {}
  PROVE  Latest(files) \in files /\ \A g \in files : g.stamp <= Latest(files).stamp
  <1> DEFINE S == {f.stamp : f \in files}
  <1>1. S \subseteq Nat /\ S # {} /\ \A s \in S : s <= published
    BY DEF LibTypeOK
  <1>2. IsFiniteSet(S) /\ published \in Nat
    <2> HIDE DEF S
    <2>1. published \in Nat
      BY DEF LibTypeOK
    <2>2. QED
      BY <1>1, <2>1, FS_BoundedSetOfNaturals
  <1>3. PICK s \in S : \A t \in S : t <= s
    <2> HIDE DEF S
    <2>1. QED
      BY <1>1, <1>2, LargestExists
  <1>4. \E f \in files : \A g \in files : g.stamp <= f.stamp
    BY <1>3
  <1>5. QED
    BY <1>4 DEF Latest

\* The rows of a document that no snapshot covers, and the last one of them.
LEMMA UncoveredRows ==
  ASSUME Inv, NEW r \in Runs, doc[r] # NoDoc
  PROVE  /\ RowNums(doc[r]) \subseteq Nat
         /\ \A x : x \in RowsOf(r, doc[r]) <=> \E n \in RowNums(doc[r]) : x = <<r, n>>
         /\ Uncovered(r) \subseteq RowsOf(r, doc[r])
         /\ RowsOf(r, doc[r]) \subseteq Rows
         /\ Uncovered(r) # {} =>
              /\ MaxSequence(Uncovered(r)) \in RowNums(doc[r])
              /\ \A x \in Uncovered(r) : x[2] <= MaxSequence(Uncovered(r))
  <1>1. doc[r] \in Records
    BY DEF Inv, TypeOK
  <1>2. RowNums(doc[r]) \subseteq Nat /\ IsFiniteSet(RowNums(doc[r]))
    BY <1>1, RowsAreNumbers
  <1>3. \A x : x \in RowsOf(r, doc[r]) <=> \E n \in RowNums(doc[r]) : x = <<r, n>>
    BY DEF RowsOf, RowNums
  <1>4. Uncovered(r) \subseteq RowsOf(r, doc[r]) /\ RowsOf(r, doc[r]) \subseteq Rows
    BY <1>2, <1>3 DEF Uncovered, Rows
  <1>5. ASSUME Uncovered(r) # {}
        PROVE  /\ MaxSequence(Uncovered(r)) \in RowNums(doc[r])
               /\ \A x \in Uncovered(r) : x[2] <= MaxSequence(Uncovered(r))
    <2> DEFINE S == {x[2] : x \in Uncovered(r)}
    <2>1. S \subseteq RowNums(doc[r]) /\ S # {}
      BY <1>3, <1>4, <1>5
    <2>2. S \subseteq Nat /\ IsFiniteSet(S)
      <3> HIDE DEF S
      <3>1. QED
        BY <1>2, <2>1, FS_Subset
    <2>3. \E s \in S : \A t \in S : t <= s
      <3> HIDE DEF S
      <3>1. QED
        BY <2>1, <2>2, LargestExists
    <2>4. \E n \in S : \A x \in Uncovered(r) : x[2] <= n
      BY <2>3
    <2>5. /\ MaxSequence(Uncovered(r)) \in S
          /\ \A x \in Uncovered(r) : x[2] <= MaxSequence(Uncovered(r))
      BY <2>4 DEF MaxSequence
    <2>6. QED
      BY <2>1, <2>5
  <1>6. QED
    BY <1>2, <1>3, <1>4, <1>5

\* The latest file, or none, has a time stamp and rows.
LEMMA LatestType ==
  ASSUME LibTypeOK, NEW files, files \subseteq archive
  PROVE  Latest(files).stamp \in 0..published /\ Latest(files).holds \subseteq Rows
  <1>1. CASE files = {}
    BY <1>1 DEF Latest, NoFile, LibTypeOK
  <1>2. CASE files # {}
    <2>1. Latest(files) \in archive
      BY <1>2, LatestIsLast
    <2>2. QED
      BY <2>1 DEF LibTypeOK, Files
  <1>3. QED
    BY <1>1, <1>2

\* A published file carries the next time stamp.
LEMMA PublishType ==
  ASSUME LibTypeOK, NEW f \in Files, f.stamp = 0, Publish(f)
  PROVE  /\ published' = published + 1 /\ published' \in Nat
         /\ archive' \subseteq Files /\ IsFiniteSet(archive')
         /\ \A g \in archive' : g.stamp \in 1..published'
         /\ archive' = archive \cup {[f EXCEPT !.stamp = published + 1]}
         /\ [f EXCEPT !.stamp = published + 1].stamp = published + 1
  <1> DEFINE g == [f EXCEPT !.stamp = published + 1]
  <1>1. g \in Files /\ g.stamp = published + 1
    BY DEF LibTypeOK, Files
  <1>2. archive' = archive \cup {g} /\ published' = published + 1
    BY DEF Publish
  <1>3. IsFiniteSet(archive \cup {g})
    BY FS_AddElement DEF LibTypeOK
  <1> HIDE DEF g
  <1>4. \A h \in archive' : h.stamp \in 1..published'
    BY <1>1, <1>2 DEF LibTypeOK
  <1>5. QED
    BY <1>1, <1>2, <1>3, <1>4 DEF LibTypeOK, g

\* What a Librarian publishes: its summary as a snapshot, or as a memory.
SnapshotOf(l) == [kind |-> "snapshot", run |-> job[l].run, stamp |-> 0, holds |-> job[l].holds,
                  covers |-> job[l].covers]
MemoryOf(l) == [kind |-> "memory", run |-> NoDoc, stamp |-> 0, covers |-> 0, holds |-> job[l].holds]

\* A sweep takes its work from the documents there are.
LEMMA SweepType ==
  ASSUME Inv, LibTypeOK, TodoInv, NEW l \in Librarians,
         \/ ListConversations(l)
         \/ \E r \in Runs : LoadConversation(l, r)
         \/ BeginConsolidation(l)
  PROVE  LibTypeOK' /\ TodoInv'
  <1>1. NoJob \in Jobs
    BY DEF NoJob, Jobs
  <1>2. CASE ListConversations(l)
    BY <1>2 DEF ListConversations, LAt, LGoto, LibTypeOK, TodoInv, fileVars, persistVars, diskVars
  <1>3. ASSUME NEW r \in Runs, LoadConversation(l, r) PROVE LibTypeOK' /\ TodoInv'
    <2>1. doc[r] # NoDoc /\ r \in Runs
      BY <1>3 DEF LoadConversation, TodoInv
    <2> DEFINE j == [run |-> r, covers |-> MaxSequence(Uncovered(r)),
                     since |-> Latest(Snapshots(r)).stamp,
                     holds |-> Latest(Snapshots(r)).holds \cup Uncovered(r)]
    <2>2. ShouldSnapshot(r) => j \in Jobs
      <3>1. Latest(Snapshots(r)).stamp \in Nat /\ Latest(Snapshots(r)).holds \subseteq Rows
        BY LatestType DEF Snapshots, LibTypeOK
      <3>2. ShouldSnapshot(r) => MaxSequence(Uncovered(r)) \in Nat /\ Uncovered(r) \subseteq Rows
        BY <2>1, UncoveredRows DEF ShouldSnapshot
      <3>3. QED
        BY <2>1, <3>1, <3>2 DEF Jobs
    <2>3. /\ todo' = [todo EXCEPT ![l] = @ \ {r}]
          /\ \/ ShouldSnapshot(r) /\ job' = [job EXCEPT ![l] = j] /\ LGoto(l, "summary")
             \/ UNCHANGED <<job, lpc>>
          /\ UNCHANGED <<doc, lastCheck, archive, published, owed>>
      BY <1>3 DEF LoadConversation, fileVars, persistVars, diskVars
    <2> HIDE DEF j
    <2>4. LibTypeOK'
      BY <2>2, <2>3 DEF LibTypeOK, LGoto
    <2>5. TodoInv'
      BY <2>3 DEF TodoInv, LibTypeOK
    <2>6. QED
      BY <2>4, <2>5
  <1>4. CASE BeginConsolidation(l)
    <2>1. Folded \subseteq Rows /\ Watermark \in Nat
      <3>1. Latest(Memories).stamp \in Nat /\ Latest(Memories).holds \subseteq Rows
        BY LatestType DEF Memories, LibTypeOK
      <3>2. \A f \in Pending : f.holds \subseteq Rows
        BY DEF Pending, LibTypeOK, Files
      <3>3. QED
        BY <3>1, <3>2 DEF Folded, Watermark
    <2>2. [NoJob EXCEPT !.since = Watermark, !.holds = Folded] \in Jobs
      BY <2>1 DEF NoJob, Jobs
    <2>3. /\ \/ job' = [job EXCEPT ![l] = [NoJob EXCEPT !.since = Watermark, !.holds = Folded]]
             \/ UNCHANGED job
          /\ \/ LGoto(l, "memory") \/ LGoto(l, "purge")
          /\ UNCHANGED <<doc, todo, lastCheck, archive, published, owed>>
      BY <1>4 DEF BeginConsolidation, fileVars, persistVars, diskVars
    <2>4. QED
      BY <2>2, <2>3 DEF LibTypeOK, TodoInv, LGoto
  <1>5. QED
    BY <1>2, <1>3, <1>4

\* Publishing and retention keep the files well formed.
LEMMA FilesType ==
  ASSUME LibTypeOK, TodoInv, NEW l \in Librarians,
         PublishSnapshot(l) \/ PublishMemory(l) \/ Purge(l)
  PROVE  LibTypeOK' /\ TodoInv'
  <1>1. NoJob \in Jobs /\ SnapshotOf(l) \in Files /\ MemoryOf(l) \in Files
        /\ SnapshotOf(l).stamp = 0 /\ MemoryOf(l).stamp = 0
    BY DEF NoJob, Jobs, Files, SnapshotOf, MemoryOf, LibTypeOK
  <1>2. CASE PublishSnapshot(l) \/ PublishMemory(l)
    <2>1. /\ Publish(SnapshotOf(l)) \/ Publish(MemoryOf(l))
          /\ LGoto(l, "sweep") \/ LGoto(l, "purge")
          /\ job' = [job EXCEPT ![l] = NoJob]
          /\ UNCHANGED <<doc, todo, lastCheck, owed>>
      BY <1>2 DEF PublishSnapshot, PublishMemory, SnapshotOf, MemoryOf, persistVars, diskVars
    <2>2. /\ published' \in Nat /\ archive' \subseteq Files /\ IsFiniteSet(archive')
          /\ \A g \in archive' : g.stamp \in 1..published'
      BY <1>1, <2>1, PublishType
    <2>3. QED
      BY <1>1, <2>1, <2>2 DEF LibTypeOK, TodoInv, LGoto
  <1>3. CASE Purge(l)
    <2>1. /\ archive' \subseteq archive /\ LGoto(l, "check")
          /\ UNCHANGED <<doc, todo, job, lastCheck, published, owed>>
      BY <1>3 DEF Purge, Retained, Memories, persistVars, diskVars
    <2>2. IsFiniteSet(archive')
      BY <2>1, FS_Subset DEF LibTypeOK
    <2>3. QED
      BY <2>1, <2>2 DEF LibTypeOK, TodoInv, LGoto
  <1>4. QED
    BY <1>2, <1>3

\* The rows of ended runs are rows of documents.
LEMMA EndedType ==
  ASSUME Inv
  PROVE  EndedRows \subseteq Rows
  <1>1. \A r \in Runs : doc[r] # NoDoc => RowsOf(r, doc[r]) \subseteq Rows
    BY UncoveredRows
  <1>2. QED
    BY <1>1 DEF EndedRows

\* The other steps of a Librarian, and those of the agents.
LEMMA CycleType ==
  ASSUME Inv, LibTypeOK, TodoInv, NEW l \in Librarians,
         \/ Invoke(l) \/ Abort(l) \/ RecheckSnapshot(l) \/ RecheckMemory(l)
         \/ CheckInactive(l) \/ SleepBetweenRuns(l) \/ Wake(l)
  PROVE  LibTypeOK' /\ TodoInv'
  <1>1. NoJob \in Jobs /\ EndedRows \subseteq Rows
    BY EndedType DEF NoJob, Jobs
  <1>2. /\ UNCHANGED <<doc, archive, published>>
        /\ \E there \in {"off", "stopped", "list", "sweep", "publish", "memorize", "purge",
                         "sleep", "asleep"} : LGoto(l, there)
        /\ UNCHANGED job \/ job' = [job EXCEPT ![l] = NoJob]
        /\ UNCHANGED todo \/ todo' = [todo EXCEPT ![l] = {}]
        /\ UNCHANGED lastCheck \/ \E res \in {"none", "active", "final"} : lastCheck' = [lastCheck EXCEPT ![l] = res]
        /\ UNCHANGED owed \/ \E o \in {owed[l], {}, EndedRows} : owed' = [owed EXCEPT ![l] = o]
    BY DEF Invoke, Abort, RecheckSnapshot, RecheckMemory, CheckInactive, StopCheck,
       SleepBetweenRuns, Wake, persistVars, diskVars, fileVars
  <1>3. LibTypeOK'
    BY <1>1, <1>2 DEF LibTypeOK, LGoto
  <1>4. TodoInv'
    BY <1>2 DEF TodoInv, LibTypeOK
  <1>5. QED
    BY <1>3, <1>4

LEMMA LibType ==
  ASSUME Inv, LibTypeOK, TodoInv, [LibNext]_vars
  PROVE  LibTypeOK' /\ TodoInv'
  <1>1. \A r \in Runs : doc[r] # NoDoc => doc'[r] # NoDoc
    BY LibPersists, DocsStay
  <1>2. CASE UNCHANGED libVars
    BY <1>1, <1>2 DEF libVars, fileVars, LibTypeOK, TodoInv
  <1>3. CASE CrashAll
    <2>1. NoJob \in Jobs
      BY DEF NoJob, Jobs
    <2>2. QED
      BY <1>1, <1>3, <2>1 DEF CrashAll, fileVars, LibTypeOK, TodoInv
  <1>4. ASSUME NEW l \in Librarians, Invoke(l) \/ Abort(l) \/ LibStep(l)
        PROVE  LibTypeOK' /\ TodoInv'
    BY <1>4, SweepType, FilesType, CycleType DEF LibStep
  <1>5. QED
    BY <1>2, <1>3, <1>4 DEF LibNext, vars

-----------------------------------------------------------------------------
(* The coverage cursor.                                                      *)

\* Rows that are added while a summary is made are above its cursor.
LEMMA ClaimsStay ==
  ASSUME Inv, Inv', DocsGrow, NEW r, NEW covers, NEW holds, Claims(doc, r, covers, holds)
  PROVE  Claims(doc', r, covers, holds)
  <1>1. r \in Runs /\ doc[r] # NoDoc /\ covers \in RowNums(doc[r])
    BY DEF Claims
  <1>2. CASE doc'[r] = doc[r]
    BY <1>1, <1>2 DEF Claims, RowNums
  <1>3. CASE doc'[r] # NoDoc /\ Continues(doc'[r], doc[r])
    <2>1. covers \in RowNums(doc'[r])
      BY <1>1, <1>3 DEF Continues
    <2>2. ASSUME NEW n \in RowNums(doc'[r]), n <= covers PROVE <<r, n>> \in holds
      <3>1. RowNums(doc[r]) \subseteq Nat /\ covers \in Nat
        BY <1>1, UncoveredRows
      <3>2. n \notin RowNums(doc[r]) => covers < n
        BY <1>1, <1>3 DEF Continues
      <3>3. CASE n \in RowNums(doc[r])
        BY <2>2, <3>3 DEF Claims
      <3>4. CASE n \notin RowNums(doc[r])
        <4>1. doc'[r] \in Records
          BY <1>1, <1>3 DEF Inv, TypeOK, Runs
        <4>2. n \in Nat
          BY <2>2, <4>1, RowsAreNumbers
        <4>3. QED
          BY <2>2, <3>1, <3>2, <3>4, <4>2
      <3>5. QED
        BY <3>3, <3>4
    <2>3. QED
      BY <1>1, <1>3, <2>1, <2>2 DEF Claims, RowNums
  <1>4. QED
    BY <1>1, <1>2, <1>3 DEF DocsGrow

\* The newest snapshot of a run covers what its cursor says.
LEMMA NewestCovers ==
  ASSUME LibTypeOK, CoverInv, NEW r, NEW n \in Nat \ {0}, <<r, n>> \in RowsOf(r, doc[r]),
         n <= Latest(Snapshots(r)).covers
  PROVE  Latest(Snapshots(r)) \in archive /\ <<r, n>> \in Latest(Snapshots(r)).holds
  <1>1. Snapshots(r) # {}
    BY DEF Latest, NoFile
  <1>2. Latest(Snapshots(r)) \in Snapshots(r)
    BY <1>1, LatestIsLast DEF Snapshots
  <1>3. Latest(Snapshots(r)) \in archive /\ Claims(doc, r, Latest(Snapshots(r)).covers, Latest(Snapshots(r)).holds)
    BY <1>2 DEF Snapshots, CoverInv
  <1>4. n \in RowNums(doc[r])
    BY DEF RowsOf, RowNums
  <1>5. QED
    BY <1>3, <1>4 DEF Claims

\* A summary holds what the latest snapshot covers and everything after it.
LEMMA SummaryClaims ==
  ASSUME Inv, LibTypeOK, RowInv, CoverInv, NEW r \in Runs, doc[r] # NoDoc, Uncovered(r) # {}
  PROVE  Claims(doc, r, MaxSequence(Uncovered(r)), Latest(Snapshots(r)).holds \cup Uncovered(r))
  <1>1. ASSUME NEW n \in RowNums(doc[r])
        PROVE  <<r, n>> \in Latest(Snapshots(r)).holds \cup Uncovered(r)
    <2>1. n \in Nat \ {0} /\ <<r, n>> \in RowsOf(r, doc[r])
      BY UncoveredRows DEF RowInv
    <2>2. CASE n <= Latest(Snapshots(r)).covers
      BY <2>1, <2>2, NewestCovers
    <2>3. CASE n > Latest(Snapshots(r)).covers
      BY <2>1, <2>3 DEF Uncovered
    <2>4. Latest(Snapshots(r)).covers \in Nat
      <3>1. CASE Snapshots(r) = {}
        BY <3>1 DEF Latest, NoFile
      <3>2. CASE Snapshots(r) # {}
        <4>1. Latest(Snapshots(r)) \in archive
          BY <3>2, LatestIsLast DEF Snapshots
        <4>2. QED
          BY <4>1 DEF LibTypeOK, Files
      <3>3. QED
        BY <3>1, <3>2
    <2>5. QED
      BY <2>1, <2>2, <2>3, <2>4
  <1>2. MaxSequence(Uncovered(r)) \in RowNums(doc[r])
    BY UncoveredRows
  <1>3. QED
    BY <1>1, <1>2 DEF Claims

\* What agents do meanwhile leaves every cursor honest.
LEMMA CoverKept ==
  ASSUME Inv, Inv', DocsGrow, CoverInv, UNCHANGED <<lpc, job, archive>>
  PROVE  CoverInv'
  <1>1. ASSUME NEW f \in archive, f.kind = "snapshot" PROVE Claims(doc', f.run, f.covers, f.holds)
    BY <1>1, ClaimsStay DEF CoverInv
  <1>2. ASSUME NEW l \in Librarians, lpc[l] \in {"summary", "publish"}
        PROVE  Claims(doc', job[l].run, job[l].covers, job[l].holds)
    BY <1>2, ClaimsStay DEF CoverInv
  <1>3. QED
    BY <1>1, <1>2 DEF CoverInv

\* No step of a Librarian makes a cursor claim more than its summary holds.
LEMMA CoverStep ==
  ASSUME ~Revisits, Inv, Inv', LibTypeOK, TodoInv, RowInv, CoverInv, [LibNext]_vars
  PROVE  CoverInv'
  <1>1. DocsGrow
    BY LibPersists, RowStep
  <1>2. CASE UNCHANGED libVars
    BY <1>1, <1>2, CoverKept DEF libVars, fileVars
  <1>3. CASE CrashAll
    <2>1. \A f \in archive : f.kind = "snapshot" => Claims(doc', f.run, f.covers, f.holds)
      BY <1>1, ClaimsStay DEF CoverInv
    <2>2. QED
      BY <1>3, <2>1 DEF CrashAll, fileVars, CoverInv
  <1> DEFINE Old(l) == \A k \in Librarians \ {l} : lpc'[k] = lpc[k] /\ job'[k] = job[k]
  <1>4. ASSUME UNCHANGED doc, NEW l \in Librarians, Old(l),
               \A f \in archive' : f.kind = "snapshot" /\ f \notin archive =>
                                      Claims(doc, f.run, f.covers, f.holds),
               lpc'[l] \in {"summary", "publish"} =>
                  Claims(doc, job'[l].run, job'[l].covers, job'[l].holds)
        PROVE  CoverInv'
    BY <1>4 DEF CoverInv
  <1>5. ASSUME NEW l \in Librarians, NEW r \in Runs, LoadConversation(l, r) PROVE CoverInv'
    <2>1. doc[r] # NoDoc /\ UNCHANGED <<doc, archive>>
      BY <1>5 DEF LoadConversation, TodoInv, persistVars, diskVars, fileVars
    <2>2. CASE UNCHANGED <<job, lpc>>
      BY <1>5, <1>4, <2>1, <2>2 DEF LoadConversation, LAt
    <2>3. CASE ShouldSnapshot(r) /\ ~UNCHANGED <<job, lpc>>
      <3> DEFINE c == MaxSequence(Uncovered(r))
                 h == Latest(Snapshots(r)).holds \cup Uncovered(r)
                 j == [run |-> r, covers |-> c, since |-> Latest(Snapshots(r)).stamp, holds |-> h]
      <3>1. job' = [job EXCEPT ![l] = j] /\ LGoto(l, "summary")
        BY <1>5, <2>3 DEF LoadConversation
      <3>2. Claims(doc, j.run, j.covers, j.holds)
        BY <2>1, <2>3, SummaryClaims DEF ShouldSnapshot
      <3> HIDE DEF j
      <3>3. job'[l] = j /\ Old(l)
        BY <3>1 DEF LibTypeOK, LGoto
      <3>4. QED
        BY <1>4, <2>1, <3>2, <3>3
    <2>4. QED
      BY <1>5, <2>2, <2>3 DEF LoadConversation
  <1>6. ASSUME NEW l \in Librarians, PublishSnapshot(l) PROVE CoverInv'
    <2>1. Claims(doc, job[l].run, job[l].covers, job[l].holds)
      BY <1>6 DEF PublishSnapshot, LAt, CoverInv
    <2>2. /\ Publish(SnapshotOf(l)) /\ LGoto(l, "sweep") /\ UNCHANGED doc
          /\ job' = [job EXCEPT ![l] = NoJob]
      BY <1>6 DEF PublishSnapshot, SnapshotOf, persistVars, diskVars
    <2>3. Old(l) /\ lpc'[l] = "sweep"
      BY <2>2 DEF LGoto, LibTypeOK
    <2>4. archive' = archive \cup {[SnapshotOf(l) EXCEPT !.stamp = published + 1]}
      BY <2>2 DEF Publish
    <2>5. /\ [SnapshotOf(l) EXCEPT !.stamp = published + 1].run = job[l].run
          /\ [SnapshotOf(l) EXCEPT !.stamp = published + 1].covers = job[l].covers
          /\ [SnapshotOf(l) EXCEPT !.stamp = published + 1].holds = job[l].holds
      BY DEF SnapshotOf
    <2>6. QED
      BY <1>4, <2>1, <2>2, <2>3, <2>4, <2>5
  <1>7. ASSUME NEW l \in Librarians, PublishMemory(l) PROVE CoverInv'
    <2>1. /\ Publish(MemoryOf(l)) /\ LGoto(l, "purge") /\ UNCHANGED doc
          /\ job' = [job EXCEPT ![l] = NoJob]
      BY <1>7 DEF PublishMemory, MemoryOf, persistVars, diskVars
    <2>2. Old(l) /\ lpc'[l] = "purge"
      BY <2>1 DEF LGoto, LibTypeOK
    <2>3. archive' = archive \cup {[MemoryOf(l) EXCEPT !.stamp = published + 1]}
      BY <2>1 DEF Publish
    <2>4. [MemoryOf(l) EXCEPT !.stamp = published + 1].kind = "memory"
      BY DEF MemoryOf
    <2>5. QED
      BY <1>4, <2>1, <2>2, <2>3, <2>4
  <1>8. ASSUME NEW l \in Librarians, RecheckSnapshot(l) PROVE CoverInv'
    <2>1. /\ UNCHANGED <<doc, job, archive>> /\ lpc[l] = "summary"
          /\ \E there : LGoto(l, there)
      BY <1>8 DEF RecheckSnapshot, LAt, persistVars, diskVars, fileVars
    <2>2. Old(l) /\ Claims(doc, job[l].run, job[l].covers, job[l].holds)
      BY <2>1 DEF CoverInv, LGoto, LibTypeOK
    <2>3. QED
      BY <1>4, <2>1, <2>2
  <1>9. ASSUME NEW l \in Librarians,
               \/ Invoke(l) \/ Abort(l) \/ ListConversations(l) \/ BeginConsolidation(l)
               \/ RecheckMemory(l) \/ Purge(l) \/ CheckInactive(l)
               \/ SleepBetweenRuns(l) \/ Wake(l)
        PROVE  CoverInv'
    <2>1. /\ UNCHANGED doc /\ archive' \subseteq archive
          /\ \E there \in {"off", "stopped", "list", "sweep", "memory", "memorize", "purge",
                           "check", "sleep", "asleep"} : LGoto(l, there)
          /\ UNCHANGED job \/ \E j : job' = [job EXCEPT ![l] = j]
      BY <1>9 DEF Invoke, Abort, ListConversations, BeginConsolidation, RecheckMemory, Purge,
         Retained, Memories, CheckInactive, StopCheck, SleepBetweenRuns, Wake, persistVars,
         diskVars, fileVars
    <2>2. Old(l) /\ lpc'[l] \notin {"summary", "publish"}
      BY <2>1 DEF LGoto, LibTypeOK
    <2>3. QED
      BY <1>4, <2>1, <2>2
  <1>10. QED
    BY <1>2, <1>3, <1>5, <1>6, <1>7, <1>8, <1>9 DEF LibNext, LibStep, vars

-----------------------------------------------------------------------------
(* Consolidation and retention, with one Librarian.                          *)

\* The watermark is the last time stamp of a memory.
LEMMA WatermarkLast ==
    LibTypeOK => Watermark \in Nat /\ \A m \in Memories : m.stamp <= Watermark
  <1> SUFFICES ASSUME LibTypeOK
               PROVE  Watermark \in Nat /\ \A m \in Memories : m.stamp <= Watermark
    OBVIOUS
  <1>1. Memories \subseteq archive
    BY DEF Memories
  <1>2. Watermark \in Nat
    BY <1>1, LatestType DEF Watermark, LibTypeOK
  <1>3. Memories # {} => \A m \in Memories : m.stamp <= Watermark
    BY <1>1, LatestIsLast DEF Watermark
  <1>4. QED
    BY <1>2, <1>3

\* What goes into a memory is everything there is.
LEMMA FoldedIsAll ==
  ASSUME LibTypeOK, FoldInv, NEW f \in archive
  PROVE  f.holds \subseteq Folded
  <1>1. f.stamp \in Nat /\ Watermark \in Nat /\ f.kind \in {"snapshot", "memory"}
    BY LatestType DEF LibTypeOK, Files, Watermark, Memories
  <1>2. CASE f.stamp <= Watermark
    <2>1. Memories # {}
      BY <1>1, <1>2 DEF Watermark, Latest, NoFile, LibTypeOK
    <2>2. Latest(Memories) \in Memories
      BY <2>1, LatestIsLast DEF Memories
    <2>3. QED
      BY <1>2, <2>2 DEF FoldInv, Folded, Watermark
  <1>3. CASE f.stamp > Watermark
    <2>1. f.kind # "memory"
      <3> SUFFICES ASSUME f.kind = "memory" PROVE FALSE
        OBVIOUS
      <3>1. f \in Memories
        BY DEF Memories
      <3>2. f.stamp <= Watermark
        BY <3>1, WatermarkLast
      <3>3. QED
        BY <1>1, <1>3, <3>2
    <2>2. f \in Pending
      BY <1>1, <1>3, <2>1 DEF Pending
    <2>3. QED
      BY <2>2 DEF Folded
  <1>4. QED
    BY <1>1, <1>2, <1>3

\* A published file is newer than every other.
LEMMA PublishedLast ==
  ASSUME LibTypeOK, NEW g, g \in Files, g.stamp = published + 1
  PROVE  \A f \in archive : f.stamp < g.stamp
  BY DEF LibTypeOK

\* A new snapshot is after every memory.
LEMMA SnapshotFold ==
  ASSUME OneLibrarian, LibTypeOK, FoldInv, NEW l \in Librarians, PublishSnapshot(l)
  PROVE  FoldInv'
  <1> DEFINE g == [SnapshotOf(l) EXCEPT !.stamp = published + 1]
  <1>1. archive' = archive \cup {g} /\ LGoto(l, "sweep")
    BY DEF PublishSnapshot, Publish, SnapshotOf
  <1>2. g \in Files /\ g.stamp = published + 1 /\ g.kind = "snapshot"
    BY DEF SnapshotOf, LibTypeOK, Files, Jobs
  <1> HIDE DEF g
  <1>3. \A k \in Librarians : lpc'[k] = "sweep"
    BY <1>1 DEF OneLibrarian, LGoto, LibTypeOK
  <1>4. Memories' = Memories
    BY <1>1, <1>2 DEF Memories
  <1>5. \A m \in Memories : ~(g.stamp <= m.stamp)
    BY <1>2, PublishedLast DEF Memories, LibTypeOK
  <1>6. QED
    BY <1>1, <1>3, <1>4, <1>5 DEF FoldInv

\* A new memory holds everything before it, and nothing is pending after it.
LEMMA MemoryFold ==
  ASSUME OneLibrarian, LibTypeOK, LibTypeOK', FoldInv, NEW l \in Librarians, PublishMemory(l)
  PROVE  FoldInv'
  <1> DEFINE g == [MemoryOf(l) EXCEPT !.stamp = published + 1]
  <1>1. archive' = archive \cup {g} /\ LGoto(l, "purge") /\ lpc[l] = "memorize"
    BY DEF PublishMemory, Publish, MemoryOf, LAt
  <1>2. g \in Files /\ g.stamp = published + 1 /\ g.kind = "memory" /\ g.holds = job[l].holds
    BY DEF MemoryOf, LibTypeOK, Files, Jobs
  <1> HIDE DEF g
  <1>3. \A k \in Librarians : lpc'[k] = "purge"
    BY <1>1 DEF OneLibrarian, LGoto, LibTypeOK
  <1>4. Memories' = Memories \cup {g} /\ Memories \subseteq archive
    BY <1>1, <1>2 DEF Memories
  <1>5. \A f \in archive : f.stamp < g.stamp /\ f.holds \subseteq g.holds
    BY <1>1, <1>2, PublishedLast DEF FoldInv
  <1>6. \A m \in Memories' : \A f \in archive' : f.stamp <= m.stamp => f.holds \subseteq m.holds
    <2>1. \A f \in archive' : f.holds \subseteq g.holds
      BY <1>1, <1>5
    <2>2. \A m \in Memories : ~(g.stamp <= m.stamp)
      BY <1>2, <1>4, <1>5 DEF LibTypeOK
    <2>3. QED
      BY <1>1, <1>4, <2>1, <2>2 DEF FoldInv
  <1>7. Cardinality(Pending)' < MinPending
    <2>1. g \in Memories' /\ Memories' \subseteq archive'
      BY <1>1, <1>4
    <2>2. Watermark' \in Nat /\ g.stamp <= Watermark'
      <3>1. (LibTypeOK => Watermark \in Nat /\ \A m \in Memories : m.stamp <= Watermark)'
        BY WatermarkLast, PTL
      <3>2. QED
        BY <2>1, <3>1
    <2>3. \A f \in archive' : ~(f.kind = "snapshot" /\ f.stamp > Watermark')
      BY <1>1, <1>2, <1>5, <2>2 DEF LibTypeOK
    <2>4. Pending' = {}
      BY <2>3 DEF Pending
    <2>5. QED
      BY <2>4, FS_EmptySet, LimitsAssumption
  <1>8. QED
    BY <1>3, <1>6, <1>7 DEF FoldInv

\* Consolidation begins with everything, or with little pending; a memory that
\* is being made is still the next one when the model has answered.
LEMMA ConsolidateFold ==
  ASSUME OneLibrarian, LibTypeOK, FoldInv, NEW l \in Librarians,
         BeginConsolidation(l) \/ RecheckMemory(l)
  PROVE  FoldInv'
  <1>1. Memories' = Memories /\ Watermark' = Watermark /\ Pending' = Pending /\ archive' = archive
    <2>1. archive' = archive
      BY DEF BeginConsolidation, RecheckMemory, fileVars
    <2>2. QED
      BY <2>1 DEF Memories, Watermark, Latest, NoFile, Pending
  <1>2. \A k \in Librarians : k = l
    BY DEF OneLibrarian
  <1>3. CASE BeginConsolidation(l)
    <2>1. CASE /\ job' = [job EXCEPT ![l] = [NoJob EXCEPT !.since = Watermark, !.holds = Folded]]
               /\ LGoto(l, "memory")
      <3>1. lpc'[l] = "memory" /\ job'[l].since = Watermark /\ job'[l].holds = Folded
        BY <2>1 DEF NoJob, LGoto, LibTypeOK
      <3>2. \A f \in archive : f.holds \subseteq job'[l].holds
        BY <3>1, FoldedIsAll
      <3>3. QED
        BY <1>1, <1>2, <3>1, <3>2 DEF FoldInv
    <2>2. ASSUME NEW aged \in BOOLEAN, ~ShouldConsolidate(aged), LGoto(l, "purge") PROVE FoldInv'
      <3>1. lpc'[l] = "purge"
        BY <2>2 DEF LGoto, LibTypeOK
      <3>2. IsFiniteSet(Pending)
        BY FS_Subset DEF Pending, LibTypeOK
      <3>3. Cardinality(Pending) < MinPending
        BY <2>2, <3>2, FS_EmptySet, FS_CardinalityType, LimitsAssumption DEF ShouldConsolidate
      <3>4. QED
        BY <1>1, <1>2, <3>1, <3>3 DEF FoldInv
    <2>3. QED
      BY <1>3, <2>1, <2>2 DEF BeginConsolidation
  <1>4. CASE RecheckMemory(l)
    <2>1. lpc[l] = "memory" /\ UNCHANGED job
      BY <1>4 DEF RecheckMemory, LAt
    <2>2. job[l].since = Watermark /\ Watermark \in Nat /\ \A f \in archive : f.holds \subseteq job[l].holds
      BY <2>1, WatermarkLast DEF FoldInv
    <2>3. lpc'[l] = "memorize"
      BY <1>4, <2>2 DEF RecheckMemory, LGoto, LibTypeOK
    <2>4. QED
      BY <1>1, <1>2, <2>1, <2>2, <2>3 DEF FoldInv
  <1>5. QED
    BY <1>3, <1>4

\* With one Librarian every step keeps what memories hold.
LEMMA FoldStep ==
  ASSUME OneLibrarian, LibTypeOK, LibTypeOK', FoldInv, [LibNext]_vars
  PROVE  FoldInv'
  <1>1. ASSUME archive' \subseteq archive,
               \A k \in Librarians : lpc'[k] \notin {"memory", "memorize", "purge"}
        PROVE  FoldInv'
    BY <1>1 DEF FoldInv, Memories
  <1>2. CASE UNCHANGED libVars
    BY <1>2 DEF libVars, fileVars, FoldInv, Memories, Watermark, Latest, NoFile, Pending
  <1>3. CASE CrashAll
    BY <1>1, <1>3 DEF CrashAll, fileVars
  <1>4. ASSUME NEW l \in Librarians, PublishSnapshot(l) PROVE FoldInv'
    BY <1>4, SnapshotFold
  <1>5. ASSUME NEW l \in Librarians, PublishMemory(l) PROVE FoldInv'
    BY <1>5, MemoryFold
  <1>6. ASSUME NEW l \in Librarians, BeginConsolidation(l) \/ RecheckMemory(l) PROVE FoldInv'
    BY <1>6, ConsolidateFold
  <1>7. ASSUME NEW l \in Librarians,
               \/ Invoke(l) \/ Abort(l) \/ ListConversations(l) \/ RecheckSnapshot(l)
               \/ Purge(l) \/ CheckInactive(l) \/ SleepBetweenRuns(l) \/ Wake(l)
               \/ \E r \in Runs : LoadConversation(l, r)
        PROVE  FoldInv'
    <2>1. /\ archive' \subseteq archive
          /\ \/ \E there \in {"off", "stopped", "list", "sweep", "summary", "publish", "check",
                              "sleep", "asleep"} : LGoto(l, there)
             \/ UNCHANGED lpc /\ lpc[l] = "sweep"
      BY <1>7 DEF Invoke, Abort, ListConversations, LoadConversation, RecheckSnapshot, Purge,
         Retained, Memories, CheckInactive, StopCheck, SleepBetweenRuns, Wake, fileVars, LAt
    <2>2. \A k \in Librarians : lpc'[k] \notin {"memory", "memorize", "purge"}
      BY <2>1 DEF OneLibrarian, LGoto, LibTypeOK
    <2>3. QED
      BY <1>1, <2>1, <2>2
  <1>8. QED
    BY <1>2, <1>3, <1>4, <1>5, <1>6, <1>7 DEF LibNext, LibStep, vars

\* Fewer snapshots than retention keeps are newer than a pending one.
LEMMA PurgeKeeps ==
  ASSUME LibTypeOK, FoldInv, NEW l \in Librarians, Purge(l)
  PROVE  /\ archive' \subseteq archive
         /\ \A f \in Pending : f \in archive'
         /\ Memories # {} => Latest(Memories) \in archive'
  <1>1. Cardinality(Pending) < MinPending
    BY DEF Purge, LAt, FoldInv
  <1>2. archive' = Retained(archive \ Memories, SnapshotLimit) \cup Retained(Memories, MemoryLimit)
    BY DEF Purge
  <1>3. IsFiniteSet(Pending) /\ Watermark \in Nat
    BY FS_Subset, WatermarkLast DEF Pending, LibTypeOK
  <1>4. ASSUME NEW f \in Pending PROVE f \in archive'
    <2> DEFINE newer == {g \in archive \ Memories : g.stamp > f.stamp}
    <2>1. f \in archive \ Memories /\ f.stamp > Watermark /\ f.stamp \in Nat
      BY DEF Pending, Memories, LibTypeOK
    <2>2. newer \subseteq Pending \ {f}
      <3> SUFFICES ASSUME NEW g \in newer PROVE g \in Pending \ {f}
        OBVIOUS
      <3>1. g \in archive /\ g.kind = "snapshot" /\ g.stamp \in Nat /\ g.stamp > f.stamp
        BY DEF Memories, LibTypeOK, Files
      <3>2. g.stamp > Watermark /\ g # f
        BY <1>3, <2>1, <3>1
      <3>3. QED
        BY <3>1, <3>2 DEF Pending
    <2>3. Cardinality(Pending \ {f}) = Cardinality(Pending) - 1 /\ IsFiniteSet(Pending \ {f})
      BY <1>3, FS_RemoveElement
    <2>4. Cardinality(newer) <= Cardinality(Pending) - 1 /\ Cardinality(newer) \in Nat
      <3> HIDE DEF newer
      <3>1. QED
        BY <2>2, <2>3, FS_Subset, FS_CardinalityType
    <2>5. Cardinality(newer) < SnapshotLimit
      <3> HIDE DEF newer
      <3>1. Cardinality(Pending) \in Nat
        BY <1>3, FS_CardinalityType
      <3>2. QED
        BY <1>1, <2>4, <3>1, LimitsAssumption
    <2>6. QED
      BY <1>2, <2>1, <2>5 DEF Retained
  <1>5. ASSUME Memories # {} PROVE Latest(Memories) \in archive'
    <2>1. Latest(Memories) \in Memories /\ \A g \in Memories : g.stamp <= Latest(Memories).stamp
      BY <1>5, LatestIsLast DEF Memories
    <2>2. \A g \in Memories : g.stamp \in Nat
      BY DEF Memories, LibTypeOK
    <2>3. {g \in Memories : g.stamp > Latest(Memories).stamp} = {}
      BY <2>1, <2>2
    <2>4. Cardinality({g \in Memories : g.stamp > Latest(Memories).stamp}) < MemoryLimit
      BY <2>3, FS_EmptySet, LimitsAssumption
    <2>5. QED
      BY <1>2, <2>1, <2>4 DEF Retained
  <1>6. archive' \subseteq archive
    BY <1>2 DEF Retained, Memories
  <1>7. QED
    BY <1>4, <1>5, <1>6

-----------------------------------------------------------------------------
(* The final sweep.                                                          *)

\* What a summary or a memory holds is never lost.
LEMMA KeptStay ==
  ASSUME OneLibrarian, LibTypeOK, FoldInv, [LibNext]_vars
  PROVE  Kept \subseteq Kept'
  <1>1. CASE archive \subseteq archive'
    BY <1>1 DEF Kept
  <1>2. ASSUME NEW l \in Librarians, Purge(l), NEW f \in archive, NEW x \in f.holds
        PROVE  x \in Kept'
    <2>1. Watermark \in Nat /\ f.stamp \in Nat
      BY WatermarkLast DEF LibTypeOK
    <2>2. CASE f \in Pending
      BY <1>2, <2>2, PurgeKeeps DEF Kept
    <2>3. CASE f \notin Pending
      <3>1. f.stamp <= Watermark
        BY <2>1, <2>3, WatermarkLast DEF Pending, Memories, LibTypeOK, Files
      <3>2. Memories # {}
        BY <2>1, <3>1 DEF Watermark, Latest, NoFile, LibTypeOK
      <3>3. Latest(Memories) \in Memories /\ Latest(Memories) \in archive'
        BY <1>2, <3>2, LatestIsLast, PurgeKeeps DEF Memories
      <3>4. f.holds \subseteq Latest(Memories).holds
        BY <3>1, <3>3 DEF FoldInv, Watermark
      <3>5. QED
        BY <1>2, <3>3, <3>4 DEF Kept
    <2>4. QED
      BY <2>2, <2>3
  <1>3. ASSUME NEW l \in Librarians, Purge(l) PROVE Kept \subseteq Kept'
    BY <1>2, <1>3 DEF Kept
  <1>4. ASSUME NEW l \in Librarians, PublishSnapshot(l) \/ PublishMemory(l)
        PROVE  archive \subseteq archive'
    BY <1>4 DEF PublishSnapshot, PublishMemory, Publish
  <1>5. QED
    BY <1>1, <1>3, <1>4 DEF LibNext, LibStep, vars, libVars, fileVars, CrashAll, Invoke, Abort,
       ListConversations, LoadConversation, RecheckSnapshot, BeginConsolidation, RecheckMemory,
       CheckInactive, StopCheck, SleepBetweenRuns, Wake

\* A run that has ended keeps its rows.
LEMMA EndedStay ==
  ASSUME DocsGrow
  PROVE  EndedRows \subseteq EndedRows'
  <1>1. ASSUME NEW r \in Runs, doc[r] # NoDoc, doc[r].status \in Syncable
        PROVE  doc'[r] = doc[r]
    BY <1>1 DEF DocsGrow, Syncable
  <1>2. \A r \in Runs : doc[r] # NoDoc /\ doc[r].status \in Syncable =>
            RowsOf(r, doc[r]) \subseteq EndedRows'
    BY <1>1 DEF EndedRows, RowsOf
  <1>3. QED
    BY <1>2 DEF EndedRows

\* A row of an ended run, as the sweep comes to it.
LEMMA EndedRow ==
  ASSUME Inv, RowInv, NEW x \in EndedRows
  PROVE  /\ x[1] \in Runs /\ doc[x[1]] # NoDoc /\ doc[x[1]].status \in Syncable
         /\ x \in RowsOf(x[1], doc[x[1]]) /\ x = <<x[1], x[2]>>
         /\ x[2] \in Nat \ {0} /\ x[2] \in RowNums(doc[x[1]])
  <1>1. PICK r \in Runs : doc[r] # NoDoc /\ doc[r].status \in Syncable /\ x \in RowsOf(r, doc[r])
    BY DEF EndedRows
  <1>2. PICK n \in RowNums(doc[r]) : x = <<r, n>>
    BY <1>1, UncoveredRows
  <1>3. n \in Nat \ {0}
    BY <1>1, <1>2 DEF RowInv
  <1>4. QED
    BY <1>1, <1>2, <1>3

\* Where a row that is owed can be while the sweep is under way.
SweptFor(l, x) ==
    \/ x[1] \in todo[l] \/ x \in Kept
    \/ lpc[l] # "sweep" /\ x[1] = job[l].run /\ x[2] <= job[l].covers

\* Looking at a conversation leaves no row of an ended run behind.
LEMMA LoadSwept ==
  ASSUME OneLibrarian, Inv, LibTypeOK, TodoInv, RowInv, CoverInv, FoldInv, OwedInv,
         NEW l \in Librarians, NEW r \in Runs, LoadConversation(l, r)
  PROVE  lpc'[l] \in {"sweep", "summary"} /\ owed' = owed /\ \A x \in owed[l] : SweptFor(l, x)'
  <1>1. /\ lpc[l] = "sweep" /\ r \in todo[l] /\ doc[r] # NoDoc
        /\ todo' = [todo EXCEPT ![l] = @ \ {r}]
        /\ UNCHANGED <<doc, archive, owed>>
    BY DEF LoadConversation, LAt, TodoInv, persistVars, diskVars, fileVars
  <1>2. Kept' = Kept /\ todo'[l] = todo[l] \ {r}
    BY <1>1 DEF Kept, LibTypeOK
  <1>3. ASSUME NEW x \in owed[l], x[1] = r, x \notin Uncovered(r) PROVE x \in Kept
    <2>1. /\ x \in RowsOf(r, doc[r]) /\ x = <<r, x[2]>> /\ x[2] \in Nat \ {0}
      BY <1>3, EndedRow DEF OwedInv
    <2>2. ~(x[2] > Latest(Snapshots(r)).covers)
      BY <1>3, <2>1 DEF Uncovered
    <2>3. Latest(Snapshots(r)).covers \in Nat
      <3>1. CASE Snapshots(r) = {}
        BY <3>1 DEF Latest, NoFile
      <3>2. CASE Snapshots(r) # {}
        <4>1. Latest(Snapshots(r)) \in archive
          BY <3>2, LatestIsLast DEF Snapshots
        <4>2. QED
          BY <4>1 DEF LibTypeOK, Files
      <3>3. QED
        BY <3>1, <3>2
    <2>4. x[2] <= Latest(Snapshots(r)).covers
      BY <2>1, <2>2, <2>3
    <2>5. <<r, x[2]>> \in RowsOf(r, doc[r])
      BY <2>1
    <2>6. Latest(Snapshots(r)) \in archive /\ <<r, x[2]>> \in Latest(Snapshots(r)).holds
      BY <2>1, <2>4, <2>5, NewestCovers
    <2>7. QED
      BY <2>1, <2>6 DEF Kept
  <1>4. ASSUME NEW x \in owed[l], x[1] # r PROVE SweptFor(l, x)'
    <2>1. x[1] \in todo[l] \/ x \in Kept
      BY <1>1, <1>4 DEF OwedInv
    <2>2. QED
      BY <1>2, <1>4, <2>1 DEF SweptFor
  <1>5. CASE ShouldSnapshot(r) /\ LGoto(l, "summary") /\
             job' = [job EXCEPT ![l] =
                [run |-> r, covers |-> MaxSequence(Uncovered(r)),
                 since |-> Latest(Snapshots(r)).stamp,
                 holds |-> Latest(Snapshots(r)).holds \cup Uncovered(r)]]
    <2>1. lpc'[l] = "summary" /\ job'[l].run = r /\ job'[l].covers = MaxSequence(Uncovered(r))
      BY <1>5 DEF LGoto, LibTypeOK
    <2>2. \A x \in Uncovered(r) : x[2] <= MaxSequence(Uncovered(r))
      BY <1>1, <1>5, UncoveredRows
    <2>3. \A x \in owed[l] : x[1] = r => SweptFor(l, x)'
      BY <1>2, <1>3, <2>1, <2>2 DEF SweptFor
    <2>4. QED
      BY <1>1, <1>4, <2>1, <2>3
  <1>6. CASE ~ShouldSnapshot(r) /\ UNCHANGED <<job, lpc>>
    <2>1. ASSUME NEW x \in owed[l], x[1] = r PROVE x \notin Uncovered(r)
      <3>1. doc[r].status \in Syncable
        BY <2>1, EndedRow DEF OwedInv
      <3>2. QED
        BY <1>6, <3>1 DEF ShouldSnapshot, Syncable
    <2>2. \A x \in owed[l] : x[1] = r => SweptFor(l, x)'
      BY <1>2, <1>3, <2>1 DEF SweptFor
    <2>3. QED
      BY <1>1, <1>4, <1>6, <2>2
  <1>7. QED
    BY <1>5, <1>6 DEF LoadConversation

\* A summary that was superseded, or is published, is a snapshot.
LEMMA SnapshotSwept ==
  ASSUME OneLibrarian, Inv, LibTypeOK, RowInv, CoverInv, FoldInv, OwedInv,
         NEW l \in Librarians, RecheckSnapshot(l) \/ PublishSnapshot(l)
  PROVE  lpc'[l] \in {"sweep", "publish"} /\ owed' = owed /\ \A x \in owed[l] : SweptFor(l, x)'
  <1>1. lpc[l] \in {"summary", "publish"} /\ UNCHANGED <<doc, todo, owed>>
    BY DEF RecheckSnapshot, PublishSnapshot, LAt, persistVars, diskVars
  <1>2. Claims(doc, job[l].run, job[l].covers, job[l].holds)
    BY <1>1 DEF CoverInv
  <1>3. \A x \in owed[l] : SweptFor(l, x) /\ x \in EndedRows
    BY <1>1 DEF OwedInv, SweptFor
  <1>4. CASE RecheckSnapshot(l)
    <2>1. UNCHANGED <<job, archive>> /\ Kept' = Kept
      BY <1>4 DEF RecheckSnapshot, fileVars, Kept
    <2>2. CASE ~Superseded(l)
      <3>1. lpc'[l] = "publish"
        BY <1>4, <2>2 DEF RecheckSnapshot, LGoto, LibTypeOK
      <3>2. QED
        BY <1>1, <1>3, <2>1, <3>1 DEF SweptFor
    <2>3. CASE Superseded(l)
      <3>1. lpc'[l] = "sweep"
        BY <1>4, <2>3 DEF RecheckSnapshot, LGoto, LibTypeOK
      <3>2. ASSUME NEW x \in owed[l], x[1] = job[l].run, x[2] <= job[l].covers PROVE x \in Kept
        <4> DEFINE newest == Latest(Snapshots(job[l].run))
        <4>1. /\ x[2] \in Nat \ {0} /\ x \in RowsOf(x[1], doc[x[1]]) /\ x = <<x[1], x[2]>>
          BY <1>3, <3>2, EndedRow
        <4>2. newest.covers >= job[l].covers /\ newest.stamp > job[l].since /\ job[l].since \in Nat
              /\ job[l].covers \in Nat
          BY <2>3 DEF Superseded, LibTypeOK, Jobs
        <4>3. Snapshots(job[l].run) # {}
          BY <4>2 DEF Latest, NoFile
        <4>4. newest \in archive /\ newest.covers \in Nat
          BY <4>3, LatestIsLast DEF Snapshots, LibTypeOK, Files
        <4>5. x[2] <= newest.covers
          BY <3>2, <4>1, <4>2, <4>4
        <4>6. <<x[1], x[2]>> \in newest.holds
          BY <3>2, <4>1, <4>5, NewestCovers
        <4>7. QED
          BY <4>1, <4>4, <4>6 DEF Kept
      <3>3. QED
        BY <1>1, <1>3, <2>1, <3>1, <3>2 DEF SweptFor
    <2>4. QED
      BY <2>2, <2>3
  <1>5. CASE PublishSnapshot(l)
    <2>1. Kept \subseteq Kept' /\ job[l].holds \subseteq Kept'
      <3> DEFINE g == [SnapshotOf(l) EXCEPT !.stamp = published + 1]
      <3>1. archive' = archive \cup {g} /\ g.holds = job[l].holds
        BY <1>5 DEF PublishSnapshot, Publish, SnapshotOf
      <3>2. QED
        BY <3>1 DEF Kept
    <2>2. lpc'[l] = "sweep"
      BY <1>5 DEF PublishSnapshot, LGoto, LibTypeOK
    <2>3. ASSUME NEW x \in owed[l], x[1] = job[l].run, x[2] <= job[l].covers PROVE x \in job[l].holds
      <3>1. x[2] \in RowNums(doc[job[l].run]) /\ x = <<job[l].run, x[2]>>
        BY <1>3, <2>3, EndedRow
      <3>2. QED
        BY <1>2, <2>3, <3>1 DEF Claims
    <2>4. QED
      BY <1>1, <1>3, <2>1, <2>2, <2>3 DEF SweptFor
  <1>6. QED
    BY <1>4, <1>5

\* Where the rows of ended runs are after each step of the Librarian.
LEMMA OwedStep ==
  ASSUME ~Revisits, OneLibrarian, Inv, Inv', LibTypeOK, LibTypeOK', TodoInv, RowInv, CoverInv,
         FoldInv, OwedInv, [LibNext]_vars
  PROVE  OwedInv'
  <1>1. EndedRows \subseteq EndedRows' /\ Kept \subseteq Kept'
    <2>1. DocsGrow
      BY LibPersists, RowStep
    <2>2. QED
      BY <2>1, EndedStay, KeptStay
  <1>2. CASE UNCHANGED libVars
    <2>1. UNCHANGED <<lpc, todo, job, owed>>
      BY <1>2 DEF libVars
    <2>2. QED
      BY <1>1, <2>1 DEF OwedInv
  <1>3. CASE CrashAll
    <2>1. \A l \in Librarians : lpc'[l] = "off" /\ owed'[l] \subseteq EndedRows
      BY <1>3 DEF CrashAll, OwedInv
    <2>2. QED
      BY <1>1, <2>1 DEF OwedInv
  <1>4. ASSUME NEW l \in Librarians, LibStep(l) \/ Invoke(l) \/ Abort(l)
        PROVE  OwedInv'
    <2>1. owed[l] \subseteq EndedRows /\ \A k \in Librarians : k = l
      BY DEF OwedInv, OneLibrarian
    <2>2. ASSUME NEW r \in Runs, LoadConversation(l, r) PROVE OwedInv'
      BY <1>1, <2>1, <2>2, LoadSwept DEF OwedInv, SweptFor
    <2>3. CASE RecheckSnapshot(l) \/ PublishSnapshot(l)
      BY <1>1, <2>1, <2>3, SnapshotSwept DEF OwedInv, SweptFor
    <2>4. CASE ListConversations(l)
      <3>1. /\ lpc'[l] = "sweep" /\ owed'[l] = owed[l]
            /\ todo'[l] = {r \in Runs : doc[r] # NoDoc}
        BY <2>4 DEF ListConversations, LGoto, LibTypeOK
      <3>2. \A x \in owed'[l] : x[1] \in todo'[l]
        BY <2>1, <3>1, EndedRow
      <3>3. QED
        BY <1>1, <2>1, <3>1, <3>2 DEF OwedInv
    <2>5. CASE BeginConsolidation(l) \/ RecheckMemory(l) \/ PublishMemory(l) \/ Purge(l)
      <3>1. owed[l] \subseteq Kept /\ owed'[l] = owed[l]
        BY <2>5 DEF BeginConsolidation, RecheckMemory, PublishMemory, Purge, LAt, OwedInv
      <3>2. lpc'[l] \in {"memory", "memorize", "purge", "check"}
        BY <2>5 DEF BeginConsolidation, RecheckMemory, PublishMemory, Purge, LGoto, LibTypeOK
      <3>3. QED
        BY <1>1, <2>1, <3>1, <3>2 DEF OwedInv
    <2>6. CASE CheckInactive(l)
      <3>1. owed[l] \subseteq Kept
        BY <2>6 DEF CheckInactive, StopCheck, LAt, OwedInv
      <3>2. \/ lpc'[l] = "stopped" /\ owed'[l] = owed[l]
            \/ lpc'[l] = "sleep" /\ owed'[l] \in {{}, EndedRows}
        BY <2>6 DEF CheckInactive, StopCheck, LGoto, LibTypeOK
      <3>3. QED
        BY <1>1, <2>1, <3>1, <3>2 DEF OwedInv
    <2>7. CASE Invoke(l) \/ Abort(l) \/ SleepBetweenRuns(l) \/ Wake(l)
      <3>1. lpc'[l] \in {"off", "list", "asleep"} /\ owed'[l] \in {{}, owed[l]}
        BY <2>7 DEF Invoke, Abort, SleepBetweenRuns, Wake, LGoto, LibTypeOK
      <3>2. QED
        BY <1>1, <2>1, <3>1 DEF OwedInv
    <2>8. QED
      BY <1>4, <2>2, <2>3, <2>4, <2>5, <2>6, <2>7 DEF LibStep
  <1>5. QED
    BY <1>2, <1>3, <1>4 DEF LibNext, vars

-----------------------------------------------------------------------------
\* Before the first run there is nothing to cover, to fold or to owe.
LEMMA LibInitInv ==
  LibInit => Inv /\ LibTypeOK /\ TodoInv /\ RowInv /\ CoverInv /\ FoldInv /\ OwedInv
  <1> SUFFICES ASSUME LibInit
               PROVE  Inv /\ LibTypeOK /\ TodoInv /\ RowInv /\ CoverInv /\ FoldInv /\ OwedInv
    OBVIOUS
  <1>1. Inv /\ RowInv
    BY InitInv, RowInit DEF LibInit
  <1>2. LibTypeOK
    <2>1. NoJob \in Jobs /\ IsFiniteSet({})
      BY FS_EmptySet DEF NoJob, Jobs
    <2>2. QED
      BY <2>1 DEF LibInit, LibTypeOK
  <1>3. TodoInv /\ CoverInv /\ FoldInv /\ OwedInv
    BY DEF LibInit, TodoInv, CoverInv, FoldInv, OwedInv, Memories
  <1>4. QED
    BY <1>1, <1>2, <1>3

\* The files of the watched agents, next to any number of Librarians.
LEMMA LibFiles == LibSpec => [](Inv /\ LibTypeOK /\ TodoInv)
  <1>1. Inv /\ LibTypeOK /\ TodoInv /\ [LibNext]_vars => (Inv /\ LibTypeOK /\ TodoInv)'
    BY LibPersists, NextInv, LibType
  <1>2. QED
    BY <1>1, LibInitInv, PTL DEF LibSpec

\* Type correctness of the Librarians and their files, for any number of
\* Librarians, with aborted runs, crashes and failing writes.
THEOREM LibTypeCorrect == LibSpec => []LibTypeOK
  BY LibFiles, PTL

\* What observers of the marker directory rely on holds next to any number of
\* Librarians as well: LibSpec implements the specification of the sinks.
THEOREM LibImplementsSinks == LibSpec => Spec
  <1>1. LibInit => Init
    BY DEF LibInit
  <1>2. QED
    BY <1>1, LibPersists, PTL DEF LibSpec, Spec

CoverAll == Inv /\ LibTypeOK /\ TodoInv /\ RowInv /\ CoverInv

LEMMA Covering ==
  ASSUME ~Revisits
  PROVE  LibSpec => []CoverAll
  <1>1. CoverAll /\ [LibNext]_vars => CoverAll'
    BY LibPersists, NextInv, LibType, RowStep, CoverStep DEF CoverAll
  <1>2. LibInit => CoverAll
    BY LibInitInv DEF CoverAll
  <1>3. QED
    BY <1>1, <1>2, PTL DEF LibSpec

\* A snapshot's coverage cursor (_uncovered_rows, _snapshot_one_run) never
\* passes a row that did not go into it, for any number of Librarians, agents,
\* runs and rows, whatever thresholds and limits, unless an agent is shown or
\* run dry after a run.
THEOREM CoverageIsHonest ==
  ASSUME ~Revisits
  PROVE  LibSpec => []CoverageHonest
  <1>1. CoverAll => CoverageHonest
    <2> SUFFICES ASSUME CoverAll, NEW f \in archive, f.kind = "snapshot",
                        NEW x \in RowsOf(f.run, doc[f.run]), x[2] <= f.covers
                 PROVE  x \in f.holds
      BY DEF CoverageHonest
    <2>1. Claims(doc, f.run, f.covers, f.holds)
      BY DEF CoverAll, CoverInv
    <2>2. x[2] \in RowNums(doc[f.run]) /\ x = <<f.run, x[2]>>
      BY DEF RowsOf, RowNums
    <2>3. QED
      BY <2>1, <2>2 DEF Claims
  <1>2. QED
    BY <1>1, Covering, PTL

FoldAll == Inv /\ LibTypeOK /\ TodoInv /\ FoldInv

LEMMA Folding ==
  ASSUME OneLibrarian
  PROVE  LibSpec => []FoldAll
  <1>1. FoldAll /\ [LibNext]_vars => FoldAll'
    BY LibPersists, NextInv, LibType, FoldStep DEF FoldAll
  <1>2. LibInit => FoldAll
    BY LibInitInv DEF FoldAll
  <1>3. QED
    BY <1>1, <1>2, PTL DEF LibSpec

\* With one Librarian, every memory holds what the snapshots before it hold:
\* the time stamp of the latest memory may serve as the watermark of
\* consolidate_memory, also when a run of the Librarian is cut short.
THEOREM WatermarkIsSafe ==
  ASSUME OneLibrarian
  PROVE  LibSpec => []WatermarkSafe
  <1>1. FoldAll => WatermarkSafe
    BY DEF FoldAll, FoldInv, WatermarkSafe, Memories, LibTypeOK
  <1>2. QED
    BY <1>1, Folding, PTL

\* With one Librarian, purge_files never deletes a snapshot that is still to be
\* consolidated, as long as it keeps at least MinPending - 1 of them.
THEOREM PendingIsSpared ==
  ASSUME OneLibrarian
  PROVE  LibSpec => PurgeSparesPending
  <1> DEFINE Spares == \A f \in Pending : f \in archive'
  <1>1. FoldAll /\ [LibNext]_vars => [Spares]_vars
    <2> SUFFICES ASSUME FoldAll, LibNext PROVE Spares
      OBVIOUS
    <2>1. CASE archive \subseteq archive'
      BY <2>1 DEF Pending
    <2>2. ASSUME NEW l \in Librarians, Purge(l) PROVE Spares
      BY <2>2, PurgeKeeps DEF FoldAll
    <2>3. ASSUME NEW l \in Librarians, PublishSnapshot(l) \/ PublishMemory(l)
          PROVE  archive \subseteq archive'
      BY <2>3 DEF PublishSnapshot, PublishMemory, Publish
    <2>4. QED
      BY <2>1, <2>2, <2>3 DEF LibNext, LibStep, libVars, fileVars, CrashAll, Invoke, Abort,
         ListConversations, LoadConversation, RecheckSnapshot, BeginConsolidation, RecheckMemory,
         CheckInactive, StopCheck, SleepBetweenRuns, Wake
  <1>2. QED
    BY <1>1, Folding, PTL DEF LibSpec, PurgeSparesPending

OwedAll == CoverAll /\ FoldAll /\ OwedInv

\* One Librarian that stops (stop_when_watched_agents_inactive) has seen, in a
\* whole sweep after the first inactive check, every row of every run that had
\* ended by then: it is in a snapshot or a memory that still exists.
THEOREM StopsAfterSweep ==
  ASSUME ~Revisits, OneLibrarian
  PROVE  LibSpec => []SweptBeforeStop
  <1>1. OwedAll /\ [LibNext]_vars => OwedAll'
    BY LibPersists, NextInv, LibType, RowStep, CoverStep, FoldStep, OwedStep
       DEF OwedAll, CoverAll, FoldAll
  <1>2. LibInit => OwedAll
    BY LibInitInv DEF OwedAll, CoverAll, FoldAll
  <1>3. OwedAll => SweptBeforeStop
    BY DEF OwedAll, OwedInv, SweptBeforeStop, LAt, Kept
  <1>4. QED
    BY <1>1, <1>2, <1>3, PTL DEF LibSpec
=============================================================================
