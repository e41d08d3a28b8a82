------------------------------ MODULE Librarian ------------------------------
(***************************************************************************)
(* The Librarian's maintenance cycle (shed/agents/librarian.py and         *)
(* shed/capabilities.py) over the files of RunPersistence: its tools       *)
(* snapshot_conversations, consolidate_memory, purge_files,                *)
(* stop_when_watched_agents_inactive and sleep_between_runs, which a       *)
(* deterministic agent runs in this order until the fourth one stops it.   *)
(*                                                                         *)
(* A summary is modelled by the conversation rows it was made from.        *)
(* Artifacts are published under increasing time stamps.  Summarizing is   *)
(* slow: agents, and other Librarians of the project, run meanwhile.       *)
(***************************************************************************)
EXTENDS RunPersistence

CONSTANTS
    Librarians,
    Threshold,      \* token_growth_threshold, in rows
    MinPending,     \* min_pending_snapshots
    SnapshotLimit,  \* max_snapshot_files
    MemoryLimit,    \* max_memory_files
    LogLimit,       \* max_log_files
    Aborts          \* whether a Librarian run may be cancelled or fail

ASSUME LimitsAssumption ==
    /\ {Threshold, MinPending, MemoryLimit} \subseteq Nat \ {0}
    /\ SnapshotLimit \in Nat /\ SnapshotLimit >= MinPending - 1
    /\ LogLimit >= Cardinality(Runs)    \* purge_logs finds nothing to delete

VARIABLES
    lpc,        \* where each Librarian is in its cycle
    todo,       \* the documents its snapshot sweep has still to look at
    job,        \* the summary it is waiting for
    lastCheck,  \* the result of its previous inactivity check
    archive,    \* the snapshot and memory files
    published,  \* how many were ever published: the next one's time stamp
    owed        \* the rows of ended runs at its previous inactive check

fileVars == <<archive, published>>
libVars == <<lpc, todo, job, lastCheck, fileVars, owed>>
vars == <<persistVars, libVars>>

NoJob == [run |-> NoDoc, covers |-> 0, since |-> 0, holds |-> {}]
Syncable == {"completed", "failed"}             \* TERMINAL_SYNCABLE_STATUSES

LibInit ==
    /\ Init
    /\ lpc = [l \in Librarians |-> "off"]
    /\ todo = [l \in Librarians |-> {}]
    /\ job = [l \in Librarians |-> NoJob]
    /\ lastCheck = [l \in Librarians |-> "none"]
    /\ archive = {} /\ published = 0
    /\ owed = [l \in Librarians |-> {}]

LGoto(l, there) == lpc' = [lpc EXCEPT ![l] = there]
LAt(l, here) == up /\ lpc[l] = here

-----------------------------------------------------------------------------
(* Artifacts.                                                               *)

Snapshots(r) == {f \in archive : f.kind = "snapshot" /\ f.run = r}
Memories == {f \in archive : f.kind = "memory"}
NoFile == [stamp |-> 0, covers |-> 0, holds |-> {}]

\* latest_timestamped_file
Latest(files) ==
    IF files = {} THEN NoFile ELSE CHOOSE f \in files : \A g \in files : g.stamp <= f.stamp

\* write_timestamped_file
Publish(file) ==
    /\ published' = published + 1
    /\ archive' = archive \cup {[file EXCEPT !.stamp = published + 1]}

RowsOf(r, m) == {<<r, m.rows[i]>> : i \in DOMAIN m.rows}

-----------------------------------------------------------------------------
(* The run and its sweep over the conversations.                            *)

Invoke(l) ==
    /\ up /\ lpc[l] \in {"off", "stopped"}
    /\ LGoto(l, "list")
    /\ lastCheck' = [lastCheck EXCEPT ![l] = "none"]
    /\ owed' = [owed EXCEPT ![l] = {}]
    /\ UNCHANGED <<persistVars, todo, job, fileVars>>

\* The run of the Librarian ends early: its summary is lost.
Abort(l) ==
    /\ Aborts
    /\ lpc[l] \notin {"off", "stopped"}
    /\ LGoto(l, "off")
    /\ todo' = [todo EXCEPT ![l] = {}]
    /\ job' = [job EXCEPT ![l] = NoJob]
    /\ UNCHANGED <<persistVars, lastCheck, fileVars, owed>>

ListConversations(l) ==
    /\ LAt(l, "list")
    /\ todo' = [todo EXCEPT ![l] = {r \in Runs : doc[r] # NoDoc}]
    /\ LGoto(l, "sweep")
    /\ UNCHANGED <<persistVars, job, lastCheck, fileVars, owed>>

\* _uncovered_rows
Uncovered(r) == {x \in RowsOf(r, doc[r]) : x[2] > Latest(Snapshots(r)).covers}

ShouldSnapshot(r) ==
    /\ Uncovered(r) # {}
    /\ doc[r].status # "cancelled"
    /\ Cardinality(Uncovered(r)) >= Threshold \/ doc[r].status \in Syncable

MaxSequence(rows) == CHOOSE n \in {x[2] : x \in rows} : \A x \in rows : x[2] <= n

\* _snapshot_one_run up to the answer of the model.
LoadConversation(l, r) ==
    /\ LAt(l, "sweep") /\ r \in todo[l]
    /\ todo' = [todo EXCEPT ![l] = @ \ {r}]
    /\ \/ /\ ShouldSnapshot(r)
          /\ job' = [job EXCEPT ![l] =
                [run |-> r, covers |-> MaxSequence(Uncovered(r)),
                 since |-> Latest(Snapshots(r)).stamp,
                 holds |-> Latest(Snapshots(r)).holds \cup Uncovered(r)]]
          /\ LGoto(l, "summary")
       \/ ~ShouldSnapshot(r) /\ UNCHANGED <<job, lpc>>
    /\ UNCHANGED <<persistVars, lastCheck, fileVars, owed>>

\* A competing snapshot with sufficient coverage makes this one redundant.
Superseded(l) ==
    LET newest == Latest(Snapshots(job[l].run))
    IN  newest.stamp > job[l].since /\ newest.covers >= job[l].covers

RecheckSnapshot(l) ==
    /\ LAt(l, "summary")
    /\ LGoto(l, IF Superseded(l) THEN "sweep" ELSE "publish")
    /\ UNCHANGED <<persistVars, todo, job, lastCheck, fileVars, owed>>

\* As if the cursor were taken from the conversation as it is by now.
PublishAhead(l) ==
    /\ LAt(l, "publish")
    /\ Publish([kind |-> "snapshot", run |-> job[l].run, stamp |-> 0, holds |-> job[l].holds,
                covers |-> MaxSequence(RowsOf(job[l].run, doc[job[l].run]))])
    /\ LGoto(l, "sweep")
    /\ job' = [job EXCEPT ![l] = NoJob]
    /\ UNCHANGED <<persistVars, todo, lastCheck, owed>>

PublishSnapshot(l) ==
    /\ LAt(l, "publish")
    /\ Publish([kind |-> "snapshot", run |-> job[l].run, stamp |-> 0, holds |-> job[l].holds,
                covers |-> job[l].covers])
    /\ LGoto(l, "sweep")
    /\ job' = [job EXCEPT ![l] = NoJob]
    /\ UNCHANGED <<persistVars, todo, lastCheck, owed>>

-----------------------------------------------------------------------------
(* consolidate_memory                                                       *)

Watermark == Latest(Memories).stamp
Pending == {f \in archive : f.kind = "snapshot" /\ f.stamp > Watermark}

\* As if the previous memory were not part of the prompt.
FoldedAlone == UNION {f.holds : f \in Pending}

Folded == Latest(Memories).holds \cup UNION {f.holds : f \in Pending}

\* _should_consolidate; aged says whether the oldest pending snapshot has
\* reached max_pending_age_seconds.
ShouldConsolidate(aged) ==
    Pending # {} /\ (marked = {} \/ Cardinality(Pending) >= MinPending \/ aged)

BeginConsolidation(l) ==
    /\ LAt(l, "sweep") /\ todo[l] = {}
    /\ \E aged \in BOOLEAN :
         \/ /\ ShouldConsolidate(aged)
            /\ job' = [job EXCEPT ![l] = [NoJob EXCEPT !.since = Watermark, !.holds = Folded]]
            /\ LGoto(l, "memory")
         \/ /\ ~ShouldConsolidate(aged)
            /\ LGoto(l, "purge")
            /\ UNCHANGED job
    /\ UNCHANGED <<persistVars, todo, lastCheck, fileVars, owed>>

\* A memory that was published meanwhile supersedes this one.
RecheckMemory(l) ==
    /\ LAt(l, "memory")
    /\ LGoto(l, IF Watermark > job[l].since THEN "purge" ELSE "memorize")
    /\ UNCHANGED <<persistVars, todo, job, lastCheck, fileVars, owed>>

PublishMemory(l) ==
    /\ LAt(l, "memorize")
    /\ Publish([kind |-> "memory", run |-> NoDoc, stamp |-> 0, covers |-> 0,
                holds |-> job[l].holds])
    /\ LGoto(l, "purge")
    /\ job' = [job EXCEPT ![l] = NoJob]
    /\ UNCHANGED <<persistVars, todo, lastCheck, owed>>

-----------------------------------------------------------------------------
(* Retention, the inactivity check and the wait.                            *)

\* As if one file too few were kept.
RetainedShort(files, limit) ==
    {f \in files : Cardinality({g \in files : g.stamp > f.stamp}) < limit - 1}

\* purge_files_by_threshold deletes the oldest files above the limit.
Retained(files, limit) ==
    {f \in files : Cardinality({g \in files : g.stamp > f.stamp}) < limit}

Purge(l) ==
    /\ LAt(l, "purge")
    /\ archive' = Retained(archive \ Memories, SnapshotLimit) \cup Retained(Memories, MemoryLimit)
    /\ LGoto(l, "check")
    /\ UNCHANGED <<persistVars, todo, job, lastCheck, published, owed>>

EndedRows ==
    UNION {RowsOf(r, doc[r]) : r \in {q \in Runs : doc[q] # NoDoc /\ doc[q].status \in Syncable}}

StopCheck(l, idle, stopping, result) ==
    /\ LAt(l, "check")
    /\ LGoto(l, IF stopping THEN "stopped" ELSE "sleep")
    /\ lastCheck' = [lastCheck EXCEPT ![l] = result]
    /\ owed' = [owed EXCEPT ![l] = IF stopping THEN @ ELSE IF idle THEN EndedRows ELSE {}]
    /\ UNCHANGED <<persistVars, todo, job, fileVars>>

\* As if the first inactive check stopped the Librarian, and as if the result
\* of the previous check were never found.
CheckAtOnce(l) ==
    LET idle == marked = {}
    IN  /\ LAt(l, "check")
        /\ LGoto(l, IF idle THEN "stopped" ELSE "sleep")
        /\ lastCheck' = [lastCheck EXCEPT ![l] = IF idle THEN "final" ELSE "active"]
        /\ owed' = [owed EXCEPT ![l] = IF idle THEN EndedRows ELSE {}]
        /\ UNCHANGED <<persistVars, todo, job, fileVars>>
CheckForgetful(l) == StopCheck(l, marked = {}, FALSE, "none")

\* stop_when_watched_agents_inactive
CheckInactive(l) ==
    LET idle == marked = {}
    IN  StopCheck(l, idle, idle /\ lastCheck[l] = "final", IF idle THEN "final" ELSE "active")

\* sleep_between_runs returns at once when no watched agent is active, and
\* after its time or when an active run ends otherwise.
SleepBetweenRuns(l) ==
    /\ LAt(l, "sleep")
    /\ LGoto(l, IF marked = {} THEN "list" ELSE "asleep")
    /\ UNCHANGED <<persistVars, todo, job, lastCheck, fileVars, owed>>

Wake(l) ==
    /\ LAt(l, "asleep")
    /\ LGoto(l, "list")
    /\ UNCHANGED <<persistVars, todo, job, lastCheck, fileVars, owed>>

LibStep(l) ==
    \/ ListConversations(l)
    \/ \E r \in Runs : LoadConversation(l, r)
    \/ RecheckSnapshot(l) \/ PublishSnapshot(l)
    \/ BeginConsolidation(l) \/ RecheckMemory(l) \/ PublishMemory(l)
    \/ Purge(l) \/ CheckInactive(l) \/ SleepBetweenRuns(l) \/ Wake(l)

\* The Librarian is a thread of the process of the agents it watches.
CrashAll ==
    /\ Crash
    /\ lpc' = [l \in Librarians |-> "off"]
    /\ todo' = [l \in Librarians |-> {}]
    /\ job' = [l \in Librarians |-> NoJob]
    /\ UNCHANGED <<lastCheck, fileVars, owed>>

LibNext ==
    \/ AgentStep /\ UNCHANGED libVars
    \/ CrashAll
    \/ (Boot \/ \E r \in Runs : ClearStale(r)) /\ UNCHANGED libVars
    \/ \E l \in Librarians : Invoke(l) \/ Abort(l) \/ LibStep(l)

LibSpec == LibInit /\ [][LibNext]_vars

\* Runs end, the Librarian's thread runs and its summaries are answered.
LibFairSpec ==
    /\ LibSpec
    /\ \A a \in Agents : WF_vars(SinkStep(a) /\ UNCHANGED libVars)
    /\ \A l \in Librarians : WF_vars(LibStep(l))

-----------------------------------------------------------------------------
(* Properties                                                               *)

Rows == Runs \X Nat
Jobs == [run : Runs \cup {NoDoc}, covers : Nat, since : Nat, holds : SUBSET Rows]
Files == [kind : {"snapshot", "memory"}, run : Runs \cup {NoDoc}, stamp : Nat,
          covers : Nat, holds : SUBSET Rows]
LibTypeOK ==
    /\ lpc \in [Librarians -> {"off", "stopped", "list", "sweep", "summary", "publish", "memory",
                               "memorize", "purge", "check", "sleep", "asleep"}]
    /\ todo \in [Librarians -> SUBSET Runs]
    /\ job \in [Librarians -> Jobs]
    /\ lastCheck \in [Librarians -> {"none", "active", "final"}]
    /\ owed \in [Librarians -> SUBSET Rows]
    /\ published \in Nat
    /\ archive \subseteq Files /\ IsFiniteSet(archive)
    /\ \A f \in archive : f.stamp \in 1..published

\* A snapshot's coverage cursor only claims rows that went into it, although
\* the agent appends rows while the model is summarizing: no row below the
\* cursor is ever skipped.
CoverageHonest ==
    \A f \in archive : f.kind = "snapshot" =>
        \A x \in RowsOf(f.run, doc[f.run]) : x[2] <= f.covers => x \in f.holds

\* With one Librarian, a memory holds everything of every snapshot before it,
\* so that the time stamp of the latest memory may serve as the watermark.
WatermarkSafe ==
    \A m \in Memories : \A f \in archive :
        f.kind = "snapshot" /\ f.stamp < m.stamp => f.holds \subseteq m.holds

\* Retention never deletes a snapshot that is still to be consolidated.
PurgeSparesPending == [][\A f \in Pending : f \in archive']_vars

\* When the Librarian stops, what agents had written when it first found them
\* inactive is in a snapshot: the final sweep has read every ended run.
SweptBeforeStop ==
    \A l \in Librarians : LAt(l, "stopped") =>
        owed[l] \subseteq UNION {f.holds : f \in archive}

\* Once the watched agents have made their last run, the Librarian stops, unless
\* its run was cut short: no marker outlives its run, and a final sweep follows.
LibrarianStops ==
    \A l \in Librarians :
        lpc[l] \notin {"off", "stopped"} ~> lpc[l] \in {"off", "stopped"}
=============================================================================
