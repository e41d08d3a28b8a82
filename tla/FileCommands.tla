----------------------------- MODULE FileCommands -----------------------------
(***************************************************************************)
(* The guarded file tools: shed/tools/guard.py, cli_commands/ (command.py, *)
(* sequence.py, execute.py) and apply_patch.py, under a permission policy  *)
(* such as the one of shed/sandbox.py.                                     *)
(*                                                                         *)
(* A request is a stream of tagged tokens: commands joined by && || ; and  *)
(* |.  Each command that is reached goes through the chain resolve ->      *)
(* guard -> execute, and an executed step loops back through a             *)
(* continuation while there are commands left.  The guard may ask the      *)
(* user, one prompt per operation.  A patch is one pass through the same   *)
(* guard with its own executor, which a denial never reaches.              *)
(***************************************************************************)
EXTENDS FileTree

CONSTANTS
    Trees,      \* the trees a run may start from
    Policies,   \* the permission policies it may have
    Requests,   \* token streams submitted to run_file_command
    Patches     \* edits submitted to apply_patch

ASSUME TreesAssumption == \A t \in Trees : IsTree(t)
ASSUME PatchesAssumption == \A e \in Patches : e.path \in Seq(STRING)
\* contracts.py: TokenTag, ControlOperator and Token.
TokenTags == {"CMD", "FLG", "ARG", "PTH", "CTL"}
ControlOperators == {"&&", "||", ";", "|"}
Tokens == [v : STRING, tag : TokenTags, at : Seq(STRING)]
ASSUME RequestsAssumption ==
    \A r \in Requests :
        /\ r \in Seq(Tokens)
        /\ \A i \in DOMAIN r : r[i].tag = "CTL" => r[i].v \in ControlOperators
ASSUME PoliciesAssumption ==
    \A p \in Policies : p.default \in {"allow", "deny"} /\ p.precedence \in {"allow", "deny"}

VARIABLES
    fs,         \* the directory tree
    policy,     \* GuardContext: the rules and whether a user can be asked
    pc,         \* the tool of the chain that runs next
    request,    \* what was submitted
    remaining,  \* CommandExecution.remaining
    stdin,      \* CommandExecution.stdin: where the command it comes from begins, or 0 for None
    failure,    \* CommandExecution.failure is set
    ready,      \* CommandExecution.ready: the prepared command
    items,      \* the operations to be guarded
    asked,      \* the operations the user was asked about in this step
    approved,   \* the ones that were approved
    status,     \* GuardFilesResult.status
    effects,    \* the operations the step's effect consisted of
    ran,        \* every step: where its command begins, its exit status and stdin
    result      \* the final result of the tool call

stepVars == <<failure, ready, items, asked, approved, status, effects>>
chainVars == <<request, remaining, stdin, ran, result>>
vars == <<fs, policy, pc, chainVars, stepVars>>

None == "none"
NoCommand == [name |-> None]

-----------------------------------------------------------------------------
(* guard.py and sandbox.py: a rule covers operations at a place, or at the  *)
(* place and everything under it.                                           *)

Rule(at, deep, ops) == [at |-> at, deep |-> deep, ops |-> ops]
RuleMatches(rules, item) ==
    \E r \in rules : /\ item[1] \in r.ops
                     /\ IF r.deep THEN IsPrefix(r.at, item[2]) ELSE item[2] = r.at
Writes == {"CREATE", "DELETE"}
\* Sandbox.permissions for a configured project.
SandboxPolicy(root, project, shared) ==
    [allow |-> {Rule(root, TRUE, {"READ"}), Rule(project, TRUE, Writes), Rule(shared, TRUE, Writes)},
     deny |-> {}, ask |-> {Rule(shared, TRUE, Writes)},
     default |-> "deny", precedence |-> "allow", pipe |-> TRUE]

\* _policy_verdict.
PolicyVerdict(pol, item) ==
    LET allow == RuleMatches(pol.allow, item)
        deny == RuleMatches(pol.deny, item)
    IN IF allow /\ deny THEN pol.precedence
       ELSE IF allow THEN "allow" ELSE IF deny THEN "deny" ELSE pol.default
MustAsk(pol, item) == RuleMatches(pol.ask, item)

-----------------------------------------------------------------------------
(* contracts.py and sequence.py                                             *)

\* FileCommand.validate_sequence.
ValidSequence(ts) ==
    /\ ts # <<>>
    /\ \A i \in DOMAIN ts :
        LET first == i = 1 \/ ts[i - 1].tag = "CTL"
        IN (ts[i].tag = "CMD") = first
    /\ Last(ts).tag # "CTL"

Controls(ts) == {i \in DOMAIN ts : ts[i].tag = "CTL"}
FirstOf(S) == CHOOSE i \in S : \A j \in S : i <= j
\* split_command: the tokens of the current command.
CurrentCommand(ts) == IF Controls(ts) = {} THEN ts ELSE SubSeq(ts, 1, FirstOf(Controls(ts)) - 1)

LastOf(S) == CHOOSE i \in S : \A j \in S : j <= i
\* next_command.  The pipeline after the control at i runs as the last control
\* up to i that is not a pipe decides: a pipe inherits.
RunPipeline(ts, rc, i) ==
    LET deciding == {j \in Controls(ts) : j <= i /\ ts[j].v # "|"} IN
    deciding = {} \/ CASE ts[LastOf(deciding)].v = "&&" -> rc = 0
                       [] ts[LastOf(deciding)].v = "||" -> rc # 0
                       [] ts[LastOf(deciding)].v = ";" -> TRUE
\* As if a pipe were a control like any other, always followed.
NextCommandNoInherit(ts, rc) ==
    LET next == {i \in Controls(ts) : ts[i].v = "|" \/ RunPipeline(ts, rc, i)}
    IN IF next = {} THEN [tokens |-> <<>>, piped |-> FALSE]
       ELSE [tokens |-> SubSeq(ts, FirstOf(next) + 1, Len(ts)), piped |-> ts[FirstOf(next)].v = "|"]
NextCommand(ts, rc) ==
    LET next == {i \in Controls(ts) : RunPipeline(ts, rc, i)}
    IN IF next = {} THEN [tokens |-> <<>>, piped |-> FALSE]
       ELSE [tokens |-> SubSeq(ts, FirstOf(next) + 1, Len(ts)), piped |-> ts[FirstOf(next)].v = "|"]

Commands(ts) == {i \in DOMAIN ts : ts[i].tag = "CMD"}
\* Where, in the request, the command of the step begins.
StepAt == Len(request) - Len(remaining) + 1

-----------------------------------------------------------------------------
(* The chain.                                                               *)

FreshStep ==
    /\ asked' = {} /\ approved' = {} /\ status' = None /\ effects' = {}

Init ==
    /\ fs \in Trees /\ policy \in Policies
    /\ pc = "submit" /\ request = <<>> /\ remaining = <<>> /\ stdin = 0
    /\ failure = FALSE /\ ready = NoCommand /\ items = {}
    /\ asked = {} /\ approved = {} /\ status = None /\ effects = {}
    /\ ran = <<>> /\ result = None

\* FileCommand is validated before the chain starts.
SubmitCommand(r) ==
    /\ pc = "submit"
    /\ request' = r
    /\ \/ ValidSequence(r) /\ pc' = "resolve" /\ remaining' = r /\ UNCHANGED result
       \/ ~ValidSequence(r) /\ pc' = "end" /\ result' = "rejected" /\ UNCHANGED remaining
    /\ UNCHANGED <<fs, policy, stdin, ran, stepVars>>

Prepared(c) == failure' = FALSE /\ ready' = c /\ items' = Requires(fs, c)
NotPrepared == failure' = TRUE /\ ready' = NoCommand /\ items' = {}

\* Commands that walk a tree under a preparation deadline.
Traversals == {"rm", "gio", "grep", "rg"}

\* resolve_command and continue_file_command: _prepare_step on the tree as it
\* is now.
PrepareStep ==
    /\ pc = "resolve"
    /\ LET tokens == CurrentCommand(remaining)
           name == tokens[1].v
           c == Parsed(name, Tail(tokens))
       IN \/ /\ name \in DOMAIN COMMANDS /\ Valid(c) /\ Accepts(fs, c)
             /\ Prepared(c)
          \/ /\ name \notin DOMAIN COMMANDS \/ ~(Valid(c) /\ Accepts(fs, c)) \/ name \in Traversals
             /\ NotPrepared
    /\ pc' = "guard"
    /\ FreshStep
    /\ UNCHANGED <<fs, policy, chainVars>>

IsPatch == pc \in {"resolve_patch", "guard_patch", "ask_patch", "execute_patch"}
\* build_guarded_tool_chain: a denial ends a chain that has no continuation,
\* and reaches the executor of one that has.
Denied ==
    /\ status' = "denied"
    /\ pc' = IF IsPatch THEN "end" ELSE "execute"
    /\ result' = IF IsPatch THEN "denied" ELSE result
Allowed ==
    /\ status' = "allowed"
    /\ pc' = IF IsPatch THEN "execute_patch" ELSE "execute"
    /\ UNCHANGED result

PendingApprovals == {it \in items : MustAsk(policy, it)}

\* guard_items: _check_policy over all items, then _request_approvals.
CheckPolicy ==
    /\ pc \in {"guard", "guard_patch"}
    /\ \/ /\ \E it \in items : PolicyVerdict(policy, it) = "deny"
          /\ Denied
       \/ /\ \A it \in items : PolicyVerdict(policy, it) # "deny"
          /\ IF PendingApprovals = {} THEN Allowed
             ELSE IF ~policy.pipe THEN Denied
             ELSE pc' = (IF IsPatch THEN "ask_patch" ELSE "ask") /\ UNCHANGED <<status, result>>
    /\ UNCHANGED <<fs, policy, request, remaining, stdin, failure, ready, items, asked, approved, effects, ran>>

\* One prompt: the user agrees, or declines, sends nothing or cannot be
\* reached, which all deny the step at once.
AskUser(agrees) ==
    /\ pc \in {"ask", "ask_patch"}
    /\ \E it \in PendingApprovals \ approved :
        /\ asked' = asked \cup {it}
        /\ approved' = IF agrees THEN approved \cup {it} ELSE approved
    /\ IF ~agrees THEN Denied
       ELSE IF PendingApprovals \subseteq approved' THEN Allowed
       ELSE UNCHANGED <<pc, status, result>>
    /\ UNCHANGED <<fs, policy, request, remaining, stdin, failure, ready, items, effects, ran>>

\* _continue_or_finish after a step that ended with rc.
Continue(rc) ==
    LET next == NextCommand(remaining, rc) IN
    /\ ran' = Append(ran, [at |-> StepAt, rc |-> rc, from |-> stdin])
    /\ remaining' = next.tokens
    /\ IF next.tokens # <<>>
       THEN /\ stdin' = IF next.piped THEN StepAt ELSE 0
            /\ pc' = "resolve"
            /\ UNCHANGED result
       ELSE /\ result' = IF rc = 0 THEN "success" ELSE "failure"
            /\ pc' = "end"
            /\ UNCHANGED stdin
    /\ UNCHANGED <<policy, request, failure, ready, items, asked, approved, status>>

\* A result that ends the whole sequence.
Finish(how) ==
    /\ pc' = "end" /\ result' = how
    /\ UNCHANGED <<policy, request, remaining, stdin, ran, failure, ready, items, asked, approved, status>>

\* _execute_step when the step failed to prepare or was denied.
ReportStep ==
    /\ pc = "execute"
    /\ failure \/ status = "denied"
    /\ Continue(1)
    /\ UNCHANGED <<fs, effects>>

\* _run_command: the program is not found, may not be run, or fails to start
\* in a way the executor does not expect.
LaunchFails ==
    /\ pc = "execute" /\ ~failure /\ status = "allowed"
    /\ Continue(127) \/ Continue(126) \/ Finish("execution error")
    /\ UNCHANGED <<fs, effects>>

\* As if the executor, which also sees denials, only looked at failures.
RunCommandUnguarded ==
    /\ pc = "execute" /\ ~failure /\ Kind(fs, Base) = "dir"
    /\ \E units \in SUBSET Native(fs, ready) :
        /\ IsTree(After(fs, units))
        /\ fs' = After(fs, units)
        /\ effects' = Done(units)
        /\ Continue(0)

\* _run_command: all of the effect with any exit status, or part of it and a
\* failure (124 for a timeout).  Too much output ends the sequence.  A program
\* only starts in a working directory that is there.
RunCommand ==
    /\ pc = "execute" /\ ~failure /\ status = "allowed" /\ Kind(fs, Base) = "dir"
    /\ \E units \in SUBSET Native(fs, ready) :
        /\ IsTree(After(fs, units))
        /\ fs' = After(fs, units)
        /\ effects' = Done(units)
        /\ \/ units = Native(fs, ready) /\ Continue(0)
           \/ Continue(1) \/ Continue(124)
           \/ Finish("output too large")

-----------------------------------------------------------------------------
(* apply_patch.py                                                           *)

SubmitPatch(e) ==
    /\ pc = "submit"
    /\ pc' = "resolve_patch"
    /\ ready' = e
    /\ UNCHANGED <<fs, policy, chainVars, failure, items, asked, approved, status, effects>>

\* apply_patch, which may create the missing parents of a new file.
PreparePatch ==
    /\ pc = "resolve_patch"
    /\ \/ /\ ~IsPattern(ready.path) /\ Writable(fs, ready.path, FALSE, FALSE, TRUE)
          /\ items' = WriteOps(fs, ready.path)
          /\ pc' = "guard_patch"
          /\ UNCHANGED result
       \/ /\ IsPattern(ready.path) \/ ~Writable(fs, ready.path, FALSE, FALSE, TRUE)
          /\ pc' = "end" /\ result' = "parse error"
          /\ UNCHANGED items
    /\ UNCHANGED <<fs, policy, request, remaining, stdin, ran, failure, ready, asked, approved, status, effects>>

MissingParents(p) == {q \in Above(p) : Kind(fs, q) = "none"}
Patched(how) ==
    /\ pc' = "end" /\ result' = how
    /\ UNCHANGED <<policy, request, remaining, stdin, ran, failure, ready, items, asked, approved, status>>
\* _perform_replace with an empty old string: write the whole file.  One that
\* fails to has made some of the parents, or truncated or created the file.
RewriteFile ==
    /\ pc = "execute_patch" /\ ready.old = "empty"
    /\ LET parents == {Unit({<<"PARENT", q>>}, [r \in {q} |-> "dir"], {}) : q \in MissingParents(ready.path)}
           file == Writing(fs, ready.path, "file")
       IN \/ /\ Patched("patched")
             /\ fs' = After(fs, parents \cup {file})
             /\ effects' = Done(parents \cup {file})
          \/ /\ Patched("patch failed")
             /\ \E made \in SUBSET (parents \cup {file}) :
                 /\ IsTree(After(fs, made))
                 /\ fs' = After(fs, made) /\ effects' = Done(made)
\* _perform_replace: the old string occurs count times in what is read.  A write
\* that fails may have truncated the file first.
ReplaceText(count) ==
    /\ pc = "execute_patch" /\ ready.old = "text"
    /\ IF Kind(fs, ready.path) = "file" /\ count > 0 /\ (count = 1 \/ ready.all)
       THEN \/ /\ Patched("patched") \/ Patched("patch failed")
               /\ effects' = Writing(fs, ready.path, "file").does
            \/ Patched("patch failed") /\ UNCHANGED effects
       ELSE Patched("patch failed") /\ UNCHANGED effects
    /\ UNCHANGED fs

Terminated == pc = "end" /\ UNCHANGED vars

Next ==
    \/ \E r \in Requests : SubmitCommand(r)
    \/ \E e \in Patches : SubmitPatch(e)
    \/ PrepareStep \/ PreparePatch
    \/ CheckPolicy \/ \E agrees \in BOOLEAN : AskUser(agrees)
    \/ ReportStep \/ LaunchFails \/ RunCommand
    \/ RewriteFile \/ \E n \in 0 .. 2 : ReplaceText(n)
    \/ Terminated

Spec == Init /\ [][Next]_vars

-----------------------------------------------------------------------------
(* What the guard promises.                                                 *)

\* What a policy grants, said from its rules and defaults.
Granted(pol, item) ==
    LET allow == RuleMatches(pol.allow, item)
        deny == RuleMatches(pol.deny, item)
    IN \/ allow /\ ~deny
       \/ allow /\ deny /\ pol.precedence = "allow"
       \/ ~allow /\ ~deny /\ pol.default = "allow"
Cleared(item) == Granted(policy, item) /\ (MustAsk(policy, item) => item \in approved)

(***************************************************************************)
(* Whatever a program or a patch did to the tree, the policy grants that   *)
(* operation at that place and the user agreed to it where a rule asks:    *)
(* the operations a resolver lists cover the effect ("every operation      *)
(* required by the effect", guard_items).  Only the missing parents of a   *)
(* patched file come with the grant for the file.                          *)
(***************************************************************************)
EffectsAuthorized ==
    \A e \in effects :
        IF e[1] = "PARENT"
        THEN \E it \in items : it[1] = "CREATE" /\ IsStrictPrefix(e[2], it[2]) /\ Cleared(it)
        ELSE Cleared(e)

(***************************************************************************)
(* Consent comes first and is for the whole step: a step has an effect     *)
(* only once everything it needs is cleared, so one operation that is      *)
(* denied or declined leaves all of it undone, also where the executor     *)
(* still runs to report it; and the user is never asked about a step that  *)
(* the policy denies ("Check all explicit requirements before prompting"). *)
(***************************************************************************)
ConsentFirst ==
    /\ effects # {} => status = "allowed" /\ \A it \in items : Cleared(it)
    /\ asked # {} => \A it \in items : Granted(policy, it)

(***************************************************************************)
(* The sequence runs as zsh runs a list: pipelines bind first, && and ||   *)
(* look at the status of the last pipeline that ran, ; starts afresh, all  *)
(* stages of a pipeline run, and only the stage after a pipe reads the one *)
(* before it.                                                              *)
(***************************************************************************)
Operator(ts, k) == IF k = 1 THEN ";" ELSE ts[k - 1].v \* the control before command k
Pipelines(ts) == {k \in Commands(ts) : Operator(ts, k) # "|"}
PipelineOf(ts, k) == LastOf({j \in Pipelines(ts) : j <= k})
ExitOf(steps, k) ==
    LET now == {i \in DOMAIN steps : steps[i].at = k}
    IN IF now = {} THEN 0 ELSE steps[CHOOSE i \in now : TRUE].rc
\* Does the pipeline at k run, and what is the status of the list after it?
ListStatus(ts, steps) ==
    LET before(k) == LastOf({j \in Pipelines(ts) : j < k})
        stages(k) == {c \in Commands(ts) : PipelineOf(ts, c) = k}
        status_[k \in Pipelines(ts)] ==
            LET last == IF k = 1 THEN 0 ELSE status_[before(k)].status
                runs == CASE Operator(ts, k) = "&&" -> last = 0
                          [] Operator(ts, k) = "||" -> last # 0
                          [] OTHER -> TRUE
            IN [runs |-> runs, status |-> IF runs THEN ExitOf(steps, LastOf(stages(k))) ELSE last]
    IN status_
ZshRuns(ts, steps) == {k \in Commands(ts) : ListStatus(ts, steps)[PipelineOf(ts, k)].runs}
RunsLikeZsh ==
    /\ \A i \in DOMAIN ran :
        /\ i > 1 => ran[i].at > ran[i - 1].at
        /\ ran[i].from = IF Operator(request, ran[i].at) = "|"
                         THEN LastOf({c \in Commands(request) : c < ran[i].at}) ELSE 0
    /\ result \in {"success", "failure"} =>
        /\ {ran[i].at : i \in DOMAIN ran} = ZshRuns(request, ran)
        /\ (result = "success") = (ExitOf(ran, LastOf(ZshRuns(request, ran))) = 0)
=============================================================================
