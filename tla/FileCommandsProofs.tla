-------------------------- MODULE FileCommandsProofs --------------------------
(***************************************************************************)
(* Proofs about FileCommands for any trees, policies, requests and         *)
(* patches.                                                                *)
(*                                                                         *)
(* ConsentFirst holds for whatever a resolver lists, so what the commands  *)
(* need and do (FileTree) is not expanded for it; but it is not inductive. *)
(* That a step with an effect was cleared rests on where the chain is:     *)
(* nothing is asked, decided or done before the guard, a prompt is only    *)
(* reached past the policy, and the executor of a patch is only reached by *)
(* an allowed step, while the one of a command sees denials too and has to *)
(* look at the status itself.                                              *)
(*                                                                         *)
(* EffectsAuthorized adds that the right things were cleared: one lemma    *)
(* per group of commands shows that what the resolver lists covers what    *)
(* the program does, and GuardedInv that the list was made for the command *)
(* and the tree the executor then has.                                     *)
(*                                                                         *)
(* RunsLikeZsh compares two readings of a list: next_command looks ahead   *)
(* from the command that ended, with only its exit status, where zsh       *)
(* follows the status of the list from its beginning.  The second part     *)
(* shows that they agree: of the commands after the one that ended, the    *)
(* first that next_command may take is the first that zsh runs.            *)
(***************************************************************************)
EXTENDS FileCommands, Integers, FiniteSetTheorems, SequenceTheorems, WellFoundedInduction, TLAPS

BeforeGuard == {"submit", "guard", "resolve_patch", "guard_patch"}
AllCleared == \A it \in items : Cleared(it)
AllGranted == \A it \in items : Granted(policy, it)

Undecided == asked = {} /\ approved = {} /\ status = None /\ effects = {}

ChainInv ==
    /\ policy \in Policies
    /\ pc \in BeforeGuard => Undecided
    /\ pc \in {"ask", "ask_patch"} => status = None /\ effects = {} /\ AllGranted
    /\ pc \in {"execute", "execute_patch"} => effects = {}
    /\ pc = "execute_patch" => status = "allowed"
    /\ status = "allowed" => AllCleared
    /\ effects # {} => status = "allowed"
    /\ asked # {} => AllGranted

-----------------------------------------------------------------------------
\* _policy_verdict says "deny" for everything the policy does not grant.
LEMMA NotDeniedIsGranted ==
  ASSUME NEW pol \in Policies, NEW it, PolicyVerdict(pol, it) # "deny"
  PROVE  Granted(pol, it)
  BY PoliciesAssumption DEF PolicyVerdict, Granted

\* A step that is granted and has no approval pending is cleared.
LEMMA ApprovedIsCleared ==
  ASSUME AllGranted, PendingApprovals \subseteq approved
  PROVE  AllCleared
  BY DEF AllGranted, AllCleared, Cleared, PendingApprovals

\* Submitting and preparing: nothing is decided yet.
LEMMA PrepareKeeps ==
  ASSUME ChainInv,
         \/ \E r \in Requests : SubmitCommand(r)
         \/ \E e \in Patches : SubmitPatch(e)
         \/ PrepareStep \/ PreparePatch
  PROVE  ChainInv'
  <1>1. CASE \E r \in Requests : SubmitCommand(r)
    BY <1>1 DEF SubmitCommand, ChainInv, BeforeGuard, Undecided, AllCleared, AllGranted, Cleared, stepVars, None
  <1>2. CASE \E e \in Patches : SubmitPatch(e)
    BY <1>2 DEF SubmitPatch, ChainInv, BeforeGuard, Undecided, AllCleared, AllGranted, Cleared, chainVars, None
  <1>3. CASE PrepareStep
    <2>1. Undecided' /\ pc' = "guard" /\ policy' = policy
      BY <1>3 DEF PrepareStep, FreshStep, Undecided
    <2>2. QED
      BY <2>1 DEF ChainInv, BeforeGuard, Undecided, None
  <1>4. CASE PreparePatch
    <2>1. Undecided /\ pc' \in {"guard_patch", "end"} /\ UNCHANGED <<policy, asked, approved, status, effects>>
      BY <1>4 DEF PreparePatch, ChainInv, BeforeGuard
    <2>2. QED
      BY <2>1 DEF ChainInv, BeforeGuard, Undecided, None
  <1>5. QED
    BY <1>1, <1>2, <1>3, <1>4

\* _check_policy: it denies, asks or, where nothing is to be asked, allows.
LEMMA CheckKeeps ==
  ASSUME ChainInv, CheckPolicy
  PROVE  ChainInv'
  <1>1. /\ Undecided
        /\ pc \in {"guard", "guard_patch"}
        /\ UNCHANGED <<policy, items, asked, approved, effects>>
    BY DEF CheckPolicy, ChainInv, BeforeGuard
  <1>2. CASE Denied
    BY <1>1, <1>2 DEF Denied, ChainInv, BeforeGuard, Undecided, IsPatch, None
  <1>3. CASE ~Denied
    <2>1. \A it \in items : PolicyVerdict(policy, it) # "deny"
      BY <1>3 DEF CheckPolicy
    <2>2. AllGranted
      BY <2>1, NotDeniedIsGranted DEF ChainInv, AllGranted
    <2>3. CASE PendingApprovals = {} /\ Allowed
      <3>1. AllCleared
        BY <2>2, <2>3, ApprovedIsCleared
      <3>2. AllCleared'
        BY <1>1, <3>1 DEF AllCleared, Cleared
      <3>3. QED
        BY <1>1, <2>3, <3>2 DEF Allowed, ChainInv, BeforeGuard, Undecided, IsPatch
    <2>4. CASE pc' \in {"ask", "ask_patch"} /\ UNCHANGED status
      <3>1. AllGranted'
        BY <1>1, <2>2 DEF AllGranted
      <3>2. QED
        BY <1>1, <2>4, <3>1 DEF ChainInv, BeforeGuard, Undecided, None
    <2>5. QED
      BY <1>3, <2>3, <2>4 DEF CheckPolicy
  <1>4. QED
    BY <1>2, <1>3

\* _request_approvals: only the last of the approvals that are pending allows.
LEMMA AskKeeps ==
  ASSUME ChainInv, NEW agrees \in BOOLEAN, AskUser(agrees)
  PROVE  ChainInv'
  <1>1. /\ status = None /\ effects = {} /\ AllGranted
        /\ pc \in {"ask", "ask_patch"}
        /\ UNCHANGED <<policy, items, effects>>
    BY DEF AskUser, ChainInv
  <1>2. AllGranted'
    BY <1>1 DEF AllGranted
  <1>3. CASE Denied
    BY <1>1, <1>2, <1>3 DEF Denied, ChainInv, BeforeGuard, Undecided, IsPatch, None
  <1>4. CASE PendingApprovals \subseteq approved' /\ Allowed
    <2>1. AllCleared'
      BY <1>1, <1>2, <1>4 DEF AllCleared, AllGranted, Cleared, PendingApprovals
    <2>2. QED
      BY <1>1, <1>2, <1>4, <2>1 DEF Allowed, ChainInv, BeforeGuard, Undecided, IsPatch
  <1>5. CASE UNCHANGED <<pc, status>>
    BY <1>1, <1>2, <1>5 DEF ChainInv, BeforeGuard, None
  <1>6. QED
    BY <1>3, <1>4, <1>5 DEF AskUser

\* A step that reports or runs and leaves policy, items and consent alone.
LEMMA ExecuteKeeps ==
  ASSUME ChainInv, UNCHANGED <<policy, items, asked, approved, status>>,
         pc' \in {"resolve", "end"},
         effects' # {} => status = "allowed"
  PROVE  ChainInv'
  BY DEF ChainInv, BeforeGuard, AllCleared, AllGranted, Cleared

\* The executors: the one of a command looks at the status, the one of a patch
\* is only reached when it is allowed.
LEMMA EffectKeeps ==
  ASSUME ChainInv,
         \/ ReportStep \/ LaunchFails \/ RunCommand
         \/ RewriteFile \/ \E n \in 0 .. 2 : ReplaceText(n)
  PROVE  ChainInv'
  <1>1. CASE ReportStep
    <2>1. effects' = {}
      BY <1>1 DEF ReportStep, ChainInv
    <2>2. QED
      BY <1>1, <2>1, ExecuteKeeps DEF ReportStep, Continue
  <1>2. CASE LaunchFails
    <2>1. effects' = {}
      BY <1>2 DEF LaunchFails, ChainInv
    <2>2. QED
      BY <1>2, <2>1, ExecuteKeeps DEF LaunchFails, Continue, Finish
  <1>3. CASE RunCommand
    BY <1>3, ExecuteKeeps DEF RunCommand, Continue, Finish
  <1>4. CASE RewriteFile
    <2>1. status = "allowed"
      BY <1>4 DEF RewriteFile, ChainInv
    <2>2. \E how \in {"patched", "patch failed"} : Patched(how)
      BY <1>4 DEF RewriteFile
    <2>3. QED
      BY <2>1, <2>2, ExecuteKeeps DEF Patched
  <1>5. CASE \E n \in 0 .. 2 : ReplaceText(n)
    <2>1. status = "allowed"
      BY <1>5 DEF ReplaceText, ChainInv
    <2>2. \E how \in {"patched", "patch failed"} : Patched(how)
      BY <1>5 DEF ReplaceText
    <2>3. QED
      BY <2>1, <2>2, ExecuteKeeps DEF Patched
  <1>6. QED
    BY <1>1, <1>2, <1>3, <1>4, <1>5

-----------------------------------------------------------------------------
LEMMA InitInv == Init => ChainInv
  BY DEF Init, ChainInv, BeforeGuard, Undecided, None

\* The chain never leaves ChainInv.
LEMMA StepInv == ChainInv /\ [Next]_vars => ChainInv'
  <1> SUFFICES ASSUME ChainInv, [Next]_vars PROVE ChainInv'
    OBVIOUS
  <1>1. CASE Terminated \/ UNCHANGED vars
    BY <1>1 DEF Terminated, vars, stepVars, chainVars, ChainInv, BeforeGuard, Undecided,
       AllCleared, AllGranted, Cleared
  <1>2. CASE CheckPolicy \/ \E agrees \in BOOLEAN : AskUser(agrees)
    BY <1>2, CheckKeeps, AskKeeps
  <1>3. QED
    BY <1>1, <1>2, PrepareKeeps, EffectKeeps DEF Next

LEMMA Invariant == Spec => []ChainInv
  BY InitInv, StepInv, PTL DEF Spec

\* No effect without consent to the whole step, and no prompt for a step the
\* policy denies, whatever the command, the tree and the policy are.
THEOREM ConsentComesFirst == Spec => []ConsentFirst
  <1>1. ChainInv => ConsentFirst
    BY DEF ChainInv, ConsentFirst, AllCleared, AllGranted
  <1>2. QED
    BY <1>1, Invariant, PTL

-----------------------------------------------------------------------------
(* What a program does is covered by what its command was granted for.  A    *)
(* unit is covered when all it does is required, which "PARENT" never is.    *)

CoveredBy(u, required) == u.does \subseteq required /\ \A e \in u.does : e[1] # "PARENT"

\* Reading what is there and no link is covered by READ of it.
LEMMA ReadingCovered ==
  ASSUME NEW tree, NEW ps, \A p \in ps : Kind(tree, p) # "link"
  PROVE  CoveredBy(Reading(tree, ps), Ops("READ", ps))
  BY DEF CoveredBy, Reading, Unit, Ops

\* A unit that is covered by some requirements is covered by more of them.
LEMMA CoveredByMore ==
  ASSUME NEW u, NEW less, NEW more, CoveredBy(u, less), less \subseteq more
  PROVE  CoveredBy(u, more)
  BY DEF CoveredBy

\* Writing to a file or to nothing, where write_operations accepts it.
LEMMA WritingCovered ==
  ASSUME NEW tree, NEW p, NEW kind, Kind(tree, p) \in {"none", "file"}
  PROVE  CoveredBy(Writing(tree, p, kind), WriteOps(tree, p))
  BY DEF CoveredBy, Writing, Unit, WriteOps, Ops

\* Without patterns a command names its operands.
LEMMA LiteralNames ==
  ASSUME NEW tree, NEW args, AllLiteral(args)
  PROVE  Named(tree, args) = Range(args)
  <1>1. \A i \in DOMAIN args : Matches(tree, args[i]) = {args[i]}
    BY DEF AllLiteral, Matches
  <1>2. ASSUME NEW y \in Named(tree, args) PROVE y \in Range(args)
    <2>1. PICK x \in Expanded(tree, args) : y = x[2]
      BY DEF Named
    <2>2. PICK i \in DOMAIN args : x \in {i} \X Matches(tree, args[i])
      BY DEF Expanded
    <2>3. y = args[i]
      BY <1>1, <2>1, <2>2
    <2>4. QED
      BY <2>3 DEF Range
  <1>3. ASSUME NEW i \in DOMAIN args PROVE args[i] \in Named(tree, args)
    <2>1. <<i, args[i]>> \in Expanded(tree, args)
      BY <1>1 DEF Expanded
    <2>2. <<i, args[i]>>[2] = args[i]
      OBVIOUS
    <2>3. QED
      BY <2>1, <2>2 DEF Named
  <1>4. QED
    BY <1>2, <1>3 DEF Range

\* cat, wc, head, tail and diff.
LEMMA ReadersCovered ==
  ASSUME NEW tree, NEW c, c.name \in {"cat", "wc", "head", "tail", "diff"}, Accepts(tree, c),
         NEW u \in Native(tree, c)
  PROVE  CoveredBy(u, Requires(tree, c))
  <1>1. ReadOk(tree, c) /\ Requires(tree, c) = ReadOps(tree, c)
    BY DEF Accepts, Requires, CountedReadOk, DiffOk
  <1>2. u = Reading(tree, Named(tree, PathArgs(c)))
    BY DEF Native, NativeReads
  <1>3. \A p \in Named(tree, PathArgs(c)) : Kind(tree, p) # "link"
    BY <1>1 DEF ReadOk
  <1>4. QED
    BY <1>1, <1>2, <1>3, ReadingCovered DEF ReadOps

\* ls, find and pwd, which start in an existing directory.
LEMMA ListersCovered ==
  ASSUME NEW tree, NEW c, c.name \in {"ls", "find", "pwd"}, Accepts(tree, c),
         Kind(tree, Base) = "dir", NEW u \in Native(tree, c)
  PROVE  CoveredBy(u, Requires(tree, c))
  <1> DEFINE ps == NativeReads(tree, c)
  <1>1. u = Reading(tree, ps)
    BY DEF Native
  <1>2. CASE c.name = "pwd"
    <2>1. ps = {Base} /\ Requires(tree, c) = Ops("READ", {Base})
      BY <1>2 DEF NativeReads, Requires, Ops
    <2>2. QED
      BY <1>1, <2>1, ReadingCovered
  <1>3. CASE c.name \in {"ls", "find"}
    <2>1. ps = (IF PathArgs(c) = <<>> THEN {Base} ELSE Named(tree, PathArgs(c)))
      BY <1>3 DEF NativeReads
    <2>2. Requires(tree, c) = Ops("READ", ps)
      BY <1>3, <2>1 DEF Requires, ListOps
    <2>3. \A p \in ps : Kind(tree, p) # "link"
      BY <1>3, <2>1 DEF Accepts, ListOk, Inspectable
    <2> HIDE DEF ps
    <2>4. QED
      BY <1>1, <2>2, <2>3, ReadingCovered
  <1>4. QED
    BY <1>2, <1>3

\* touch and tee write where write_operations accepts it.
LEMMA WritersCovered ==
  ASSUME NEW tree, NEW c, c.name \in {"touch", "tee"}, Accepts(tree, c),
         NEW u \in Native(tree, c)
  PROVE  CoveredBy(u, Requires(tree, c))
  <1> DEFINE named == Named(tree, PathArgs(c))
             all == UNION {WriteOps(tree, p) : p \in named}
  <1>1. ASSUME NEW p \in named, NEW v, CoveredBy(v, WriteOps(tree, p)) PROVE CoveredBy(v, all)
    <2>1. WriteOps(tree, p) \subseteq all
      OBVIOUS
    <2>2. QED
      BY <1>1, <2>1, CoveredByMore
  <1>2. CASE c.name = "tee"
    <2>1. TeeOk(tree, c) /\ named = Range(PathArgs(c))
      BY <1>2, LiteralNames DEF Accepts, TeeOk
    <2>2. Requires(tree, c) = all
      BY <1>2, <2>1 DEF Requires
    <2>3. PICK p \in named : u = Writing(tree, p, "file")
      BY <1>2 DEF Native
    <2>4. Kind(tree, p) \in {"none", "file"}
      BY <2>1 DEF TeeOk, Writable, Inspectable
    <2> HIDE DEF named, all
    <2>5. QED
      BY <1>1, <2>2, <2>3, <2>4, WritingCovered
  <1>3. CASE c.name = "touch"
    <2>1. TouchOk(tree, c) /\ Requires(tree, c) = TouchOps(tree, c)
      BY <1>3 DEF Accepts, Requires
    <2>2. all \subseteq Requires(tree, c)
      BY <2>1 DEF TouchOps
    <2>3. \/ "-r" \in c.opts /\ u = Reading(tree, {c.value.at})
          \/ \E p \in named : u = IF Kind(tree, p) = "dir" THEN Unit({<<"CREATE", p>>}, <<>>, {})
                                  ELSE Writing(tree, p, "file")
      BY <1>3 DEF Native
    <2>4. CASE "-r" \in c.opts /\ u = Reading(tree, {c.value.at})
      <3>1. Kind(tree, c.value.at) # "link"
        BY <2>1, <2>4 DEF TouchOk, Searchable, Inspectable
      <3>2. <<"READ", c.value.at>> \in Requires(tree, c)
        BY <2>1, <2>4 DEF TouchOps
      <3>3. Ops("READ", {c.value.at}) \subseteq Requires(tree, c)
        BY <3>2 DEF Ops
      <3>4. QED
        BY <2>4, <3>1, <3>3, ReadingCovered, CoveredByMore
    <2>5. ASSUME NEW p \in named, Kind(tree, p) = "dir", u = Unit({<<"CREATE", p>>}, <<>>, {})
          PROVE  CoveredBy(u, all)
      <3>1. CoveredBy(u, WriteOps(tree, p))
        BY <2>5 DEF CoveredBy, Unit, WriteOps
      <3>2. QED
        BY <1>1, <3>1
    <2>6. ASSUME NEW p \in named, Kind(tree, p) # "dir", u = Writing(tree, p, "file")
          PROVE  CoveredBy(u, all)
      <3>1. Kind(tree, p) \in {"none", "file"}
        BY <2>1, <2>6 DEF TouchOk, Writable, Inspectable
      <3> HIDE DEF named, all
      <3>2. QED
        BY <1>1, <2>6, <3>1, WritingCovered
    <2> HIDE DEF named, all
    <2>7. QED
      BY <2>2, <2>3, <2>4, <2>5, <2>6, CoveredByMore
  <1>4. QED
    BY <1>2, <1>3

\* mkdir makes the missing directories it lists.
LEMMA MkdirCovered ==
  ASSUME NEW tree, NEW c, c.name = "mkdir", Accepts(tree, c), NEW u \in Native(tree, c)
  PROVE  CoveredBy(u, Requires(tree, c))
  <1>1. MkdirOk(tree, c) /\ Requires(tree, c) = MkdirOps(tree, c)
    BY DEF Accepts, Requires
  <1>2. Named(tree, PathArgs(c)) = Range(PathArgs(c))
    BY <1>1, LiteralNames DEF MkdirOk
  <1>3. PICK q \in UNION {Above(p) \cup {p} : p \in Range(PathArgs(c))} :
            /\ Kind(tree, q) = "none" /\ ("-p" \in c.opts \/ q \in Range(PathArgs(c)))
            /\ u = Writing(tree, q, "dir")
    BY <1>2 DEF Native
  <1>4. <<"CREATE", q>> \in MkdirOps(tree, c)
    BY <1>3 DEF MkdirOps, Ops
  <1>5. u.does = {<<"CREATE", q>>}
    BY <1>3 DEF Writing, Unit
  <1>6. QED
    BY <1>1, <1>4, <1>5 DEF CoveredBy

\* rm and gio trash delete the entries they list.
LEMMA DeletersCovered ==
  ASSUME NEW tree, NEW c, c.name \in {"rm", "gio"}, NEW u \in Native(tree, c)
  PROVE  CoveredBy(u, Requires(tree, c))
  <1> DEFINE named == Named(tree, PathArgs(c))
             deep == UNION {{p} \cup Below(tree, p) : p \in named}
  <1>1. /\ DeleteOps(tree, c, TRUE) = Ops("DELETE", deep)
        /\ DeleteOps(tree, c, "-r" \in c.opts) =
              IF "-r" \in c.opts THEN Ops("DELETE", deep) ELSE Ops("DELETE", named)
    <2>1. named = UNION {{p} : p \in named}
      OBVIOUS
    <2>2. CASE "-r" \in c.opts
      BY <2>2 DEF DeleteOps
    <2>3. CASE "-r" \notin c.opts
      BY <2>1, <2>3 DEF DeleteOps
    <2>4. QED
      BY <2>2, <2>3 DEF DeleteOps
  <1>2. ASSUME NEW ps, NEW qs, ps \subseteq qs PROVE CoveredBy(Dropping(ps), Ops("DELETE", qs))
    BY <1>2 DEF CoveredBy, Dropping, Unit, Ops
  <1>3. CASE c.name = "rm"
    <2>1. Requires(tree, c) = IF "-r" \in c.opts THEN Ops("DELETE", deep) ELSE Ops("DELETE", named)
      <3>1. Requires(tree, c) = DeleteOps(tree, c, "-r" \in c.opts)
        BY <1>3 DEF Requires
      <3> HIDE DEF named, deep
      <3>2. QED
        BY <1>1, <3>1
    <2>2. \E p \in (IF "-r" \in c.opts THEN deep ELSE named) : u = Dropping({p})
      <3>1. CASE "-r" \in c.opts
        <4>1. PICK p \in UNION {Below(tree, q) : q \in named} : u = Dropping({p})
          BY <1>3, <3>1 DEF Native
        <4>2. QED
          BY <3>1, <4>1
      <3>2. CASE "-r" \notin c.opts
        <4>1. PICK p \in named : u = Dropping({p})
          BY <1>3, <3>2 DEF Native
        <4>2. QED
          BY <3>2, <4>1
      <3>3. QED
        BY <3>1, <3>2
    <2> HIDE DEF named, deep
    <2>3. QED
      BY <1>2, <2>1, <2>2
  <1>4. CASE c.name = "gio"
    <2>1. PICK p \in named : u = Dropping(Below(tree, p))
      BY <1>4 DEF Native
    <2>2. PathArgs(c) # <<>>
      BY <2>1 DEF Named, Expanded
    <2>3. Requires(tree, c) = Ops("DELETE", deep)
      <3>1. Requires(tree, c) = DeleteOps(tree, c, TRUE)
        BY <1>4, <2>2 DEF Requires
      <3> HIDE DEF named, deep
      <3>2. QED
        BY <1>1, <3>1
    <2>4. Below(tree, p) \subseteq deep
      BY <2>1
    <2> HIDE DEF named, deep
    <2>5. QED
      BY <1>2, <2>1, <2>3, <2>4
  <1>5. QED
    BY <1>3, <1>4

\* grep and rg read what they searched through when they were prepared.
LEMMA SearchersCovered ==
  ASSUME NEW tree, NEW c, c.name \in {"grep", "rg"}, Accepts(tree, c), NEW u \in Native(tree, c)
  PROVE  CoveredBy(u, Requires(tree, c))
  <1> DEFINE ps == NativeReads(tree, c)
  <1>1. u = Reading(tree, ps)
    BY DEF Native
  <1>2. ASSUME NEW qs, ps \subseteq qs, \A q \in qs : Searchable(tree, q)
        PROVE  CoveredBy(u, Ops("READ", qs))
    <2>1. \A p \in ps : Kind(tree, p) # "link"
      BY <1>2 DEF Searchable, Inspectable
    <2>2. Ops("READ", ps) \subseteq Ops("READ", qs)
      BY <1>2 DEF Ops
    <2> HIDE DEF ps
    <2>3. QED
      BY <1>1, <2>1, <2>2, ReadingCovered, CoveredByMore
  <1>3. CASE c.name = "grep"
    <2>1. GrepOk(tree, c) /\ Requires(tree, c) = Ops("READ", GrepReads(tree, c))
      BY <1>3 DEF Accepts, Requires
    <2>2. ps = GrepRoots(tree, c) \cup
             {q \in UNION {Below(tree, p) : p \in GrepRoots(tree, c)} : "-R" \in c.opts \/ tree[q] # "link"}
      BY <1>3 DEF NativeReads
    <2>3. ps \subseteq GrepReads(tree, c)
      BY <2>2 DEF GrepReads, SearchedIn
    <2> HIDE DEF ps
    <2>4. QED
      BY <1>2, <2>1, <2>3 DEF GrepOk
  <1>4. CASE c.name = "rg"
    <2> DEFINE named == Named(tree, PathArgs(c))
               roots == RgRoots(tree, c)
               found == named \cup {q \in UNION {Below(tree, p) : p \in roots} : tree[q] # "link"}
               dirs == {q \in found : Kind(tree, q) = "dir"}
               ignores == {i \in DOMAIN tree :
                    /\ dirs # {} /\ Last(i) \in IgnoreNames /\ "--no-ignore" \notin c.opts /\ tree[i] # "dir"
                    /\ Parent(i) \in dirs \cup UNION {Parents(p) : p \in roots}}
               files == {p \in named : Kind(tree, p) = "file"}
               qs == files \cup RgTree(tree, c) \cup RgIgnoreFiles(tree, c)
    <2>1. RgOk(tree, c) /\ Requires(tree, c) = Ops("READ", qs)
      BY <1>4 DEF Accepts, Requires, RgOps
    <2>2. ps = found \cup ignores
      BY <1>4 DEF NativeReads, RgRoots
    <2>3. \A p \in named : Searchable(tree, p)
      BY <2>1 DEF RgOk, SearchArgsOk
    <2>4. RgTree(tree, c) = roots \cup {q \in UNION {Below(tree, p) : p \in roots} : tree[q] # "link"}
      BY DEF RgTree, SearchedIn
    <2>5. named \subseteq files \cup roots
      BY <2>3 DEF Searchable, Inspectable, RgRoots
    <2>6. found \subseteq files \cup RgTree(tree, c)
      <3> HIDE DEF files, roots, named
      <3>1. QED
        BY <2>4, <2>5
    <2>7. dirs \subseteq RgTree(tree, c)
      <3> HIDE DEF found
      <3>1. QED
        BY <2>6
    <2>8. ignores \subseteq RgIgnoreFiles(tree, c)
      <3> HIDE DEF dirs, roots
      <3>1. QED
        BY <2>7 DEF RgIgnoreFiles, roots
    <2>9. \A q \in qs : Searchable(tree, q)
      BY <2>1, <2>3 DEF RgOk
    <2>10. ps \subseteq qs
      <3> HIDE DEF ps, found, ignores, files
      <3>1. QED
        BY <2>2, <2>6, <2>8
    <2> HIDE DEF qs, ps
    <2>11. QED
      BY <1>2, <2>1, <2>9, <2>10
  <1>5. QED
    BY <1>3, <1>4

\* cp and mv: the source of a transfer is read or deleted and its target is
\* created, after reading and deleting what is there already.
LEMMA TransferListed ==
  ASSUME NEW tree, NEW c, NEW x \in Transfers(tree, c), NEW op
  PROVE  /\ <<op, x[1]>> \in TransferOps(tree, c, op)
         /\ <<"CREATE", x[2]>> \in TransferOps(tree, c, op)
         /\ Kind(tree, x[2]) # "none" /\ (Kind(tree, x[2]) # "dir" \/ op = "DELETE") =>
               {<<"READ", x[2]>>, <<"DELETE", x[2]>>} \subseteq TransferOps(tree, c, op)
  <1> DEFINE grants(y) ==
        {<<op, y[1]>>, <<"CREATE", y[2]>>}
        \cup (IF Kind(tree, y[2]) \notin {"none", "dir"} \/ (Kind(tree, y[2]) = "dir" /\ op = "DELETE")
              THEN {<<"READ", y[2]>>, <<"DELETE", y[2]>>} ELSE {})
  <1>1. grants(x) \subseteq TransferOps(tree, c, op)
    BY DEF TransferOps
  <1>2. /\ <<op, x[1]>> \in grants(x) /\ <<"CREATE", x[2]>> \in grants(x)
        /\ Kind(tree, x[2]) # "none" /\ (Kind(tree, x[2]) # "dir" \/ op = "DELETE") =>
               {<<"READ", x[2]>>, <<"DELETE", x[2]>>} \subseteq grants(x)
    OBVIOUS
  <1> HIDE DEF grants
  <1>3. QED
    BY <1>1, <1>2

LEMMA CopyCovered ==
  ASSUME NEW tree, NEW c, c.name = "cp", Accepts(tree, c), NEW u \in Native(tree, c)
  PROVE  CoveredBy(u, Requires(tree, c))
  <1>1. TransferOk(tree, c) /\ Requires(tree, c) = TransferOps(tree, c, "READ")
    BY DEF Accepts, Requires, CpOk
  <1>2. PICK x \in Transfers(tree, c) :
          u = IF Kind(tree, x[1]) = "dir" /\ Kind(tree, x[2]) = "dir" THEN Reading(tree, {x[1]})
              ELSE [Writing(tree, x[2], Kind(tree, x[1])) EXCEPT !.does = @ \cup Reading(tree, {x[1]}).does]
    BY DEF Native, NativeCopies
  <1>3. SourceOk(tree, x[1]) /\ (Kind(tree, x[2]) = "none" \/ Kind(tree, x[2]) = Kind(tree, x[1]))
    BY <1>1 DEF TransferOk, TargetOk
  <1>4. CoveredBy(Reading(tree, {x[1]}), TransferOps(tree, c, "READ"))
    <2>1. Ops("READ", {x[1]}) \subseteq TransferOps(tree, c, "READ")
      BY TransferListed DEF Ops
    <2>2. Kind(tree, x[1]) # "link"
      BY <1>3 DEF SourceOk
    <2>3. QED
      BY <2>1, <2>2, ReadingCovered, CoveredByMore
  <1>5. CASE Kind(tree, x[1]) = "dir" /\ Kind(tree, x[2]) = "dir"
    BY <1>1, <1>2, <1>4, <1>5
  <1>6. CASE ~(Kind(tree, x[1]) = "dir" /\ Kind(tree, x[2]) = "dir")
    <2> DEFINE w == Writing(tree, x[2], Kind(tree, x[1]))
    <2>1. Kind(tree, x[2]) \in {"none", "file"}
      BY <1>3, <1>6 DEF SourceOk
    <2>2. CoveredBy(w, WriteOps(tree, x[2]))
      BY <2>1, WritingCovered
    <2>3. WriteOps(tree, x[2]) \subseteq TransferOps(tree, c, "READ")
      <3>1. <<"CREATE", x[2]>> \in TransferOps(tree, c, "READ")
        BY TransferListed
      <3>2. Kind(tree, x[2]) = "file" =>
              <<"READ", x[2]>> \in TransferOps(tree, c, "READ") /\ <<"DELETE", x[2]>> \in TransferOps(tree, c, "READ")
        BY TransferListed
      <3>3. QED
        BY <3>1, <3>2 DEF WriteOps, Ops
    <2>4. u.does = w.does \cup Reading(tree, {x[1]}).does
      BY <1>2, <1>6 DEF Writing, Unit
    <2> HIDE DEF w
    <2>5. QED
      BY <1>1, <1>4, <2>2, <2>3, <2>4 DEF CoveredBy
  <1>7. QED
    BY <1>5, <1>6

LEMMA MoveCovered ==
  ASSUME NEW tree, NEW c, c.name = "mv", NEW u \in Native(tree, c)
  PROVE  CoveredBy(u, Requires(tree, c))
  <1>1. Requires(tree, c) = TransferOps(tree, c, "DELETE")
    BY DEF Requires
  <1>2. u \in NativeMoves(tree, c)
    BY DEF Native
  <1> DEFINE moved(s) == {x \in Transfers(tree, c) : IsPrefix(s, x[1]) /\ IsPrefix(Target(tree, c, s), x[2])}
             gone(s) == {x[1] : x \in moved(s)}
             made(s) == {x[2] : x \in moved(s)}
             lost(s) == {t \in {Target(tree, c, s)} : Kind(tree, t) # "none"}
             does(s) == Ops("DELETE", gone(s)) \cup Ops("CREATE", made(s))
                        \cup Ops("READ", lost(s)) \cup Ops("DELETE", lost(s))
             make(s) == [t \in made(s) |-> Kind(tree, CHOOSE e \in gone(s) : <<e, t>> \in moved(s))]
  <1>3. PICK s \in SourceSet(tree, c) : u = Unit(does(s), make(s), gone(s))
    BY <1>2, Zenon DEF NativeMoves
  <1>4. u.does = does(s)
    <2> HIDE DEF does, make, gone
    <2>1. QED
      BY <1>3 DEF Unit
  <1>5. /\ Ops("DELETE", gone(s)) \subseteq TransferOps(tree, c, "DELETE")
        /\ Ops("CREATE", made(s)) \subseteq TransferOps(tree, c, "DELETE")
    BY TransferListed DEF Ops
  <1>6. <<s, Target(tree, c, s)>> \in Transfers(tree, c)
    BY DEF Transfers
  <1>7. /\ Ops("READ", lost(s)) \subseteq TransferOps(tree, c, "DELETE")
        /\ Ops("DELETE", lost(s)) \subseteq TransferOps(tree, c, "DELETE")
    <2> DEFINE t == Target(tree, c, s)
    <2>1. <<s, t>>[2] = t
      OBVIOUS
    <2>2. Kind(tree, t) # "none" => {<<"READ", t>>, <<"DELETE", t>>} \subseteq TransferOps(tree, c, "DELETE")
      <3> HIDE DEF t
      <3>1. QED
        BY <1>6, <2>1, TransferListed DEF t
    <2>3. QED
      BY <2>2 DEF Ops
  <1>8. \A e \in u.does : e[1] # "PARENT"
    BY <1>4 DEF Ops
  <1> HIDE DEF gone, made, lost, moved
  <1>9. QED
    BY <1>1, <1>4, <1>5, <1>7, <1>8 DEF CoveredBy

(***************************************************************************)
(* What each resolver lists covers what the native program then does: no   *)
(* program of the list reads, makes or removes anything at a place for     *)
(* which its resolver did not ask.                                         *)
(***************************************************************************)
LEMMA CommandCovered ==
  ASSUME NEW tree, NEW c, c.name \in DOMAIN COMMANDS, Accepts(tree, c), Kind(tree, Base) = "dir",
         NEW u \in Native(tree, c)
  PROVE  CoveredBy(u, Requires(tree, c))
  <1>1. c.name \in {"cp", "mv", "rm", "gio", "mkdir", "touch", "tee", "cat", "wc", "head", "tail",
                    "diff", "grep", "rg", "ls", "find", "pwd"}
    BY DEF COMMANDS
  <1>2. QED
    BY <1>1, CopyCovered, MoveCovered, DeletersCovered, MkdirCovered, WritersCovered,
       ReadersCovered, SearchersCovered, ListersCovered

-----------------------------------------------------------------------------
(* What the executor is about to run is what the guard saw, in the tree the *)
(* guard saw, and an effect lies within what was guarded.                   *)

CommandPrepared ==
    /\ ready.name \in DOMAIN COMMANDS
    /\ Accepts(fs, ready)
    /\ items = Requires(fs, ready)
PatchPrepared ==
    /\ ready \in Patches
    /\ Writable(fs, ready.path, FALSE, FALSE, TRUE)
    /\ items = WriteOps(fs, ready.path)
EffectGuarded(e, its) ==
    IF e[1] = "PARENT" THEN \E it \in its : it[1] = "CREATE" /\ IsStrictPrefix(e[2], it[2])
    ELSE e \in its

GuardedInv ==
    /\ pc \in {"guard", "ask", "execute"} /\ ~failure => CommandPrepared
    /\ pc = "resolve_patch" => ready \in Patches
    /\ pc \in {"guard_patch", "ask_patch", "execute_patch"} => PatchPrepared
    /\ \A e \in effects : EffectGuarded(e, items)

\* An effect of units that are covered is guarded.
LEMMA CoveredIsGuarded ==
  ASSUME NEW units, NEW its, \A u \in units : CoveredBy(u, its)
  PROVE  \A e \in Done(units) : EffectGuarded(e, its)
  BY DEF Done, CoveredBy, EffectGuarded

\* resolve_command records the name it parsed the arguments for.
LEMMA ParsedName ==
  ASSUME NEW name, NEW tokens
  PROVE  Parsed(name, tokens).name = name
  BY DEF Parsed

LEMMA PrepareGuards ==
  ASSUME GuardedInv, ChainInv,
         \/ \E r \in Requests : SubmitCommand(r)
         \/ \E e \in Patches : SubmitPatch(e)
         \/ PrepareStep \/ PreparePatch
  PROVE  GuardedInv'
  <1>1. CASE \E r \in Requests : SubmitCommand(r)
    BY <1>1 DEF SubmitCommand, GuardedInv, ChainInv, BeforeGuard, Undecided, stepVars
  <1>2. CASE \E e \in Patches : SubmitPatch(e)
    BY <1>2 DEF SubmitPatch, GuardedInv, ChainInv, BeforeGuard, Undecided, chainVars
  <1>3. CASE PrepareStep
    <2>1. effects' = {} /\ pc' = "guard" /\ fs' = fs
      BY <1>3 DEF PrepareStep, FreshStep
    <2>2. ASSUME ~failure' PROVE CommandPrepared'
      <3> DEFINE tokens == CurrentCommand(remaining)
                 name == tokens[1].v
                 c == Parsed(name, Tail(tokens))
      <3>1. name \in DOMAIN COMMANDS /\ Accepts(fs, c) /\ Prepared(c)
        BY <1>3, <2>2 DEF PrepareStep, NotPrepared
      <3>2. c.name = name
        BY ParsedName
      <3> HIDE DEF name, c
      <3>3. QED
        BY <2>1, <3>1, <3>2 DEF Prepared, CommandPrepared
    <2>3. QED
      BY <2>1, <2>2 DEF GuardedInv
  <1>4. CASE PreparePatch
    <2>1. effects' = {} /\ fs' = fs /\ ready' = ready /\ ready \in Patches
      BY <1>4 DEF PreparePatch, GuardedInv, ChainInv, BeforeGuard, Undecided
    <2>2. \/ pc' = "end"
          \/ pc' = "guard_patch" /\ Writable(fs, ready.path, FALSE, FALSE, TRUE) /\ items' = WriteOps(fs, ready.path)
      BY <1>4 DEF PreparePatch
    <2>3. QED
      BY <2>1, <2>2 DEF GuardedInv, PatchPrepared
  <1>5. QED
    BY <1>1, <1>2, <1>3, <1>4

\* Nothing that was prepared changes while the guard decides.
LEMMA DecideGuards ==
  ASSUME GuardedInv, CheckPolicy \/ \E agrees \in BOOLEAN : AskUser(agrees)
  PROVE  GuardedInv'
  <1>1. UNCHANGED <<fs, failure, ready, items, effects>>
    BY DEF CheckPolicy, AskUser
  <1>2. \/ pc \in {"guard", "ask"} /\ pc' \in {"ask", "execute"}
        \/ pc \in {"guard_patch", "ask_patch"} /\ pc' \in {"ask_patch", "execute_patch", "end"}
    BY DEF CheckPolicy, AskUser, Denied, Allowed, IsPatch
  <1>3. (CommandPrepared => CommandPrepared') /\ (PatchPrepared => PatchPrepared')
    BY <1>1 DEF CommandPrepared, PatchPrepared
  <1>4. QED
    BY <1>1, <1>2, <1>3 DEF GuardedInv

\* A step that ends leaves what was guarded as it is.
LEMMA AfterStep ==
  ASSUME items' = items, pc' \in {"resolve", "end"}, \A e \in effects' : EffectGuarded(e, items)
  PROVE  GuardedInv'
  BY DEF GuardedInv

LEMMA ExecuteGuards ==
  ASSUME GuardedInv, ReportStep \/ LaunchFails \/ RunCommand
  PROVE  GuardedInv'
  <1>1. items' = items /\ pc' \in {"resolve", "end"}
    BY DEF ReportStep, LaunchFails, RunCommand, Continue, Finish
  <1>2. CASE ReportStep \/ LaunchFails
    <2>1. effects' = effects
      BY <1>2 DEF ReportStep, LaunchFails
    <2>2. QED
      BY <1>1, <2>1, AfterStep DEF GuardedInv
  <1>3. CASE RunCommand
    <2>1. CommandPrepared /\ Kind(fs, Base) = "dir"
      BY <1>3 DEF RunCommand, GuardedInv
    <2>2. PICK units \in SUBSET Native(fs, ready) : effects' = Done(units)
      BY <1>3 DEF RunCommand
    <2>3. \A u \in units : CoveredBy(u, items)
      BY <2>1, CommandCovered DEF CommandPrepared
    <2>4. QED
      BY <1>1, <2>2, <2>3, CoveredIsGuarded, AfterStep
  <1>4. QED
    BY <1>2, <1>3

\* A directory above a path.
LEMMA AboveIsPrefix ==
  ASSUME NEW p \in Seq(STRING), NEW q \in Above(p)
  PROVE  IsStrictPrefix(q, p)
  <1>1. PICK n \in 1 .. Len(p) - 1 : q = SubSeq(p, 1, n)
    BY DEF Above
  <1>2. QED
    BY <1>1 DEF IsStrictPrefix, IsPrefix

\* The parents of a patched file come with the grant to create it.
LEMMA PatchGuards ==
  ASSUME GuardedInv, ChainInv, RewriteFile \/ \E n \in 0 .. 2 : ReplaceText(n)
  PROVE  GuardedInv'
  <1> DEFINE parents == {Unit({<<"PARENT", q>>}, [r \in {q} |-> "dir"], {}) : q \in MissingParents(ready.path)}
             file == Writing(fs, ready.path, "file")
  <1>1. PatchPrepared /\ effects = {}
    BY DEF RewriteFile, ReplaceText, GuardedInv, ChainInv
  <1>2. items' = items /\ pc' \in {"resolve", "end"}
    BY DEF RewriteFile, ReplaceText, Patched
  <1>3. CoveredBy(file, items)
    <2>1. Kind(fs, ready.path) \in {"none", "file"}
      BY <1>1 DEF PatchPrepared, Writable, Inspectable
    <2>2. QED
      BY <1>1, <2>1, WritingCovered DEF PatchPrepared
  <1>4. \A e \in file.does : EffectGuarded(e, items)
    <2> HIDE DEF file
    <2>1. QED
      BY <1>3 DEF CoveredBy, EffectGuarded
  <1>5. ASSUME NEW u \in parents, NEW e \in u.does PROVE EffectGuarded(e, items)
    <2>1. PICK q \in Above(ready.path) : u = Unit({<<"PARENT", q>>}, [r \in {q} |-> "dir"], {})
      BY DEF MissingParents
    <2>2. e = <<"PARENT", q>>
      BY <2>1 DEF Unit
    <2>3. ready.path \in Seq(STRING)
      BY <1>1, PatchesAssumption DEF PatchPrepared
    <2>4. IsStrictPrefix(q, ready.path)
      BY <2>3, AboveIsPrefix
    <2>5. <<"CREATE", ready.path>> \in items
      BY <1>1 DEF PatchPrepared, WriteOps
    <2>6. QED
      BY <2>2, <2>4, <2>5 DEF EffectGuarded
  <1>6. \/ effects' \in {{}, file.does}
        \/ \E units \in SUBSET (parents \cup {file}) : effects' = Done(units)
    <2>1. CASE RewriteFile
      <3>1. \/ effects' = Done(parents \cup {file})
            \/ \E made \in SUBSET (parents \cup {file}) : effects' = Done(made)
        BY <2>1 DEF RewriteFile
      <3> HIDE DEF parents, file
      <3>2. QED
        BY <3>1
    <2>2. CASE \E n \in 0 .. 2 : ReplaceText(n)
      BY <1>1, <2>2 DEF ReplaceText
    <2>3. QED
      BY <2>1, <2>2
  <1>7. \A e \in effects' : EffectGuarded(e, items)
    <2> HIDE DEF parents, file
    <2>1. QED
      BY <1>4, <1>5, <1>6 DEF Done
  <1>8. QED
    BY <1>2, <1>7, AfterStep

(***************************************************************************)
(* Whatever was done to the tree was granted by the policy and, where a    *)
(* rule asks, approved by the user: for any tree, policy, request and      *)
(* patch.  The operations that prepare_command of each of the 17 commands  *)
(* and apply_patch list cover what the program or the patch then does, and *)
(* nothing of what was prepared changes between the resolver and the       *)
(* executor.                                                               *)
(***************************************************************************)
THEOREM EffectsAreAuthorized == Spec => []EffectsAuthorized
  <1>1. Init => GuardedInv /\ ChainInv
    BY InitInv DEF Init, GuardedInv
  <1>2. GuardedInv /\ ChainInv /\ [Next]_vars => (GuardedInv /\ ChainInv)'
    <2> SUFFICES ASSUME GuardedInv, ChainInv, [Next]_vars PROVE (GuardedInv /\ ChainInv)'
      OBVIOUS
    <2>1. CASE UNCHANGED vars
      <3>1. GuardedInv'
        BY <2>1 DEF vars, stepVars, GuardedInv, CommandPrepared, PatchPrepared
      <3>2. QED
        BY <2>1, <3>1, StepInv
    <2>2. CASE Next
      <3>1. CASE Terminated
        BY <2>1, <3>1, StepInv DEF Terminated
      <3>2. QED
        BY <2>2, <3>1, StepInv, PrepareGuards, DecideGuards, ExecuteGuards, PatchGuards DEF Next
    <2>3. QED
      BY <2>1, <2>2
  <1>3. GuardedInv /\ ChainInv => EffectsAuthorized
    BY DEF GuardedInv, ChainInv, EffectGuarded, AllCleared, EffectsAuthorized
  <1>4. QED
    BY <1>1, <1>2, <1>3, PTL DEF Spec

-----------------------------------------------------------------------------
(* Lists of commands.                                                       *)

\* A nonempty set of positions has a first one, from the subset order on finite
\* sets.
LEMMA FirstExists ==
  ASSUME NEW n \in Nat, NEW S, S \subseteq 0 .. n, S # {}
  PROVE  \E i \in S : \A j \in S : i <= j
  <1> DEFINE Less(i) == {j \in S : j < i}
             T == {Less(i) : i \in S}
  <1>1. IsFiniteSet(S) /\ S \subseteq Nat
    <2>1. IsFiniteSet(0 .. n)
      BY FS_Interval
    <2>2. IsFiniteSet(S)
      BY <2>1, FS_Subset, S \in SUBSET (0 .. n)
    <2>3. QED
      BY <2>2
  <1>2. T \subseteq FiniteSubsetsOf(S) /\ T # {}
    <2>1. T \subseteq SUBSET S /\ T # {}
      OBVIOUS
    <2> HIDE DEF T
    <2>2. QED
      BY <1>1, <2>1, FS_FiniteSubsetsOfFinite
  <1>3. PICK U \in T : \A V \in T : <<V, U>> \notin StrictSubsetOrdering(S)
    <2> HIDE DEF T
    <2>1. QED
      BY <1>1, <1>2, FS_StrictSubsetOrderingWellFounded, WFMin
  <1>4. PICK i \in S : U = Less(i)
    OBVIOUS
  <1>5. ASSUME NEW j \in S, j < i PROVE FALSE
    <2>1. j \in U
      BY <1>4, <1>5
    <2>2. j \notin Less(j)
      <3>1. j \in Nat
        BY <1>1
      <3>2. ~(j < j)
        BY <3>1
      <3>3. QED
        BY <3>2
    <2>3. Less(j) \subseteq U
      <3>1. \A k \in S : k < j => k < i
        BY <1>1, <1>5
      <3>2. QED
        BY <1>4, <3>1
    <2>4. Less(j) \in T /\ <<Less(j), U>> \in StrictSubsetOrdering(S)
      BY <2>1, <2>2, <2>3, <1>4 DEF StrictSubsetOrdering
    <2>5. QED
      BY <2>4, <1>3
  <1>6. QED
    BY <1>1, <1>5

\* FirstOf is the first position of a set.
LEMMA FirstIs ==
  ASSUME NEW n \in Nat, NEW S, S \subseteq 0 .. n, S # {}
  PROVE  FirstOf(S) \in S /\ \A j \in S : FirstOf(S) <= j
  BY FirstExists DEF FirstOf

\* LastOf is the last one: seen from the end, the first.
LEMMA LastIs ==
  ASSUME NEW n \in Nat, NEW S, S \subseteq 0 .. n, S # {}
  PROVE  LastOf(S) \in S /\ \A j \in S : j <= LastOf(S)
  <1> DEFINE T == {n - i : i \in S}
  <1>1. T \subseteq 0 .. n /\ T # {}
    <2>1. \A i \in S : i \in 0 .. n /\ n - i \in 0 .. n
      OBVIOUS
    <2>2. QED
      BY <2>1
  <1>2. PICK m \in T : \A j \in T : m <= j
    <2> HIDE DEF T
    <2>1. QED
      BY <1>1, FirstExists
  <1>3. PICK i \in S : m = n - i
    OBVIOUS
  <1>4. \A j \in S : j <= i
    <2> SUFFICES ASSUME NEW j \in S PROVE j <= i
      OBVIOUS
    <2>1. n - j \in T /\ i \in 0 .. n /\ j \in 0 .. n
      OBVIOUS
    <2>2. n - i <= n - j
      BY <1>2, <1>3, <2>1
    <2>3. QED
      BY <2>1, <2>2
  <1>5. QED
    BY <1>4 DEF LastOf

\* The last position of a set is the one nothing comes after.
LEMMA LastUnique ==
  ASSUME NEW S, S \subseteq Nat, NEW m \in S, \A j \in S : j <= m
  PROVE  LastOf(S) = m
  <1> DEFINE a == LastOf(S)
  <1>1. a \in S /\ \A j \in S : j <= a
    BY DEF LastOf
  <1> HIDE DEF a
  <1>2. a \in Nat /\ m \in Nat /\ a <= m /\ m <= a
    BY <1>1
  <1>3. a = m
    BY <1>2
  <1>4. QED
    BY <1>3 DEF a

\* The first position of a set is the one nothing comes before.
LEMMA FirstUnique ==
  ASSUME NEW S, S \subseteq Nat, NEW m \in S, \A j \in S : m <= j
  PROVE  FirstOf(S) = m
  <1> DEFINE a == FirstOf(S)
  <1>1. a \in S /\ \A j \in S : a <= j
    BY DEF FirstOf
  <1> HIDE DEF a
  <1>2. a \in Nat /\ m \in Nat /\ a <= m /\ m <= a
    BY <1>1
  <1>3. a = m
    BY <1>2
  <1>4. QED
    BY <1>3 DEF a

\* Induction over numbers up to n, with those it is shown for as a set.
LEMMA Upwards ==
  ASSUME NEW n \in Nat, NEW S, 0 \in S, \A k \in 0 .. n - 1 : k \in S => k + 1 \in S
  PROVE  n \in S
  <1> SUFFICES ASSUME (0 .. n) \ S # {} PROVE FALSE
    OBVIOUS
  <1>1. PICK i \in (0 .. n) \ S : \A j \in (0 .. n) \ S : i <= j
    BY FirstExists
  <1>2. i # 0 /\ i - 1 \in 0 .. n - 1 /\ i - 1 \in S
    BY <1>1
  <1>3. QED
    BY <1>1, <1>2

-----------------------------------------------------------------------------
\* A list that was validated.
IsList(ts) ==
    /\ ts \in Seq(Tokens) /\ ValidSequence(ts)
    /\ \A i \in DOMAIN ts : ts[i].tag = "CTL" => ts[i].v \in ControlOperators

\* validate_sequence: there is a command at the beginning and after each control.
LEMMA ListIs ==
  ASSUME NEW ts, IsList(ts)
  PROVE  /\ Len(ts) \in Nat /\ Len(ts) > 0
         /\ Commands(ts) \subseteq 1 .. Len(ts) /\ 1 \in Commands(ts)
         /\ \A i \in 1 .. Len(ts) : ts[i].tag = "CTL" => i + 1 \in Commands(ts)
         /\ \A k \in Commands(ts) : k # 1 =>
              /\ k - 1 \in 1 .. Len(ts) /\ ts[k - 1].tag = "CTL"
              /\ Operator(ts, k) = ts[k - 1].v /\ Operator(ts, k) \in ControlOperators
         /\ Operator(ts, 1) = ";"
  <1>1. /\ Len(ts) \in Nat /\ Len(ts) > 0 /\ DOMAIN ts = 1 .. Len(ts)
        /\ ts[Len(ts)].tag # "CTL"
    BY DEF IsList, ValidSequence, Last
  <1>2. \A i \in 1 .. Len(ts) : (ts[i].tag = "CMD") = (i = 1 \/ ts[i - 1].tag = "CTL")
    BY <1>1 DEF IsList, ValidSequence
  <1>3. Commands(ts) = {i \in 1 .. Len(ts) : ts[i].tag = "CMD"}
    BY <1>1 DEF Commands
  <1>4. 1 \in Commands(ts)
    BY <1>1, <1>2, <1>3
  <1>5. ASSUME NEW i \in 1 .. Len(ts), ts[i].tag = "CTL" PROVE i + 1 \in Commands(ts)
    <2> DEFINE n == Len(ts)
    <2>1. i # n
      BY <1>1, <1>5
    <2>2. n \in Nat /\ i \in 1 .. n
      BY <1>1
    <2> HIDE DEF n
    <2>3. i + 1 \in 1 .. n /\ (i + 1) - 1 = i
      BY <2>1, <2>2
    <2>4. QED
      BY <1>2, <1>3, <1>5, <2>3 DEF n
  <1>6. ASSUME NEW k \in Commands(ts), k # 1
        PROVE  /\ k - 1 \in 1 .. Len(ts) /\ ts[k - 1].tag = "CTL"
               /\ Operator(ts, k) = ts[k - 1].v /\ Operator(ts, k) \in ControlOperators
    <2>1. k - 1 \in 1 .. Len(ts) /\ ts[k - 1].tag = "CTL"
      BY <1>1, <1>2, <1>3, <1>6
    <2>2. QED
      BY <1>1, <1>6, <2>1 DEF Operator, IsList
  <1>7. QED
    BY <1>1, <1>3, <1>4, <1>5, <1>6 DEF Operator

\* Every command belongs to a pipeline, that of the last command before it or
\* at it that no pipe precedes.
LEMMA PipelinesAre ==
  ASSUME NEW ts, IsList(ts)
  PROVE  /\ 1 \in Pipelines(ts) /\ Pipelines(ts) \subseteq Commands(ts) /\ Commands(ts) \subseteq Nat
         /\ \A k \in Commands(ts) :
              /\ PipelineOf(ts, k) \in Pipelines(ts) /\ PipelineOf(ts, k) <= k
              /\ \A j \in Pipelines(ts) : j <= k => j <= PipelineOf(ts, k)
         /\ \A k \in Pipelines(ts) : PipelineOf(ts, k) = k
  <1>1. 1 \in Pipelines(ts) /\ Pipelines(ts) \subseteq Commands(ts)
    BY ListIs DEF Pipelines
  <1>2. Commands(ts) \subseteq 1 .. Len(ts) /\ Len(ts) \in Nat
    BY ListIs
  <1>3. ASSUME NEW k \in Commands(ts)
        PROVE  /\ PipelineOf(ts, k) \in Pipelines(ts) /\ PipelineOf(ts, k) <= k
               /\ \A j \in Pipelines(ts) : j <= k => j <= PipelineOf(ts, k)
    <2> DEFINE S == {j \in Pipelines(ts) : j <= k}
    <2>1. S \subseteq 0 .. Len(ts) /\ 1 \in S
      BY <1>1, <1>2
    <2>2. LastOf(S) \in S /\ \A j \in S : j <= LastOf(S)
      <3> HIDE DEF S
      <3>1. QED
        BY <1>2, <2>1, LastIs
    <2>3. PipelineOf(ts, k) = LastOf(S)
      BY DEF PipelineOf
    <2>4. QED
      BY <2>2, <2>3
  <1>4. ASSUME NEW k \in Pipelines(ts) PROVE PipelineOf(ts, k) = k
    <2>1. k \in Commands(ts) /\ k \in Nat /\ PipelineOf(ts, k) \in Nat
      BY <1>1, <1>2, <1>3
    <2>2. PipelineOf(ts, k) <= k /\ k <= PipelineOf(ts, k)
      BY <1>3, <2>1
    <2>3. QED
      BY <2>1, <2>2
  <1>5. QED
    BY <1>1, <1>2, <1>3, <1>4

Before(ts, k) == LastOf({j \in Pipelines(ts) : j < k})
LastStage(ts, k) == LastOf({c \in Commands(ts) : PipelineOf(ts, c) = k})

\* The pipeline before another one, and the last command of a pipeline.
LEMMA Neighbours ==
  ASSUME NEW ts, IsList(ts), NEW k \in Pipelines(ts)
  PROVE  /\ k # 1 => /\ Before(ts, k) \in Pipelines(ts) /\ Before(ts, k) < k
                     /\ \A j \in Pipelines(ts) : j < k => j <= Before(ts, k)
                     /\ LastStage(ts, Before(ts, k)) < k
         /\ LastStage(ts, k) \in Commands(ts) /\ k <= LastStage(ts, k)
         /\ PipelineOf(ts, LastStage(ts, k)) = k
         /\ \A c \in Commands(ts) : PipelineOf(ts, c) = k => c <= LastStage(ts, k)
  <1>1. Commands(ts) \subseteq 1 .. Len(ts) /\ Len(ts) \in Nat
    BY ListIs
  <1>2. ASSUME NEW p \in Pipelines(ts)
        PROVE  /\ LastStage(ts, p) \in Commands(ts) /\ p <= LastStage(ts, p)
               /\ PipelineOf(ts, LastStage(ts, p)) = p
               /\ \A c \in Commands(ts) : PipelineOf(ts, c) = p => c <= LastStage(ts, p)
    <2> DEFINE S == {c \in Commands(ts) : PipelineOf(ts, c) = p}
    <2>1. S \subseteq 0 .. Len(ts) /\ p \in S
      BY <1>1, PipelinesAre
    <2>2. LastOf(S) \in S /\ \A c \in S : c <= LastOf(S)
      <3> HIDE DEF S
      <3>1. QED
        BY <1>1, <2>1, LastIs
    <2>3. LastStage(ts, p) = LastOf(S)
      BY DEF LastStage
    <2>4. QED
      BY <2>1, <2>2, <2>3
  <1>3. ASSUME k # 1
        PROVE  /\ Before(ts, k) \in Pipelines(ts) /\ Before(ts, k) < k
               /\ \A j \in Pipelines(ts) : j < k => j <= Before(ts, k)
    <2> DEFINE S == {j \in Pipelines(ts) : j < k}
    <2>1. S \subseteq 0 .. Len(ts) /\ 1 \in S
      BY <1>1, <1>3, PipelinesAre
    <2>2. LastOf(S) \in S /\ \A j \in S : j <= LastOf(S)
      <3> HIDE DEF S
      <3>1. QED
        BY <1>1, <2>1, LastIs
    <2>3. Before(ts, k) = LastOf(S)
      BY DEF Before
    <2>4. QED
      BY <2>2, <2>3
  <1>4. ASSUME k # 1 PROVE LastStage(ts, Before(ts, k)) < k
    <2> DEFINE b == Before(ts, k)
               c == LastStage(ts, b)
    <2>1. b \in Pipelines(ts) /\ b < k
      BY <1>3, <1>4
    <2>2. c \in Commands(ts) /\ PipelineOf(ts, c) = b
      BY <1>2, <2>1
    <2>3. k <= c => k <= b
      BY <2>2, PipelinesAre
    <2>4. b \in Nat /\ c \in Nat /\ k \in Nat
      BY <2>1, <2>2, PipelinesAre
    <2>5. QED
      BY <2>1, <2>3, <2>4
  <1>5. QED
    BY <1>2, <1>3, <1>4

\* The rest of a list from a command on.
Rest(ts, s) == SubSeq(ts, s, Len(ts))

\* What remains at a command are the tokens from it on.
LEMMA RestIs ==
  ASSUME NEW ts, IsList(ts), NEW s \in Commands(ts)
  PROVE  LET n == Len(ts)
         IN  /\ Rest(ts, s) \in Seq(Tokens) /\ Rest(ts, s) # <<>>
             /\ Len(Rest(ts, s)) = n - s + 1
             /\ \A i \in 1 .. n - s + 1 : Rest(ts, s)[i] = ts[s + i - 1]
             /\ Rest(ts, s) = [i \in 1 .. n - s + 1 |-> ts[s + i - 1]]
  <1> DEFINE n == Len(ts)
             r == Rest(ts, s)
  <1>1. n \in Nat /\ s \in 1 .. n /\ ts \in Seq(Tokens)
    BY ListIs DEF IsList
  <1> HIDE DEF n
  <1>2. r = SubSeq(ts, s, n) /\ n = Len(ts)
    BY DEF Rest, n
  <1>3. r = [i \in 1 .. n - s + 1 |-> ts[s + i - 1]] /\ r \in Seq(Tokens) /\ Len(r) = n - s + 1
    BY <1>1, <1>2
  <1>4. r # <<>>
    <2>1. Len(r) # 0
      BY <1>1, <1>3
    <2>2. QED
      BY <2>1
  <1> HIDE DEF r
  <1>5. r \in Seq(Tokens) /\ Len(r) = n - s + 1 /\ r = [i \in 1 .. n - s + 1 |-> ts[s + i - 1]]
    BY <1>3
  <1>6. \A i \in 1 .. n - s + 1 : r[i] = ts[s + i - 1]
    BY <1>5
  <1>7. QED
    BY <1>4, <1>5, <1>6 DEF n, r

\* next_command, said of the whole list: with status rc, the commands after the
\* one at s that may be next.
Accepted(op, rc) == IF op = "&&" THEN rc = 0 ELSE IF op = "||" THEN rc # 0 ELSE TRUE
Between(ts, s, k) == {j \in Pipelines(ts) : s < j /\ j <= k}
Goes(ts, s, rc, k) == Between(ts, s, k) # {} => Accepted(Operator(ts, LastOf(Between(ts, s, k))), rc)
Followers(ts, s, rc) == {k \in Commands(ts) : s < k /\ Goes(ts, s, rc, k)}

\* The controls of what remains are those of the list.
LEMMA ControlsOfRest ==
  ASSUME NEW ts, IsList(ts), NEW s \in Commands(ts)
  PROVE  /\ Controls(Rest(ts, s)) \subseteq 1 .. Len(ts)
         /\ \A i \in Controls(Rest(ts, s)) :
              /\ s + i \in Commands(ts) /\ s < s + i /\ s + i # 1
              /\ Rest(ts, s)[i].v = Operator(ts, s + i)
         /\ \A k \in Commands(ts) : s < k => k - s \in Controls(Rest(ts, s)) /\ s + (k - s) = k
  <1> DEFINE n == Len(ts)
             r == Rest(ts, s)
  <1>1. n \in Nat /\ s \in 1 .. n
    BY ListIs
  <1>2. /\ DOMAIN r = 1 .. n - s + 1
        /\ \A i \in 1 .. n - s + 1 : r[i] = ts[s + i - 1]
    <2>1. r \in Seq(Tokens) /\ Len(r) = n - s + 1
      BY RestIs
    <2>2. DOMAIN r = 1 .. Len(r)
      BY <2>1
    <2>3. QED
      BY <2>1, <2>2, RestIs
  <1>3. Controls(r) = {i \in 1 .. n - s + 1 : ts[s + i - 1].tag = "CTL"}
    BY <1>2 DEF Controls
  <1>4. ASSUME NEW i \in Controls(r)
        PROVE  /\ i \in 1 .. n /\ s + i \in Commands(ts) /\ s < s + i /\ s + i # 1
               /\ r[i].v = Operator(ts, s + i)
    <2>1. i \in 1 .. n - s + 1 /\ ts[s + i - 1].tag = "CTL" /\ r[i] = ts[s + i - 1]
      BY <1>2, <1>3
    <2> HIDE DEF n, r
    <2>2. s + i - 1 \in 1 .. n /\ (s + i - 1) + 1 = s + i /\ (s + i) - 1 = s + i - 1
      BY <1>1, <2>1
    <2>3. i \in 1 .. n /\ s < s + i /\ s + i # 1
      BY <1>1, <2>1
    <2>4. s + i \in Commands(ts)
      BY <2>1, <2>2, ListIs DEF n
    <2>5. QED
      BY <2>1, <2>2, <2>3, <2>4 DEF Operator
  <1>5. ASSUME NEW k \in Commands(ts), s < k
        PROVE  k - s \in Controls(r) /\ s + (k - s) = k
    <2>1. k \in 1 .. n /\ k # 1
      <3>1. k \in 1 .. n
        BY ListIs
      <3> HIDE DEF n
      <3>2. QED
        BY <1>1, <1>5, <3>1
    <2>2. k - 1 \in 1 .. n /\ ts[k - 1].tag = "CTL"
      BY <2>1, ListIs
    <2> HIDE DEF n, r
    <2>3. k - s \in 1 .. n - s + 1 /\ s + (k - s) - 1 = k - 1 /\ s + (k - s) = k
      BY <1>1, <1>5, <2>1
    <2>4. QED
      BY <1>3, <2>2, <2>3
  <1>6. QED
    BY <1>4, <1>5

\* next_command goes on at the first of the commands that may be next.
LEMMA NextIs ==
  ASSUME NEW ts, IsList(ts), NEW s \in Commands(ts), NEW rc
  PROVE  LET F == Followers(ts, s, rc)
             next == NextCommand(Rest(ts, s), rc)
         IN  /\ F = {} => next.tokens = <<>>
             /\ F # {} => /\ next.tokens = Rest(ts, FirstOf(F))
                          /\ next.piped = (Operator(ts, FirstOf(F)) = "|")
  <1> DEFINE n == Len(ts)
             r == Rest(ts, s)
             C == Controls(r)
             F == Followers(ts, s, rc)
             Next_ == {i \in C : RunPipeline(r, rc, i)}
  <1>1. n \in Nat /\ s \in 1 .. n /\ Commands(ts) \subseteq 1 .. n
    BY ListIs
  <1>2. /\ C \subseteq 1 .. n
        /\ \A i \in C : s + i \in Commands(ts) /\ s < s + i /\ s + i # 1 /\ r[i].v = Operator(ts, s + i)
        /\ \A k \in Commands(ts) : s < k => k - s \in C /\ s + (k - s) = k
    BY ControlsOfRest
  <1> HIDE DEF n, r, C
  <1>3. ASSUME NEW i \in C PROVE RunPipeline(r, rc, i) <=> Goes(ts, s, rc, s + i)
    <2> DEFINE D == {j \in C : j <= i /\ r[j].v # "|"}
               B == Between(ts, s, s + i)
    <2>1. RunPipeline(r, rc, i) <=> D = {} \/ CASE r[LastOf(D)].v = "&&" -> rc = 0
                                                [] r[LastOf(D)].v = "||" -> rc # 0
                                                [] r[LastOf(D)].v = ";" -> TRUE
      BY DEF RunPipeline, C
    <2>2. Pipelines(ts) \subseteq Commands(ts)
      BY PipelinesAre
    <2>3. ASSUME NEW j \in D PROVE s + j \in B
      <3>1. /\ j \in C /\ j <= i /\ j \in Nat /\ i \in Nat /\ s \in Nat /\ s + j \in Commands(ts)
            /\ s < s + j /\ Operator(ts, s + j) # "|"
        BY <1>1, <1>2
      <3>2. s + j <= s + i
        BY <3>1
      <3>3. QED
        BY <3>1, <3>2 DEF Between, Pipelines
    <2>4. ASSUME NEW k \in B PROVE k - s \in D /\ s + (k - s) = k
      <3>1. k \in Commands(ts) /\ Operator(ts, k) # "|" /\ s < k /\ k <= s + i
        BY DEF Between, Pipelines
      <3>2. k - s \in C /\ s + (k - s) = k /\ r[k - s].v # "|"
        BY <1>2, <3>1
      <3>3. k \in Nat /\ s \in Nat /\ i \in Nat
        BY <1>1, <1>2, <3>1
      <3>4. k - s <= i
        BY <3>1, <3>3
      <3>5. QED
        BY <3>2, <3>4
    <2>5. CASE D = {}
      <3>1. B = {}
        BY <2>4, <2>5
      <3>2. QED
        BY <2>1, <2>5, <3>1 DEF Goes
    <2>6. CASE D # {}
      <3> DEFINE m == LastOf(D)
      <3>1. D \subseteq 0 .. n /\ D \subseteq C
        <4>1. D \subseteq C
          OBVIOUS
        <4> HIDE DEF D
        <4>2. QED
          BY <1>1, <1>2, <4>1
      <3> HIDE DEF D
      <3>2. m \in D /\ \A j \in D : j <= m
        BY <1>1, <2>6, <3>1, LastIs
      <3> HIDE DEF m
      <3>3. s + m \in B /\ B # {} /\ B \subseteq Nat
        <4>1. B \subseteq Nat
          BY <1>1, <2>2 DEF Between
        <4>2. QED
          BY <2>3, <3>2, <4>1
      <3>4. \A k \in B : k <= s + m
        <4> SUFFICES ASSUME NEW k \in B PROVE k <= s + m
          OBVIOUS
        <4>1. k - s <= m /\ k \in Nat /\ s \in Nat /\ m \in Nat
          BY <1>1, <2>4, <3>1, <3>2, <3>3
        <4>2. QED
          BY <4>1
      <3>5. LastOf(B) = s + m
        <4> HIDE DEF B
        <4>1. QED
          BY <3>3, <3>4, LastUnique
      <3>6. /\ m \in C /\ s + m \in Commands(ts) /\ s + m # 1
            /\ r[m].v = Operator(ts, s + m)
        BY <1>2, <3>1, <3>2
      <3>7. r[m].v \in ControlOperators /\ r[m].v # "|"
        <4>1. Operator(ts, s + m) \in ControlOperators
          BY <3>6, ListIs
        <4>2. Operator(ts, s + m) # "|"
          BY <3>3 DEF Between, Pipelines
        <4>3. QED
          BY <3>6, <4>1, <4>2
      <3>8. Goes(ts, s, rc, s + i) <=> Accepted(r[m].v, rc)
        BY <3>3, <3>5, <3>6 DEF Goes
      <3>9. RunPipeline(r, rc, i) <=> CASE r[m].v = "&&" -> rc = 0
                                         [] r[m].v = "||" -> rc # 0
                                         [] r[m].v = ";" -> TRUE
        BY <2>1, <2>6 DEF m
      <3>10. QED
        BY <3>7, <3>8, <3>9 DEF Accepted, ControlOperators
    <2>7. QED
      BY <2>5, <2>6
  <1>4. ASSUME NEW i \in Next_ PROVE s + i \in F
    BY <1>2, <1>3 DEF Followers
  <1>5. ASSUME NEW k \in F PROVE k - s \in Next_ /\ s + (k - s) = k
    <2>1. k \in Commands(ts) /\ s < k /\ Goes(ts, s, rc, k)
      BY DEF Followers
    <2>2. k - s \in C /\ s + (k - s) = k
      BY <1>2, <2>1
    <2>3. QED
      BY <1>3, <2>1, <2>2
  <1>6. NextCommand(r, rc) = IF Next_ = {} THEN [tokens |-> <<>>, piped |-> FALSE]
                             ELSE [tokens |-> SubSeq(r, FirstOf(Next_) + 1, Len(r)),
                                   piped |-> r[FirstOf(Next_)].v = "|"]
    BY DEF NextCommand, C
  <1>7. CASE F = {}
    <2>1. Next_ = {}
      BY <1>4, <1>7
    <2>2. NextCommand(r, rc).tokens = <<>>
      BY <1>6, <2>1
    <2>3. QED
      BY <1>7, <2>2 DEF r
  <1>8. CASE F # {}
    <2> DEFINE m == FirstOf(Next_)
    <2>1. Next_ # {} /\ Next_ \subseteq C /\ Next_ \subseteq 0 .. n
      <3>1. Next_ # {} /\ Next_ \subseteq C
        BY <1>5, <1>8
      <3> HIDE DEF Next_
      <3>2. QED
        BY <1>1, <1>2, <3>1
    <2> HIDE DEF Next_
    <2>2. m \in Next_ /\ \A i \in Next_ : m <= i
      BY <1>1, <2>1, FirstIs
    <2>3. NextCommand(r, rc) = [tokens |-> SubSeq(r, m + 1, Len(r)), piped |-> r[m].v = "|"]
      BY <1>6, <2>1
    <2> HIDE DEF m
    <2>4. s + m \in F /\ F \subseteq Nat
      BY <1>1, <1>4, <2>2 DEF Followers
    <2>5. \A k \in F : s + m <= k
      <3> SUFFICES ASSUME NEW k \in F PROVE s + m <= k
        OBVIOUS
      <3>1. m <= k - s /\ k \in Nat /\ s \in Nat /\ m \in Nat
        BY <1>1, <1>5, <2>1, <2>2, <2>4
      <3>2. QED
        BY <3>1
    <2>6. FirstOf(F) = s + m
      <3> HIDE DEF F
      <3>1. QED
        BY <2>4, <2>5, FirstUnique
    <2>7. m \in C /\ r[m].v = Operator(ts, s + m) /\ s + m \in Commands(ts)
      BY <1>2, <2>1, <2>2
    <2>8. SubSeq(r, m + 1, Len(r)) = Rest(ts, s + m)
      <3>1. m \in Nat /\ s \in Nat /\ s + m \in 1 .. n /\ s \in 1 .. n /\ m \in 1 .. n
        BY <1>1, <1>2, <2>7
      <3>2. r \in Seq(Tokens) /\ Len(r) = n - s + 1 /\ \A i \in 1 .. n - s + 1 : r[i] = ts[s + i - 1]
        BY RestIs DEF r, n
      <3>3. Rest(ts, s + m) = [i \in 1 .. n - (s + m) + 1 |-> ts[(s + m) + i - 1]]
        BY <2>7, RestIs DEF n
      <3>4. SubSeq(r, m + 1, Len(r)) = [i \in 1 .. Len(r) - (m + 1) + 1 |-> r[(m + 1) + i - 1]]
        BY <3>1, <3>2
      <3>5. Len(r) - (m + 1) + 1 = n - (s + m) + 1
        BY <1>1, <3>1, <3>2
      <3>6. ASSUME NEW i \in 1 .. n - (s + m) + 1 PROVE r[(m + 1) + i - 1] = ts[(s + m) + i - 1]
        <4>1. (m + 1) + i - 1 \in 1 .. n - s + 1 /\ s + ((m + 1) + i - 1) - 1 = (s + m) + i - 1
          BY <1>1, <3>1
        <4>2. QED
          BY <3>2, <4>1
      <3>7. QED
        BY <3>3, <3>4, <3>5, <3>6
    <2>9. NextCommand(r, rc).tokens = Rest(ts, s + m) /\ NextCommand(r, rc).piped = (Operator(ts, s + m) = "|")
      BY <2>3, <2>7, <2>8
    <2>10. QED
      BY <1>8, <2>6, <2>9 DEF r
  <1>9. QED
    BY <1>7, <1>8

\* One pipeline of ListStatus, from those before it in f.
PipelineStatus(ts, steps, f, k) ==
    LET last == IF k = 1 THEN 0 ELSE f[Before(ts, k)].status
        runs == CASE Operator(ts, k) = "&&" -> last = 0
                  [] Operator(ts, k) = "||" -> last # 0
                  [] OTHER -> TRUE
    IN [runs |-> runs, status |-> IF runs THEN ExitOf(steps, LastStage(ts, k)) ELSE last]
StatusBefore(ts, f, k) == IF k = 1 THEN 0 ELSE f[Before(ts, k)].status

\* A pipeline runs where its operator accepts the status before it, and then the
\* status is that of its last command.
LEMMA PartsOfStatus ==
  ASSUME NEW ts, NEW steps, NEW f, NEW k
  PROVE  LET s == PipelineStatus(ts, steps, f, k)
             accepted == Accepted(Operator(ts, k), StatusBefore(ts, f, k))
         IN  /\ s = [runs |-> s.runs, status |-> s.status]
             /\ s.runs \in BOOLEAN /\ (s.runs <=> accepted)
             /\ accepted => s.status = ExitOf(steps, LastStage(ts, k))
             /\ ~accepted => s.status = StatusBefore(ts, f, k)
  <1> DEFINE last == StatusBefore(ts, f, k)
             op == Operator(ts, k)
             runs == CASE op = "&&" -> last = 0 [] op = "||" -> last # 0 [] OTHER -> TRUE
             after == IF runs THEN ExitOf(steps, LastStage(ts, k)) ELSE last
  <1>1. runs \in BOOLEAN /\ (runs <=> Accepted(op, last))
    BY DEF Accepted
  <1>2. PipelineStatus(ts, steps, f, k) = [runs |-> runs, status |-> after]
    BY DEF PipelineStatus, StatusBefore
  <1> HIDE DEF runs
  <1>3. QED
    BY <1>1, <1>2

\* The status of a list is defined, from its first pipeline to its last.
LEMMA StatusIs ==
  ASSUME NEW ts, IsList(ts), NEW steps, NEW k \in Pipelines(ts)
  PROVE  ListStatus(ts, steps)[k] = PipelineStatus(ts, steps, ListStatus(ts, steps), k)
  <1> DEFINE n == Len(ts)
             P == Pipelines(ts)
             Def(f, m) == [j \in {i \in P : i <= m} |-> PipelineStatus(ts, steps, f, j)]
             S == {m \in 0 .. n : \E f : f = Def(f, m)}
  <1>1. n \in Nat /\ P \subseteq 1 .. n
    BY ListIs, PipelinesAre
  <1>2. 0 \in S
    <2>1. {i \in P : i <= 0} = {}
      BY <1>1
    <2>2. \A f, g : Def(f, 0) = Def(g, 0)
      BY <2>1
    <2>3. \E f : f = Def(f, 0)
      <3> DEFINE d == Def(<<>>, 0)
      <3>1. d = Def(d, 0)
        <4> HIDE DEF Def
        <4>1. QED
          BY <2>2
      <3> HIDE DEF d, Def
      <3>2. QED
        BY <3>1
    <2>4. 0 \in 0 .. n
      BY <1>1
    <2> HIDE DEF Def
    <2>5. QED
      BY <2>3, <2>4
  <1>3. ASSUME NEW m \in 0 .. n - 1, m \in S PROVE m + 1 \in S
    <2> DEFINE A == {i \in P : i <= m}
               B == {i \in P : i <= m + 1}
    <2>1. PICK f : f = Def(f, m)
      BY <1>3
    <2> DEFINE g == [j \in B |-> IF j \in A THEN f[j] ELSE PipelineStatus(ts, steps, f, j)]
    <2>2. A \subseteq B /\ \A j \in B : \A i \in P : i < j => i \in A
      <3>1. m \in Nat /\ P \subseteq Nat
        BY <1>1
      <3> HIDE DEF P
      <3>2. ASSUME NEW j \in B, NEW i \in P, i < j PROVE i \in A
        <4>1. i \in Nat /\ j \in Nat /\ j <= m + 1
          BY <3>1
        <4>2. i <= m
          BY <3>1, <3>2, <4>1
        <4>3. QED
          BY <4>2
      <3>3. ASSUME NEW i \in A PROVE i \in B
        <4>1. i \in Nat /\ i <= m /\ i \in P
          BY <3>1
        <4>2. i <= m + 1
          BY <3>1, <4>1
        <4>3. QED
          BY <4>1, <4>2
      <3>4. QED
        BY <3>2, <3>3
    <2>3. \A j \in A : g[j] = f[j] /\ f[j] = PipelineStatus(ts, steps, f, j)
      BY <2>1, <2>2
    <2>4. \A j \in B : g[j] = PipelineStatus(ts, steps, f, j)
      BY <2>2, <2>3
    <2>5. ASSUME NEW j \in B PROVE PipelineStatus(ts, steps, g, j) = PipelineStatus(ts, steps, f, j)
      <3>1. j # 1 => Before(ts, j) \in A
        <4>1. ASSUME j # 1 PROVE Before(ts, j) \in P /\ Before(ts, j) < j
          BY <4>1, Neighbours
        <4> HIDE DEF A, B, P
        <4>2. QED
          BY <2>2, <4>1
      <3>2. j # 1 => g[Before(ts, j)] = f[Before(ts, j)]
        BY <2>3, <3>1
      <3> HIDE DEF g
      <3>3. QED
        BY <3>2 DEF PipelineStatus
    <2>6. g = Def(g, m + 1)
      <3>1. g = [j \in B |-> PipelineStatus(ts, steps, f, j)]
        BY <2>2, <2>3
      <3>2. [j \in B |-> PipelineStatus(ts, steps, f, j)] = [j \in B |-> PipelineStatus(ts, steps, g, j)]
        <4> HIDE DEF g, B
        <4>1. QED
          BY <2>5
      <3> HIDE DEF g
      <3>3. QED
        BY <3>1, <3>2
    <2>7. \E h : h = Def(h, m + 1)
      <3> HIDE DEF g, Def
      <3>1. QED
        BY <2>6
    <2>8. m + 1 \in 0 .. n
      BY <1>1
    <2>9. QED
      BY <2>7, <2>8
  <1>4. n \in S
    <2> HIDE DEF S, n
    <2>1. QED
      BY <1>1, <1>2, <1>3, Upwards
  <1> DEFINE Whole(f) == [j \in P |-> PipelineStatus(ts, steps, f, j)]
  <1>5. \A f : Def(f, n) = Whole(f)
    <2>1. {i \in P : i <= n} = P
      BY <1>1
    <2>2. QED
      BY <2>1
  <1>6. \E f : f = Whole(f)
    <2> HIDE DEF Def, Whole
    <2>1. QED
      BY <1>4, <1>5
  <1>7. ListStatus(ts, steps) = CHOOSE f : f = Whole(f)
    BY DEF ListStatus, PipelineStatus, Before, LastStage
  <1>8. ListStatus(ts, steps) = Whole(ListStatus(ts, steps))
    <2> HIDE DEF Whole
    <2>1. QED
      BY <1>6, <1>7
  <1>9. QED
    BY <1>8

\* Whether a pipeline runs is not changed by commands that come after it.
LEMMA PastIsPast ==
  ASSUME NEW ts, IsList(ts), NEW s \in Commands(ts), NEW a, NEW b,
         \A e \in Commands(ts) : e < s => ExitOf(a, e) = ExitOf(b, e)
  PROVE  \A k \in Pipelines(ts) : k <= s => ListStatus(ts, a)[k].runs = ListStatus(ts, b)[k].runs
  <1> DEFINE n == Len(ts)
             P == Pipelines(ts)
             La == ListStatus(ts, a)
             Lb == ListStatus(ts, b)
             Bad == {k \in P : LastStage(ts, k) < s /\ La[k] # Lb[k]}
  <1>1. n \in Nat /\ P \subseteq 1 .. n /\ P \subseteq Commands(ts)
    BY ListIs, PipelinesAre
  <1>2. \A k \in P : La[k] = PipelineStatus(ts, a, La, k) /\ Lb[k] = PipelineStatus(ts, b, Lb, k)
    BY StatusIs
  <1> HIDE DEF La, Lb
  <1>3. ASSUME NEW k \in P, k # 1 => La[Before(ts, k)].status = Lb[Before(ts, k)].status
        PROVE  La[k].runs = Lb[k].runs /\ (LastStage(ts, k) < s => La[k] = Lb[k])
    <2>1. StatusBefore(ts, La, k) = StatusBefore(ts, Lb, k)
      BY <1>3 DEF StatusBefore
    <2>2. La[k].runs = Lb[k].runs
      BY <1>2, <2>1, PartsOfStatus
    <2>3. ASSUME LastStage(ts, k) < s PROVE La[k] = Lb[k]
      <3>1. ExitOf(a, LastStage(ts, k)) = ExitOf(b, LastStage(ts, k))
        BY <2>3, Neighbours
      <3>2. La[k].status = Lb[k].status
        BY <1>2, <2>1, <3>1, PartsOfStatus
      <3>3. QED
        BY <1>2, <2>2, <3>2, PartsOfStatus
    <2>4. QED
      BY <2>2, <2>3
  <1>4. Bad = {}
    <2> SUFFICES ASSUME Bad # {} PROVE FALSE
      OBVIOUS
    <2>1. PICK k \in Bad : \A j \in Bad : k <= j
      <3>1. Bad \subseteq 0 .. n
        BY <1>1
      <3> HIDE DEF Bad
      <3>2. QED
        BY <1>1, <3>1, FirstExists
    <2>2. k \in P /\ LastStage(ts, k) < s
      OBVIOUS
    <2>3. ASSUME k # 1 PROVE La[Before(ts, k)] = Lb[Before(ts, k)]
      <3> DEFINE j == Before(ts, k)
                 l == LastStage(ts, j)
                 m == LastStage(ts, k)
      <3>1. j \in P /\ j < k /\ l < k /\ k <= m
        BY <2>2, <2>3, Neighbours
      <3>2. j \in Nat /\ k \in Nat /\ l \in Nat /\ m \in Nat /\ s \in Nat /\ m < s
        BY <1>1, <2>2, <3>1, Neighbours, PipelinesAre
      <3> HIDE DEF j, l, m
      <3>3. l < s /\ ~(k <= j)
        BY <3>1, <3>2
      <3>4. j \notin Bad
        <4> HIDE DEF Bad
        <4>1. QED
          BY <2>1, <3>3
      <3>5. La[j] = Lb[j]
        BY <3>1, <3>3, <3>4 DEF l
      <3>6. QED
        BY <3>5 DEF j
    <2>4. La[k] = Lb[k]
      BY <1>3, <2>2, <2>3
    <2>5. QED
      BY <2>1, <2>4
  <1>5. ASSUME NEW k \in P, k <= s PROVE La[k].runs = Lb[k].runs
    <2>1. ASSUME k # 1 PROVE La[Before(ts, k)] = Lb[Before(ts, k)]
      <3> DEFINE j == Before(ts, k)
                 l == LastStage(ts, j)
      <3>1. j \in P /\ l < k /\ l \in Commands(ts)
        BY <2>1, Neighbours
      <3>2. k \in Nat /\ l \in Nat /\ s \in Nat
        BY <1>1, <3>1, PipelinesAre
      <3> HIDE DEF j, l
      <3>3. l < s
        BY <1>5, <3>1, <3>2
      <3>4. La[j] = Lb[j]
        BY <1>4, <3>1, <3>3 DEF l
      <3>5. QED
        BY <3>4 DEF j
    <2>2. QED
      BY <1>3, <2>1
  <1>6. QED
    BY <1>5 DEF La, Lb

\* After the command at s, of the commands up to the first one next_command may
\* take zsh runs that one only.
LEMMA NextRuns ==
  ASSUME NEW ts, IsList(ts), NEW s \in Commands(ts), NEW steps,
         ListStatus(ts, steps)[PipelineOf(ts, s)].runs,
         NEW k \in Commands(ts), s < k,
         \A g \in Followers(ts, s, ExitOf(steps, s)) : k <= g
  PROVE  ListStatus(ts, steps)[PipelineOf(ts, k)].runs <=> k \in Followers(ts, s, ExitOf(steps, s))
  <1> DEFINE n == Len(ts)
             P == Pipelines(ts)
             L == ListStatus(ts, steps)
             rc == ExitOf(steps, s)
             F == Followers(ts, s, rc)
             b == PipelineOf(ts, s)
             Ahead(j) == s < j /\ \A g \in F : j <= g
             Bad == {j \in P : Ahead(j) /\ L[Before(ts, j)].status # rc}
  <1>1. n \in Nat /\ P \subseteq 1 .. n /\ P \subseteq Commands(ts) /\ Commands(ts) \subseteq Nat /\ s \in 1 .. n
    BY ListIs, PipelinesAre
  <1>2. \A j \in P : L[j] = PipelineStatus(ts, steps, L, j)
    BY StatusIs
  <1>3. F \subseteq Commands(ts)
    BY DEF Followers
  <1>4. b \in P /\ b <= s /\ \A j \in P : j <= s => j <= b
    BY PipelinesAre
  <1> HIDE DEF n, P, L, rc, F, b
  \* A later pipeline follows where its operator accepts the status.
  <1>5. ASSUME NEW j \in P, s < j
        PROVE  j \in F <=> Accepted(Operator(ts, j), rc)
    <2> DEFINE B == Between(ts, s, j)
    <2>1. j \in B /\ B \subseteq Nat /\ \A i \in B : i <= j
      BY <1>1, <1>5 DEF Between, P
    <2>2. LastOf(B) = j
      <3> HIDE DEF B
      <3>1. QED
        BY <2>1, LastUnique
    <2>3. QED
      BY <1>1, <1>5, <2>1, <2>2 DEF F, Followers, Goes
  \* A command behind a pipe, in the pipeline of the one at s, follows.
  <1>6. ASSUME NEW c \in Commands(ts), s < c, PipelineOf(ts, c) <= s
        PROVE  c \in F
    <2> DEFINE B == Between(ts, s, c)
    <2>1. ASSUME NEW i \in B PROVE FALSE
      <3>1. i \in P /\ s < i /\ i <= c
        BY DEF Between, P
      <3>2. i <= PipelineOf(ts, c) /\ PipelineOf(ts, c) \in P
        BY <3>1, PipelinesAre DEF P
      <3>3. i \in Nat /\ s \in Nat /\ PipelineOf(ts, c) \in Nat
        BY <1>1, <3>1, <3>2
      <3>4. QED
        BY <1>6, <3>1, <3>2, <3>3
    <2>2. QED
      BY <1>6, <2>1 DEF F, Followers, Goes
  <1>7. Bad = {}
    <2> SUFFICES ASSUME Bad # {} PROVE FALSE
      OBVIOUS
    <2>1. PICK j \in Bad : \A i \in Bad : j <= i
      <3>1. Bad \subseteq P
        OBVIOUS
      <3> HIDE DEF Bad
      <3>2. Bad \subseteq 0 .. n
        BY <1>1, <3>1
      <3>3. QED
        BY <1>1, <3>2, FirstExists
    <2> DEFINE p == Before(ts, j)
    <2>2. j \in P /\ s < j /\ (\A g \in F : j <= g) /\ L[p].status # rc
      OBVIOUS
    <2>3. j \in Nat /\ s \in Nat /\ j # 1
      <3> HIDE DEF Bad
      <3>1. j \in Nat /\ s \in Nat /\ s >= 1
        BY <1>1, <2>2
      <3>2. QED
        BY <2>2, <3>1
    <2>4. /\ p \in P /\ p < j /\ p \in Nat
          /\ \A i \in P : i < j => i <= p
      BY <1>1, <2>2, <2>3, Neighbours DEF P
    <2> HIDE DEF p
    <2>5. CASE p <= s
      <3>1. p = b
        <4>1. b < j /\ b \in Nat
          BY <1>1, <1>4, <2>2, <2>3
        <4>2. b <= p /\ p <= b
          BY <1>4, <2>4, <2>5, <4>1
        <4>3. QED
          BY <2>4, <4>1, <4>2
      <3>2. LastStage(ts, p) = s
        <4> DEFINE c == LastStage(ts, p)
        <4>1. c \in Commands(ts) /\ PipelineOf(ts, c) = p /\ s <= c /\ c < j
          <5>1. c \in Commands(ts) /\ PipelineOf(ts, c) = p
            BY <2>4, Neighbours DEF P
          <5>2. s <= c
            BY <2>4, <3>1, Neighbours DEF P, b
          <5>3. c < j
            BY <2>2, <2>3, Neighbours DEF P, p
          <5>4. QED
            BY <5>1, <5>2, <5>3
        <4> HIDE DEF c
        <4>2. c \in Nat
          BY <1>1, <4>1
        <4>3. ~(s < c)
          <5> SUFFICES ASSUME s < c PROVE FALSE
            OBVIOUS
          <5>1. c \in F
            BY <1>6, <2>5, <4>1
          <5>2. j <= c
            BY <2>2, <5>1
          <5>3. QED
            BY <2>3, <4>1, <4>2, <5>2
        <4>4. c = s
          BY <2>3, <4>1, <4>2, <4>3
        <4>5. QED
          BY <4>4 DEF c
      <3>3. L[p].runs
        BY <3>1 DEF L, b
      <3>4. L[p].status = ExitOf(steps, s)
        BY <1>2, <2>4, <3>2, <3>3, PartsOfStatus
      <3>5. QED
        BY <2>2, <3>4 DEF rc
    <2>6. CASE s < p
      <3>1. p \notin F /\ \A g \in F : p <= g
        <4>1. ~(j <= p)
          BY <2>3, <2>4
        <4>2. p \notin F
          BY <2>2, <4>1
        <4>3. \A g \in F : g \in Nat
          BY <1>1, <1>3
        <4>4. ASSUME NEW g \in F PROVE p <= g
          <5>1. j <= g /\ g \in Nat
            BY <2>2, <4>3
          <5>2. QED
            BY <2>3, <2>4, <5>1
        <4>5. QED
          BY <4>2, <4>4
      <3>2. ~Accepted(Operator(ts, p), rc)
        BY <1>5, <2>4, <2>6, <3>1
      <3>3. p \notin Bad
        <4>1. ~(j <= p)
          BY <2>3, <2>4
        <4> HIDE DEF Bad
        <4>2. QED
          BY <2>1, <4>1
      <3>4. L[Before(ts, p)].status = rc
        BY <2>4, <2>6, <3>1, <3>3
      <3>5. p # 1
        <4>1. s >= 1
          BY <1>1
        <4>2. QED
          BY <2>3, <2>4, <2>6, <4>1
      <3>6. L[p].status = rc
        <4>1. StatusBefore(ts, L, p) = rc
          BY <3>4, <3>5 DEF StatusBefore
        <4>2. QED
          BY <1>2, <2>4, <3>2, <4>1, PartsOfStatus
      <3>7. QED
        BY <2>2, <3>6
    <2>7. QED
      BY <2>3, <2>4, <2>5, <2>6
  <1> DEFINE j == PipelineOf(ts, k)
  <1>8. j \in P /\ j <= k /\ \A i \in P : i <= k => i <= j
    BY PipelinesAre DEF P
  <1>9. j \in Nat /\ k \in Nat /\ s \in Nat /\ b \in Nat
    BY <1>1, <1>4, <1>8
  <1>10. CASE j <= s
    <2>1. j = b
      <3>1. j <= b
        BY <1>4, <1>8, <1>10
      <3>2. b <= k
        BY <1>4, <1>9
      <3>3. b <= j
        BY <1>4, <1>8, <3>2
      <3> HIDE DEF j
      <3>4. QED
        BY <1>9, <3>1, <3>3
    <2>2. k \in F
      BY <1>6, <1>10
    <2>3. L[j].runs
      BY <2>1 DEF L, b
    <2>4. QED
      BY <2>2, <2>3 DEF L, F, rc
  <1>11. CASE s < j
    <2>1. \A g \in F : j <= g
      <3>1. \A g \in F : k <= g /\ g \in Nat
        BY <1>1, <1>3 DEF F, rc
      <3>2. ASSUME NEW g \in F PROVE j <= g
        <4>1. k <= g /\ g \in Nat
          BY <3>1
        <4> HIDE DEF j
        <4>2. QED
          BY <1>8, <1>9, <4>1
      <3>3. QED
        BY <3>2
    <2>2. L[Before(ts, j)].status = rc /\ j # 1
      <3>1. L[Before(ts, j)].status = rc
        BY <1>7, <1>8, <1>11, <2>1
      <3>2. s >= 1
        BY <1>1
      <3> HIDE DEF j
      <3>3. QED
        BY <1>9, <1>11, <3>1, <3>2
    <2>3. L[j].runs <=> Accepted(Operator(ts, j), rc)
      <3>1. StatusBefore(ts, L, j) = rc
        BY <2>2 DEF StatusBefore
      <3>2. QED
        BY <1>2, <1>8, <3>1, PartsOfStatus
    <2>4. L[j].runs <=> j \in F
      BY <1>5, <1>8, <1>11, <2>3
    <2>5. Between(ts, s, j) # {} /\ LastOf(Between(ts, s, k)) = j /\ LastOf(Between(ts, s, j)) = j /\ Between(ts, s, k) # {}
      <3>1. j \in Between(ts, s, k) /\ j \in Between(ts, s, j)
        BY <1>8, <1>9, <1>11 DEF Between, P
      <3>2. Between(ts, s, k) \subseteq Nat /\ Between(ts, s, j) \subseteq Nat
        BY <1>1 DEF Between, P
      <3>3. \A i \in Between(ts, s, k) : i <= j
        BY <1>8 DEF Between, P
      <3>4. \A i \in Between(ts, s, j) : i <= j
        BY DEF Between
      <3> HIDE DEF j
      <3>5. QED
        BY <3>1, <3>2, <3>3, <3>4, LastUnique
    <2>6. k \in F <=> j \in F
      BY <1>1, <1>8, <1>11, <2>5 DEF F, Followers, Goes
    <2>7. QED
      BY <2>4, <2>6 DEF L, F, rc
  <1>12. QED
    <2> HIDE DEF j
    <2>1. QED
      BY <1>9, <1>10, <1>11

-----------------------------------------------------------------------------
(* The list that is under way.                                              *)

Working == {"resolve", "guard", "ask", "execute"}
Entries == [at : Nat, rc : Nat, from : Nat]
Taken(steps) == {steps[i].at : i \in DOMAIN steps}
\* Where the input of the command at k comes from.
InputOf(ts, k) == IF Operator(ts, k) = "|" THEN LastOf({c \in Commands(ts) : c < k}) ELSE 0
InOrder(ts, steps) ==
    \A i \in DOMAIN steps :
        /\ i > 1 => steps[i].at > steps[i - 1].at
        /\ steps[i].from = InputOf(ts, steps[i].at)

\* What ran are the commands before the present one that zsh runs, and zsh
\* runs the present one.
ListInv ==
    /\ ran \in Seq(Entries) /\ stdin \in Nat
    /\ InOrder(request, ran)
    /\ pc \in Working =>
        /\ IsList(request)
        /\ StepAt \in Commands(request) /\ remaining = Rest(request, StepAt)
        /\ stdin = InputOf(request, StepAt)
        /\ Taken(ran) = {k \in ZshRuns(request, ran) : k < StepAt}
        /\ StepAt \in ZshRuns(request, ran)
    /\ pc \notin Working \cup {"end"} => ran = <<>> /\ stdin = 0
    /\ pc # "end" => result = None
    /\ RunsLikeZsh

\* One step more.
LEMMA OneStepMore ==
  ASSUME NEW steps \in Seq(Entries), NEW e \in Entries, e.at \notin Taken(steps)
  PROVE  LET more == Append(steps, e)
         IN  /\ more \in Seq(Entries) /\ Taken(more) = Taken(steps) \cup {e.at}
             /\ ExitOf(more, e.at) = e.rc
             /\ \A k : k # e.at => ExitOf(more, k) = ExitOf(steps, k)
  <1> DEFINE n == Len(steps)
             more == Append(steps, e)
  <1>1. /\ n \in Nat /\ DOMAIN steps = 1 .. n /\ DOMAIN more = 1 .. n + 1
        /\ more \in Seq(Entries) /\ more[n + 1] = e
        /\ \A i \in 1 .. n : more[i] = steps[i]
    OBVIOUS
  <1> HIDE DEF n, more
  <1>2. 1 .. n + 1 = (1 .. n) \cup {n + 1}
    BY <1>1
  <1>3. \A i \in 1 .. n : steps[i].at # e.at
    BY <1>1 DEF Taken
  <1>4. Taken(more) = Taken(steps) \cup {e.at}
    BY <1>1, <1>2 DEF Taken
  <1>5. ExitOf(more, e.at) = e.rc
    <2>1. {i \in DOMAIN more : more[i].at = e.at} = {n + 1}
      BY <1>1, <1>2, <1>3
    <2> DEFINE now == {i \in DOMAIN more : more[i].at = e.at}
    <2>2. ExitOf(more, e.at) = IF now = {} THEN 0 ELSE more[CHOOSE i \in now : TRUE].rc
      BY DEF ExitOf
    <2>3. now = {n + 1}
      BY <2>1
    <2> HIDE DEF now
    <2>4. (CHOOSE i \in now : TRUE) = n + 1 /\ now # {}
      BY <2>3
    <2>5. QED
      BY <1>1, <2>2, <2>4
  <1>6. ASSUME NEW k, k # e.at PROVE ExitOf(more, k) = ExitOf(steps, k)
    <2> DEFINE S == {i \in DOMAIN steps : steps[i].at = k}
               T == {i \in DOMAIN more : more[i].at = k}
    <2>1. T = S
      BY <1>1, <1>2, <1>6
    <2>2. S # {} => (CHOOSE i \in S : TRUE) \in 1 .. n
      BY <1>1
    <2>3. ExitOf(more, k) = IF T = {} THEN 0 ELSE more[CHOOSE i \in T : TRUE].rc
      BY DEF ExitOf
    <2>4. ExitOf(steps, k) = IF S = {} THEN 0 ELSE steps[CHOOSE i \in S : TRUE].rc
      BY DEF ExitOf
    <2> HIDE DEF S, T
    <2>5. QED
      BY <1>1, <2>1, <2>2, <2>3, <2>4
  <1>7. QED
    BY <1>1, <1>4, <1>5, <1>6 DEF more

\* A command behind a pipe that is next is the one after the command at s.
LEMMA PipeIsNext ==
  ASSUME NEW ts, IsList(ts), NEW s \in Commands(ts), NEW rc,
         NEW g \in Followers(ts, s, rc), \A k \in Followers(ts, s, rc) : g <= k,
         Operator(ts, g) = "|"
  PROVE  LastOf({c \in Commands(ts) : c < g}) = s
  <1> DEFINE F == Followers(ts, s, rc)
             B == Between(ts, s, g)
             P == Pipelines(ts)
             n == Len(ts)
  <1>1. /\ n \in Nat /\ P \subseteq Commands(ts) /\ Commands(ts) \subseteq 1 .. n
        /\ g \in Commands(ts) /\ s < g /\ Goes(ts, s, rc, g) /\ g \notin P
    BY ListIs, PipelinesAre DEF Followers, Pipelines
  <1>2. Commands(ts) \subseteq Nat /\ s \in Nat /\ g \in Nat
    BY <1>1
  <1>3. B \subseteq 0 .. n /\ B \subseteq P
    <2>1. B \subseteq P
      BY DEF Between
    <2> HIDE DEF B, P, n
    <2>2. QED
      BY <1>1, <2>1
  <1>4. B = {}
    <2> SUFFICES ASSUME B # {} PROVE FALSE
      OBVIOUS
    <2> DEFINE m == LastOf(B)
    <2>1. m \in B /\ \A j \in B : j <= m
      <3> HIDE DEF B, n
      <3>1. QED
        BY <1>1, <1>3, LastIs
    <2> HIDE DEF m
    <2>2. m \in P /\ s < m /\ m <= g /\ m \in Nat /\ m \in Commands(ts)
      BY <1>1, <1>2, <2>1 DEF Between
    <2>3. Accepted(Operator(ts, m), rc)
      BY <1>1, <2>1 DEF Goes, m
    <2>4. LastOf(Between(ts, s, m)) = m
      <3>1. m \in Between(ts, s, m) /\ Between(ts, s, m) \subseteq Nat /\ \A j \in Between(ts, s, m) : j <= m
        BY <1>1, <1>2, <2>2 DEF Between
      <3>2. QED
        BY <3>1, LastUnique
    <2>5. m \in F
      BY <2>2, <2>3, <2>4 DEF Followers, Goes
    <2>6. g <= m /\ g # m
      BY <1>1, <2>2, <2>5
    <2>7. QED
      BY <1>2, <2>2, <2>6
  <1>5. ASSUME NEW c \in Commands(ts), s < c, c < g PROVE FALSE
    <2>1. Between(ts, s, c) = {}
      <3> SUFFICES ASSUME NEW j \in Between(ts, s, c) PROVE FALSE
        OBVIOUS
      <3>1. j \in P /\ s < j /\ j <= c /\ j \in Nat /\ c \in Nat
        BY <1>1, <1>2 DEF Between
      <3>2. j <= g
        BY <1>2, <1>5, <3>1
      <3>3. QED
        BY <1>4, <3>1, <3>2 DEF Between
    <2>2. c \in F
      BY <1>5, <2>1 DEF Followers, Goes
    <2>3. g <= c /\ c \in Nat
      BY <1>2, <2>2
    <2>4. QED
      BY <1>2, <1>5, <2>3
  <1> DEFINE S == {c \in Commands(ts) : c < g}
  <1>6. s \in S /\ S \subseteq Nat /\ \A c \in S : c <= s
    <2>1. s \in S /\ S \subseteq Nat
      BY <1>1, <1>2
    <2>2. ASSUME NEW c \in S PROVE c <= s
      <3>1. c \in Nat /\ ~(s < c)
        BY <1>2, <1>5
      <3> HIDE DEF S
      <3>2. QED
        BY <1>2, <3>1
    <2>3. QED
      BY <2>1, <2>2
  <1>7. LastOf(S) = s
    <2> HIDE DEF S
    <2>1. QED
      BY <1>6, LastUnique
  <1>8. QED
    BY <1>7

\* Appended at the end, a step that comes later stays in order.
LEMMA OrderKept ==
  ASSUME NEW ts, NEW steps \in Seq(Entries), NEW e \in Entries, InOrder(ts, steps),
         \A k \in Taken(steps) : k < e.at, e.from = InputOf(ts, e.at)
  PROVE  InOrder(ts, Append(steps, e))
  <1> DEFINE n == Len(steps)
             more == Append(steps, e)
  <1>1. /\ n \in Nat /\ DOMAIN steps = 1 .. n /\ DOMAIN more = 1 .. n + 1
        /\ more \in Seq(Entries) /\ more[n + 1] = e
        /\ \A i \in 1 .. n : more[i] = steps[i]
    OBVIOUS
  <1> HIDE DEF n, more
  <1>2. SUFFICES ASSUME NEW i \in 1 .. n + 1
                 PROVE  /\ i > 1 => more[i].at > more[i - 1].at
                        /\ more[i].from = InputOf(ts, more[i].at)
    BY <1>1 DEF InOrder, more
  <1>3. CASE i \in 1 .. n
    <2>1. i > 1 => i - 1 \in 1 .. n
      BY <1>1, <1>3
    <2>2. /\ i > 1 => steps[i].at > steps[i - 1].at
          /\ steps[i].from = InputOf(ts, steps[i].at)
      BY <1>1, <1>3 DEF InOrder
    <2>3. more[i] = steps[i] /\ (i > 1 => more[i - 1] = steps[i - 1])
      BY <1>1, <1>3, <2>1
    <2>4. QED
      BY <2>2, <2>3
  <1>4. CASE i = n + 1
    <2>1. more[i] = e
      BY <1>1, <1>4
    <2>2. ASSUME i > 1 PROVE more[i].at > more[i - 1].at
      <3>1. i - 1 \in 1 .. n
        BY <1>1, <1>4, <2>2
      <3>2. steps[i - 1].at \in Taken(steps) /\ more[i - 1] = steps[i - 1]
        BY <1>1, <3>1 DEF Taken
      <3>3. steps[i - 1].at < e.at
        BY <3>2
      <3>4. QED
        BY <2>1, <3>2, <3>3
    <2>3. QED
      BY <2>1, <2>2
  <1>5. QED
    BY <1>1, <1>3, <1>4

\* _continue_or_finish: the step is added to what ran, and the next command is
\* the next one zsh runs, or zsh runs no more.
LEMMA ContinueLikeZsh ==
  ASSUME ListInv, pc = "execute", NEW rc \in Nat, Continue(rc)
  PROVE  ListInv'
  <1> DEFINE ts == request
             s == StepAt
             n == Len(ts)
             e == [at |-> s, rc |-> rc, from |-> stdin]
             F == Followers(ts, s, rc)
             Z == ZshRuns(ts, ran)
             ZZ == ZshRuns(ts, ran')
             next == NextCommand(remaining, rc)
  <1>1. /\ IsList(ts) /\ s \in Commands(ts) /\ remaining = Rest(ts, s)
        /\ stdin = InputOf(ts, s) /\ Taken(ran) = {k \in Z : k < s} /\ s \in Z
        /\ ran \in Seq(Entries) /\ InOrder(ts, ran) /\ stdin \in Nat
    BY DEF ListInv, Working
  <1>2. /\ ran' = Append(ran, e) /\ remaining' = next.tokens /\ request' = request
        /\ next.tokens # <<>> => stdin' = (IF next.piped THEN s ELSE 0) /\ pc' = "resolve" /\ result' = result
        /\ next.tokens = <<>> => result' = (IF rc = 0 THEN "success" ELSE "failure") /\ pc' = "end" /\ stdin' = stdin
    BY DEF Continue
  <1>3. n \in Nat /\ Commands(ts) \subseteq 1 .. n /\ s \in 1 .. n /\ s \in Nat /\ Commands(ts) \subseteq Nat
    <2>1. n \in Nat /\ Commands(ts) \subseteq 1 .. n
      BY <1>1, ListIs
    <2> HIDE DEF n, s, ts
    <2>2. QED
      BY <1>1, <2>1
  <1>4. Z \subseteq Commands(ts) /\ ZZ \subseteq Commands(ts) /\ F \subseteq Commands(ts)
    BY DEF ZshRuns, Followers
  <1>5. e \in Entries /\ e.at = s /\ e.rc = rc /\ e.from = stdin
    BY <1>1, <1>3 DEF Entries
  <1> HIDE DEF ts, s, n, e, F, Z, ZZ, next
  <1>6. s \notin Taken(ran)
    BY <1>1, <1>3
  <1>7. /\ ran' \in Seq(Entries) /\ Taken(ran') = Taken(ran) \cup {s}
        /\ ExitOf(ran', s) = rc /\ \A k : k # s => ExitOf(ran', k) = ExitOf(ran, k)
    BY <1>1, <1>2, <1>5, <1>6, OneStepMore
  <1>8. InOrder(ts, ran')
    <2>1. \A k \in Taken(ran) : k < e.at
      BY <1>1, <1>5
    <2>2. e.from = InputOf(ts, e.at)
      BY <1>1, <1>5
    <2>3. QED
      BY <1>1, <1>2, <1>5, <2>1, <2>2, OrderKept
  \* Nothing changes up to the command that ended.
  <1>9. \A k \in Commands(ts) : k <= s => (k \in Z <=> k \in ZZ)
    <2>1. \A c \in Commands(ts) : c < s => ExitOf(ran', c) = ExitOf(ran, c)
      <3>1. \A c \in Commands(ts) : c < s => c # s
        BY <1>3
      <3>2. QED
        BY <1>7, <3>1
    <2>2. \A j \in Pipelines(ts) : j <= s => ListStatus(ts, ran')[j].runs = ListStatus(ts, ran)[j].runs
      BY <1>1, <2>1, PastIsPast
    <2>3. ASSUME NEW k \in Commands(ts), k <= s PROVE k \in Z <=> k \in ZZ
      <3> DEFINE j == PipelineOf(ts, k)
      <3>1. j \in Pipelines(ts) /\ j <= k /\ j \in Nat
        BY <1>1, PipelinesAre
      <3> HIDE DEF j
      <3>2. j <= s
        BY <1>3, <2>3, <3>1
      <3>3. ListStatus(ts, ran')[j].runs = ListStatus(ts, ran)[j].runs
        BY <2>2, <3>1, <3>2
      <3>4. QED
        BY <3>3 DEF ZshRuns, Z, ZZ, j
    <2>4. QED
      BY <2>3
  <1>10. Taken(ran') = {k \in ZZ : k <= s} /\ s \in ZZ
    <2>1. s \in ZZ
      BY <1>1, <1>3, <1>9
    <2>2. ASSUME NEW k \in Taken(ran') PROVE k \in ZZ /\ k <= s
      <3>1. CASE k = s
        BY <1>3, <2>1, <3>1
      <3>2. CASE k \in Taken(ran)
        <4>1. k \in Z /\ k < s /\ k \in Commands(ts) /\ k \in Nat
          BY <1>1, <1>3, <1>4, <3>2
        <4>2. k <= s
          BY <1>3, <4>1
        <4>3. QED
          BY <1>9, <4>1, <4>2
      <3>3. QED
        BY <1>7, <2>2, <3>1, <3>2
    <2>3. ASSUME NEW k \in ZZ, k <= s PROVE k \in Taken(ran')
      <3>1. k \in Z /\ k \in Nat
        BY <1>3, <1>4, <1>9, <2>3
      <3>2. k < s \/ k = s
        BY <1>3, <2>3, <3>1
      <3>3. QED
        BY <1>1, <1>7, <3>1, <3>2
    <2>4. QED
      BY <2>1, <2>2, <2>3
  \* Of what comes after it, zsh runs the first that may be next.
  <1>11. ASSUME NEW k \in Commands(ts), s < k, \A g \in F : k <= g
         PROVE  k \in ZZ <=> k \in F
    <2>1. ListStatus(ts, ran')[PipelineOf(ts, s)].runs
      BY <1>10 DEF ZshRuns, ZZ
    <2>2. Followers(ts, s, ExitOf(ran', s)) = F
      BY <1>7 DEF F
    <2>3. ListStatus(ts, ran')[PipelineOf(ts, k)].runs <=> k \in F
      BY <1>1, <1>11, <2>1, <2>2, NextRuns
    <2>4. QED
      BY <1>11, <2>3 DEF ZshRuns, ZZ
  <1>12. /\ F = {} => next.tokens = <<>>
         /\ F # {} => /\ next.tokens = Rest(ts, FirstOf(F))
                      /\ next.piped = (Operator(ts, FirstOf(F)) = "|")
    BY <1>1, NextIs DEF F, next
  <1>13. CASE F = {}
    <2>1. ZZ = Taken(ran')
      <3>1. ASSUME NEW k \in ZZ PROVE k <= s
        <4>1. k \in Commands(ts) /\ k \in Nat
          BY <1>3, <1>4
        <4>2. ~(s < k)
          BY <1>11, <1>13, <4>1
        <4>3. QED
          BY <1>3, <4>1, <4>2
      <3>2. QED
        BY <1>10, <3>1
    <2>2. LastOf(ZZ) = s
      <3>1. ZZ \subseteq Nat /\ s \in ZZ /\ \A k \in ZZ : k <= s
        BY <1>3, <1>4, <1>10, <2>1
      <3>2. QED
        BY <3>1, LastUnique
    <2>3. pc' = "end" /\ stdin' = stdin /\ result' = (IF rc = 0 THEN "success" ELSE "failure")
      BY <1>2, <1>12, <1>13
    <2>4. (result' = "success") = (ExitOf(ran', LastOf(ZZ)) = 0)
      BY <1>7, <2>2, <2>3
    <2>5. RunsLikeZsh'
      BY <1>2, <1>8, <2>1, <2>4 DEF RunsLikeZsh, InOrder, InputOf, Taken, ts, ZZ
    <2>6. QED
      BY <1>1, <1>2, <1>7, <1>8, <2>3, <2>5 DEF ListInv, Working, ts
  <1>14. CASE F # {}
    <2> DEFINE g == FirstOf(F)
    <2>1. g \in F /\ \A k \in F : g <= k
      <3>1. F \subseteq 0 .. n
        BY <1>3, <1>4
      <3>2. QED
        BY <1>3, <1>14, <3>1, FirstIs
    <2>2. next.tokens = Rest(ts, g) /\ next.piped = (Operator(ts, g) = "|")
      BY <1>12, <1>14
    <2> HIDE DEF g
    <2>3. g \in Commands(ts) /\ s < g /\ g \in Nat /\ g \in 1 .. n
      BY <1>3, <2>1 DEF F, Followers
    <2>4. Rest(ts, g) # <<>> /\ Len(Rest(ts, g)) = n - g + 1
      BY <1>1, <2>3, RestIs DEF n
    <2>5. pc' = "resolve" /\ result' = result /\ remaining' = Rest(ts, g) /\ stdin' = IF next.piped THEN s ELSE 0
      BY <1>2, <2>2, <2>4
    <2>6. StepAt' = g
      <3>1. StepAt' = n - Len(remaining') + 1
        BY <1>2 DEF StepAt, n, ts
      <3>2. n - (n - g + 1) + 1 = g
        BY <1>3, <2>3
      <3>3. QED
        BY <2>4, <2>5, <3>1, <3>2
    <2>7. stdin' = InputOf(ts, g)
      <3>1. Operator(ts, g) = "|" => LastOf({c \in Commands(ts) : c < g}) = s
        BY <1>1, <2>1, PipeIsNext DEF F
      <3>2. QED
        BY <2>2, <2>5, <3>1 DEF InputOf
    <2>8. g \in ZZ
      BY <1>11, <2>1, <2>3
    <2>9. Taken(ran') = {k \in ZZ : k < g}
      <3>1. ASSUME NEW k \in ZZ, k < g PROVE k <= s
        <4>1. k \in Commands(ts) /\ k \in Nat
          BY <1>3, <1>4
        <4>2. \A f \in F : k <= f /\ k # f
          <5>1. \A f \in F : f \in Nat /\ g <= f
            BY <1>3, <1>4, <2>1
          <5>2. ASSUME NEW f \in F PROVE k <= f /\ k # f
            <6>1. f \in Nat /\ g <= f
              BY <5>1
            <6>2. QED
              BY <2>3, <3>1, <4>1, <6>1
          <5>3. QED
            BY <5>2
        <4>3. ~(s < k)
          BY <1>11, <4>1, <4>2
        <4>4. QED
          BY <1>3, <4>1, <4>3
      <3>2. ASSUME NEW k \in ZZ, k <= s PROVE k < g
        <4>1. k \in Nat
          BY <1>3, <1>4
        <4>2. QED
          BY <1>3, <2>3, <3>2, <4>1
      <3>3. QED
        BY <1>10, <3>1, <3>2
    <2>10. result' = None
      BY <2>5 DEF ListInv
    <2>11. RunsLikeZsh'
      BY <1>2, <1>8, <2>10 DEF RunsLikeZsh, InOrder, InputOf, None, ts
    <2>12. stdin' \in Nat
      BY <1>3, <2>5
    <2>13. IsList(request') /\ StepAt' \in Commands(request') /\ remaining' = Rest(request', StepAt')
      BY <1>1, <1>2, <2>3, <2>5, <2>6 DEF ts
    <2>14. QED
      BY <1>2, <1>7, <1>8, <2>5, <2>6, <2>7, <2>8, <2>9, <2>10, <2>11, <2>12, <2>13
      DEF ListInv, Working, ts, ZZ
  <1>15. QED
    BY <1>13, <1>14

\* Before a list is under way nothing ran.
LEMMA IdleIsList ==
  ASSUME ran = <<>>, stdin = 0, pc \notin Working, pc # "end" => result = None,
         result \notin {"success", "failure"}
  PROVE  ListInv
  <1>1. DOMAIN ran = {} /\ ran \in Seq(Entries)
    BY DEF Entries
  <1>2. InOrder(request, ran)
    BY <1>1 DEF InOrder
  <1>3. RunsLikeZsh
    BY <1>1 DEF RunsLikeZsh
  <1>4. QED
    BY <1>1, <1>2, <1>3 DEF ListInv

\* The first command of a validated list is the one zsh runs first.
LEMMA SubmitLikeZsh ==
  ASSUME ListInv, NEW r \in Requests, SubmitCommand(r)
  PROVE  ListInv'
  <1>1. /\ ran = <<>> /\ stdin = 0 /\ result = None /\ request' = r
        /\ ran' = <<>> /\ stdin' = 0
    BY DEF SubmitCommand, ListInv, Working
  <1>2. CASE ~ValidSequence(r)
    <2>1. pc' = "end" /\ result' = "rejected"
      BY <1>2 DEF SubmitCommand
    <2>2. DOMAIN ran' = {} /\ ran' \in Seq(Entries)
      BY <1>1 DEF Entries
    <2>3. InOrder(request', ran')
      BY <2>2 DEF InOrder
    <2>4. RunsLikeZsh'
      BY <2>1, <2>2 DEF RunsLikeZsh
    <2>5. QED
      BY <1>1, <2>1, <2>2, <2>3, <2>4 DEF ListInv, Working
  <1>3. CASE ValidSequence(r)
    <2>1. pc' = "resolve" /\ remaining' = r /\ result' = None
      BY <1>1, <1>3 DEF SubmitCommand
    <2>2. IsList(r)
      BY <1>3, RequestsAssumption DEF IsList
    <2>3. /\ 1 \in Commands(r) /\ Commands(r) \subseteq Nat /\ 1 \in Pipelines(r)
          /\ PipelineOf(r, 1) = 1 /\ Operator(r, 1) = ";"
          /\ Len(r) \in Nat /\ r \in Seq(Tokens)
      BY <2>2, ListIs, PipelinesAre DEF IsList
    <2>4. StepAt' = 1
      <3>1. StepAt' = Len(r) - Len(r) + 1
        BY <1>1, <2>1 DEF StepAt
      <3> DEFINE n == Len(r)
      <3>2. StepAt' = n - n + 1 /\ n \in Nat
        BY <2>3, <3>1
      <3> HIDE DEF n
      <3>3. QED
        BY <3>2
    <2>5. r = Rest(r, 1)
      <3> DEFINE n == Len(r)
                 s == 1
                 rest == Rest(r, s)
      <3>1. n \in Nat /\ s \in Commands(r) /\ s = 1
        BY <2>3
      <3> HIDE DEF s
      <3>2. /\ rest \in Seq(Tokens) /\ Len(rest) = n - s + 1
            /\ \A i \in 1 .. n - s + 1 : rest[i] = r[s + i - 1]
        BY <2>2, <3>1, RestIs
      <3> HIDE DEF n, rest
      <3>3. n - s + 1 = n /\ \A i \in 1 .. n : s + i - 1 = i
        BY <3>1
      <3>4. Len(rest) = n /\ \A i \in 1 .. n : rest[i] = r[i]
        BY <3>2, <3>3
      <3>5. r = rest
        BY <2>3, <3>2, <3>4, SeqEqual DEF n
      <3>6. QED
        BY <3>1, <3>5 DEF rest
    <2>6. InputOf(r, 1) = 0
      BY <2>3 DEF InputOf
    <2>7. DOMAIN ran' = {} /\ ran' \in Seq(Entries) /\ Taken(ran') = {}
      BY <1>1 DEF Entries, Taken
    <2>8. {k \in ZshRuns(r, ran') : k < 1} = {}
      <3> SUFFICES ASSUME NEW k \in ZshRuns(r, ran'), k < 1 PROVE FALSE
        OBVIOUS
      <3>1. k \in Commands(r)
        BY DEF ZshRuns
      <3>2. k \in 1 .. Len(r)
        BY <2>2, <3>1, ListIs
      <3>3. QED
        BY <3>2
    <2>9. 1 \in ZshRuns(r, ran')
      <3> DEFINE f == ListStatus(r, ran')
                 s == PipelineStatus(r, ran', f, 1)
      <3>1. f[1] = s
        BY <2>2, <2>3, StatusIs
      <3>2. Accepted(Operator(r, 1), StatusBefore(r, f, 1))
        BY <2>3 DEF Accepted
      <3> HIDE DEF f
      <3>3. s.runs
        BY <3>2, PartsOfStatus
      <3> HIDE DEF s
      <3>4. f[PipelineOf(r, 1)].runs
        BY <2>3, <3>1, <3>3
      <3>5. QED
        BY <2>3, <3>4 DEF ZshRuns, f
    <2>10. InOrder(r, ran')
      BY <2>7 DEF InOrder
    <2>11. RunsLikeZsh'
      BY <2>1, <2>7 DEF RunsLikeZsh, None
    <2>12. QED
      BY <1>1, <2>1, <2>2, <2>3, <2>4, <2>5, <2>6, <2>7, <2>8, <2>9, <2>10, <2>11
      DEF ListInv, Working
  <1>4. QED
    BY <1>2, <1>3

\* A step of the chain that leaves the list alone.
LEMMA ChainLikeZsh ==
  ASSUME ListInv, UNCHANGED <<request, remaining, stdin, ran>>,
         pc' \in Working => pc \in Working,
         pc' \notin Working \cup {"end"} => pc \notin Working \cup {"end"},
         \/ result' = result /\ (pc' # "end" => pc # "end")
         \/ result' \notin {"success", "failure"} /\ pc' = "end"
  PROVE  ListInv'
  <1>1. StepAt' = StepAt
    BY DEF StepAt
  <1>2. RunsLikeZsh'
    <2>1. CASE result' = result
      BY <2>1 DEF ListInv, RunsLikeZsh
    <2>2. CASE result' \notin {"success", "failure"}
      BY <2>2 DEF ListInv, RunsLikeZsh
    <2>3. QED
      BY <2>1, <2>2
  <1>3. QED
    BY <1>1, <1>2 DEF ListInv

\* Nothing was submitted yet.
LEMMA InitLikeZsh == Init => ListInv
  <1> SUFFICES ASSUME Init PROVE ListInv
    OBVIOUS
  <1>1. QED
    BY IdleIsList DEF Init, Working, None

\* Submitting begins a list, an executed step continues or ends it, and the rest
\* of the chain leaves it alone.
LEMMA StepLikeZsh == ListInv /\ [Next]_vars => ListInv'
  <1> SUFFICES ASSUME ListInv, [Next]_vars PROVE ListInv'
    OBVIOUS
  <1>1. CASE \E r \in Requests : SubmitCommand(r)
    BY <1>1, SubmitLikeZsh
  <1>2. CASE \E e \in Patches : SubmitPatch(e)
    BY <1>2, ChainLikeZsh DEF SubmitPatch, chainVars, Working
  <1>3. CASE PrepareStep
    BY <1>3, ChainLikeZsh DEF PrepareStep, chainVars, Working
  <1>4. CASE PreparePatch
    BY <1>4, ChainLikeZsh DEF PreparePatch, Working
  <1>5. CASE CheckPolicy
    BY <1>5, ChainLikeZsh DEF CheckPolicy, Denied, Allowed, IsPatch, Working
  <1>6. CASE \E agrees \in BOOLEAN : AskUser(agrees)
    BY <1>6, ChainLikeZsh DEF AskUser, Denied, Allowed, IsPatch, Working
  <1>7. CASE \E rc \in {0, 1, 124, 126, 127} : pc = "execute" /\ Continue(rc)
    BY <1>7, ContinueLikeZsh
  <1>8. CASE \E how : how \notin {"success", "failure"} /\ pc = "execute" /\ Finish(how)
    BY <1>8, ChainLikeZsh DEF Finish, Working
  <1>9. CASE RewriteFile \/ \E n \in 0 .. 2 : ReplaceText(n)
    BY <1>9, ChainLikeZsh DEF RewriteFile, ReplaceText, Patched, Working
  <1>10. CASE UNCHANGED vars
    BY <1>10, ChainLikeZsh DEF vars, chainVars
  <1>11. ReportStep \/ LaunchFails \/ RunCommand =>
           \/ \E rc \in {0, 1, 124, 126, 127} : pc = "execute" /\ Continue(rc)
           \/ \E how : how \notin {"success", "failure"} /\ pc = "execute" /\ Finish(how)
    BY DEF ReportStep, LaunchFails, RunCommand
  <1>12. QED
    BY <1>1, <1>2, <1>3, <1>4, <1>5, <1>6, <1>7, <1>8, <1>9, <1>10, <1>11 DEF Next, Terminated

\* Whatever the requests, the tree, the answers and the exit statuses: which
\* commands _continue_or_finish has run and where each one's input came from is
\* what zsh does with the list, and so is the result.
THEOREM ListsRunLikeZsh == Spec => []RunsLikeZsh
  <1>1. ListInv => RunsLikeZsh
    BY DEF ListInv
  <1>2. QED
    BY InitLikeZsh, StepLikeZsh, <1>1, PTL DEF Spec
=============================================================================
