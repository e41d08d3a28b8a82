------------------------------- MODULE FileTree -------------------------------
(***************************************************************************)
(* What a file command needs and what it does, as functions of a directory *)
(* tree: shed/tools/cli_commands/ (paths.py, tokens.py, commands/*.py).    *)
(*                                                                         *)
(* A tree maps the paths that exist to their kind; a path is the sequence  *)
(* of its names.  A path operand that ends in "*" is a pattern, with "**"  *)
(* before it when it is recursive.  Each command has three operators: is   *)
(* the request accepted, which operations it must be granted (both         *)
(* translated from its prepare function), and, external to the repository, *)
(* what the native program then does.                                      *)
(***************************************************************************)
EXTENDS Naturals, Sequences, FiniteSets, SequencesExt, TLC

CONSTANTS
    Base,       \* the working directory of the commands
    Hidden,     \* names that start with a dot
    IgnoreNames \* .gitignore, .ignore, .rgignore

ASSUME IgnoreAssumption == IgnoreNames \subseteq Hidden

Kinds == {"file", "hard", "dir", "link"}
Kind(fs, p) == IF p \in DOMAIN fs THEN fs[p] ELSE IF p = <<>> THEN "dir" ELSE "none"
Parent(p) == Front(p)
Related(p, q) == IsPrefix(p, q) \/ IsPrefix(q, p)
Below(fs, p) == {q \in DOMAIN fs : IsPrefix(p, q)}
Above(p) == {SubSeq(p, 1, n) : n \in 1 .. Len(p) - 1}
Parents(p) == {<<>>} \cup Above(p) \* with the root of the file system
Ops(op, ps) == {<<op, p>> : p \in ps}

IsTree(fs) == \A p \in DOMAIN fs : \A q \in Above(p) : Kind(fs, q) = "dir"

-----------------------------------------------------------------------------
(* paths.py                                                                 *)

\* _reject_symlink_components and inspect_entry_path.
HasLink(fs, p) == \E q \in Above(p) \cup {p} : Kind(fs, q) = "link"
LinkParent(fs, p) == \E q \in Above(p) : Kind(fs, q) = "link"
\* A component below a file makes stat fail with something else than "missing".
FileParent(fs, p) == \E q \in Above(p) : Kind(fs, q) \in {"file", "hard"}

\* expand_source_path: what an operand names.  A pattern selects visible
\* entries, one without a match is an error, and a link that matches is one
\* too unless the command may take links (deletions).
IsPattern(o) == Last(o) = "*"
PatternRoot(o) == SelectSeq(o, LAMBDA n : n \notin {"*", "**"})
Matches(fs, o) ==
    IF ~IsPattern(o) THEN {o}
    ELSE LET root == PatternRoot(o)
         IN {p \in DOMAIN fs :
                /\ IsStrictPrefix(root, p)
                /\ "**" \in Range(o) \/ Len(p) = Len(root) + 1
                /\ \A i \in Len(root) + 1 .. Len(p) : p[i] \notin Hidden}
Expandable(fs, o, links) ==
    IsPattern(o) => /\ ~HasLink(fs, PatternRoot(o))
                    /\ Matches(fs, o) # {}
                    /\ links \/ \A p \in Matches(fs, o) : fs[p] # "link"

\* The operands of a command after expansion, with the operand they come from.
Expanded(fs, args) == UNION {{i} \X Matches(fs, args[i]) : i \in DOMAIN args}
Named(fs, args) == {x[2] : x \in Expanded(fs, args)}
AllExpandable(fs, args, links) == \A i \in DOMAIN args : Expandable(fs, args[i], links)
AllLiteral(args) == \A i \in DOMAIN args : ~IsPattern(args[i])

-----------------------------------------------------------------------------
(* tokens.py: the options a command takes (the ones that change what it     *)
(* needs; "-v" stands for the others), and the shape of its arguments.  A   *)
(* token has a tag and a value, which is a path where the tag is PTH.  An   *)
(* option is a flag, or one of the words that a command takes as an ARG.    *)

Token(v, tag) == [v |-> v, tag |-> tag, at |-> <<>>]
PathToken(p) == [v |-> "path", tag |-> "PTH", at |-> p]
NoToken == Token("none", "none")

NoTakes == [o \in {} |-> "PTH"]
Rules(opts, takes, pairs, tags) ==
    [opts |-> opts \cup {"-v", "--"}, words |-> {}, takes |-> takes, pairs |-> pairs, tags |-> tags]
TransferTokens(extra) == Rules({"-t", "-T"} \cup extra, "-t" :> "PTH", {{"-t", "-T"}}, {"PTH"})
ReadTokens == Rules({}, NoTakes, {}, {"PTH", "ARG"})
SearchTokens(extra, pairs) == Rules(extra, NoTakes, pairs, {"PTH", "ARG"})

CP == TransferTokens({"-R"})
MV == TransferTokens({})
RM == Rules({"-r"}, NoTakes, {}, {"PTH"})
GIO == [Rules({}, NoTakes, {}, {"PTH"}) EXCEPT !.opts = {}, !.words = {"trash"}]
MKDIR == Rules({"-p"}, NoTakes, {}, {"PTH"})
TOUCH == Rules({"-c", "-r"}, "-r" :> "PTH", {}, {"PTH", "ARG"})
TEE == Rules({"-a"}, NoTakes, {}, {"PTH", "ARG"})
CAT == ReadTokens
WC == ReadTokens
HEAD == Rules({"-n", "-c"}, "-n" :> "ARG" @@ "-c" :> "ARG", {{"-n", "-c"}}, {"PTH", "ARG"})
TAIL == HEAD
DIFF == Rules({}, NoTakes, {}, {"PTH"})
GREP == SearchTokens({"-r", "-R"}, {{"-r", "-R"}})
RG == SearchTokens({"--no-ignore"}, {})
LS == [Rules({}, NoTakes, {}, {"PTH", "FLG"}) EXCEPT !.opts = {}]
FIND == [Rules({}, NoTakes, {}, {"PTH", "FLG", "ARG"}) EXCEPT !.opts = {}]
PWD == Rules({"-P"}, NoTakes, {}, {})
COMMANDS ==
    [cp |-> CP, mv |-> MV, rm |-> RM, gio |-> GIO, mkdir |-> MKDIR, touch |-> TOUCH,
     tee |-> TEE, cat |-> CAT, wc |-> WC, head |-> HEAD, tail |-> TAIL, diff |-> DIFF,
     grep |-> GREP, rg |-> RG, ls |-> LS, find |-> FIND, pwd |-> PWD]

\* _matching_rule: the tag of a token decides, its text alone never does.
IsOption(spec, t) ==
    \/ t.tag = "FLG" /\ t.v \in spec.opts
    \/ t.tag = "ARG" /\ t.v \in spec.words
\* _parse_arguments, one token at a time.
ParseToken(spec, acc, t) ==
    IF acc.want # "none"
    THEN [acc EXCEPT !.ok = @ /\ t.tag = acc.want /\ t.tag \in spec.tags,
                     !.value = t, !.want = "none"]
    ELSE IF IsOption(spec, t)
    THEN [acc EXCEPT !.ok = @ /\ acc.operands = <<>> /\ ~acc.ended /\ t.v \notin acc.opts,
                     !.opts = @ \cup {t.v},
                     !.ended = (t.v = "--"),
                     !.want = IF t.v \in DOMAIN spec.takes THEN spec.takes[t.v] ELSE "none"]
    ELSE [acc EXCEPT !.ok = @ /\ t.tag \in spec.tags, !.operands = Append(@, t)]
Parsed(name, tokens) ==
    LET parse == FoldLeft(LAMBDA acc, t : ParseToken(COMMANDS[name], acc, t),
                          [ok |-> TRUE, opts |-> {}, operands |-> <<>>,
                           value |-> NoToken, ended |-> FALSE, want |-> "none"],
                          tokens)
    IN [name |-> name, ok |-> parse.ok /\ parse.want = "none", opts |-> parse.opts,
        operands |-> parse.operands, value |-> parse.value]
\* validate_tokens.
Valid(c) == /\ c.ok
            /\ \A pair \in COMMANDS[c.name].pairs : ~(pair \subseteq c.opts)

Tagged(c, tag) == SelectSeq(c.operands, LAMBDA t : t.tag = tag)
PathArgs(c) == [i \in 1 .. Len(Tagged(c, "PTH")) |-> Tagged(c, "PTH")[i].at]

-----------------------------------------------------------------------------
(* commands/writers.py and search.py                                        *)

\* inspect_file_path: no link on the way, no special file, no second name.
Inspectable(fs, p) ==
    ~HasLink(fs, p) /\ ~FileParent(fs, p) /\ Kind(fs, p) \in {"none", "file", "dir"}
\* write_operations.
Writable(fs, p, allowDir, noCreate, createParents) ==
    /\ Inspectable(fs, p)
    /\ Kind(fs, p) = "none" /\ ~noCreate => createParents \/ Kind(fs, Parent(p)) = "dir"
    /\ Kind(fs, p) = "dir" => allowDir
WriteOps(fs, p) ==
    {<<"CREATE", p>>} \cup (IF Kind(fs, p) = "file" THEN Ops("READ", {p}) \cup Ops("DELETE", {p}) ELSE {})
\* search_path.
Searchable(fs, p) == Inspectable(fs, p) /\ Kind(fs, p) # "none"

-----------------------------------------------------------------------------
(* commands/transfers.py: cp and mv                                         *)

\* _transfer_arguments: the destination and the sources of each form.
Destination(c) == IF "-t" \in c.opts THEN c.value.at ELSE Last(PathArgs(c))
Sources(fs, c) == Expanded(fs, IF "-t" \in c.opts THEN PathArgs(c) ELSE Front(PathArgs(c)))
SourceSet(fs, c) == {x[2] : x \in Sources(fs, c)}
Into(fs, c) == Kind(fs, Destination(c)) = "dir" /\ "-T" \notin c.opts
Target(fs, c, s) == IF Into(fs, c) THEN Append(Destination(c), Last(s)) ELSE Destination(c)
\* expand_transfers: every source and the entries below it, with their new place.
Transfers(fs, c) ==
    UNION {{<<s, Target(fs, c, s)>>}
           \cup {<<e, Target(fs, c, s) \o SubSeq(e, Len(s) + 1, Len(e))>> : e \in Below(fs, s) \ {s}}
           : s \in SourceSet(fs, c)}

SourceOk(fs, s) == ~HasLink(fs, s) /\ Kind(fs, s) \in {"file", "dir"}
\* _validate_transfer_target: a target of the same kind that is no source.
TargetOk(fs, s, t, sources) ==
    Kind(fs, t) = "none" \/ (Kind(fs, t) = Kind(fs, s) /\ t \notin sources)
\* _validate_transfer_overlap.
NoOverlap(fs, c) ==
    LET sources == SourceSet(fs, c)
        target(s) == Target(fs, c, s)
    IN /\ \A x, y \in Sources(fs, c) : x[2] = y[2] => x = y
       /\ \A s, r \in sources : s # r => ~Related(target(s), target(r))
       /\ \A s, r \in sources : ~Related(s, target(r))
TransferOk(fs, c) ==
    LET args == PathArgs(c) IN
    /\ Len(args) >= (IF "-t" \in c.opts THEN 1 ELSE 2)
    /\ ~IsPattern(Destination(c))
    /\ AllExpandable(fs, IF "-t" \in c.opts THEN args ELSE Front(args), FALSE)
    /\ "-T" \in c.opts => Cardinality(Sources(fs, c)) = 1
    /\ ~HasLink(fs, Destination(c))
    /\ "-t" \in c.opts \/ Cardinality(Sources(fs, c)) > 1 => Kind(fs, Destination(c)) = "dir"
    /\ \A s \in SourceSet(fs, c) :
        /\ SourceOk(fs, s)
        /\ Kind(fs, Parent(Target(fs, c, s))) = "dir"
        /\ TargetOk(fs, s, Target(fs, c, s), SourceSet(fs, c))
    /\ NoOverlap(fs, c)
    /\ \A x \in Transfers(fs, c) :
        SourceOk(fs, x[1]) /\ TargetOk(fs, x[1], x[2], {y[1] : y \in Transfers(fs, c)})
CpOk(fs, c) ==
    TransferOk(fs, c) /\ ("-R" \in c.opts \/ \A s \in SourceSet(fs, c) : Kind(fs, s) = "file")
MvOk(fs, c) ==
    TransferOk(fs, c) /\ \A s \in SourceSet(fs, c) :
        Kind(fs, Target(fs, c, s)) = "dir" => Below(fs, Target(fs, c, s)) = {Target(fs, c, s)}
\* _prepared_transfer, and as if an overwritten target needed no grant of its own.
TransferOpsNoOverwrite(fs, c, sourceOp) ==
    UNION {{<<sourceOp, x[1]>>, <<"CREATE", x[2]>>} : x \in Transfers(fs, c)}
TransferOps(fs, c, sourceOp) ==
    UNION {{<<sourceOp, x[1]>>, <<"CREATE", x[2]>>}
           \cup (IF Kind(fs, x[2]) \notin {"none", "dir"} \/ (Kind(fs, x[2]) = "dir" /\ sourceOp = "DELETE")
                 THEN {<<"READ", x[2]>>, <<"DELETE", x[2]>>} ELSE {})
           : x \in Transfers(fs, c)}

-----------------------------------------------------------------------------
(* The other commands: what each accepts and what each needs.               *)

\* deletions.py: every named entry, with its contents when recursive.
DeleteOk(fs, c) ==
    /\ AllExpandable(fs, PathArgs(c), TRUE)
    /\ \A p \in Named(fs, PathArgs(c)) : ~LinkParent(fs, p)
DeleteOps(fs, c, recursive) ==
    Ops("DELETE", UNION {IF recursive THEN {p} \cup Below(fs, p) ELSE {p} : p \in Named(fs, PathArgs(c))})

\* mkdir.py: _directory_operations.
MkdirOk(fs, c) ==
    /\ PathArgs(c) # <<>> /\ AllLiteral(PathArgs(c))
    /\ \A p \in Range(PathArgs(c)) : \A q \in Above(p) \cup {p} : Kind(fs, q) \in {"none", "dir"}
MkdirOps(fs, c) ==
    Ops("CREATE", UNION {{p} \cup {q \in Above(p) : "-p" \in c.opts /\ Kind(fs, q) = "none"}
                         : p \in Range(PathArgs(c))})

TeeOk(fs, c) ==
    /\ \A i \in DOMAIN c.operands : c.operands[i].tag = "ARG" => i = 1
    /\ AllLiteral(PathArgs(c))
    /\ \A p \in Range(PathArgs(c)) : Writable(fs, p, FALSE, FALSE, FALSE)
TouchOk(fs, c) ==
    /\ PathArgs(c) # <<>> /\ Tagged(c, "ARG") = <<>>
    /\ "-r" \in c.opts => ~IsPattern(c.value.at) /\ Searchable(fs, c.value.at)
    /\ AllExpandable(fs, PathArgs(c), FALSE)
    /\ \A p \in Named(fs, PathArgs(c)) : Writable(fs, p, TRUE, "-c" \in c.opts, FALSE)
TouchOps(fs, c) ==
    (IF "-r" \in c.opts THEN {<<"READ", c.value.at>>} ELSE {})
    \cup UNION {WriteOps(fs, p) : p \in Named(fs, PathArgs(c))}

\* readers.py: existing regular files, and "-" for stdin.
ReadOk(fs, c) ==
    /\ \A t \in Range(Tagged(c, "ARG")) : t.v = "-"
    /\ AllExpandable(fs, PathArgs(c), FALSE)
    /\ \A p \in Named(fs, PathArgs(c)) : ~HasLink(fs, p) /\ Kind(fs, p) = "file"
CountedReadOk(fs, c) == ReadOk(fs, c) /\ ({"-n", "-c"} \cap c.opts # {} => c.value.v \in {"1", "2"})
DiffOk(fs, c) == ReadOk(fs, c) /\ Cardinality(Expanded(fs, PathArgs(c))) = 2
ReadOps(fs, c) == Ops("READ", Named(fs, PathArgs(c)))

\* search.py, grep.py and rg.py: the first operand is the pattern.  The
\* entries of a tree that are searched are its directories and its files.
SearchArgsOk(fs, c) ==
    /\ c.operands # <<>> /\ c.operands[1].tag = "ARG"
    /\ \A t \in Range(Tail(c.operands)) : t.tag = "ARG" => t.v = "-"
    /\ AllExpandable(fs, PathArgs(c), FALSE)
    /\ \A p \in Named(fs, PathArgs(c)) : Searchable(fs, p)
SearchedIn(fs, p, follow) == {p} \cup {q \in Below(fs, p) : follow \/ fs[q] # "link"}
GrepRoots(fs, c) ==
    IF Len(c.operands) = 1 /\ {"-r", "-R"} \cap c.opts # {} THEN {Base} ELSE Named(fs, PathArgs(c))
GrepReads(fs, c) == UNION {SearchedIn(fs, p, "-R" \in c.opts) : p \in GrepRoots(fs, c)}
GrepOk(fs, c) ==
    /\ SearchArgsOk(fs, c)
    /\ \A p \in GrepRoots(fs, c) : Kind(fs, p) = "dir" => {"-r", "-R"} \cap c.opts # {}
    /\ \A q \in GrepReads(fs, c) : Searchable(fs, q)
RgRoots(fs, c) == {p \in Named(fs, PathArgs(c)) : Kind(fs, p) = "dir"}
RgTree(fs, c) == UNION {SearchedIn(fs, p, FALSE) : p \in RgRoots(fs, c)}
\* _ignore_files: in every directory of the trees and above their roots.
RgIgnoreFiles(fs, c) ==
    IF "--no-ignore" \in c.opts THEN {}
    ELSE {p \in DOMAIN fs : /\ Last(p) \in IgnoreNames /\ fs[p] # "dir"
                            /\ \/ Parent(p) \in RgTree(fs, c)
                               \/ \E r \in RgRoots(fs, c) : Parent(p) \in Parents(r)}
RgOk(fs, c) ==
    /\ SearchArgsOk(fs, c)
    /\ \A q \in RgTree(fs, c) \cup RgIgnoreFiles(fs, c) : Searchable(fs, q)
RgOps(fs, c) ==
    Ops("READ", {p \in Named(fs, PathArgs(c)) : Kind(fs, p) = "file"}
                \cup RgTree(fs, c) \cup RgIgnoreFiles(fs, c))

\* ls.py and find.py: explicit operands only, the base when there are none.
\* Both parse their own flags, which the token rules take as operands: ls ends
\* its flags at "--", and find has "-P" or "--", its roots, then an expression
\* ("-name" stands for the predicates that take an ARG).
LsFlagsOk(ts) ==
    \A i, j \in DOMAIN ts : i < j /\ ts[i] = Token("--", "FLG") => ts[j].tag # "FLG"
FindLeading == {Token("-P", "FLG"), Token("--", "FLG")}
FindValue == Token("-name", "FLG")
FindShapeOk(ts) ==
    \E roots \in 0 .. Len(ts) : \E expr \in roots .. Len(ts) :
        /\ \A i \in 1 .. roots : ts[i] \in FindLeading
        /\ \A i \in roots + 1 .. expr : ts[i].tag = "PTH"
        /\ \A i \in expr + 1 .. Len(ts) :
            \/ /\ ts[i].tag = "FLG" /\ ts[i] \notin FindLeading
               /\ ts[i] = FindValue => i < Len(ts) /\ ts[i + 1].tag = "ARG"
            \/ ts[i].tag = "ARG" /\ i > expr + 1 /\ ts[i - 1] = FindValue
ListOk(fs, c) ==
    /\ IF c.name = "ls" THEN LsFlagsOk(c.operands) ELSE FindShapeOk(c.operands)
    /\ AllExpandable(fs, PathArgs(c), FALSE)
    /\ \A p \in Named(fs, PathArgs(c)) : Inspectable(fs, p)
ListOps(fs, c) ==
    Ops("READ", IF PathArgs(c) = <<>> THEN {Base} ELSE Named(fs, PathArgs(c)))

\* prepare_command of each CommandSpec.
Accepts(fs, c) ==
    CASE c.name = "cp" -> CpOk(fs, c)
      [] c.name = "mv" -> MvOk(fs, c)
      [] c.name = "rm" -> DeleteOk(fs, c)
      [] c.name = "gio" -> "trash" \in c.opts /\ DeleteOk(fs, c)
      [] c.name = "mkdir" -> MkdirOk(fs, c)
      [] c.name = "touch" -> TouchOk(fs, c)
      [] c.name = "tee" -> TeeOk(fs, c)
      [] c.name \in {"cat", "wc"} -> ReadOk(fs, c)
      [] c.name \in {"head", "tail"} -> CountedReadOk(fs, c)
      [] c.name = "diff" -> DiffOk(fs, c)
      [] c.name = "grep" -> GrepOk(fs, c)
      [] c.name = "rg" -> RgOk(fs, c)
      [] c.name \in {"ls", "find"} -> ListOk(fs, c)
      [] c.name = "pwd" -> TRUE
Requires(fs, c) ==
    CASE c.name = "cp" -> TransferOps(fs, c, "READ")
      [] c.name = "mv" -> TransferOps(fs, c, "DELETE")
      [] c.name = "rm" -> DeleteOps(fs, c, "-r" \in c.opts)
      [] c.name = "gio" -> IF PathArgs(c) = <<>> THEN {<<"DELETE", Base>>} ELSE DeleteOps(fs, c, TRUE)
      [] c.name = "mkdir" -> MkdirOps(fs, c)
      [] c.name = "touch" -> TouchOps(fs, c)
      [] c.name = "tee" -> UNION {WriteOps(fs, p) : p \in Range(PathArgs(c))}
      [] c.name \in {"cat", "wc", "head", "tail", "diff"} -> ReadOps(fs, c)
      [] c.name = "grep" -> Ops("READ", GrepReads(fs, c))
      [] c.name = "rg" -> RgOps(fs, c)
      [] c.name \in {"ls", "find"} -> ListOps(fs, c)
      [] c.name = "pwd" -> {<<"READ", Base>>}

-----------------------------------------------------------------------------
(* External: what the native program does.  It works in units that happen   *)
(* whole or not at all; a unit does operations, makes entries and drops     *)
(* some.  Reading a link reads whatever it points to, outside the tree.     *)

Elsewhere == <<"elsewhere">>
Unit(does, make, drop) == [does |-> does, make |-> make, drop |-> drop]
Reading(fs, ps) ==
    Unit(Ops("READ", {p \in ps : Kind(fs, p) # "link"}
                     \cup (IF \E p \in ps : Kind(fs, p) = "link" THEN {Elsewhere} ELSE {})), <<>>, {})
\* Writing a file over another one loses what it held.
Writing(fs, p, kind) ==
    Unit(IF Kind(fs, p) = "link" THEN {<<"CREATE", Elsewhere>>}
         ELSE {<<"CREATE", p>>} \cup (IF Kind(fs, p) # "none" THEN {<<"READ", p>>, <<"DELETE", p>>} ELSE {}),
         [q \in {p} |-> kind], {})
Dropping(ps) == Unit(Ops("DELETE", ps), <<>>, ps)

NativeReads(fs, c) ==
    CASE c.name \in {"cat", "wc", "head", "tail", "diff"} -> Named(fs, PathArgs(c))
      [] c.name = "grep" -> GrepRoots(fs, c) \cup
            {q \in UNION {Below(fs, p) : p \in GrepRoots(fs, c)} : "-R" \in c.opts \/ fs[q] # "link"}
      [] c.name = "rg" ->
            LET roots == {p \in Named(fs, PathArgs(c)) : Kind(fs, p) = "dir"}
                found == Named(fs, PathArgs(c))
                         \cup {q \in UNION {Below(fs, p) : p \in roots} : fs[q] # "link"}
                dirs == {q \in found : Kind(fs, q) = "dir"}
            IN found \cup {i \in DOMAIN fs :
                    /\ dirs # {} /\ Last(i) \in IgnoreNames /\ "--no-ignore" \notin c.opts /\ fs[i] # "dir"
                    /\ Parent(i) \in dirs \cup UNION {Parents(p) : p \in roots}}
      [] c.name \in {"ls", "find"} -> IF PathArgs(c) = <<>> THEN {Base} ELSE Named(fs, PathArgs(c))
      [] OTHER -> {Base}
NativeCopies(fs, c) ==
    {IF Kind(fs, x[1]) = "dir" /\ Kind(fs, x[2]) = "dir" THEN Reading(fs, {x[1]})
     ELSE [Writing(fs, x[2], Kind(fs, x[1])) EXCEPT !.does = @ \cup Reading(fs, {x[1]}).does]
     : x \in Transfers(fs, c)}
\* A rename takes the tree with it and replaces the target, which is a file or
\* a directory without contents.
NativeMoves(fs, c) ==
    {LET moved == {x \in Transfers(fs, c) : IsPrefix(s, x[1]) /\ IsPrefix(Target(fs, c, s), x[2])}
         gone == {x[1] : x \in moved}
         made == {x[2] : x \in moved}
         lost == {t \in {Target(fs, c, s)} : Kind(fs, t) # "none"}
     IN Unit(Ops("DELETE", gone) \cup Ops("CREATE", made) \cup Ops("READ", lost) \cup Ops("DELETE", lost),
             [t \in made |-> Kind(fs, CHOOSE e \in gone : <<e, t>> \in moved)], gone)
     : s \in {s \in SourceSet(fs, c) : \A r \in SourceSet(fs, c) : ~IsStrictPrefix(r, s)}}
Native(fs, c) ==
    LET named == Named(fs, PathArgs(c)) IN
    CASE c.name = "cp" -> NativeCopies(fs, c)
      [] c.name = "mv" -> NativeMoves(fs, c)
      [] c.name = "rm" ->
            {Dropping({p}) : p \in IF "-r" \in c.opts THEN UNION {Below(fs, q) : q \in named}
                                   ELSE {p \in named \cap DOMAIN fs : fs[p] # "dir"}}
      [] c.name = "gio" -> {Dropping(Below(fs, p)) : p \in named}
      [] c.name = "mkdir" ->
            {Writing(fs, q, "dir") : q \in {q \in UNION {Above(p) \cup {p} : p \in named} :
                Kind(fs, q) = "none" /\ ("-p" \in c.opts \/ q \in named)}}
      [] c.name = "touch" ->
            {IF Kind(fs, p) = "dir" THEN Unit({<<"CREATE", p>>}, <<>>, {}) ELSE Writing(fs, p, "file")
             : p \in {p \in named : Kind(fs, p) # "none" \/ "-c" \notin c.opts}}
            \cup (IF "-r" \in c.opts THEN {Reading(fs, {c.value.at})} ELSE {})
      [] c.name = "tee" -> {Writing(fs, p, "file") : p \in named}
      [] OTHER -> {Reading(fs, NativeReads(fs, c))}

\* The tree and the operations after some units of a command happened.
After(fs, units) ==
    LET made == UNION {DOMAIN u.make : u \in units}
        gone == UNION {u.drop : u \in units}
    IN [p \in made \cup (DOMAIN fs \ gone) |->
            IF p \in made THEN (CHOOSE u \in units : p \in DOMAIN u.make).make[p] ELSE fs[p]]
Done(units) == UNION {u.does : u \in units}
=============================================================================
