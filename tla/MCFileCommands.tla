---------------------------- MODULE MCFileCommands ----------------------------
(* A sandbox w with a project p, a shared area s and a read-only r, and a    *)
(* path outside it.  All commands with their operands over these places.    *)
EXTENDS FileCommands

MCBase == <<"w">>
MCHidden == {".ignore"}
P == <<"w", "p">>
S == <<"w", "s">>
R == <<"w", "r">>
O == <<"o">>
PA == Append(P, "a")
PB == Append(P, "b")
PAC == Append(PA, "c")
SA == Append(S, "a")
RF == Append(R, "f")
PI == Append(P, ".ignore")
Stars == {Append(P, "*"), P \o <<"**", "*">>}

Fixed == <<"w">> :> "dir" @@ P :> "dir" @@ S :> "dir" @@ R :> "dir" @@ RF :> "file" @@ O :> "file"
Variants(p, kinds) == {<<>>} \cup {p :> k : k \in kinds}
MCTrees ==
    {Fixed @@ a @@ b @@ s :
        a \in Variants(PA, {"file", "link"}) \cup {PA :> "dir" @@ c : c \in Variants(PAC, {"file", "link"})},
        b \in Variants(PB, {"file", "hard", "dir"}) \cup {PI :> "file", PB :> "dir" @@ PI :> "link"},
        s \in Variants(SA, {"file", "dir"})}
    \cup {Fixed @@ PA :> "dir" @@ <<".ignore">> :> "file"}

All == {"READ", "CREATE", "DELETE"}
MCPolicies ==
    {SandboxPolicy(<<"w">>, P, S),
     [SandboxPolicy(<<"w">>, P, S) EXCEPT !.pipe = FALSE],
     [allow |-> {Rule(<<"w">>, TRUE, All)},
      deny |-> {Rule(PA, FALSE, {"DELETE"}), Rule(PAC, FALSE, All), Rule(PI, FALSE, All)},
      ask |-> {Rule(PB, FALSE, Writes), Rule(PA, FALSE, Writes)},
      default |-> "deny", precedence |-> "deny", pipe |-> TRUE],
     [allow |-> {}, deny |-> {Rule(S, TRUE, All)}, ask |-> {Rule(SA, FALSE, All)},
      default |-> "allow", precedence |-> "deny", pipe |-> TRUE]}

Cmd(name, flags, words, paths) ==
    <<Token(name, "CMD")>> \o flags \o words \o [i \in DOMAIN paths |-> PathToken(paths[i])]
Flag(f) == <<Token(f, "FLG")>>
Word(a) == <<Token(a, "ARG")>>
Places == {PA, PB, PAC, SA, RF} \cup Stars

Transferring ==
    {Cmd(n, <<>>, <<>>, <<a, b>>) : n \in {"cp", "mv"}, a \in Places, b \in {PB, S, SA, O, PAC}}
    \cup {Cmd("mv", Flag("-T"), <<>>, <<a, b>>) : a \in Places, b \in {PB, SA}}
    \cup {Cmd("cp", Flag("-R"), <<>>, <<a, b>>) : a \in Places \cup {P}, b \in {PB, S, SA, R}}
    \cup {Cmd(n, f \o <<PathToken(S)>>, <<>>, x) : n \in {"cp", "mv"}, f \in {Flag("-t")},
          x \in {<<PA, PB>>, <<PA, PAC>>, <<PA, PA>>}}
Creating ==
    {Cmd("tee", f, w, <<a>>) : f \in {<<>>, Flag("-a")}, w \in {<<>>, Word("text")}, a \in Places \cup {O}}
    \cup {Cmd("touch", f, <<>>, <<a>>) : f \in {<<>>, Flag("-c"), Flag("-r") \o <<PathToken(RF)>>}, a \in Places}
    \cup {Cmd("mkdir", f, <<>>, <<a>>) : f \in {<<>>, Flag("-p")}, a \in {PA, PAC, Append(PB, "d"), Append(SA, "d")}}
    \cup {Cmd("mkdir", <<>>, <<>>, <<PB, Append(PB, "d")>>)}
Deleting ==
    {Cmd("rm", f, <<>>, <<a>>) : f \in {<<>>, Flag("-r")}, a \in Places \cup {P, O}}
    \cup {Cmd("gio", Word("trash"), <<>>, x) : x \in {<<PA>>, <<SA>>, <<>>, <<Append(P, "*")>>}}
    \cup {Cmd("gio", <<>>, <<>>, <<PA>>)}
Looking ==
    {Cmd(n, <<>>, w, <<a>>) : n \in {"cat", "wc"}, w \in {<<>>, Word("-")}, a \in Places \cup {O}}
    \cup {Cmd(n, Flag("-n") \o Word(v), <<>>, <<PA>>) : n \in {"head", "tail"}, v \in {"1", "x"}}
    \cup {Cmd("diff", <<>>, <<>>, <<a, b>>) : a \in {PA, Append(P, "*")}, b \in {PB, SA}}
    \cup {Cmd("grep", f, Word("text"), x) : f \in {<<>>, Flag("-r"), Flag("-R")}, x \in {<<PA>>, <<P>>, <<>>}}
    \cup {Cmd("rg", f, Word("text"), x) : f \in {<<>>, Flag("--no-ignore")}, x \in {<<PA>>, <<PB>>, <<P, RF>>, <<>>}}
    \cup {Cmd(n, <<>>, <<>>, x) : n \in {"ls", "find"}, x \in {<<>>, <<PA>>, <<Append(P, "*")>>}}
    \cup {Cmd("pwd", f, <<>>, <<>>) : f \in {<<>>, Flag("-P")}}
    \cup {Cmd("cat", Flag("-v") \o Flag("-v"), <<>>, <<PA>>), Cmd("cat", <<>>, <<Token("-v", "FLG")>>, <<PA>>),
          Cmd("cat", Word("-v"), <<>>, <<PA>>), Cmd("gio", Flag("trash"), <<>>, <<PA>>)}
    \cup {Cmd("ls", f \o <<PathToken(PA)>>, g, <<>>) : f \in {Flag("-a"), Flag("--")}, g \in {<<>>, Flag("-a")}}
    \cup {Cmd("find", f, <<PathToken(PA)>> \o g, <<>>) :
            f \in {<<>>, Flag("-P")}, g \in {Flag("-name") \o Word("a"), Flag("-name"), Word("a"), Flag("-P")}}
Join(a, op, b) == a \o <<Token(op, "CTL")>> \o b
Write(p) == Cmd("tee", <<>>, Word("text"), <<p>>)
Read(p) == Cmd("cat", <<>>, <<>>, <<p>>)
Feed(p) == Cmd("tee", <<>>, <<>>, <<p>>)
Lists ==
    {Join(Read(PA), op, Join(Feed(PB), op2, Read(RF))) : op \in {"&&", "||", "|"}, op2 \in {"&&", "|", ";"}}
    \cup {Join(Read(PA), "&&", Join(Read(RF), "|", Join(Cmd("wc", <<>>, <<>>, <<>>), "||", Cmd("pwd", <<>>, <<>>, <<>>)))),
          Join(Cmd("rm", Flag("-r"), <<>>, <<PA>>), "&&", Write(PAC)),
          Join(Cmd("mv", <<>>, <<>>, <<PA, SA>>), ";", Cmd("cp", Flag("-R"), <<>>, <<S, PB>>)),
          Join(Read(PA), "|", <<>>), Read(PA) \o Read(PB), Word("text") \o Read(PA)}
MCRequests == Lists \cup Transferring \cup Creating \cup Deleting \cup Looking

MCPatches == {[path |-> p, old |-> o, all |-> a] :
    p \in {PA, PAC, SA, S \o <<"n", "f">>, O, Append(P, "*")}, o \in {"empty", "text"}, a \in BOOLEAN}
=============================================================================
