---------------------------- MODULE MCConversation ----------------------------
(* A context of 10 tokens.  The second prefix leaves a summary no room.      *)
EXTENDS Conversation

System(n) == Message("system", n, 0, DEFAULT)
Startup(n) == Message("startup", n, 2, DEFAULT)
MCBoots == {<<System(4), Startup(2)>>, <<System(20), Startup(6)>>, <<System(30), Startup(10)>>}
MCNewMessages ==
    {Message("text", 10, 0, DEFAULT), Message("output", 14, 3, GRADED), Message("error", 30, 0, ERROR_RETRY)}
=============================================================================
