----------------------------- MODULE SafeScripts -----------------------------
(***************************************************************************)
(* shed/tools/safe_scripts: trusted scripts run through the socket service *)
(* (server.py), the client that asks for them (client.py) and the framed   *)
(* protocol between the two (protocol.py).                                 *)
(*                                                                         *)
(* A request is one call of run_shell_script, or one health check, with    *)
(* its connection.  The main thread of the service accepts connections up  *)
(* to a limit; every accepted one has a session thread that drives the     *)
(* generator Scripts.events.  One execution gate lets one script run at a  *)
(* time.  A script is a process group: its leader, other members that may  *)
(* outlive the leader, and the output pipe any of them may hold open.      *)
(*                                                                         *)
(* A chunk of output stands for whole characters and for one frame, so the *)
(* decoder's tail belongs to the last chunk.  SIGKILL is taken to be       *)
(* immediate.  Processes that leave their group are out of the service's   *)
(* reach and of this model.                                                *)
(***************************************************************************)
EXTENDS Integers, Sequences, FiniteSets

CONSTANTS
    Requests,   \* the requests made, one element per call
    Asks,       \* the kinds each request may be of
    Slots,      \* MAX_CONNECTIONS
    Limit,      \* max_output_bytes, in chunks; also the entries a listing may have
    Buffer      \* the frames a socket holds before a send blocks

Kinds == {"run", "list", "bad", "probe"}
NoOne == "no one"

ASSUME RequestsAssumption == IsFiniteSet(Requests) /\ NoOne \notin Requests
ASSUME AsksAssumption == Asks \in [Requests -> SUBSET Kinds]
ASSUME SlotsAssumption == Slots \in Nat \ {0}
ASSUME LimitAssumption == Limit \in Nat \ {0}
ASSUME BufferAssumption == Buffer \in Nat \ {0}

VARIABLES
    client,     \* the request: where it is, its kind and result, its local state
    link,       \* its connection: both ends, the request frame and the replies
    session,    \* its session thread and the generator it drives
    group,      \* the process group of its script
    lock,       \* execution_lock: who holds it
    free,       \* the value of the slots semaphore
    leaked,     \* slots whose session thread never started
    stopping,   \* the stopping event
    serve       \* the main thread: "accepting", "joining" or "down"

service == <<lock, free, leaked, stopping, serve>>
vars == <<client, link, session, group, service>>

(* Completed.status, and what a session keeps when there is nothing to say. *)
Statuses == {"success", "failed", "timeout", "output_limit", "busy", "refused", "listed"}
Silent == {"cancelled"}
(* How a request ends for its caller; "transport" and "unknown" are the two *)
(* diagnostics of a transport failure, without and with the added words     *)
(* "execution outcome is unknown"; "raised" is a cancellation or an error of *)
(* the output sink, which leave request_script as exceptions.               *)
Results == Statuses \cup {"transport", "unknown", "raised", "healthy"}
Frames == Statuses \cup {"greeting", "chunk", "entry"}

ClientPCs == {"idle", "hello", "sent", "await", "done"}
SessionPCs == {"none", "greet", "handshake", "begin", "discover", "gate", "spawn",
               "loop", "send", "terminate", "unlock", "end", "done"}
(* Threads between the acquisition of their slot and its release. *)
Live == SessionPCs \ {"none", "done"}

TypeOK ==
    /\ client \in [Requests ->
           [at : ClientPCs, kind : Kinds \cup {"none"}, result : Results \cup {"none"},
            got : 0..Limit]]
    /\ link \in [Requests ->
           [near : {"none", "open", "closed"}, far : {"none", "queued", "open", "closed"},
            asked : BOOLEAN, wire : Seq(Frames)]]
    /\ \A r \in Requests : Len(link[r].wire) <= Buffer
    /\ session \in [Requests ->
           [at : SessionPCs, fin : Statuses \cup Silent \cup {"none"}]]
    /\ group \in [Requests ->
           [leader : {"none", "alive", "exit0", "exit1", "gone"}, rest : BOOLEAN,
            holds : BOOLEAN, wrote : 0..(Limit + 1), read : 0..(Limit + 1)]]
    /\ lock \in Requests \cup {NoOne}
    /\ free \in 0..Slots
    /\ leaked \in 0..Slots
    /\ stopping \in BOOLEAN
    /\ serve \in {"accepting", "joining", "down"}

Init ==
    /\ client = [r \in Requests |-> [at |-> "idle", kind |-> "none", result |-> "none",
                                     got |-> 0]]
    /\ link = [r \in Requests |-> [near |-> "none", far |-> "none",
                                   asked |-> FALSE, wire |-> <<>>]]
    /\ session = [r \in Requests |-> [at |-> "none", fin |-> "none"]]
    /\ group = [r \in Requests |-> [leader |-> "none", rest |-> FALSE, holds |-> FALSE,
                                    wrote |-> 0, read |-> 0]]
    /\ lock = NoOne
    /\ free = Slots
    /\ leaked = 0
    /\ stopping = FALSE
    /\ serve = "accepting"

Alive(r) == group[r].leader = "alive" \/ group[r].rest

-----------------------------------------------------------------------------
(* The client: request_script, _events, _responses and ScriptSocketDependency.check. *)

(* Every way out of _events closes the socket; what it had not read is lost, *)
(* and so is the transcript when an exception leaves request_script.         *)
Finish(r, res) ==
    /\ client' = [client EXCEPT ![r].at = "done", ![r].result = res,
                                ![r].got = IF res = "raised" THEN 0 ELSE @]
    /\ link' = [link EXCEPT ![r].near = IF @ = "open" THEN "closed" ELSE @, ![r].wire = <<>>]

(* The handler of OSError and ValueError. *)
TransportFailure(r, attempted) ==
    Finish(r, IF attempted THEN "unknown" ELSE "transport")

(* check() polls the agent's cancel signal; a health check polls nothing. *)
CancelSeen(r, kind) == kind # "probe" /\ Finish(r, "raised")

Connect(r) ==
    /\ client[r].at = "idle"
    /\ \E k \in Asks[r] :
           \/ CancelSeen(r, k)
           \/ serve # "accepting" /\ TransportFailure(r, FALSE)
           \/ /\ serve = "accepting"
              /\ client' = [client EXCEPT ![r].at = "hello", ![r].kind = k]
              /\ link' = [link EXCEPT ![r].near = "open", ![r].far = "queued"]
    /\ UNCHANGED <<session, group, service>>

Incoming(r, frames) == link[r].wire # <<>> /\ Head(link[r].wire) \in frames

(* FrameReader.read raises: the agent cancelled, the deadline passed or the *)
(* service closed its end.                                                  *)
ReadRaises(r, attempted) ==
    CancelSeen(r, client[r].kind) \/ TransportFailure(r, attempted)

(* attempted is set before sendall, because a send that fails may still have *)
(* delivered the whole request.                                              *)
SendRequest(r) ==
    \/ TransportFailure(r, TRUE)
    \/ /\ link[r].far = "open"
       /\ link' = [link EXCEPT ![r].asked = TRUE, ![r].wire = Tail(@)]
       /\ client' = [client EXCEPT ![r].at = "sent"]

Hello(r) ==
    /\ client[r].at = "hello"
    /\ \/ ReadRaises(r, FALSE)
       \/ Incoming(r, {"greeting"}) /\ client[r].kind = "probe" /\ Finish(r, "healthy")
       \/ Incoming(r, {"greeting"}) /\ client[r].kind # "probe" /\ SendRequest(r)
    /\ UNCHANGED <<session, group, service>>

(* Mutant: attempted is set after sendall. *)
SendEndsUnattempted(r) ==
    /\ client[r].at = "sent"
    /\ \/ TransportFailure(r, FALSE)
       \/ client' = [client EXCEPT ![r].at = "await"] /\ UNCHANGED link
    /\ UNCHANGED <<session, group, service>>

(* sendall has delivered the frame, and returns or raises. *)
SendEnds(r) ==
    /\ client[r].at = "sent"
    /\ \/ TransportFailure(r, TRUE)
       \/ client' = [client EXCEPT ![r].at = "await"] /\ UNCHANGED link
    /\ UNCHANGED <<session, group, service>>

Await(r) ==
    /\ client[r].at = "await"
    /\ \/ ReadRaises(r, TRUE)
       \/ Incoming(r, Statuses) /\ Finish(r, Head(link[r].wire))
       \/ Incoming(r, {"chunk"}) /\ Finish(r, "raised")
       \/ /\ Incoming(r, {"chunk", "entry"})
          /\ client' = [client EXCEPT ![r].got = @ + 1]
          /\ link' = [link EXCEPT ![r].wire = Tail(@)]
    /\ UNCHANGED <<session, group, service>>

ClientStep(r) == Connect(r) \/ Hello(r) \/ SendEnds(r) \/ Await(r)

-----------------------------------------------------------------------------
(* The main thread: verify_request, serve and the signal handler. *)

Accept(r) ==
    /\ serve = "accepting" /\ link[r].far = "queued"
    /\ \/ /\ stopping \/ free = 0
          /\ link' = [link EXCEPT ![r].far = "closed"]
          /\ UNCHANGED <<session, free, leaked>>
       \/ /\ ~stopping /\ free > 0
          /\ free' = free - 1
          /\ \/ /\ link' = [link EXCEPT ![r].far = "open"]
                /\ session' = [session EXCEPT ![r].at = "greet"]
                /\ UNCHANGED leaked
             \/ \* the thread cannot be started
                /\ link' = [link EXCEPT ![r].far = "closed"]
                /\ leaked' = leaked + 1
                /\ UNCHANGED session
    /\ UNCHANGED <<client, group, lock, stopping, serve>>

StopSignal ==
    /\ ~stopping
    /\ stopping' = TRUE
    /\ UNCHANGED <<client, link, session, group, lock, free, leaked, serve>>

CloseListener ==
    /\ serve = "accepting" /\ stopping
    /\ serve' = "joining"
    /\ link' = [r \in Requests |->
                   IF link[r].far = "queued" THEN [link[r] EXCEPT !.far = "closed"]
                                             ELSE link[r]]
    /\ UNCHANGED <<client, session, group, lock, free, leaked, stopping>>

JoinThreads ==
    /\ serve = "joining"
    /\ \A r \in Requests : session[r].at \notin Live
    /\ serve' = "down"
    /\ UNCHANGED <<client, link, session, group, lock, free, leaked, stopping>>

Serve == (\E r \in Requests : Accept(r)) \/ CloseListener \/ JoinThreads

-----------------------------------------------------------------------------
(* The session thread: _Session.handle driving Scripts.events. *)

Goto(r, at) == session' = [session EXCEPT ![r].at = at]
Conclude(r, at, fin) == session' = [session EXCEPT ![r].at = at, ![r].fin = fin]

(* Mutant: _check does not look at the service. *)
CancelledByClient(r) == link[r].near = "closed"

(* _check: the service is stopping or the client's end is closed. *)
Cancelled(r) == stopping \/ link[r].near = "closed"

(* The generator yields its completion and handle checks once more. *)
Complete(r, fin) ==
    IF Cancelled(r) THEN Goto(r, "end") ELSE Conclude(r, "send", fin)

Greet(r) ==
    /\ session[r].at = "greet"
    /\ \/ /\ link[r].near = "open"
          /\ link' = [link EXCEPT ![r].wire = Append(@, "greeting")]
          /\ Goto(r, "handshake")
       \/ link[r].near = "closed" /\ Goto(r, "end") /\ UNCHANGED link
    /\ UNCHANGED <<client, group, service>>

Handshake(r) ==
    /\ session[r].at = "handshake"
    /\ \/ stopping /\ Goto(r, "end")
       \/ ~stopping /\ link[r].asked /\ Goto(r, "begin")
       \/ ~stopping /\ ~link[r].asked /\ link[r].near = "closed" /\ Goto(r, "end")
    /\ UNCHANGED <<client, link, group, service>>

(* FrameReader.read looks at the deadline before it parses what has arrived, *)
(* so a request that is already there may still be too late.                 *)
HandshakeTimeout(r) ==
    /\ session[r].at = "handshake"
    /\ Goto(r, "end")
    /\ UNCHANGED <<client, link, group, service>>

(* The _check of handle, then the first check of events and its three cases; *)
(* _valid_script refuses the name or fails on it.                            *)
BeginEvents(r) ==
    /\ session[r].at = "begin"
    /\ \/ Cancelled(r) /\ Goto(r, "end")
       \/ ~Cancelled(r) /\ client[r].kind = "list" /\ Goto(r, "discover")
       \/ ~Cancelled(r) /\ client[r].kind = "bad"
          /\ \E fin \in {"refused", "failed"} : Complete(r, fin)
       \/ ~Cancelled(r) /\ client[r].kind = "run" /\ Goto(r, "gate")
    /\ UNCHANGED <<client, link, group, service>>

(* _discover: the checks, one more entry, the end of the tree or an OSError. *)
Discover(r) ==
    /\ session[r].at = "discover"
    /\ \/ Cancelled(r) /\ Goto(r, "end") /\ UNCHANGED group
       \/ /\ ~Cancelled(r) /\ group[r].read < Limit
          /\ group' = [group EXCEPT ![r].read = @ + 1]
          /\ Goto(r, "send")
       \/ /\ ~Cancelled(r)
          /\ \E fin \in {"listed", "refused", "failed"} : Complete(r, fin)
          /\ UNCHANGED group
    /\ UNCHANGED <<client, link, service>>

AcquireGate(r) ==
    /\ session[r].at = "gate"
    /\ \/ lock # NoOne /\ Complete(r, "busy") /\ UNCHANGED lock
       \/ lock = NoOne /\ lock' = r /\ Goto(r, "spawn")
    /\ UNCHANGED <<client, link, group, free, leaked, stopping, serve>>

Spawn(r) ==
    /\ session[r].at = "spawn"
    /\ \/ Cancelled(r) /\ Conclude(r, "unlock", "cancelled") /\ UNCHANGED group
       \/ ~Cancelled(r) /\ Conclude(r, "unlock", "failed") /\ UNCHANGED group
       \/ /\ ~Cancelled(r)
          /\ group' = [group EXCEPT ![r].leader = "alive", ![r].holds = TRUE]
          /\ Goto(r, "loop")
    /\ UNCHANGED <<client, link, service>>

(* Mutant: the loop ends with the leader, whatever is left in the pipe. *)
LeaderOver(r) == group[r].leader # "alive"

(* The condition of the while loop: the pipe is at its end and the leader *)
(* has exited.                                                            *)
ScriptOver(r) ==
    group[r].read = group[r].wrote /\ ~group[r].holds /\ group[r].leader # "alive"

ExitStatus(r) == IF group[r].leader = "exit0" THEN "success" ELSE "failed"

(* Mutants: the process is not registered for _terminate; the completion is *)
(* yielded inside the ExitStack.                                            *)
LeaveRunning(r, fin) ==
    /\ Conclude(r, "unlock", fin)
    /\ group' = [group EXCEPT ![r].read = 0, ![r].holds = FALSE]
LeaveYielding(r, fin) ==
    /\ Conclude(r, IF fin \in Silent THEN "terminate" ELSE "send", fin)
    /\ group' = [group EXCEPT ![r].read = 0, ![r].holds = FALSE]

(* The script's output is not read beyond this point; what it wrote is kept *)
(* only to compare it with what a successful caller received.               *)
LeaveLoop(r, fin) ==
    /\ Conclude(r, "terminate", fin)
    /\ group' = [group EXCEPT ![r].read = 0, ![r].holds = FALSE,
                              ![r].wrote = IF fin = "success" THEN @ ELSE 0]

ReadOutput(r) ==
    \/ /\ group[r].read < Limit
       /\ group' = [group EXCEPT ![r].read = @ + 1]
       /\ Goto(r, "send")
    \/ group[r].read = Limit /\ LeaveLoop(r, "output_limit")

Loop(r) ==
    /\ session[r].at = "loop"
    /\ \/ ScriptOver(r) /\ LeaveLoop(r, ExitStatus(r))
       \/ ~ScriptOver(r) /\ Cancelled(r) /\ LeaveLoop(r, "cancelled")
       \/ ~ScriptOver(r) /\ ~Cancelled(r) /\ group[r].read < group[r].wrote /\ ReadOutput(r)
    /\ UNCHANGED <<client, link, service>>

(* os.read or select raises OSError. *)
LoopFails(r) ==
    /\ session[r].at = "loop" /\ ~ScriptOver(r) /\ ~Cancelled(r)
    /\ LeaveLoop(r, "failed")
    /\ UNCHANGED <<client, link, service>>

(* check finds the execution deadline passed, wherever the generator checks. *)
DeadlineExpires(r) ==
    /\ ~Cancelled(r)
    /\ \/ session[r].at \in {"begin", "discover"} /\ Complete(r, "timeout") /\ UNCHANGED group
       \/ session[r].at = "spawn" /\ Conclude(r, "unlock", "timeout") /\ UNCHANGED group
       \/ session[r].at = "loop" /\ ~ScriptOver(r) /\ LeaveLoop(r, "timeout")
    /\ UNCHANGED <<client, link, service>>

(* The generator is suspended at a yield and the frame is on its way out; *)
(* the _check before a send is the one of the step that led to the yield. *)
(* Leaving the for loop closes the generator, which unwinds the ExitStack *)
(* if the script is still running.                                        *)
Undelivered(r) ==
    IF client[r].kind = "run" /\ session[r].fin = "none"
    THEN LeaveLoop(r, "cancelled")
    ELSE Goto(r, "end") /\ UNCHANGED group

Frame(r) ==
    IF session[r].fin # "none" THEN session[r].fin
    ELSE IF client[r].kind = "run" THEN "chunk" ELSE "entry"

Resume(r) ==
    IF session[r].fin # "none" THEN "end"
    ELSE IF client[r].kind = "run" THEN "loop" ELSE "discover"

Send(r) ==
    /\ session[r].at = "send"
    /\ \/ link[r].near = "closed" /\ Undelivered(r) /\ UNCHANGED link
       \/ /\ link[r].near = "open" /\ Len(link[r].wire) < Buffer
          /\ link' = [link EXCEPT ![r].wire = Append(@, Frame(r))]
          /\ Goto(r, Resume(r))
          /\ UNCHANGED group
    /\ UNCHANGED <<client, service>>

(* The reader stalls for STALLED_DELIVERY_TIMEOUT_S. *)
SendTimeout(r) ==
    /\ session[r].at = "send" /\ Len(link[r].wire) = Buffer
    /\ Undelivered(r)
    /\ UNCHANGED <<client, link, service>>

(* _terminate, after its SIGTERM, and Popen.__exit__: the group is gone, or *)
(* the grace period is over and what is left of it is killed.               *)
Terminate(r) ==
    /\ session[r].at = "terminate" /\ ~Alive(r)
    /\ group' = [group EXCEPT ![r].leader = "gone"]
    /\ Goto(r, "unlock")
    /\ UNCHANGED <<client, link, service>>

(* Mutant: the leader is killed instead of its group. *)
KillLeader(r) ==
    /\ session[r].at = "terminate" /\ Alive(r)
    /\ group' = [group EXCEPT ![r].leader = "gone"]
    /\ Goto(r, "unlock")
    /\ UNCHANGED <<client, link, service>>

Kill(r) ==
    /\ session[r].at = "terminate" /\ Alive(r)
    /\ group' = [group EXCEPT ![r].leader = "gone", ![r].rest = FALSE]
    /\ Goto(r, "unlock")
    /\ UNCHANGED <<client, link, service>>

ReleaseGate(r) ==
    /\ session[r].at = "unlock"
    /\ lock' = NoOne
    /\ IF session[r].fin \in Silent THEN Goto(r, "end") ELSE Complete(r, session[r].fin)
    /\ UNCHANGED <<client, link, group, free, leaked, stopping, serve>>

(* process_request_thread: shutdown_request closes the connection and the *)
(* finally clause gives the slot back.                                    *)
EndSession(r) ==
    /\ session[r].at = "end"
    /\ link' = [link EXCEPT ![r].far = "closed", ![r].asked = FALSE]
    /\ free' = free + 1
    /\ Conclude(r, "done", "none")
    /\ UNCHANGED <<client, group, lock, leaked, stopping, serve>>

SessionStep(r) ==
    \/ Greet(r) \/ Handshake(r) \/ BeginEvents(r) \/ Discover(r) \/ AcquireGate(r)
    \/ Spawn(r) \/ Loop(r) \/ Send(r) \/ Terminate(r) \/ ReleaseGate(r) \/ EndSession(r)

-----------------------------------------------------------------------------
(* The script: external, seen through its output pipe and its exit. *)

Write(r) ==
    /\ Alive(r) /\ group[r].holds
    /\ group[r].wrote <= Limit
    /\ group' = [group EXCEPT ![r].wrote = @ + 1]

Fork(r) ==
    /\ group[r].leader = "alive" /\ ~group[r].rest
    /\ group' = [group EXCEPT ![r].rest = TRUE]

CloseOutput(r) ==
    /\ Alive(r) /\ group[r].holds
    /\ group' = [group EXCEPT ![r].holds = FALSE]

LeaderExits(r) ==
    /\ group[r].leader = "alive"
    /\ \E code \in {"exit0", "exit1"} :
           group' = [group EXCEPT ![r].leader = code,
                                  ![r].holds = group[r].holds /\ group[r].rest]

RestExits(r) ==
    /\ group[r].rest
    /\ group' = [group EXCEPT ![r].rest = FALSE,
                              ![r].holds = group[r].holds /\ group[r].leader = "alive"]

ScriptStep(r) ==
    /\ Write(r) \/ Fork(r) \/ CloseOutput(r) \/ LeaderExits(r) \/ RestExits(r)
    /\ UNCHANGED <<client, link, session, service>>

Next ==
    \/ Serve \/ StopSignal
    \/ \E r \in Requests :
           \/ ClientStep(r) \/ SessionStep(r) \/ ScriptStep(r)
           \/ HandshakeTimeout(r) \/ LoopFails(r) \/ SendTimeout(r) \/ Kill(r)
           \/ DeadlineExpires(r)

Spec == Init /\ [][Next]_vars

(* The main thread and the session threads keep running, and the service's *)
(* own timeouts for handshakes, stalled readers and dying scripts run out.  *)
(* Nothing is assumed of clients, scripts or the execution deadline.        *)
FairSpec ==
    /\ Spec
    /\ WF_vars(Serve)
    /\ \A r \in Requests :
           /\ WF_vars(SessionStep(r)) /\ WF_vars(HandshakeTimeout(r))
           /\ WF_vars(SendTimeout(r)) /\ WF_vars(Kill(r))

-----------------------------------------------------------------------------
(* Properties. *)

(* At most one script's process group is alive on the host, and it is the one  *)
(* whose session holds execution_lock: the gate is released only after         *)
(* _terminate and Popen.__exit__, on every way out of _execute.                *)
GateGuardsProcess == \A r \in Requests : Alive(r) => lock = r

(* "Yield completion only after process cleanup and gate release": whoever has *)
(* received a completion finds neither its own script alive nor its own hold   *)
(* on the gate, so that its next request is not refused because of this one.   *)
CompletionMeansClean ==
    \A r \in Requests : client[r].result \in Statuses => ~Alive(r) /\ lock # r

(* verify_request and process_request_thread: every slot is free, held by one  *)
(* live session thread, or was lost with a thread that did not start.          *)
SlotAccounting ==
    free + Cardinality({r \in Requests : session[r].at \in Live}) + leaked = Slots

(* A caller that is told of a transport failure without the words "execution   *)
(* outcome is unknown", or that the service was busy or refused, may retry:    *)
(* its script was not started, and never will be.                              *)
NotStartedIsHonest ==
    \A r \in Requests :
        client[r].result \in {"transport", "busy", "refused", "healthy"} =>
            group[r].leader = "none"

(* A successful result carries everything the script's process group wrote     *)
(* while somebody held the pipe, also what a child wrote after its leader left.*)
SuccessIsWhole ==
    \A r \in Requests : client[r].result = "success" => client[r].got = group[r].wrote

(* "Shutdown cancels execution, joins connection threads": after SIGINT or     *)
(* SIGTERM the service comes down, whatever its clients and scripts do.        *)
StopEndsService == stopping ~> serve = "down"

(* A script whose client has gone (cancelled, timed out or broken) is stopped, *)
(* although it produces no output; and the execution deadline alone ends every *)
(* script, also one that ignores SIGTERM, or whose leader left a child that    *)
(* keeps the output pipe open.                                                 *)
ScriptsDie ==
    \A r \in Requests :
        /\ link[r].near = "closed" ~> ~Alive(r)
        /\ WF_vars(DeadlineExpires(r)) => (Alive(r) ~> ~Alive(r))

=============================================================================
