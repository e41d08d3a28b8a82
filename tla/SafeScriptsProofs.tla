-------------------------- MODULE SafeScriptsProofs --------------------------
(***************************************************************************)
(* Proofs about SafeScripts for any requests, slots, output limits and     *)
(* socket buffers.                                                         *)
(*                                                                         *)
(* What a caller is told rests on where its session is, and the two are    *)
(* connected by the frames on the wire only.  RequestInv therefore says,   *)
(* for each position of the session, what holds of the caller, the wire    *)
(* and the process group: a completion on the wire is the last frame of a  *)
(* session that is over, the caller has received or will find on the wire  *)
(* what was read from the script, and a caller that has not asked has no   *)
(* script.  LockInv and SlotInv are about all requests together.           *)
(***************************************************************************)
EXTENDS SafeScripts, FiniteSetTheorems, SequenceTheorems, TLAPS

Clients == [at : ClientPCs, kind : Kinds \cup {"none"}, result : Results \cup {"none"}, got : 0..Limit]
Links == [near : {"none", "open", "closed"}, far : {"none", "queued", "open", "closed"},
          asked : BOOLEAN, wire : Seq(Frames)]
Sessions == [at : SessionPCs, fin : Statuses \cup Silent \cup {"none"}]
Groups == [leader : {"none", "alive", "exit0", "exit1", "gone"}, rest : BOOLEAN,
           holds : BOOLEAN, wrote : 0..(Limit + 1), read : 0..(Limit + 1)]

Ended == {"end", "done"}
Unasked == {"none", "greet", "handshake"} \cup Ended
Unstarted == {"none", "greet", "handshake", "begin", "gate", "spawn"}
Data == {"chunk", "entry"}

\* The execution loop of a script, also where it hands out a chunk.
InLoop(c, s) == s.at = "loop" \/ (s.at = "send" /\ s.fin = "none" /\ c.kind = "run")
Living(g) == g.leader = "alive" \/ g.rest
Reading(c) == c.at \in {"sent", "await"}

\* The caller and its end of the connection.
CallerInv(c, l, s, g) ==
    /\ c.at = "idle" => l.near = "none" /\ l.far = "none"
    /\ l.near = "open" <=> c.at \in {"hello", "sent", "await"}
    /\ c.at \in {"idle", "hello"} => c.got = 0
    /\ c.at = "done" <=> c.result # "none"
    /\ c.at \in {"idle", "hello"} \/ c.result \in {"transport", "healthy"} =>
           ~l.asked /\ s.at \in Unasked /\ g.leader = "none"
    /\ c.result \in Statuses => s.at \in Ended
    /\ c.result \in {"busy", "refused"} => g.leader = "none"
    /\ c.result = "success" => c.got = g.wrote

\* The session, and what its position says of the kind of request.
SessionInv(c, l, s, g) ==
    /\ l.far \in {"none", "queued"} => s.at = "none"
    /\ s.at \in Unstarted \cup {"discover", "loop"} => s.fin = "none"
    /\ s.at \in {"terminate", "unlock"} => s.fin \notin {"none", "busy", "refused"}
    /\ s.at = "send" => s.fin \notin Silent
    /\ s.at \in {"gate", "spawn", "loop", "terminate", "unlock"} => c.kind = "run"
    /\ s.at = "discover" => c.kind = "list"
    /\ s.at = "send" /\ s.fin = "none" => c.kind \in {"run", "list"}
    /\ s.fin \in {"busy", "refused"} => g.leader = "none"

\* The process group.
GroupInv(c, s, g) ==
    /\ g.read <= Limit
    /\ s.at \in Unstarted => g.read = 0
    /\ s.at \in Unstarted \/ c.kind # "run" =>
           g.leader = "none" /\ ~g.rest /\ ~g.holds /\ g.wrote = 0
    /\ Living(g) => InLoop(c, s) \/ s.at = "terminate"
    /\ g.holds => InLoop(c, s)

\* The frames on the wire.
WireInv(c, l, s, g) ==
    /\ c.at = "done" \/ s.at \in {"none", "greet"} => l.wire = <<>>
    /\ c.at = "hello" => \A i \in 1..Len(l.wire) : i = 1 /\ l.wire[i] = "greeting"
    /\ Reading(c) =>
         /\ s.at \notin {"none", "greet"}
         /\ s.at \in Unstarted \cup {"discover", "loop"} => c.got + Len(l.wire) = g.read
         /\ s.at = "send" /\ s.fin = "none" => c.got + Len(l.wire) + 1 = g.read
         /\ s.at \in {"terminate", "unlock", "send"} /\ s.fin = "success" =>
                c.got + Len(l.wire) = g.wrote
         /\ \A i \in 1..Len(l.wire) :
              \/ l.wire[i] \in Data /\ c.got + i <= Limit
              \/ /\ l.wire[i] \in Statuses /\ i = Len(l.wire) /\ s.at \in Ended
                 /\ l.wire[i] \in {"busy", "refused"} => g.leader = "none"
                 /\ l.wire[i] = "success" => c.got + i - 1 = g.wrote

Consistent(c, l, s, g) ==
    /\ CallerInv(c, l, s, g) /\ SessionInv(c, l, s, g) /\ GroupInv(c, s, g) /\ WireInv(c, l, s, g)
    /\ Len(l.wire) <= Buffer

TypeInv ==
    /\ client \in [Requests -> Clients] /\ link \in [Requests -> Links]
    /\ session \in [Requests -> Sessions] /\ group \in [Requests -> Groups]
    /\ lock \in Requests \cup {NoOne}
    /\ free \in Nat /\ leaked \in Nat /\ stopping \in BOOLEAN
    /\ serve \in {"accepting", "joining", "down"}

RequestInv(r) == Consistent(client[r], link[r], session[r], group[r])

\* The sessions that hold the gate.
Holding(c, s) == InLoop(c, s) \/ s.at \in {"spawn", "terminate", "unlock"}
LockInv == \A r \in Requests : lock = r <=> Holding(client[r], session[r])

LiveSessions == {r \in Requests : session[r].at \in Live}
SlotInv == free + Cardinality(LiveSessions) + leaked = Slots

Inv == TypeInv /\ LockInv /\ SlotInv /\ \A r \in Requests : RequestInv(r)

-----------------------------------------------------------------------------
(* What a step of one request leaves to prove. *)

\* Only the records of r may change.
Others(r) ==
    \A q \in Requests \ {r} :
        /\ client'[q] = client[q] /\ link'[q] = link[q]
        /\ session'[q] = session[q] /\ group'[q] = group[q]

LEMMA OthersConsistent ==
    ASSUME Inv, NEW r \in Requests, Others(r), RequestInv(r)'
    PROVE  \A q \in Requests : RequestInv(q)'
<1> SUFFICES ASSUME NEW q \in Requests, q # r
             PROVE  RequestInv(q)'
    OBVIOUS
<1>1. RequestInv(q)
    BY DEF Inv
<1> QED
    BY <1>1 DEF RequestInv, Others

LEMMA GateKept ==
    ASSUME Inv, NEW r \in Requests, Others(r), lock' = lock,
           Holding(client[r], session[r])' <=> Holding(client[r], session[r])
    PROVE  LockInv'
<1> SUFFICES ASSUME NEW q \in Requests
             PROVE  (lock = q <=> Holding(client[q], session[q]))'
    BY DEF LockInv
<1>1. lock = q <=> Holding(client[q], session[q])
    BY DEF Inv, LockInv
<1> QED
    BY <1>1 DEF Others, Holding, InLoop

LEMMA SlotsKept ==
    ASSUME Inv, NEW r \in Requests, Others(r), free' = free, leaked' = leaked,
           session'[r].at \in Live <=> session[r].at \in Live
    PROVE  SlotInv'
<1>1. LiveSessions' = LiveSessions
    BY DEF LiveSessions, Others
<1> QED
    BY <1>1 DEF Inv, SlotInv

(* A step of one request that neither takes nor gives up the gate or a slot. *)
LEMMA QuietStep ==
    ASSUME Inv, NEW r \in Requests, Others(r), TypeInv', RequestInv(r)',
           lock' = lock, free' = free, leaked' = leaked,
           Holding(client[r], session[r])' <=> Holding(client[r], session[r]),
           session'[r].at \in Live <=> session[r].at \in Live
    PROVE  Inv'
<1>1. /\ LockInv' /\ SlotInv'
      /\ \A q \in Requests : RequestInv(q)'
    BY GateKept, SlotsKept, OthersConsistent
<1> QED
    BY <1>1 DEF Inv

-----------------------------------------------------------------------------
LEMMA InitInv == Init => Inv
<1> SUFFICES ASSUME Init PROVE Inv
    OBVIOUS
<1> USE RequestsAssumption, SlotsAssumption, LimitAssumption, BufferAssumption
<1>1. TypeInv
  <2>1. <<>> \in Seq(Frames)
      BY EmptySeq
  <2>2. client \in [Requests -> Clients] /\ link \in [Requests -> Links]
      BY <2>1 DEF Init, Clients, Links, ClientPCs
  <2>3. session \in [Requests -> Sessions] /\ group \in [Requests -> Groups]
      BY DEF Init, Sessions, Groups, SessionPCs
  <2> QED
      BY <2>2, <2>3 DEF Init, TypeInv
<1>2. LockInv
    BY DEF Init, LockInv, Holding, InLoop
<1>3. SlotInv
  <2>1. LiveSessions = {}
      BY DEF Init, LiveSessions, Live
  <2> QED
      BY <2>1, FS_EmptySet DEF Init, SlotInv
<1>4. \A r \in Requests : RequestInv(r)
  <2> SUFFICES ASSUME NEW r \in Requests PROVE RequestInv(r)
      OBVIOUS
  <2>1. CallerInv(client[r], link[r], session[r], group[r])
      BY DEF Init, CallerInv, Unasked, Ended, Statuses
  <2>2. SessionInv(client[r], link[r], session[r], group[r])
      BY DEF Init, SessionInv, Unstarted, Silent
  <2>3. GroupInv(client[r], session[r], group[r])
      BY DEF Init, GroupInv, Unstarted, Living
  <2>4. WireInv(client[r], link[r], session[r], group[r]) /\ Len(link[r].wire) <= Buffer
      BY DEF Init, WireInv, Reading
  <2> QED
      BY <2>1, <2>2, <2>3, <2>4 DEF RequestInv, Consistent
<1> QED
    BY <1>1, <1>2, <1>3, <1>4 DEF Inv

-----------------------------------------------------------------------------
(* The caller. *)

(* A caller may leave with a result that its position, the wire and the     *)
(* process group warrant.                                                   *)
LEMMA FinishStep ==
    ASSUME Inv, NEW r \in Requests, NEW res \in Results, Finish(r, res),
           UNCHANGED <<session, group, service>>,
           client[r].at # "done",
           res \in {"transport", "healthy"} => client[r].at \in {"idle", "hello"},
           res \in Statuses => session[r].at \in Ended,
           res \in {"busy", "refused"} => group[r].leader = "none",
           res = "success" => client[r].got = group[r].wrote
    PROVE  Inv'
<1> DEFINE c == client[r]
           l == link[r]
           got == IF res = "raised" THEN 0 ELSE client[r].got
<1>0. /\ client[r] \in Clients /\ link[r] \in Links /\ session[r] \in Sessions
      /\ group[r] \in Groups /\ RequestInv(r)
    BY DEF Inv, TypeInv
<1>1. /\ client' = [client EXCEPT ![r] = [c EXCEPT !.at = "done", !.result = res, !.got = got]]
      /\ link' = [link EXCEPT ![r] = [l EXCEPT
                     !.near = IF l.near = "open" THEN "closed" ELSE l.near, !.wire = <<>>]]
    BY <1>0 DEF Finish, Inv, TypeInv, Clients, Links
<1>2. /\ client'[r] = [at |-> "done", kind |-> c.kind, result |-> res, got |-> got]
      /\ link'[r] = [near |-> IF l.near = "open" THEN "closed" ELSE l.near, far |-> l.far,
                     asked |-> l.asked, wire |-> <<>>]
      /\ session'[r] = session[r] /\ group'[r] = group[r]
    BY <1>0, <1>1 DEF Inv, TypeInv, Clients, Links
<1>3. Others(r)
    BY <1>1 DEF Others, Inv, TypeInv
<1>4. client'[r] \in Clients /\ link'[r] \in Links
  <2>1. <<>> \in Seq(Frames)
      BY EmptySeq
  <2> QED
      BY <1>0, <1>2, <2>1, LimitAssumption DEF Clients, Links, ClientPCs
<1>5. TypeInv'
    BY <1>1, <1>2, <1>4 DEF Inv, TypeInv, service
<1>6. RequestInv(r)'
  <2>1. CallerInv(client[r], link[r], session[r], group[r])'
      BY <1>0, <1>2 DEF RequestInv, Consistent, CallerInv, Links, Results, Statuses
  <2>2. SessionInv(client[r], link[r], session[r], group[r])'
      BY <1>0, <1>2 DEF RequestInv, Consistent, SessionInv
  <2>3. GroupInv(client[r], session[r], group[r])'
      BY <1>0, <1>2 DEF RequestInv, Consistent, GroupInv, Living, InLoop
  <2>4. WireInv(client[r], link[r], session[r], group[r])' /\ Len(link'[r].wire) <= Buffer
      BY <1>2, BufferAssumption DEF WireInv, Reading
  <2> QED
      BY <2>1, <2>2, <2>3, <2>4 DEF RequestInv, Consistent
<1>7. Holding(client[r], session[r])' <=> Holding(client[r], session[r])
    BY <1>2 DEF Holding, InLoop
<1> QED
    BY <1>2, <1>3, <1>5, <1>6, <1>7, QuietStep DEF service

LEMMA ConnectStep == ASSUME Inv, NEW r \in Requests, Connect(r) PROVE Inv'
<1> DEFINE c == client[r]
           l == link[r]
<1>0. /\ client[r] \in Clients /\ link[r] \in Links /\ session[r] \in Sessions
      /\ group[r] \in Groups /\ RequestInv(r) /\ client[r].at = "idle"
    BY DEF Inv, TypeInv, Connect
<1>1. ASSUME NEW k, CancelSeen(r, k) PROVE Inv'
    BY <1>0, <1>1, FinishStep DEF CancelSeen, Connect, Results, Statuses
<1>2. CASE TransportFailure(r, FALSE)
    BY <1>0, <1>2, FinishStep DEF TransportFailure, Connect, Results, Statuses
<1>3. ASSUME NEW k \in Asks[r],
             client' = [client EXCEPT ![r].at = "hello", ![r].kind = k],
             link' = [link EXCEPT ![r].near = "open", ![r].far = "queued"]
      PROVE  Inv'
  <2>0. UNCHANGED <<session, group, service>>
      BY DEF Connect
  <2>1. k \in Kinds
      BY AsksAssumption
  <2>2. /\ client'[r] = [at |-> "hello", kind |-> k, result |-> c.result, got |-> c.got]
        /\ link'[r] = [near |-> "open", far |-> "queued", asked |-> l.asked, wire |-> l.wire]
        /\ session'[r] = session[r] /\ group'[r] = group[r]
      BY <1>0, <1>3, <2>0 DEF Inv, TypeInv, Clients, Links
  <2>3. Others(r)
      BY <1>3, <2>0 DEF Others, Inv, TypeInv
  <2>4. client'[r] \in Clients /\ link'[r] \in Links
      BY <1>0, <2>1, <2>2 DEF Clients, Links, ClientPCs
  <2>5. TypeInv'
      BY <1>3, <2>0, <2>2, <2>4 DEF Inv, TypeInv, service
  <2>6. session[r].at = "none" /\ c.result = "none"
      BY <1>0 DEF RequestInv, Consistent, CallerInv, SessionInv
  <2>7. RequestInv(r)'
    <3>1. CallerInv(client[r], link[r], session[r], group[r])'
        BY <1>0, <2>2, <2>6 DEF RequestInv, Consistent, CallerInv, Unasked, Statuses
    <3>2. SessionInv(client[r], link[r], session[r], group[r])'
        BY <1>0, <2>2, <2>6 DEF RequestInv, Consistent, SessionInv, Unstarted
    <3>3. GroupInv(client[r], session[r], group[r])'
        BY <1>0, <2>2, <2>6 DEF RequestInv, Consistent, GroupInv, Living, InLoop, Unstarted
    <3>4. WireInv(client[r], link[r], session[r], group[r])' /\ Len(link'[r].wire) <= Buffer
        BY <1>0, <2>2, <2>6 DEF RequestInv, Consistent, WireInv, Reading
    <3> QED
        BY <3>1, <3>2, <3>3, <3>4 DEF RequestInv, Consistent
  <2>8. Holding(client[r], session[r])' <=> Holding(client[r], session[r])
      BY <2>2, <2>6 DEF Holding, InLoop
  <2> QED
      BY <2>0, <2>2, <2>3, <2>5, <2>7, <2>8, QuietStep DEF service
<1> QED
    BY <1>1, <1>2, <1>3 DEF Connect

(* The caller takes the first frame of the wire and reads on. *)
LEMMA TakenFrame ==
    ASSUME NEW c \in Clients, NEW l \in Links, NEW s \in Sessions, NEW g \in Groups,
           Consistent(c, l, s, g), l.wire # <<>>,
           NEW at \in {"sent", "await"}, NEW got, NEW asked \in BOOLEAN,
           \/ c.at = "hello" /\ got = c.got
           \/ /\ c.at \in {"sent", "await"} /\ got = c.got + 1
              /\ l.wire[1] \in Data /\ asked = l.asked
    PROVE  LET c2 == [at |-> at, kind |-> c.kind, result |-> c.result, got |-> got]
               l2 == [near |-> l.near, far |-> l.far, asked |-> asked, wire |-> Tail(l.wire)]
           IN  c2 \in Clients /\ l2 \in Links /\ Consistent(c2, l2, s, g)
<1> DEFINE w == Tail(l.wire)
           c2 == [at |-> at, kind |-> c.kind, result |-> c.result, got |-> got]
           l2 == [near |-> l.near, far |-> l.far, asked |-> asked, wire |-> w]
<1>1. l.wire \in Seq(Frames)
    BY DEF Links
<1>2. /\ w \in Seq(Frames) /\ Len(l.wire) \in Nat \ {0} /\ Len(w) = Len(l.wire) - 1
      /\ \A i \in 1..Len(w) : w[i] = l.wire[i + 1]
    BY <1>1, HeadTailProperties, EmptySeq
<1>3. WireInv(c, l, s, g) /\ CallerInv(c, l, s, g) /\ c.got \in Nat
    BY LimitAssumption DEF Consistent, Clients
<1>4. got \in 0..Limit
  <2>1. CASE c.at = "hello"
      BY <2>1 DEF Clients
  <2>2. CASE c.at \in {"sent", "await"}
    <3>1. c.got + 1 <= Limit
        BY <1>2, <1>3, <2>2 DEF WireInv, Reading, Data, Statuses
    <3> QED
        BY <1>3, <2>2, <3>1, LimitAssumption
  <2> QED
      BY <2>1, <2>2
<1>5. c2 \in Clients /\ l2 \in Links
    BY <1>2, <1>4 DEF Clients, Links, ClientPCs
<1>6. CallerInv(c2, l2, s, g)
    BY <1>3 DEF CallerInv, Statuses
<1>7. SessionInv(c2, l2, s, g) /\ GroupInv(c2, s, g)
    BY DEF Consistent, SessionInv, GroupInv, Living, InLoop
<1>8. WireInv(c2, l2, s, g)
  <2>1. CASE c.at = "hello"
    <3>0. Len(l.wire) \in 1..Len(l.wire)
        BY <1>2
    <3>1. Len(l.wire) = 1 /\ got = 0
        BY <1>3, <2>1, <3>0 DEF WireInv, CallerInv
    <3>2. s.at \in {"handshake", "end", "done"}
        BY <1>2, <1>3, <2>1 DEF WireInv, CallerInv, Unasked, Ended
    <3>3. s.at = "handshake" => g.read = 0
        BY DEF Consistent, GroupInv, Unstarted
    <3>4. Len(w) = 0 /\ \A i \in 1..Len(w) : FALSE
        BY <1>2, <3>1
    <3>5. w = <<>>
        BY <1>2, <3>4, EmptySeq
    <3>6. s.at = "handshake" => got + Len(w) = g.read
      <4>1. got + Len(w) = 0
          BY <3>1, <3>4
      <4> QED
          BY <3>3, <4>1
    <3>7. c2.got = got /\ l2.wire = w /\ c2.at \in {"sent", "await"}
        OBVIOUS
    <3> HIDE DEF c2, l2, w
    <3> QED
        BY <3>2, <3>4, <3>5, <3>6, <3>7 DEF WireInv, Ended, Unstarted
  <2>2. CASE c.at \in {"sent", "await"}
    <3>1. /\ s.at \notin {"none", "greet"}
          /\ s.at \in Unstarted \cup {"discover", "loop"} => c.got + Len(l.wire) = g.read
          /\ s.at = "send" /\ s.fin = "none" => c.got + Len(l.wire) + 1 = g.read
          /\ s.at \in {"terminate", "unlock", "send"} /\ s.fin = "success" =>
                 c.got + Len(l.wire) = g.wrote
        BY <1>3, <2>2 DEF WireInv, Reading
    <3>2. ASSUME NEW i \in 1..Len(w)
          PROVE  \/ w[i] \in Data /\ got + i <= Limit
                 \/ /\ w[i] \in Statuses /\ i = Len(w) /\ s.at \in Ended
                    /\ w[i] \in {"busy", "refused"} => g.leader = "none"
                    /\ w[i] = "success" => got + i - 1 = g.wrote
      <4>1. i + 1 \in 1..Len(l.wire) /\ w[i] = l.wire[i + 1] /\ i \in Nat
          BY <1>2
      <4>2. \/ l.wire[i + 1] \in Data /\ c.got + (i + 1) <= Limit
            \/ /\ l.wire[i + 1] \in Statuses /\ i + 1 = Len(l.wire) /\ s.at \in Ended
               /\ l.wire[i + 1] \in {"busy", "refused"} => g.leader = "none"
               /\ l.wire[i + 1] = "success" => c.got + (i + 1) - 1 = g.wrote
          BY <1>3, <2>2, <4>1 DEF WireInv, Reading
      <4>0. got = c.got + 1
          BY <2>2
      <4>3. got + i = c.got + (i + 1) /\ got + i - 1 = c.got + (i + 1) - 1
        <5>1. \A m, n \in Nat : (m + 1) + n = m + (n + 1) /\ (m + 1) + n - 1 = m + (n + 1) - 1
            OBVIOUS
        <5> QED
            BY <1>3, <4>0, <4>1, <5>1
      <4>4. i + 1 = Len(l.wire) <=> i = Len(w)
          BY <1>2, <4>1
      <4> HIDE DEF w
      <4>5. CASE l.wire[i + 1] \in Data /\ c.got + (i + 1) <= Limit
          BY <4>1, <4>3, <4>5
      <4>6. CASE /\ l.wire[i + 1] \in Statuses /\ i + 1 = Len(l.wire) /\ s.at \in Ended
                 /\ l.wire[i + 1] \in {"busy", "refused"} => g.leader = "none"
                 /\ l.wire[i + 1] = "success" => c.got + (i + 1) - 1 = g.wrote
          BY <4>1, <4>3, <4>4, <4>6
      <4> QED
          BY <4>2, <4>5, <4>6
    <3>3. got + Len(w) = c.got + Len(l.wire)
        BY <1>2, <1>3, <2>2
    <3> QED
        BY <2>2, <3>1, <3>2, <3>3 DEF WireInv, Reading
  <2> QED
      BY <2>1, <2>2, <1>3 DEF CallerInv
<1>9. Len(w) <= Buffer
    BY <1>2, BufferAssumption DEF Consistent
<1> QED
    BY <1>5, <1>6, <1>7, <1>8, <1>9 DEF Consistent

-----------------------------------------------------------------------------
(* A step of one request, given by the four records it leaves. *)

LEMMA Records ==
    ASSUME Inv, NEW r \in Requests
    PROVE  /\ client[r] \in Clients /\ link[r] \in Links
           /\ session[r] \in Sessions /\ group[r] \in Groups
           /\ Consistent(client[r], link[r], session[r], group[r])
BY DEF Inv, TypeInv, RequestInv

\* The records of r change, to records of the right type that fit together.
Updated(r) ==
    /\ client' = [client EXCEPT ![r] = client'[r]] /\ link' = [link EXCEPT ![r] = link'[r]]
    /\ session' = [session EXCEPT ![r] = session'[r]] /\ group' = [group EXCEPT ![r] = group'[r]]
    /\ client'[r] \in Clients /\ link'[r] \in Links
    /\ session'[r] \in Sessions /\ group'[r] \in Groups
    /\ Consistent(client'[r], link'[r], session'[r], group'[r])

LEMMA UpdatedStep ==
    ASSUME Inv, NEW r \in Requests, Updated(r)
    PROVE  /\ Others(r)
           /\ client' \in [Requests -> Clients] /\ link' \in [Requests -> Links]
           /\ session' \in [Requests -> Sessions] /\ group' \in [Requests -> Groups]
           /\ \A q \in Requests : RequestInv(q)'
<1>1. Others(r)
    BY DEF Inv, TypeInv, Others, Updated
<1>2. /\ client' \in [Requests -> Clients] /\ link' \in [Requests -> Links]
      /\ session' \in [Requests -> Sessions] /\ group' \in [Requests -> Groups]
    BY DEF Inv, TypeInv, Updated
<1>3. RequestInv(r)'
    BY DEF RequestInv, Updated
<1> QED
    BY <1>1, <1>2, <1>3, OthersConsistent

LEMMA QuietUpdate ==
    ASSUME Inv, NEW r \in Requests, Updated(r), UNCHANGED service,
           Holding(client'[r], session'[r]) <=> Holding(client[r], session[r]),
           session'[r].at \in Live <=> session[r].at \in Live
    PROVE  Inv'
<1>1. /\ Others(r)
      /\ client' \in [Requests -> Clients] /\ link' \in [Requests -> Links]
      /\ session' \in [Requests -> Sessions] /\ group' \in [Requests -> Groups]
      /\ \A q \in Requests : RequestInv(q)'
    BY UpdatedStep
<1>2. TypeInv'
    BY <1>1 DEF Inv, TypeInv, service
<1> QED
    BY <1>1, <1>2, QuietStep DEF service

-----------------------------------------------------------------------------
(* The caller, reading. *)

LEMMA TakeFrame ==
    ASSUME Inv, NEW r \in Requests, NEW at \in {"sent", "await"}, NEW got, NEW asked \in BOOLEAN,
           link[r].wire # <<>>,
           client' = [client EXCEPT ![r].at = at, ![r].got = got],
           link' = [link EXCEPT ![r].asked = asked, ![r].wire = Tail(@)],
           UNCHANGED <<session, group, service>>,
           \/ client[r].at = "hello" /\ got = client[r].got
           \/ /\ client[r].at \in {"sent", "await"} /\ got = client[r].got + 1
              /\ link[r].wire[1] \in Data /\ asked = link[r].asked
    PROVE  Inv'
<1> DEFINE c == client[r]
           l == link[r]
           c2 == [at |-> at, kind |-> c.kind, result |-> c.result, got |-> got]
           l2 == [near |-> l.near, far |-> l.far, asked |-> asked, wire |-> Tail(l.wire)]
<1>1. /\ c \in Clients /\ l \in Links /\ session[r] \in Sessions /\ group[r] \in Groups
      /\ Consistent(c, l, session[r], group[r])
    BY Records
<1>2. c2 \in Clients /\ l2 \in Links /\ Consistent(c2, l2, session[r], group[r])
    BY <1>1, TakenFrame
<1>3. /\ client'[r] = c2 /\ link'[r] = l2 /\ session'[r] = session[r] /\ group'[r] = group[r]
      /\ client' = [client EXCEPT ![r] = client'[r]] /\ link' = [link EXCEPT ![r] = link'[r]]
      /\ session' = [session EXCEPT ![r] = session'[r]]
      /\ group' = [group EXCEPT ![r] = group'[r]]
    BY <1>1 DEF Inv, TypeInv, Clients, Links
<1>4. Holding(c2, session[r]) <=> Holding(c, session[r])
    BY DEF Holding, InLoop
<1> HIDE DEF c2, l2
<1>5. Updated(r)
    BY <1>1, <1>2, <1>3 DEF Updated
<1> QED
    BY <1>3, <1>4, <1>5, QuietUpdate

LEMMA HelloStep == ASSUME Inv, NEW r \in Requests, Hello(r) PROVE Inv'
<1>0. client[r].at = "hello" /\ UNCHANGED <<session, group, service>>
    BY DEF Hello
<1>1. CASE CancelSeen(r, client[r].kind)
    BY <1>0, <1>1, FinishStep DEF CancelSeen, Results, Statuses
<1>2. ASSUME NEW attempted \in BOOLEAN, TransportFailure(r, attempted)
      PROVE  Inv'
    BY <1>0, <1>2, FinishStep DEF TransportFailure, Results, Statuses
<1>3. CASE Finish(r, "healthy")
    BY <1>0, <1>3, FinishStep DEF Results, Statuses
<1>4. CASE /\ Incoming(r, {"greeting"})
           /\ link' = [link EXCEPT ![r].asked = TRUE, ![r].wire = Tail(@)]
           /\ client' = [client EXCEPT ![r].at = "sent"]
  <2>1. client[r] \in Clients
      BY Records
  <2>2. client' = [client EXCEPT ![r].at = "sent", ![r].got = client[r].got]
      BY <1>4, <2>1 DEF Inv, TypeInv, Clients
  <2> QED
      BY <1>0, <1>4, <2>2, TakeFrame DEF Incoming
<1> QED
    BY <1>1, <1>2, <1>3, <1>4 DEF Hello, ReadRaises, SendRequest

LEMMA SendEndsStep == ASSUME Inv, NEW r \in Requests, SendEnds(r) PROVE Inv'
<1>0. client[r].at = "sent" /\ UNCHANGED <<session, group, service>>
    BY DEF SendEnds
<1>1. CASE TransportFailure(r, TRUE)
    BY <1>0, <1>1, FinishStep DEF TransportFailure, Results, Statuses
<1>2. CASE client' = [client EXCEPT ![r].at = "await"] /\ UNCHANGED link
  <2> DEFINE c == client[r]
             c2 == [at |-> "await", kind |-> c.kind, result |-> c.result, got |-> c.got]
  <2>1. /\ c \in Clients /\ link[r] \in Links /\ session[r] \in Sessions /\ group[r] \in Groups
        /\ Consistent(c, link[r], session[r], group[r])
      BY Records
  <2>2. /\ client'[r] = c2 /\ link'[r] = link[r] /\ session'[r] = session[r]
        /\ group'[r] = group[r] /\ c2 \in Clients
        /\ client' = [client EXCEPT ![r] = client'[r]] /\ link' = [link EXCEPT ![r] = link'[r]]
        /\ session' = [session EXCEPT ![r] = session'[r]]
        /\ group' = [group EXCEPT ![r] = group'[r]]
      BY <1>0, <1>2, <2>1 DEF Inv, TypeInv, Clients, ClientPCs
  <2>3. Consistent(c2, link[r], session[r], group[r])
    <3>1. CallerInv(c2, link[r], session[r], group[r])
        BY <1>0, <2>1 DEF Consistent, CallerInv
    <3>2. SessionInv(c2, link[r], session[r], group[r]) /\ GroupInv(c2, session[r], group[r])
        BY <2>1 DEF Consistent, SessionInv, GroupInv, InLoop
    <3>3. WireInv(c2, link[r], session[r], group[r])
        BY <1>0, <2>1 DEF Consistent, WireInv, Reading
    <3> QED
        BY <2>1, <3>1, <3>2, <3>3 DEF Consistent
  <2>4. Holding(c2, session[r]) <=> Holding(c, session[r])
      BY DEF Holding, InLoop
  <2> HIDE DEF c2
  <2>5. Updated(r)
      BY <2>1, <2>2, <2>3 DEF Updated
  <2> QED
      BY <1>0, <2>2, <2>4, <2>5, QuietUpdate
<1> QED
    BY <1>1, <1>2 DEF SendEnds

LEMMA AwaitStep == ASSUME Inv, NEW r \in Requests, Await(r) PROVE Inv'
<1> DEFINE c == client[r]
           l == link[r]
<1>0. c.at = "await" /\ UNCHANGED <<session, group, service>>
    BY DEF Await
<1>1. /\ c \in Clients /\ l \in Links /\ WireInv(c, l, session[r], group[r])
    BY Records DEF Consistent
<1>2. CASE CancelSeen(r, client[r].kind)
    BY <1>0, <1>2, FinishStep DEF CancelSeen, Results, Statuses
<1>3. CASE TransportFailure(r, TRUE)
    BY <1>0, <1>3, FinishStep DEF TransportFailure, Results, Statuses
<1>4. CASE Finish(r, "raised")
    BY <1>0, <1>4, FinishStep DEF Results, Statuses
<1>5. ASSUME l.wire # <<>>
      PROVE  Head(l.wire) = l.wire[1] /\ Len(l.wire) \in Nat \ {0}
    BY <1>1, <1>5, EmptySeq DEF Links
<1>6. CASE Incoming(r, Statuses) /\ Finish(r, Head(l.wire))
  <2>1. /\ l.wire[1] \in Statuses /\ Head(l.wire) = l.wire[1] /\ 1 \in 1..Len(l.wire)
      BY <1>5, <1>6 DEF Incoming
  <2>2. /\ session[r].at \in Ended
        /\ l.wire[1] \in {"busy", "refused"} => group[r].leader = "none"
        /\ l.wire[1] = "success" => c.got + 1 - 1 = group[r].wrote
      BY <1>0, <1>1, <2>1 DEF WireInv, Reading, Data, Statuses
  <2>3. c.got + 1 - 1 = c.got
      BY <1>1, LimitAssumption DEF Clients
  <2>4. l.wire[1] \in Results /\ l.wire[1] \notin {"transport", "healthy"}
      BY <2>1 DEF Results, Statuses
  <2> QED
      BY <1>0, <1>6, <2>1, <2>2, <2>3, <2>4, FinishStep
<1>7. CASE /\ Incoming(r, {"chunk", "entry"})
           /\ client' = [client EXCEPT ![r].got = @ + 1]
           /\ link' = [link EXCEPT ![r].wire = Tail(@)]
  <2>1. l.wire # <<>> /\ l.wire[1] \in Data
      BY <1>5, <1>7 DEF Incoming, Data
  <2>2. /\ client' = [client EXCEPT ![r].at = "await", ![r].got = client[r].got + 1]
        /\ link' = [link EXCEPT ![r].asked = link[r].asked, ![r].wire = Tail(@)]
      BY <1>0, <1>1, <1>7 DEF Inv, TypeInv, Clients, Links
  <2>3. l.asked \in BOOLEAN
      BY <1>1 DEF Links
  <2> QED
      BY <1>0, <2>1, <2>2, <2>3, TakeFrame
<1> QED
    BY <1>2, <1>3, <1>4, <1>6, <1>7 DEF Await, ReadRaises

LEMMA ClientInv == ASSUME Inv, NEW r \in Requests, ClientStep(r) PROVE Inv'
BY ConnectStep, HelloStep, SendEndsStep, AwaitStep DEF ClientStep

-----------------------------------------------------------------------------
(* The positions a session may move to, at the level of the records. *)

\* The generator is over, or was never entered: the session goes to its end.
LEMMA EndRecord ==
    ASSUME NEW c \in Clients, NEW l \in Links, NEW s \in Sessions, NEW g \in Groups,
           Consistent(c, l, s, g), ~InLoop(c, s),
           s.at \in {"greet", "handshake", "begin", "discover", "gate", "send", "unlock"}
    PROVE  Consistent(c, l, [at |-> "end", fin |-> s.fin], g)
<1> DEFINE s2 == [at |-> "end", fin |-> s.fin]
<1>1. CallerInv(c, l, s2, g)
    BY DEF Consistent, CallerInv, Unasked, Ended
<1>2. SessionInv(c, l, s2, g)
    BY DEF Consistent, SessionInv, Unstarted
<1>3. GroupInv(c, s2, g)
    BY DEF Consistent, GroupInv, Unstarted, InLoop
<1>4. WireInv(c, l, s2, g)
    BY DEF Consistent, WireInv, Unstarted, Ended
<1> QED
    BY <1>1, <1>2, <1>3, <1>4 DEF Consistent

\* A completion: a successful one only for a script that was successful.
LEMMA SendRecord ==
    ASSUME NEW c \in Clients, NEW l \in Links, NEW s \in Sessions, NEW g \in Groups,
           NEW fin \in Statuses, Consistent(c, l, s, g),
           \/ s.at \in {"begin", "discover", "gate"} /\ fin # "success"
           \/ s.at = "unlock" /\ fin = s.fin
    PROVE  Consistent(c, l, [at |-> "send", fin |-> fin], g)
<1> DEFINE s2 == [at |-> "send", fin |-> fin]
<1>0. fin # "none" /\ fin \notin Silent
    BY DEF Statuses, Silent
<1>1. CallerInv(c, l, s2, g)
    BY DEF Consistent, CallerInv, Unasked, Ended
<1>2. SessionInv(c, l, s2, g)
  <2>1. CASE s.at \in {"begin", "discover", "gate"}
    <3>1. g.leader = "none"
        BY <2>1 DEF Consistent, GroupInv, SessionInv, Unstarted
    <3> QED
        BY <1>0, <2>1, <3>1 DEF Consistent, SessionInv, Unstarted
  <2>2. CASE s.at = "unlock" /\ fin = s.fin
      BY <1>0, <2>2 DEF Consistent, SessionInv, Unstarted
  <2> QED
      BY <2>1, <2>2
<1>3. GroupInv(c, s2, g)
    BY <1>0 DEF Consistent, GroupInv, Unstarted, InLoop
<1>4. WireInv(c, l, s2, g)
  <2>1. \A i \in 1..Len(l.wire) : Reading(c) => l.wire[i] \in Data /\ c.got + i <= Limit
      BY DEF Consistent, WireInv, Ended
  <2>2. Reading(c) /\ fin = "success" => c.got + Len(l.wire) = g.wrote
      BY DEF Consistent, WireInv
  <2>3. c.at \in {"done", "hello"} => c.at = "done" /\ l.wire = <<>>
      BY DEF Consistent, CallerInv, WireInv, Unasked, Ended
  <2> QED
      BY <1>0, <2>1, <2>2, <2>3 DEF WireInv, Unstarted
<1> QED
    BY <1>1, <1>2, <1>3, <1>4 DEF Consistent

\* The way to the execution of a script or a listing.
LEMMA AdvanceRecord ==
    ASSUME NEW c \in Clients, NEW l \in Links, NEW s \in Sessions, NEW g \in Groups,
           NEW at, Consistent(c, l, s, g),
           \/ s.at = "handshake" /\ l.asked /\ at = "begin"
           \/ s.at = "begin" /\ c.kind = "list" /\ at = "discover"
           \/ s.at = "begin" /\ c.kind = "run" /\ at = "gate"
           \/ s.at = "gate" /\ at = "spawn"
    PROVE  Consistent(c, l, [at |-> at, fin |-> s.fin], g)
<1> DEFINE s2 == [at |-> at, fin |-> s.fin]
<1>1. CallerInv(c, l, s2, g)
    BY DEF Consistent, CallerInv, Unasked, Ended
<1>2. SessionInv(c, l, s2, g)
    BY DEF Consistent, SessionInv, Unstarted
<1>3. GroupInv(c, s2, g)
    BY DEF Consistent, GroupInv, Unstarted, InLoop
<1>4. WireInv(c, l, s2, g)
    BY DEF Consistent, WireInv, Unstarted, Ended
<1> QED
    BY <1>1, <1>2, <1>3, <1>4 DEF Consistent

\* The script is not waited for any longer; only the loop's own end is a success.
LEMMA LeaveRecord ==
    ASSUME NEW c \in Clients, NEW l \in Links, NEW s \in Sessions, NEW g \in Groups,
           NEW fin, Consistent(c, l, s, g), InLoop(c, s),
           fin \notin {"none", "busy", "refused"},
           fin = "success" => s.at = "loop" /\ g.read = g.wrote
    PROVE  LET wrote == IF fin = "success" THEN g.wrote ELSE 0
           IN  Consistent(c, l, [at |-> "terminate", fin |-> fin],
                          [leader |-> g.leader, rest |-> g.rest, holds |-> FALSE,
                           wrote |-> wrote, read |-> 0])
<1> DEFINE wrote == IF fin = "success" THEN g.wrote ELSE 0
           s2 == [at |-> "terminate", fin |-> fin]
           g2 == [leader |-> g.leader, rest |-> g.rest, holds |-> FALSE,
                  wrote |-> wrote, read |-> 0]
<1>0. c.kind = "run"
    BY DEF Consistent, SessionInv, InLoop
<1>1. CallerInv(c, l, s2, g2)
    BY DEF Consistent, CallerInv, Unasked, Ended, InLoop, Statuses
<1>2. SessionInv(c, l, s2, g2)
    BY <1>0 DEF Consistent, SessionInv, Unstarted, InLoop
<1>3. GroupInv(c, s2, g2)
    BY <1>0, LimitAssumption DEF GroupInv, Unstarted
<1>4. WireInv(c, l, s2, g2)
  <2>1. Reading(c) /\ fin = "success" => c.got + Len(l.wire) = g.wrote
      BY DEF Consistent, WireInv
  <2>2. \A i \in 1..Len(l.wire) : Reading(c) => l.wire[i] \in Data /\ c.got + i <= Limit
      BY DEF Consistent, WireInv, Ended, InLoop
  <2>3. c.at \in {"done", "hello"} => c.at = "done" /\ l.wire = <<>>
      BY DEF Consistent, CallerInv, WireInv, Unasked, Ended, InLoop
  <2> QED
      BY <2>1, <2>2, <2>3 DEF WireInv, Unstarted
<1> QED
    BY <1>1, <1>2, <1>3, <1>4 DEF Consistent

\* One more chunk of output, or one more entry of the listing.
LEMMA ReadRecord ==
    ASSUME NEW c \in Clients, NEW l \in Links, NEW s \in Sessions, NEW g \in Groups,
           Consistent(c, l, s, g), s.at \in {"discover", "loop"}, g.read < Limit
    PROVE  LET s2 == [at |-> "send", fin |-> s.fin]
               g2 == [leader |-> g.leader, rest |-> g.rest, holds |-> g.holds,
                      wrote |-> g.wrote, read |-> g.read + 1]
           IN  g2 \in Groups /\ Consistent(c, l, s2, g2)
<1> DEFINE s2 == [at |-> "send", fin |-> s.fin]
           g2 == [leader |-> g.leader, rest |-> g.rest, holds |-> g.holds,
                  wrote |-> g.wrote, read |-> g.read + 1]
<1>0. g.read \in Nat /\ g.read + 1 <= Limit /\ g.read + 1 \in 0..(Limit + 1)
    BY LimitAssumption DEF Groups
<1>1. CallerInv(c, l, s2, g2)
    BY DEF Consistent, CallerInv, Unasked, Ended
<1>2. SessionInv(c, l, s2, g2)
    BY DEF Consistent, SessionInv, Unstarted, Silent
<1>3. GroupInv(c, s2, g2)
  <2>1. s.fin = "none" /\ (s.at = "loop" <=> c.kind = "run")
      BY DEF Consistent, SessionInv
  <2>2. s.at = "discover" => ~Living(g) /\ ~g.holds
      BY <2>1 DEF Consistent, GroupInv, Living
  <2> QED
      BY <1>0, <2>1, <2>2 DEF Consistent, GroupInv, Unstarted, InLoop, Living
<1>4. WireInv(c, l, s2, g2)
  <2>1. s.fin = "none"
      BY DEF Consistent, SessionInv
  <2>2. Reading(c) => c.got + Len(l.wire) + 1 = g.read + 1
      BY DEF Consistent, WireInv
  <2>3. \A i \in 1..Len(l.wire) : Reading(c) => l.wire[i] \in Data /\ c.got + i <= Limit
      BY DEF Consistent, WireInv, Ended
  <2>4. c.at \in {"done", "hello"} => c.at = "done" /\ l.wire = <<>>
      BY DEF Consistent, CallerInv, WireInv, Unasked, Ended
  <2> QED
      BY <2>1, <2>2, <2>3, <2>4 DEF WireInv, Unstarted
<1>5. g2 \in Groups
    BY <1>0 DEF Groups
<1> QED
    BY <1>1, <1>2, <1>3, <1>4, <1>5 DEF Consistent

\* The script has started.
LEMMA SpawnRecord ==
    ASSUME NEW c \in Clients, NEW l \in Links, NEW s \in Sessions, NEW g \in Groups,
           Consistent(c, l, s, g), s.at = "spawn"
    PROVE  Consistent(c, l, [at |-> "loop", fin |-> s.fin],
                      [leader |-> "alive", rest |-> g.rest, holds |-> TRUE,
                       wrote |-> g.wrote, read |-> g.read])
<1> DEFINE s2 == [at |-> "loop", fin |-> s.fin]
           g2 == [leader |-> "alive", rest |-> g.rest, holds |-> TRUE,
                  wrote |-> g.wrote, read |-> g.read]
<1>1. CallerInv(c, l, s2, g2)
    BY DEF Consistent, CallerInv, Unasked, Ended, Statuses
<1>2. SessionInv(c, l, s2, g2)
    BY DEF Consistent, SessionInv, Unstarted
<1>3. GroupInv(c, s2, g2)
    BY DEF Consistent, SessionInv, GroupInv, Unstarted, InLoop
<1>4. WireInv(c, l, s2, g2)
  <2>1. \A i \in 1..Len(l.wire) : Reading(c) => l.wire[i] \in Data /\ c.got + i <= Limit
      BY DEF Consistent, WireInv, Ended
  <2> QED
      BY <2>1 DEF Consistent, WireInv, Unstarted
<1> QED
    BY <1>1, <1>2, <1>3, <1>4 DEF Consistent

\* The script was not started, or nothing is left of its process group.
LEMMA UnlockRecord ==
    ASSUME NEW c \in Clients, NEW l \in Links, NEW s \in Sessions, NEW g \in Groups,
           NEW fin, NEW leader, Consistent(c, l, s, g),
           \/ s.at = "spawn" /\ leader = g.leader /\ fin \notin {"none", "success", "busy", "refused"}
           \/ s.at = "terminate" /\ leader = "gone" /\ fin = s.fin
    PROVE  Consistent(c, l, [at |-> "unlock", fin |-> fin],
                      [leader |-> leader, rest |-> FALSE, holds |-> g.holds,
                       wrote |-> g.wrote, read |-> g.read])
<1> DEFINE s2 == [at |-> "unlock", fin |-> fin]
           g2 == [leader |-> leader, rest |-> FALSE, holds |-> g.holds,
                  wrote |-> g.wrote, read |-> g.read]
<1>1. CallerInv(c, l, s2, g2)
    BY DEF Consistent, CallerInv, Unasked, Ended, Statuses
<1>2. SessionInv(c, l, s2, g2)
    BY DEF Consistent, SessionInv, Unstarted
<1>3. GroupInv(c, s2, g2)
  <2>1. s.at = "spawn" => g.leader = "none" /\ ~g.holds
      BY DEF Consistent, GroupInv, Unstarted
  <2>2. s.at = "terminate" => ~g.holds
      BY DEF Consistent, GroupInv, InLoop
  <2>3. leader # "alive"
      BY <2>1
  <2>4. c.kind = "run"
      BY DEF Consistent, SessionInv
  <2> QED
      BY <2>1, <2>2, <2>3, <2>4 DEF Consistent, GroupInv, Unstarted, Living
<1>4. WireInv(c, l, s2, g2)
  <2>1. \A i \in 1..Len(l.wire) : Reading(c) => l.wire[i] \in Data /\ c.got + i <= Limit
      BY DEF Consistent, WireInv, Ended
  <2>2. Reading(c) /\ fin = "success" => c.got + Len(l.wire) = g.wrote
      BY DEF Consistent, WireInv
  <2>3. c.at \in {"done", "hello"} => c.at = "done" /\ l.wire = <<>>
      BY DEF Consistent, CallerInv, WireInv, Unasked, Ended
  <2> QED
      BY <2>1, <2>2, <2>3 DEF WireInv, Unstarted
<1> QED
    BY <1>1, <1>2, <1>3, <1>4 DEF Consistent

\* The greeting.
LEMMA GreetRecord ==
    ASSUME NEW c \in Clients, NEW l \in Links, NEW s \in Sessions, NEW g \in Groups,
           Consistent(c, l, s, g), s.at = "greet", l.near = "open"
    PROVE  LET l2 == [near |-> l.near, far |-> l.far, asked |-> l.asked,
                      wire |-> Append(l.wire, "greeting")]
           IN  l2 \in Links /\ Consistent(c, l2, [at |-> "handshake", fin |-> s.fin], g)
<1> DEFINE w == Append(l.wire, "greeting")
           l2 == [near |-> l.near, far |-> l.far, asked |-> l.asked, wire |-> w]
           s2 == [at |-> "handshake", fin |-> s.fin]
<1>0. l.wire = <<>> /\ c.at = "hello"
    BY DEF Consistent, CallerInv, WireInv, Reading
<1>1. w \in Seq(Frames) /\ Len(w) = 1 /\ w[1] = "greeting"
  <2>1. l.wire \in Seq(Frames) /\ "greeting" \in Frames
      BY DEF Links, Frames
  <2>2. Len(l.wire) = 0
      BY <1>0
  <2> QED
      BY <2>1, <2>2, AppendProperties
<1>2. l2 \in Links
    BY <1>1 DEF Links
<1>3. CallerInv(c, l2, s2, g)
    BY <1>0 DEF Consistent, CallerInv, Unasked, Ended
<1>4. SessionInv(c, l2, s2, g)
    BY DEF Consistent, SessionInv, Unstarted
<1>5. GroupInv(c, s2, g)
    BY DEF Consistent, GroupInv, Unstarted, InLoop
<1>6. WireInv(c, l2, s2, g)
  <2> HIDE DEF w
  <2>1. \A i \in 1..Len(w) : i = 1 /\ w[i] = "greeting"
      BY <1>1
  <2> QED
      BY <1>0, <2>1 DEF WireInv, Reading
<1>7. Len(w) <= Buffer
    BY <1>1, BufferAssumption
<1> QED
    BY <1>2, <1>3, <1>4, <1>5, <1>6, <1>7 DEF Consistent

\* A frame goes on the wire.
LEMMA FrameRecord ==
    ASSUME NEW c \in Clients, NEW l \in Links, NEW s \in Sessions, NEW g \in Groups,
           Consistent(c, l, s, g), s.at = "send", l.near = "open", Len(l.wire) < Buffer
    PROVE  LET frame == IF s.fin # "none" THEN s.fin
                        ELSE IF c.kind = "run" THEN "chunk" ELSE "entry"
               at == IF s.fin # "none" THEN "end"
                     ELSE IF c.kind = "run" THEN "loop" ELSE "discover"
               l2 == [near |-> l.near, far |-> l.far, asked |-> l.asked,
                      wire |-> Append(l.wire, frame)]
           IN  l2 \in Links /\ Consistent(c, l2, [at |-> at, fin |-> s.fin], g)
<1> DEFINE frame == IF s.fin # "none" THEN s.fin
                    ELSE IF c.kind = "run" THEN "chunk" ELSE "entry"
           at == IF s.fin # "none" THEN "end"
                 ELSE IF c.kind = "run" THEN "loop" ELSE "discover"
           w == Append(l.wire, frame)
           l2 == [near |-> l.near, far |-> l.far, asked |-> l.asked, wire |-> w]
           s2 == [at |-> at, fin |-> s.fin]
<1>0. /\ Reading(c) /\ c.result = "none" /\ c.got \in Nat
      /\ s.fin # "none" => s.fin \in Statuses
      /\ s.fin = "none" => c.kind \in {"run", "list"}
    BY LimitAssumption
       DEF Consistent, CallerInv, SessionInv, Reading, Unasked, Ended, Sessions, Clients
<1>1. /\ w \in Seq(Frames) /\ Len(l.wire) \in Nat /\ Len(w) = Len(l.wire) + 1
      /\ \A i \in 1..Len(l.wire) : w[i] = l.wire[i]
      /\ w[Len(l.wire) + 1] = frame
  <2>1. l.wire \in Seq(Frames) /\ frame \in Frames
      BY <1>0 DEF Links, Frames
  <2> QED
      BY <2>1, AppendProperties, LenProperties
<1>2. l2 \in Links
    BY <1>1 DEF Links
<1>3. CallerInv(c, l2, s2, g)
    BY <1>0 DEF Consistent, CallerInv, Statuses, Reading
<1>4. SessionInv(c, l2, s2, g)
    BY <1>0 DEF Consistent, SessionInv, Unstarted
<1>5. GroupInv(c, s2, g)
    BY <1>0 DEF Consistent, GroupInv, Unstarted, InLoop
<1>6. WireInv(c, l2, s2, g)
  <2>1. /\ c.at \in {"sent", "await"}
        /\ s.fin = "none" => c.got + Len(l.wire) + 1 = g.read /\ g.read <= Limit
        /\ s.fin = "success" => c.got + Len(l.wire) = g.wrote
      BY <1>0 DEF Consistent, WireInv, GroupInv, Reading
  <2>2. \A i \in 1..Len(l.wire) : l.wire[i] \in Data /\ c.got + i <= Limit
      BY <1>0 DEF Consistent, WireInv, Ended
  <2>3. s.fin \in {"busy", "refused"} => g.leader = "none"
      BY DEF Consistent, SessionInv
  <2>4. /\ c.got + Len(w) = c.got + Len(l.wire) + 1
        /\ c.got + (Len(l.wire) + 1) = c.got + Len(l.wire) + 1
        /\ c.got + (Len(l.wire) + 1) - 1 = c.got + Len(l.wire)
      BY <1>0, <1>1
  <2> DEFINE n == Len(l.wire) + 1
             Sound(i) == \/ w[i] \in Data /\ c.got + i <= Limit
                         \/ /\ w[i] \in Statuses /\ i = Len(w) /\ at \in Ended
                            /\ w[i] \in {"busy", "refused"} => g.leader = "none"
                            /\ w[i] = "success" => c.got + i - 1 = g.wrote
  <2>5. ASSUME NEW i \in 1..Len(l.wire) PROVE Sound(i)
    <3> HIDE DEF w
    <3> QED
        BY <1>1, <2>2
  <2>6. Sound(n)
    <3> HIDE DEF w
    <3>1. CASE s.fin = "none"
      <4>1. w[n] \in Data
          BY <1>1, <3>1 DEF Data
      <4>2. c.got + n <= Limit
          BY <2>1, <2>4, <3>1
      <4> QED
          BY <4>1, <4>2
    <3>2. CASE s.fin # "none"
      <4>1. w[n] = s.fin /\ n = Len(w) /\ at \in Ended
          BY <1>1, <3>2 DEF Ended
      <4>2. s.fin = "success" => c.got + n - 1 = g.wrote
          BY <2>1, <2>4
      <4> QED
          BY <1>0, <2>3, <3>2, <4>1, <4>2
    <3> QED
        BY <3>1, <3>2
  <2>7. ASSUME NEW i \in 1..Len(w) PROVE Sound(i)
    <3>1. i \in 1..Len(l.wire) \/ i = n
        BY <1>1
    <3> HIDE DEF Sound
    <3> QED
        BY <2>5, <2>6, <3>1
  <2>8. s.fin = "none" => c.got + Len(w) = g.read
      BY <2>1, <2>4
  <2>9. at \in {"end", "loop", "discover"} /\ (s.fin # "none" => at = "end")
      OBVIOUS
  <2> HIDE DEF w, at
  <2> QED
      BY <2>1, <2>7, <2>8, <2>9 DEF WireInv, Unstarted
<1>7. Len(w) <= Buffer
    BY <1>1, BufferAssumption
<1> QED
    BY <1>2, <1>3, <1>4, <1>5, <1>6, <1>7 DEF Consistent

\* The connection is closed and the slot is given back.
LEMMA DoneRecord ==
    ASSUME NEW c \in Clients, NEW l \in Links, NEW s \in Sessions, NEW g \in Groups,
           Consistent(c, l, s, g), s.at = "end"
    PROVE  Consistent(c, [near |-> l.near, far |-> "closed", asked |-> FALSE, wire |-> l.wire],
                      [at |-> "done", fin |-> "none"], g)
<1> DEFINE l2 == [near |-> l.near, far |-> "closed", asked |-> FALSE, wire |-> l.wire]
           s2 == [at |-> "done", fin |-> "none"]
<1>1. CallerInv(c, l2, s2, g)
    BY DEF Consistent, CallerInv, SessionInv, Unasked, Ended
<1>2. SessionInv(c, l2, s2, g)
    BY DEF SessionInv, Unstarted
<1>3. GroupInv(c, s2, g)
    BY DEF Consistent, GroupInv, Unstarted, InLoop
<1>4. WireInv(c, l2, s2, g)
    BY DEF Consistent, WireInv, Unstarted, Ended
<1> QED
    BY <1>1, <1>2, <1>3, <1>4 DEF Consistent

\* The main thread refuses a connection, closes it, or starts its session.
LEMMA AcceptRecord ==
    ASSUME NEW c \in Clients, NEW l \in Links, NEW s \in Sessions, NEW g \in Groups,
           Consistent(c, l, s, g), l.far = "queued", NEW far, NEW at,
           \/ far = "closed" /\ at = s.at
           \/ far = "open" /\ at = "greet"
    PROVE  Consistent(c, [near |-> l.near, far |-> far, asked |-> l.asked, wire |-> l.wire],
                      [at |-> at, fin |-> s.fin], g)
<1> DEFINE l2 == [near |-> l.near, far |-> far, asked |-> l.asked, wire |-> l.wire]
           s2 == [at |-> at, fin |-> s.fin]
<1>0. s.at = "none" /\ l.wire = <<>>
    BY DEF Consistent, SessionInv, WireInv
<1>1. CallerInv(c, l2, s2, g)
    BY <1>0 DEF Consistent, CallerInv, Unasked, Ended
<1>2. SessionInv(c, l2, s2, g)
    BY <1>0 DEF Consistent, SessionInv, Unstarted
<1>3. GroupInv(c, s2, g)
    BY <1>0 DEF Consistent, GroupInv, Unstarted, InLoop
<1>4. WireInv(c, l2, s2, g)
    BY <1>0 DEF Consistent, WireInv
<1> QED
    BY <1>1, <1>2, <1>3, <1>4 DEF Consistent

\* The script writes, forks, closes its output or exits, in part or as a whole.
LEMMA ScriptRecord ==
    ASSUME NEW c \in Clients, NEW l \in Links, NEW s \in Sessions, NEW g \in Groups,
           Consistent(c, l, s, g), Living(g),
           NEW leader, NEW rest, NEW holds, NEW wrote,
           holds => g.holds, wrote = g.wrote \/ g.holds
    PROVE  Consistent(c, l, s, [leader |-> leader, rest |-> rest, holds |-> holds,
                                wrote |-> wrote, read |-> g.read])
<1> DEFINE g2 == [leader |-> leader, rest |-> rest, holds |-> holds,
                  wrote |-> wrote, read |-> g.read]
<1>0. InLoop(c, s) \/ (s.at = "terminate" /\ ~g.holds)
    BY DEF Consistent, GroupInv, InLoop
<1>1. CallerInv(c, l, s, g2)
    BY <1>0 DEF Consistent, CallerInv, InLoop, Unasked, Ended, Statuses
<1>2. SessionInv(c, l, s, g2)
    BY <1>0 DEF Consistent, SessionInv, InLoop, Unstarted
<1>3. GroupInv(c, s, g2)
  <2>1. c.kind = "run" /\ s.at \notin Unstarted
      BY <1>0 DEF Consistent, SessionInv, InLoop, Unstarted
  <2>2. g.read <= Limit /\ (holds => InLoop(c, s))
      BY DEF Consistent, GroupInv
  <2> QED
      BY <1>0, <2>1, <2>2 DEF GroupInv
<1>4. WireInv(c, l, s, g2)
  <2>1. \A i \in 1..Len(l.wire) : Reading(c) => l.wire[i] \in Data /\ c.got + i <= Limit
      BY <1>0 DEF Consistent, WireInv, Ended, InLoop
  <2>2. s.at \in {"terminate", "unlock", "send"} /\ s.fin = "success" => wrote = g.wrote
      BY <1>0 DEF InLoop
  <2> QED
      BY <1>0, <2>1, <2>2 DEF Consistent, WireInv
<1> QED
    BY <1>1, <1>2, <1>3, <1>4 DEF Consistent

-----------------------------------------------------------------------------
(* The session thread. *)

LEMMA Moved ==
    ASSUME Inv, NEW r \in Requests, NEW at, Goto(r, at)
    PROVE  /\ session' = [session EXCEPT ![r] = session'[r]]
           /\ session'[r] = [at |-> at, fin |-> session[r].fin]
BY DEF Goto, Inv, TypeInv, Sessions

LEMMA Concluded ==
    ASSUME Inv, NEW r \in Requests, NEW at, NEW fin, Conclude(r, at, fin)
    PROVE  /\ session' = [session EXCEPT ![r] = session'[r]]
           /\ session'[r] = [at |-> at, fin |-> fin]
BY DEF Conclude, Inv, TypeInv, Sessions

LEMMA Kept ==
    ASSUME Inv, NEW r \in Requests
    PROVE  /\ UNCHANGED client =>
                client' = [client EXCEPT ![r] = client'[r]] /\ client'[r] = client[r]
           /\ UNCHANGED link => link' = [link EXCEPT ![r] = link'[r]] /\ link'[r] = link[r]
           /\ UNCHANGED session =>
                session' = [session EXCEPT ![r] = session'[r]] /\ session'[r] = session[r]
           /\ UNCHANGED group =>
                group' = [group EXCEPT ![r] = group'[r]] /\ group'[r] = group[r]
BY DEF Inv, TypeInv

(* The session moves and nothing else changes. *)
LEMMA SessionMoves ==
    ASSUME Inv, NEW r \in Requests, UNCHANGED <<client, link, group, service>>,
           NEW at \in SessionPCs, NEW fin \in Statuses \cup Silent \cup {"none"},
           session' = [session EXCEPT ![r] = session'[r]],
           session'[r] = [at |-> at, fin |-> fin],
           Consistent(client[r], link[r], [at |-> at, fin |-> fin], group[r]),
           at \in Live <=> session[r].at \in Live,
           Holding(client[r], [at |-> at, fin |-> fin]) <=> Holding(client[r], session[r])
    PROVE  Inv'
<1>1. Updated(r)
    BY Records, Kept DEF Updated, Sessions
<1> QED
    BY <1>1, Kept, QuietUpdate

LEMMA ToEnd ==
    ASSUME Inv, NEW r \in Requests, UNCHANGED <<client, link, group, service>>,
           Goto(r, "end"), ~InLoop(client[r], session[r]),
           session[r].at \in {"greet", "handshake", "begin", "discover", "gate", "send"}
    PROVE  Inv'
<1> DEFINE s2 == [at |-> "end", fin |-> session[r].fin]
<1>1. Consistent(client[r], link[r], s2, group[r])
    BY Records, EndRecord
<1>2. session' = [session EXCEPT ![r] = session'[r]] /\ session'[r] = s2
    BY Moved
<1>3. session[r].fin \in Statuses \cup Silent \cup {"none"}
    BY Records DEF Sessions
<1>4. ~Holding(client[r], s2) /\ ~Holding(client[r], session[r])
    BY DEF Holding, InLoop
<1> QED
    BY <1>1, <1>2, <1>3, <1>4, SessionMoves DEF SessionPCs, Live

LEMMA CompleteStep ==
    ASSUME Inv, NEW r \in Requests, UNCHANGED <<client, link, group, service>>,
           NEW fin \in Statuses \ {"success"}, Complete(r, fin),
           session[r].at \in {"begin", "discover", "gate"}
    PROVE  Inv'
<1>1. CASE Cancelled(r)
  <2>1. Goto(r, "end") /\ ~InLoop(client[r], session[r])
      BY <1>1 DEF Complete, InLoop
  <2> QED
      BY <2>1, ToEnd
<1>2. CASE ~Cancelled(r)
  <2> DEFINE s2 == [at |-> "send", fin |-> fin]
  <2>1. Consistent(client[r], link[r], s2, group[r])
      BY Records, SendRecord
  <2>2. session' = [session EXCEPT ![r] = session'[r]] /\ session'[r] = s2
    <3>1. Conclude(r, "send", fin)
        BY <1>2 DEF Complete
    <3> QED
        BY <3>1, Concluded
  <2>3. ~Holding(client[r], s2) /\ ~Holding(client[r], session[r])
      BY DEF Holding, InLoop, Statuses
  <2> QED
      BY <2>1, <2>2, <2>3, SessionMoves DEF SessionPCs, Live
<1> QED
    BY <1>1, <1>2

(* Towards the execution of a script or a listing, short of the gate. *)
LEMMA Advance ==
    ASSUME Inv, NEW r \in Requests, UNCHANGED <<client, link, group, service>>,
           NEW at, Goto(r, at),
           \/ session[r].at = "handshake" /\ link[r].asked /\ at = "begin"
           \/ session[r].at = "begin" /\ client[r].kind = "list" /\ at = "discover"
           \/ session[r].at = "begin" /\ client[r].kind = "run" /\ at = "gate"
    PROVE  Inv'
<1> DEFINE s2 == [at |-> at, fin |-> session[r].fin]
<1>1. Consistent(client[r], link[r], s2, group[r])
    BY Records, AdvanceRecord
<1>2. session' = [session EXCEPT ![r] = session'[r]] /\ session'[r] = s2
    BY Moved
<1>3. session[r].fin \in Statuses \cup Silent \cup {"none"}
    BY Records DEF Sessions
<1>4. ~Holding(client[r], s2) /\ ~Holding(client[r], session[r])
    BY DEF Holding, InLoop
<1> QED
    BY <1>1, <1>2, <1>3, <1>4, SessionMoves DEF SessionPCs, Live

LEMMA GreetStep == ASSUME Inv, NEW r \in Requests, Greet(r) PROVE Inv'
<1>0. session[r].at = "greet" /\ UNCHANGED <<client, group, service>>
    BY DEF Greet
<1>1. CASE link[r].near = "closed" /\ Goto(r, "end") /\ UNCHANGED link
    BY <1>0, <1>1, ToEnd DEF InLoop
<1>2. CASE /\ link[r].near = "open"
           /\ link' = [link EXCEPT ![r].wire = Append(@, "greeting")]
           /\ Goto(r, "handshake")
  <2> DEFINE l == link[r]
             l2 == [near |-> l.near, far |-> l.far, asked |-> l.asked,
                    wire |-> Append(l.wire, "greeting")]
             s2 == [at |-> "handshake", fin |-> session[r].fin]
  <2>1. l2 \in Links /\ Consistent(client[r], l2, s2, group[r])
      BY <1>0, <1>2, Records, GreetRecord
  <2>2. /\ link' = [link EXCEPT ![r] = link'[r]] /\ link'[r] = l2
        /\ session' = [session EXCEPT ![r] = session'[r]] /\ session'[r] = s2
        /\ s2 \in Sessions
      BY <1>2, Moved, Records DEF Inv, TypeInv, Links, Sessions, SessionPCs
  <2>3. ~Holding(client[r], s2) /\ ~Holding(client[r], session[r])
      BY <1>0 DEF Holding, InLoop
  <2>4. "handshake" \in Live /\ "greet" \in Live
      BY DEF Live, SessionPCs
  <2> HIDE DEF l2
  <2>5. Updated(r)
      BY <1>0, <2>1, <2>2, Records, Kept DEF Updated
  <2> QED
      BY <1>0, <2>2, <2>3, <2>4, <2>5, Kept, QuietUpdate
<1> QED
    BY <1>1, <1>2 DEF Greet

LEMMA HandshakeStep ==
    ASSUME Inv, NEW r \in Requests, Handshake(r) \/ HandshakeTimeout(r)
    PROVE  Inv'
<1>0. session[r].at = "handshake" /\ UNCHANGED <<client, link, group, service>>
    BY DEF Handshake, HandshakeTimeout
<1>1. CASE Goto(r, "end")
    BY <1>0, <1>1, ToEnd DEF InLoop
<1>2. CASE link[r].asked /\ Goto(r, "begin")
    BY <1>0, <1>2, Advance
<1> QED
    BY <1>1, <1>2 DEF Handshake, HandshakeTimeout

LEMMA BeginEventsStep == ASSUME Inv, NEW r \in Requests, BeginEvents(r) PROVE Inv'
<1>0. session[r].at = "begin" /\ UNCHANGED <<client, link, group, service>>
    BY DEF BeginEvents
<1>1. CASE Goto(r, "end")
    BY <1>0, <1>1, ToEnd DEF InLoop
<1>2. CASE client[r].kind = "list" /\ Goto(r, "discover")
    BY <1>0, <1>2, Advance
<1>3. ASSUME NEW fin \in {"refused", "failed"}, Complete(r, fin) PROVE Inv'
    BY <1>0, <1>3, CompleteStep DEF Statuses
<1>4. CASE client[r].kind = "run" /\ Goto(r, "gate")
    BY <1>0, <1>4, Advance
<1> QED
    BY <1>1, <1>2, <1>3, <1>4 DEF BeginEvents

LEMMA LeftGroup ==
    ASSUME group \in [Requests -> Groups], NEW r \in Requests, NEW fin,
           group' = [group EXCEPT ![r].read = 0, ![r].holds = FALSE,
                                  ![r].wrote = IF fin = "success" THEN @ ELSE 0]
    PROVE  /\ group' = [group EXCEPT ![r] = group'[r]]
           /\ group'[r] = [leader |-> group[r].leader, rest |-> group[r].rest,
                           holds |-> FALSE,
                           wrote |-> IF fin = "success" THEN group[r].wrote ELSE 0, read |-> 0]
BY DEF Groups

(* The script is not waited for any longer. *)
LEMMA LeaveStep ==
    ASSUME Inv, NEW r \in Requests, UNCHANGED <<client, link, service>>,
           NEW fin \in (Statuses \cup Silent) \ {"busy", "refused"}, LeaveLoop(r, fin),
           InLoop(client[r], session[r]),
           fin = "success" => session[r].at = "loop" /\ group[r].read = group[r].wrote
    PROVE  Inv'
<1> DEFINE g == group[r]
           s2 == [at |-> "terminate", fin |-> fin]
           wrote == IF fin = "success" THEN g.wrote ELSE 0
           g2 == [leader |-> g.leader, rest |-> g.rest, holds |-> FALSE,
                  wrote |-> wrote, read |-> 0]
<1>0. fin # "none"
    BY DEF Statuses, Silent
<1>1. Consistent(client[r], link[r], s2, g2)
    BY <1>0, Records, LeaveRecord
<1>2. /\ session' = [session EXCEPT ![r] = session'[r]] /\ session'[r] = s2
      /\ s2 \in Sessions
  <2>1. Conclude(r, "terminate", fin)
      BY DEF LeaveLoop
  <2> QED
      BY <2>1, Concluded DEF Sessions, SessionPCs
<1>3. group' = [group EXCEPT ![r] = group'[r]] /\ group'[r] = g2 /\ g2 \in Groups
  <2>1. group \in [Requests -> Groups] /\ g \in Groups
      BY Records DEF Inv, TypeInv
  <2>2. group' = [group EXCEPT ![r].read = 0, ![r].holds = FALSE,
                               ![r].wrote = IF fin = "success" THEN @ ELSE 0]
      BY DEF LeaveLoop
  <2>3. group' = [group EXCEPT ![r] = group'[r]] /\ group'[r] = g2
      BY <2>1, <2>2, LeftGroup
  <2>4. g2 \in Groups
      BY <2>1, LimitAssumption DEF Groups
  <2> QED
      BY <2>3, <2>4
<1>4. Holding(client[r], s2) /\ Holding(client[r], session[r])
    BY DEF Holding
<1>5. "terminate" \in Live /\ session[r].at \in Live
    BY DEF Live, SessionPCs, InLoop
<1> HIDE DEF g2
<1>6. Updated(r)
    BY <1>1, <1>2, <1>3, Records, Kept DEF Updated
<1> QED
    BY <1>2, <1>4, <1>5, <1>6, Kept, QuietUpdate

(* One more chunk or entry was read, and is to be sent. *)
LEMMA ReadStep ==
    ASSUME Inv, NEW r \in Requests, UNCHANGED <<client, link, service>>,
           session[r].at \in {"discover", "loop"}, group[r].read < Limit,
           group' = [group EXCEPT ![r].read = @ + 1], Goto(r, "send")
    PROVE  Inv'
<1> DEFINE g == group[r]
           s2 == [at |-> "send", fin |-> session[r].fin]
           g2 == [leader |-> g.leader, rest |-> g.rest, holds |-> g.holds,
                  wrote |-> g.wrote, read |-> g.read + 1]
<1>1. g2 \in Groups /\ Consistent(client[r], link[r], s2, g2)
    BY Records, ReadRecord
<1>2. /\ session' = [session EXCEPT ![r] = session'[r]] /\ session'[r] = s2
      /\ s2 \in Sessions
    BY Moved, Records DEF Sessions, SessionPCs
<1>3. group' = [group EXCEPT ![r] = group'[r]] /\ group'[r] = g2
    BY Records DEF Inv, TypeInv, Groups
<1>4. Holding(client[r], s2) <=> Holding(client[r], session[r])
  <2>1. SessionInv(client[r], link[r], session[r], group[r])
      BY Records DEF Consistent
  <2> QED
      BY <2>1 DEF SessionInv, Holding, InLoop
<1>5. "send" \in Live /\ session[r].at \in Live
    BY DEF Live, SessionPCs
<1> HIDE DEF g2
<1>6. Updated(r)
    BY <1>1, <1>2, <1>3, Records, Kept DEF Updated
<1> QED
    BY <1>2, <1>4, <1>5, <1>6, Kept, QuietUpdate

LEMMA DiscoverStep == ASSUME Inv, NEW r \in Requests, Discover(r) PROVE Inv'
<1>0. session[r].at = "discover" /\ UNCHANGED <<client, link, service>>
    BY DEF Discover
<1>1. CASE Goto(r, "end") /\ UNCHANGED group
    BY <1>0, <1>1, ToEnd DEF InLoop
<1>2. CASE /\ group[r].read < Limit
           /\ group' = [group EXCEPT ![r].read = @ + 1]
           /\ Goto(r, "send")
    BY <1>0, <1>2, ReadStep
<1>3. ASSUME NEW fin \in {"listed", "refused", "failed"}, Complete(r, fin), UNCHANGED group
      PROVE  Inv'
    BY <1>0, <1>3, CompleteStep DEF Statuses
<1> QED
    BY <1>1, <1>2, <1>3 DEF Discover

LEMMA LoopStep == ASSUME Inv, NEW r \in Requests, Loop(r) \/ LoopFails(r) PROVE Inv'
<1>0. session[r].at = "loop" /\ UNCHANGED <<client, link, service>>
    BY DEF Loop, LoopFails
<1>1. InLoop(client[r], session[r])
    BY <1>0 DEF InLoop
<1>2. CASE ScriptOver(r) /\ LeaveLoop(r, ExitStatus(r))
  <2>1. /\ ExitStatus(r) \in (Statuses \cup Silent) \ {"busy", "refused"}
        /\ group[r].read = group[r].wrote
      BY <1>2 DEF ExitStatus, Statuses, ScriptOver
  <2> HIDE DEF ExitStatus
  <2> QED
      BY <1>0, <1>1, <1>2, <2>1, LeaveStep
<1>3. ASSUME NEW fin \in {"cancelled", "failed", "output_limit"}, LeaveLoop(r, fin)
      PROVE  Inv'
  <2>1. fin \in (Statuses \cup Silent) \ {"busy", "refused"} /\ fin # "success"
      BY <1>3 DEF Statuses, Silent
  <2> QED
      BY <1>0, <1>1, <1>3, <2>1, LeaveStep
<1>4. CASE /\ group[r].read < Limit
           /\ group' = [group EXCEPT ![r].read = @ + 1]
           /\ Goto(r, "send")
    BY <1>0, <1>4, ReadStep
<1> QED
    BY <1>2, <1>3, <1>4 DEF Loop, LoopFails, ReadOutput

(* The script was not started; the gate is given up next. *)
LEMMA NotSpawned ==
    ASSUME Inv, NEW r \in Requests, UNCHANGED <<client, link, group, service>>,
           session[r].at = "spawn", NEW fin \in {"cancelled", "failed", "timeout"},
           Conclude(r, "unlock", fin)
    PROVE  Inv'
<1> DEFINE g == group[r]
           s2 == [at |-> "unlock", fin |-> fin]
           g2 == [leader |-> g.leader, rest |-> FALSE, holds |-> g.holds,
                  wrote |-> g.wrote, read |-> g.read]
<1>1. Consistent(client[r], link[r], s2, g2)
    BY Records, UnlockRecord
<1>2. g2 = g
    BY Records DEF Consistent, GroupInv, Unstarted, Groups
<1>3. session' = [session EXCEPT ![r] = session'[r]] /\ session'[r] = s2
    BY Concluded
<1>4. Holding(client[r], s2) /\ Holding(client[r], session[r])
    BY DEF Holding
<1> QED
    BY <1>1, <1>2, <1>3, <1>4, SessionMoves DEF SessionPCs, Live, Statuses, Silent

LEMMA SpawnStep == ASSUME Inv, NEW r \in Requests, Spawn(r) PROVE Inv'
<1>0. session[r].at = "spawn" /\ UNCHANGED <<client, link, service>>
    BY DEF Spawn
<1>1. ASSUME NEW fin \in {"cancelled", "failed"}, Conclude(r, "unlock", fin), UNCHANGED group
      PROVE  Inv'
    BY <1>0, <1>1, NotSpawned
<1>2. CASE /\ group' = [group EXCEPT ![r].leader = "alive", ![r].holds = TRUE]
           /\ Goto(r, "loop")
  <2> DEFINE g == group[r]
             s2 == [at |-> "loop", fin |-> session[r].fin]
             g2 == [leader |-> "alive", rest |-> g.rest, holds |-> TRUE,
                    wrote |-> g.wrote, read |-> g.read]
  <2>1. Consistent(client[r], link[r], s2, g2)
      BY <1>0, Records, SpawnRecord
  <2>2. /\ session' = [session EXCEPT ![r] = session'[r]] /\ session'[r] = s2
        /\ s2 \in Sessions
      BY <1>2, Moved, Records DEF Sessions, SessionPCs
  <2>3. group' = [group EXCEPT ![r] = group'[r]] /\ group'[r] = g2 /\ g2 \in Groups
      BY <1>2, Records DEF Inv, TypeInv, Groups
  <2>4. Holding(client[r], s2) /\ Holding(client[r], session[r])
      BY <1>0 DEF Holding, InLoop
  <2>5. "loop" \in Live /\ "spawn" \in Live
      BY DEF Live, SessionPCs
  <2> HIDE DEF g2
  <2>6. Updated(r)
      BY <1>0, <2>1, <2>2, <2>3, Records, Kept DEF Updated
  <2> QED
      BY <1>0, <2>2, <2>4, <2>5, <2>6, Kept, QuietUpdate
<1> QED
    BY <1>1, <1>2 DEF Spawn

LEMMA DeadlineStep == ASSUME Inv, NEW r \in Requests, DeadlineExpires(r) PROVE Inv'
<1>0. UNCHANGED <<client, link, service>>
    BY DEF DeadlineExpires
<1>1. CASE session[r].at \in {"begin", "discover"} /\ Complete(r, "timeout") /\ UNCHANGED group
    BY <1>0, <1>1, CompleteStep DEF Statuses
<1>2. CASE session[r].at = "spawn" /\ Conclude(r, "unlock", "timeout") /\ UNCHANGED group
    BY <1>0, <1>2, NotSpawned
<1>3. CASE session[r].at = "loop" /\ LeaveLoop(r, "timeout")
  <2>1. "timeout" \in (Statuses \cup Silent) \ {"busy", "refused"}
      BY DEF Statuses
  <2> QED
      BY <1>0, <1>3, <2>1, LeaveStep DEF InLoop
<1> QED
    BY <1>1, <1>2, <1>3 DEF DeadlineExpires

LEMMA SendStep == ASSUME Inv, NEW r \in Requests, Send(r) \/ SendTimeout(r) PROVE Inv'
<1>0. session[r].at = "send" /\ UNCHANGED <<client, service>>
    BY DEF Send, SendTimeout
<1>1. CASE Undelivered(r) /\ UNCHANGED link
  <2>1. CASE InLoop(client[r], session[r])
    <3>1. LeaveLoop(r, "cancelled")
        BY <1>0, <1>1, <2>1 DEF Undelivered, InLoop
    <3>2. "cancelled" \in (Statuses \cup Silent) \ {"busy", "refused"}
        BY DEF Statuses, Silent
    <3> QED
        BY <1>0, <1>1, <2>1, <3>1, <3>2, LeaveStep
  <2>2. CASE ~InLoop(client[r], session[r])
    <3>1. Goto(r, "end") /\ UNCHANGED group
        BY <1>0, <1>1, <2>2 DEF Undelivered, InLoop
    <3> QED
        BY <1>0, <1>1, <2>2, <3>1, ToEnd
  <2> QED
      BY <2>1, <2>2
<1>2. CASE /\ link[r].near = "open" /\ Len(link[r].wire) < Buffer
           /\ link' = [link EXCEPT ![r].wire = Append(@, Frame(r))]
           /\ Goto(r, Resume(r))
           /\ UNCHANGED group
  <2> DEFINE l == link[r]
             l2 == [near |-> l.near, far |-> l.far, asked |-> l.asked,
                    wire |-> Append(l.wire, Frame(r))]
             s2 == [at |-> Resume(r), fin |-> session[r].fin]
  <2>1. l2 \in Links /\ Consistent(client[r], l2, s2, group[r])
      BY <1>0, <1>2, Records, FrameRecord DEF Frame, Resume
  <2>2. link' = [link EXCEPT ![r] = link'[r]] /\ link'[r] = l2
    <3> HIDE DEF Frame
    <3> QED
        BY <1>2, Records DEF Inv, TypeInv, Links
  <2>3. Resume(r) \in {"end", "loop", "discover"}
      BY DEF Resume
  <2>4. /\ session' = [session EXCEPT ![r] = session'[r]] /\ session'[r] = s2
        /\ s2 \in Sessions
      BY <1>2, <2>3, Moved, Records DEF Sessions, SessionPCs
  <2>5. Holding(client[r], s2) <=> Holding(client[r], session[r])
      BY <1>0 DEF Holding, InLoop, Resume
  <2>6. s2.at \in Live /\ session[r].at \in Live
      BY <1>0, <2>3 DEF Live, SessionPCs
  <2> HIDE DEF l2, s2
  <2>7. Updated(r)
      BY <1>0, <1>2, <2>1, <2>2, <2>4, Records, Kept DEF Updated
  <2> QED
      BY <1>0, <2>4, <2>5, <2>6, <2>7, Kept, QuietUpdate
<1> QED
    BY <1>1, <1>2 DEF Send, SendTimeout

LEMMA TerminateStep == ASSUME Inv, NEW r \in Requests, Terminate(r) \/ Kill(r) PROVE Inv'
<1> DEFINE g == group[r]
           s2 == [at |-> "unlock", fin |-> session[r].fin]
           g2 == [leader |-> "gone", rest |-> FALSE, holds |-> g.holds,
                  wrote |-> g.wrote, read |-> g.read]
<1>0. /\ session[r].at = "terminate" /\ UNCHANGED <<client, link, service>>
      /\ Goto(r, "unlock")
    BY DEF Terminate, Kill
<1>1. Consistent(client[r], link[r], s2, g2)
    BY <1>0, Records, UnlockRecord
<1>2. /\ session' = [session EXCEPT ![r] = session'[r]] /\ session'[r] = s2
      /\ s2 \in Sessions
    BY <1>0, Moved, Records DEF Sessions, SessionPCs
<1>3. group' = [group EXCEPT ![r] = group'[r]] /\ group'[r] = g2 /\ g2 \in Groups
  <2>1. CASE Terminate(r)
      BY <2>1, Records DEF Terminate, Alive, Inv, TypeInv, Groups
  <2>2. CASE Kill(r)
      BY <2>2, Records DEF Kill, Inv, TypeInv, Groups
  <2> QED
      BY <2>1, <2>2
<1>4. Holding(client[r], s2) /\ Holding(client[r], session[r])
    BY <1>0 DEF Holding
<1>5. "unlock" \in Live /\ "terminate" \in Live
    BY DEF Live, SessionPCs
<1> HIDE DEF g2
<1>6. Updated(r)
    BY <1>0, <1>1, <1>2, <1>3, Records, Kept DEF Updated
<1> QED
    BY <1>0, <1>2, <1>4, <1>5, <1>6, Kept, QuietUpdate

LEMMA AcquireGateStep == ASSUME Inv, NEW r \in Requests, AcquireGate(r) PROVE Inv'
<1>0. /\ session[r].at = "gate" /\ UNCHANGED <<client, link, group>>
      /\ UNCHANGED <<free, leaked, stopping, serve>>
    BY DEF AcquireGate
<1>1. CASE Complete(r, "busy") /\ UNCHANGED lock
    BY <1>0, <1>1, CompleteStep DEF Statuses, service
<1>2. CASE lock = NoOne /\ lock' = r /\ Goto(r, "spawn")
  <2> DEFINE s2 == [at |-> "spawn", fin |-> session[r].fin]
  <2>1. Consistent(client[r], link[r], s2, group[r])
      BY <1>0, Records, AdvanceRecord
  <2>2. /\ session' = [session EXCEPT ![r] = session'[r]] /\ session'[r] = s2
        /\ s2 \in Sessions
      BY <1>2, Moved, Records DEF Sessions, SessionPCs
  <2>3. Updated(r)
      BY <1>0, <2>1, <2>2, Records, Kept DEF Updated
  <2>4. TypeInv'
      BY <1>0, <1>2, <2>3, UpdatedStep DEF Inv, TypeInv
  <2>5. LockInv'
    <3> SUFFICES ASSUME NEW q \in Requests
                 PROVE  (lock = q <=> Holding(client[q], session[q]))'
        BY DEF LockInv
    <3>1. CASE q = r
        BY <1>2, <2>2, <3>1 DEF Holding
    <3>2. CASE q # r
      <4>1. ~Holding(client[q], session[q])
          BY <1>2, RequestsAssumption DEF Inv, LockInv
      <4>2. client'[q] = client[q] /\ session'[q] = session[q]
          BY <2>3, <3>2, UpdatedStep DEF Others
      <4> QED
          BY <1>2, <3>2, <4>1, <4>2
    <3> QED
        BY <3>1, <3>2
  <2>6. SlotInv'
    <3>1. "spawn" \in Live /\ "gate" \in Live
        BY DEF Live, SessionPCs
    <3> QED
        BY <1>0, <2>2, <2>3, <3>1, UpdatedStep, SlotsKept
  <2> QED
      BY <2>3, <2>4, <2>5, <2>6, UpdatedStep DEF Inv
<1> QED
    BY <1>1, <1>2 DEF AcquireGate

LEMMA ReleaseGateStep == ASSUME Inv, NEW r \in Requests, ReleaseGate(r) PROVE Inv'
<1> DEFINE s == session[r]
<1>0. /\ s.at = "unlock" /\ lock' = NoOne /\ UNCHANGED <<client, link, group>>
      /\ UNCHANGED <<free, leaked, stopping, serve>>
    BY DEF ReleaseGate
<1>1. s.fin \in Statuses \cup Silent /\ s \in Sessions
    BY <1>0, Records DEF Consistent, SessionInv, Sessions
<1>2. \E at \in {"end", "send"} :
          /\ Consistent(client[r], link[r], [at |-> at, fin |-> s.fin], group[r])
          /\ session' = [session EXCEPT ![r] = session'[r]]
          /\ session'[r] = [at |-> at, fin |-> s.fin]
  <2>1. CASE Goto(r, "end")
    <3>1. Consistent(client[r], link[r], [at |-> "end", fin |-> s.fin], group[r])
        BY <1>0, Records, EndRecord DEF InLoop
    <3> QED
        BY <2>1, <3>1, Moved
  <2>2. CASE s.fin \in Statuses /\ Conclude(r, "send", s.fin)
    <3>1. Consistent(client[r], link[r], [at |-> "send", fin |-> s.fin], group[r])
        BY <1>0, <2>2, Records, SendRecord
    <3> QED
        BY <2>2, <3>1, Concluded
  <2> QED
      BY <1>1, <2>1, <2>2 DEF ReleaseGate, Complete
<1>3. PICK at \in {"end", "send"} :
          /\ Consistent(client[r], link[r], [at |-> at, fin |-> s.fin], group[r])
          /\ session' = [session EXCEPT ![r] = session'[r]]
          /\ session'[r] = [at |-> at, fin |-> s.fin]
    BY <1>2
<1>4. [at |-> at, fin |-> s.fin] \in Sessions
    BY <1>1 DEF Sessions, SessionPCs
<1>5. Updated(r)
    BY <1>0, <1>3, <1>4, Records, Kept DEF Updated
<1>6. TypeInv'
    BY <1>0, <1>5, UpdatedStep DEF Inv, TypeInv
<1>7. LockInv'
  <2> SUFFICES ASSUME NEW q \in Requests
               PROVE  ~Holding(client[q], session[q])'
      BY <1>0, RequestsAssumption DEF LockInv
  <2>1. CASE q = r
      BY <1>1, <1>3, <2>1 DEF Holding, InLoop, Statuses, Silent
  <2>2. CASE q # r
    <3>1. ~Holding(client[q], session[q])
        BY <1>0, <2>2 DEF Inv, LockInv, Holding
    <3>2. client'[q] = client[q] /\ session'[q] = session[q]
        BY <1>5, <2>2, UpdatedStep DEF Others
    <3> QED
        BY <3>1, <3>2
  <2> QED
      BY <2>1, <2>2
<1>8. SlotInv'
  <2>1. session'[r].at \in Live /\ s.at \in Live
      BY <1>0, <1>3 DEF Live, SessionPCs
  <2> QED
      BY <1>0, <1>5, <2>1, UpdatedStep, SlotsKept
<1> QED
    BY <1>5, <1>6, <1>7, <1>8, UpdatedStep DEF Inv

LEMMA EndSessionStep == ASSUME Inv, NEW r \in Requests, EndSession(r) PROVE Inv'
<1> DEFINE l == link[r]
           l2 == [near |-> l.near, far |-> "closed", asked |-> FALSE, wire |-> l.wire]
           s2 == [at |-> "done", fin |-> "none"]
<1>0. /\ session[r].at = "end" /\ UNCHANGED <<client, group>> /\ free' = free + 1
      /\ UNCHANGED <<lock, leaked, stopping, serve>> /\ Conclude(r, "done", "none")
    BY DEF EndSession
<1>1. Consistent(client[r], l2, s2, group[r])
    BY <1>0, Records, DoneRecord
<1>2. /\ session' = [session EXCEPT ![r] = session'[r]] /\ session'[r] = s2
      /\ s2 \in Sessions
    BY <1>0, Concluded DEF Sessions, SessionPCs
<1>3. link' = [link EXCEPT ![r] = link'[r]] /\ link'[r] = l2 /\ l2 \in Links
    BY Records DEF EndSession, Inv, TypeInv, Links
<1>4. Updated(r)
    BY <1>0, <1>1, <1>2, <1>3, Records, Kept DEF Updated
<1>5. TypeInv'
    BY <1>0, <1>4, UpdatedStep DEF Inv, TypeInv
<1>6. LockInv'
  <2>1. ~Holding(client'[r], session'[r]) /\ ~Holding(client[r], session[r])
      BY <1>0, <1>2 DEF Holding, InLoop
  <2> QED
      BY <1>0, <1>4, <2>1, UpdatedStep, GateKept
<1>7. SlotInv'
  <2>1. LiveSessions' = LiveSessions \ {r} /\ r \in LiveSessions
      BY <1>0, <1>2, <1>4, UpdatedStep DEF LiveSessions, Others, Live, SessionPCs
  <2>2. IsFiniteSet(LiveSessions)
      BY RequestsAssumption, FS_Subset DEF LiveSessions
  <2>3. /\ Cardinality(LiveSessions) \in Nat
        /\ Cardinality(LiveSessions') = Cardinality(LiveSessions) - 1
      BY <2>1, <2>2, FS_RemoveElement, FS_CardinalityType
  <2> QED
      BY <1>0, <2>3, SlotsAssumption DEF Inv, TypeInv, SlotInv
<1> QED
    BY <1>4, <1>5, <1>6, <1>7, UpdatedStep DEF Inv

LEMMA SessionStepInv == ASSUME Inv, NEW r \in Requests, SessionStep(r) PROVE Inv'
BY GreetStep, HandshakeStep, BeginEventsStep, DiscoverStep, AcquireGateStep, SpawnStep,
   LoopStep, SendStep, TerminateStep, ReleaseGateStep, EndSessionStep DEF SessionStep

-----------------------------------------------------------------------------
(* The main thread. *)

LEMMA AcceptStep == ASSUME Inv, NEW r \in Requests, Accept(r) PROVE Inv'
<1> DEFINE l == link[r]
           Far(f) == [near |-> l.near, far |-> f, asked |-> l.asked, wire |-> l.wire]
           s == session[r]
           s2 == [at |-> "greet", fin |-> s.fin]
<1>0. /\ l.far = "queued" /\ UNCHANGED <<client, group, lock, stopping, serve>>
      /\ s \in Sessions /\ l \in Links
    BY Records DEF Accept
<1>1. s.at = "none"
    BY <1>0, Records DEF Consistent, SessionInv
<1>2. CASE /\ link' = [link EXCEPT ![r].far = "closed"] /\ UNCHANGED session
           /\ \/ free' = free /\ leaked' = leaked
              \/ free > 0 /\ free' = free - 1 /\ leaked' = leaked + 1
  <2>1. /\ link' = [link EXCEPT ![r] = link'[r]] /\ link'[r] = Far("closed")
        /\ Far("closed") \in Links
      BY <1>0, <1>2 DEF Inv, TypeInv, Links
  <2>2. Consistent(client[r], Far("closed"), s, group[r])
    <3>1. s = [at |-> s.at, fin |-> s.fin]
        BY <1>0 DEF Sessions
    <3>2. Consistent(client[r], Far("closed"), [at |-> s.at, fin |-> s.fin], group[r])
        BY <1>0, Records, AcceptRecord
    <3> QED
        BY <3>1, <3>2
  <2>3. Updated(r)
      BY <1>0, <1>2, <2>1, <2>2, Records, Kept DEF Updated
  <2>4. free \in Nat /\ leaked \in Nat /\ free' \in Nat /\ leaked' \in Nat
      BY <1>2 DEF Inv, TypeInv
  <2>5. TypeInv'
      BY <1>0, <2>3, <2>4, UpdatedStep DEF Inv, TypeInv
  <2>6. LockInv'
      BY <1>0, <1>2, <2>3, UpdatedStep, GateKept
  <2>7. SlotInv'
    <3>1. LiveSessions' = LiveSessions
        BY <1>2 DEF LiveSessions
    <3>2. Cardinality(LiveSessions) \in Nat
        BY RequestsAssumption, FS_Subset, FS_CardinalityType DEF LiveSessions
    <3>3. free' + Cardinality(LiveSessions) + leaked' = free + Cardinality(LiveSessions) + leaked
        BY <1>2, <2>4, <3>2
    <3> QED
        BY <3>1, <3>3 DEF Inv, SlotInv
  <2> QED
      BY <2>3, <2>5, <2>6, <2>7, UpdatedStep DEF Inv
<1>3. CASE /\ free > 0 /\ free' = free - 1 /\ UNCHANGED leaked
           /\ link' = [link EXCEPT ![r].far = "open"]
           /\ session' = [session EXCEPT ![r].at = "greet"]
  <2>1. /\ link' = [link EXCEPT ![r] = link'[r]] /\ link'[r] = Far("open")
        /\ Far("open") \in Links
      BY <1>0, <1>3 DEF Inv, TypeInv, Links
  <2>2. /\ session' = [session EXCEPT ![r] = session'[r]] /\ session'[r] = s2
        /\ s2 \in Sessions
      BY <1>0, <1>3, Moved DEF Goto, Sessions, SessionPCs
  <2>3. Consistent(client[r], Far("open"), s2, group[r])
      BY <1>0, Records, AcceptRecord
  <2>4. Updated(r)
      BY <1>0, <2>1, <2>2, <2>3, Records, Kept DEF Updated
  <2>5. TypeInv'
      BY <1>0, <1>3, <2>4, UpdatedStep DEF Inv, TypeInv
  <2>6. LockInv'
    <3>1. ~Holding(client'[r], session'[r]) /\ ~Holding(client[r], session[r])
        BY <1>1, <2>2 DEF Holding, InLoop
    <3> QED
        BY <1>0, <2>4, <3>1, UpdatedStep, GateKept
  <2>7. SlotInv'
    <3>1. LiveSessions' = LiveSessions \cup {r} /\ r \notin LiveSessions
        BY <1>1, <2>2, <2>4, UpdatedStep DEF LiveSessions, Others, Live, SessionPCs
    <3>2. IsFiniteSet(LiveSessions)
        BY RequestsAssumption, FS_Subset DEF LiveSessions
    <3>3. /\ Cardinality(LiveSessions) \in Nat
          /\ Cardinality(LiveSessions') = Cardinality(LiveSessions) + 1
        BY <3>1, <3>2, FS_AddElement, FS_CardinalityType
    <3> QED
        BY <1>3, <3>3, SlotsAssumption DEF Inv, TypeInv, SlotInv
  <2> QED
      BY <2>4, <2>5, <2>6, <2>7, UpdatedStep DEF Inv
<1> QED
    BY <1>2, <1>3 DEF Accept

(* A step of the service that leaves every request as it is. *)
LEMMA ServiceStep ==
    ASSUME Inv, UNCHANGED <<client, link, session, group, lock, free, leaked>>,
           stopping' \in BOOLEAN, serve' \in {"accepting", "joining", "down"}
    PROVE  Inv'
<1>1. TypeInv'
    BY DEF Inv, TypeInv
<1>2. LockInv' /\ SlotInv' /\ \A r \in Requests : RequestInv(r)'
    BY DEF Inv, LockInv, SlotInv, LiveSessions, RequestInv
<1> QED
    BY <1>1, <1>2 DEF Inv

LEMMA CloseListenerStep == ASSUME Inv, CloseListener PROVE Inv'
<1> DEFINE Far(l) == [near |-> l.near, far |-> "closed", asked |-> l.asked, wire |-> l.wire]
<1>0. /\ UNCHANGED <<client, session, group, lock, free, leaked, stopping>>
      /\ serve' = "joining"
      /\ link' = [r \in Requests |->
                     IF link[r].far = "queued" THEN [link[r] EXCEPT !.far = "closed"]
                                               ELSE link[r]]
    BY DEF CloseListener
<1>1. ASSUME NEW r \in Requests
      PROVE  /\ link'[r] \in Links
             /\ Consistent(client[r], link'[r], session[r], group[r])
  <2>1. CASE link[r].far = "queued"
    <3>1. link'[r] = Far(link[r])
        BY <1>0, <2>1, Records DEF Links
    <3>2. session[r] = [at |-> session[r].at, fin |-> session[r].fin]
        BY Records DEF Sessions
    <3>3. Consistent(client[r], Far(link[r]),
                     [at |-> session[r].at, fin |-> session[r].fin], group[r])
        BY <2>1, Records, AcceptRecord
    <3>4. Far(link[r]) \in Links
        BY Records DEF Links
    <3> QED
        BY <3>1, <3>2, <3>3, <3>4
  <2>2. CASE link[r].far # "queued"
      BY <1>0, <2>2, Records
  <2> QED
      BY <2>1, <2>2
<1>2. link' \in [Requests -> Links]
  <2>1. DOMAIN link' = Requests /\ link' = [r \in Requests |-> link'[r]]
      BY <1>0
  <2> QED
      BY <1>1, <2>1
<1>3. TypeInv'
    BY <1>0, <1>2 DEF Inv, TypeInv
<1>4. LockInv' /\ SlotInv'
    BY <1>0 DEF Inv, LockInv, SlotInv, LiveSessions
<1>5. \A r \in Requests : RequestInv(r)'
    BY <1>0, <1>1 DEF RequestInv
<1> QED
    BY <1>3, <1>4, <1>5 DEF Inv

-----------------------------------------------------------------------------
(* The script. *)

LEMMA ScriptStepInv == ASSUME Inv, NEW r \in Requests, ScriptStep(r) PROVE Inv'
<1> DEFINE g == group[r]
           New(leader, rest, holds, wrote) ==
               [leader |-> leader, rest |-> rest, holds |-> holds, wrote |-> wrote,
                read |-> g.read]
<1>0. /\ UNCHANGED <<client, link, session, service>> /\ g \in Groups
      /\ group \in [Requests -> Groups]
    BY Records DEF ScriptStep, Inv, TypeInv
<1>1. ASSUME NEW leader \in {"none", "alive", "exit0", "exit1", "gone"},
             NEW rest \in BOOLEAN, NEW holds \in BOOLEAN, NEW wrote \in 0..(Limit + 1),
             Living(g), holds => g.holds, wrote = g.wrote \/ g.holds,
             group' = [group EXCEPT ![r] = group'[r]],
             group'[r] = New(leader, rest, holds, wrote)
      PROVE  Inv'
  <2> DEFINE g2 == New(leader, rest, holds, wrote)
  <2>1. Consistent(client[r], link[r], session[r], g2)
      BY <1>1, Records, ScriptRecord
  <2>2. g2 \in Groups
      BY <1>0 DEF Groups
  <2>3. group'[r] = g2
      BY <1>1
  <2> HIDE DEF g2
  <2>4. Updated(r)
      BY <1>0, <1>1, <2>1, <2>2, <2>3, Records, Kept DEF Updated
  <2> QED
      BY <1>0, <2>4, Kept, QuietUpdate
<1>2. /\ g.leader \in {"none", "alive", "exit0", "exit1", "gone"} /\ g.rest \in BOOLEAN
      /\ g.holds \in BOOLEAN /\ g.wrote \in 0..(Limit + 1)
    BY <1>0 DEF Groups
<1>3. CASE Write(r)
  <2>1. Living(g) /\ g.holds /\ g.wrote + 1 \in 0..(Limit + 1)
      BY <1>0, <1>3, LimitAssumption DEF Write, Alive, Living, Groups
  <2>2. /\ group' = [group EXCEPT ![r] = group'[r]]
        /\ group'[r] = New(g.leader, g.rest, g.holds, g.wrote + 1)
      BY <1>0, <1>3 DEF Write, Groups
  <2> QED
      BY <1>1, <1>2, <2>1, <2>2
<1>4. CASE Fork(r)
  <2>1. Living(g)
      BY <1>4 DEF Fork, Living
  <2>2. /\ group' = [group EXCEPT ![r] = group'[r]]
        /\ group'[r] = New(g.leader, TRUE, g.holds, g.wrote)
      BY <1>0, <1>4 DEF Fork, Groups
  <2> QED
      BY <1>1, <1>2, <2>1, <2>2
<1>5. CASE CloseOutput(r)
  <2>1. Living(g)
      BY <1>5 DEF CloseOutput, Alive, Living
  <2>2. /\ group' = [group EXCEPT ![r] = group'[r]]
        /\ group'[r] = New(g.leader, g.rest, FALSE, g.wrote)
      BY <1>0, <1>5 DEF CloseOutput, Groups
  <2> QED
      BY <1>1, <1>2, <2>1, <2>2
<1>6. CASE LeaderExits(r)
  <2>1. PICK code \in {"exit0", "exit1"} :
            group' = [group EXCEPT ![r].leader = code,
                                   ![r].holds = group[r].holds /\ group[r].rest]
      BY <1>6 DEF LeaderExits
  <2>2. Living(g)
      BY <1>6 DEF LeaderExits, Living
  <2>3. /\ group' = [group EXCEPT ![r] = group'[r]]
        /\ group'[r] = New(code, g.rest, g.holds /\ g.rest, g.wrote)
      BY <1>0, <2>1 DEF Groups
  <2> QED
      BY <1>1, <1>2, <2>2, <2>3
<1>7. CASE RestExits(r)
  <2>1. Living(g)
      BY <1>7 DEF RestExits, Living
  <2>2. /\ group' = [group EXCEPT ![r] = group'[r]]
        /\ group'[r] = New(g.leader, FALSE, g.holds /\ g.leader = "alive", g.wrote)
      BY <1>0, <1>7 DEF RestExits, Groups
  <2> QED
      BY <1>1, <1>2, <2>1, <2>2
<1> QED
    BY <1>3, <1>4, <1>5, <1>6, <1>7 DEF ScriptStep

-----------------------------------------------------------------------------
LEMMA StepInv == Inv /\ [Next]_vars => Inv'
<1> SUFFICES ASSUME Inv, [Next]_vars PROVE Inv'
    OBVIOUS
<1>1. CASE Serve
  <2>1. CASE JoinThreads
      BY <2>1, ServiceStep DEF JoinThreads, Inv, TypeInv
  <2> QED
      BY <1>1, <2>1, AcceptStep, CloseListenerStep DEF Serve
<1>2. CASE StopSignal
    BY <1>2, ServiceStep DEF StopSignal, Inv, TypeInv
<1>3. ASSUME NEW r \in Requests,
             \/ ClientStep(r) \/ SessionStep(r) \/ ScriptStep(r)
             \/ HandshakeTimeout(r) \/ LoopFails(r) \/ SendTimeout(r) \/ Kill(r)
             \/ DeadlineExpires(r)
      PROVE  Inv'
    BY <1>3, ClientInv, SessionStepInv, ScriptStepInv, HandshakeStep, LoopStep, SendStep,
       TerminateStep, DeadlineStep
<1>4. CASE UNCHANGED vars
    BY <1>4, ServiceStep DEF vars, service, Inv, TypeInv
<1> QED
    BY <1>1, <1>2, <1>3, <1>4 DEF Next

(* Of any number of requests, whatever each asks for, and with any number of *)
(* slots, chunks and buffered frames: the service keeps its records, the     *)
(* gate, the slots and the wires consistent in every interleaving.           *)
THEOREM Invariant == Spec => []Inv
<1>1. Init => Inv
    BY InitInv
<1>2. Inv /\ [Next]_vars => Inv'
    BY StepInv
<1> QED
    BY <1>1, <1>2, PTL DEF Spec

(* The records, the semaphore and the wires keep their types and bounds: no  *)
(* wire holds more than its socket, and no slot is given back twice.         *)
THEOREM TypeCorrect == Spec => []TypeOK
<1>1. Inv => TypeOK
  <2> SUFFICES ASSUME Inv PROVE TypeOK
      OBVIOUS
  <2>1. free \in 0..Slots /\ leaked \in 0..Slots
    <3>1. Cardinality(LiveSessions) \in Nat
        BY RequestsAssumption, FS_Subset, FS_CardinalityType DEF LiveSessions
    <3> QED
        BY <3>1, SlotsAssumption DEF Inv, TypeInv, SlotInv
  <2>2. \A r \in Requests : Len(link[r].wire) <= Buffer
      BY DEF Inv, RequestInv, Consistent
  <2> QED
      BY <2>1, <2>2 DEF Inv, TypeInv, TypeOK, Clients, Links, Sessions, Groups
<1> QED
    BY <1>1, Invariant, PTL

(* At most one script's process group is alive, the one whose session holds  *)
(* execution_lock: every way out of _execute goes through _terminate before  *)
(* the gate is released.                                                     *)
THEOREM GateGuards == Spec => []GateGuardsProcess
<1>1. Inv => GateGuardsProcess
  <2> SUFFICES ASSUME Inv, NEW r \in Requests, Alive(r) PROVE lock = r
      BY DEF GateGuardsProcess
  <2>1. GroupInv(client[r], session[r], group[r]) /\ Living(group[r])
      BY Records DEF Consistent, Alive, Living
  <2>2. Holding(client[r], session[r])
      BY <2>1 DEF GroupInv, Holding
  <2> QED
      BY <2>2 DEF Inv, LockInv
<1> QED
    BY <1>1, Invariant, PTL

(* Whoever has received a completion finds neither its own script alive nor  *)
(* its own hold on the gate: events() yields the completion after its        *)
(* ExitStack and the release.                                                *)
THEOREM CompletionClean == Spec => []CompletionMeansClean
<1>1. Inv => CompletionMeansClean
  <2> SUFFICES ASSUME Inv, NEW r \in Requests, client[r].result \in Statuses
               PROVE  ~Alive(r) /\ lock # r
      BY DEF CompletionMeansClean
  <2>1. session[r].at \in Ended
      BY Records DEF Consistent, CallerInv
  <2>2. ~Holding(client[r], session[r])
      BY <2>1 DEF Ended, Holding, InLoop
  <2>3. ~Living(group[r])
      BY <2>2, Records DEF Consistent, GroupInv, Holding
  <2> QED
      BY <2>2, <2>3 DEF Inv, LockInv, Alive, Living
<1> QED
    BY <1>1, Invariant, PTL

(* Every slot of the service is free, held by one live session thread, or    *)
(* lost with a thread that did not start.                                    *)
THEOREM SlotsAccounted == Spec => []SlotAccounting
<1>1. Inv => SlotAccounting
    BY DEF Inv, SlotInv, LiveSessions, SlotAccounting
<1> QED
    BY <1>1, Invariant, PTL

(* A caller told that the service was busy, refused it or could not be       *)
(* reached before the request was attempted has no script, and will have     *)
(* none: it may ask again.                                                   *)
THEOREM NotStarted == Spec => []NotStartedIsHonest
<1>1. Inv => NotStartedIsHonest
  <2> SUFFICES ASSUME Inv, NEW r \in Requests,
                      client[r].result \in {"transport", "busy", "refused", "healthy"}
               PROVE  group[r].leader = "none"
      BY DEF NotStartedIsHonest
  <2> QED
      BY Records DEF Consistent, CallerInv
<1> QED
    BY <1>1, Invariant, PTL

(* A caller that is told "success" has received every chunk the script's     *)
(* process group wrote while somebody held the output pipe.                  *)
THEOREM SuccessWhole == Spec => []SuccessIsWhole
<1>1. Inv => SuccessIsWhole
    BY Records DEF SuccessIsWhole, Consistent, CallerInv
<1> QED
    BY <1>1, Invariant, PTL

=============================================================================
