---------------------------- MODULE DashboardBus ----------------------------
(***************************************************************************)
(* The way of an event from publish_event to the dashboards: Redis pub/sub  *)
(* hands it to the listener task of every API replica                       *)
(* (services/redis_bus.py), whose ConnectionManager (routers/ws.py) sends   *)
(* it to one WebSocket after the other.  Each send is awaited and suspends  *)
(* while its client reads slowly, and the loop runs over the live list: a   *)
(* connection that leaves meanwhile moves the later ones up under the       *)
(* loop's index.  Browsers reconnect (hooks/useDashboardSocket.ts).         *)
(*                                                                          *)
(* Events are numbered in the order in which Redis takes them.              *)
(***************************************************************************)
EXTENDS Integers, Sequences, FiniteSets

CONSTANTS
    Replicas,     \* API processes
    Sockets,      \* WebSockets at one time, those the server has not yet given up included (bound)
    MaxEvents,    \* events published (bound)
    MaxFaults,    \* lost Redis connections and restarts of a replica (bound)
    None

ASSUME BusAssumption ==
    /\ MaxEvents \in Nat /\ MaxFaults \in Nat
    /\ IsFiniteSet(Sockets)
    /\ None \notin Replicas \union Sockets

VARIABLES
    published,    \* events published so far
    \* per replica
    listener,     \* "starting", "listening", "sending" or "dead"
    inbox,        \* what Redis delivered; the head is in hand while sending
    active,       \* manager.active["dashboard"]
    pos,          \* index of the loop's next element
    to,           \* the socket whose send is awaited
    dead,         \* sockets whose send raised
    before,       \* history: the sockets in active when the broadcast began
    \* per socket
    peer,         \* "none", "open", or "closed" while the handler has not noticed
    got,          \* events the browser received on this socket
    faults

bus  == <<listener, inbox, pos, to, dead, before>>
page == <<peer, got>>
vars == <<published, bus, active, page, faults>>

Elements(s) == {s[i] : i \in 1 .. Len(s)}
Event(r)    == Head(inbox[r])

Init ==
    /\ published = 0 /\ faults = 0
    /\ listener = [r \in Replicas |-> "starting"]
    /\ inbox = [r \in Replicas |-> <<>>] /\ active = [r \in Replicas |-> <<>>]
    /\ pos = [r \in Replicas |-> 0] /\ to = [r \in Replicas |-> None]
    /\ dead = [r \in Replicas |-> {}] /\ before = [r \in Replicas |-> {}]
    /\ peer = [w \in Sockets |-> "none"] /\ got = [w \in Sockets |-> <<>>]

-----------------------------------------------------------------------------
(* services/redis_bus.py *)

\* Redis pub/sub: the replicas that are subscribed now get the event.
publish_event ==
    /\ published < MaxEvents
    /\ published' = published + 1
    /\ inbox' = [r \in Replicas |-> IF listener[r] \in {"listening", "sending"}
                                    THEN Append(inbox[r], published') ELSE inbox[r]]
    /\ UNCHANGED <<listener, pos, to, dead, before, active, page, faults>>

\* init_redis_bus starts the task; its subscription takes effect later.
subscribe(r) ==
    /\ listener[r] = "starting"
    /\ listener' = [listener EXCEPT ![r] = "listening"]
    /\ UNCHANGED <<published, inbox, pos, to, dead, before, active, page, faults>>

\* Mutant: messages are left alone while nobody is connected.
listen_when_connected(r) ==
    /\ listener[r] = "listening" /\ inbox[r] # <<>> /\ active[r] # <<>>
    /\ listener' = [listener EXCEPT ![r] = "sending"]
    /\ pos' = [pos EXCEPT ![r] = 1]
    /\ dead' = [dead EXCEPT ![r] = {}]
    /\ before' = [before EXCEPT ![r] = Elements(active[r])]
    /\ UNCHANGED <<published, inbox, to, active, page, faults>>

\* _listen takes the next message and calls manager.broadcast.
listen(r) ==
    /\ listener[r] = "listening" /\ inbox[r] # <<>>
    /\ listener' = [listener EXCEPT ![r] = "sending"]
    /\ pos' = [pos EXCEPT ![r] = 1]
    /\ dead' = [dead EXCEPT ![r] = {}]
    /\ before' = [before EXCEPT ![r] = Elements(active[r])]
    /\ UNCHANGED <<published, inbox, to, active, page, faults>>

\* Mutant: the loop starts again after every send.
broadcast_next_restarts(r) ==
    /\ listener[r] = "sending" /\ to[r] = None /\ pos[r] <= Len(active[r])
    /\ \E i \in 1 .. pos[r] : to' = [to EXCEPT ![r] = active[r][i]]
    /\ pos' = [pos EXCEPT ![r] = @ + 1]
    /\ UNCHANGED <<published, listener, inbox, dead, before, active, page, faults>>

\* for ws in self.active...: the list's iterator advances before the send.
broadcast_next(r) ==
    /\ listener[r] = "sending" /\ to[r] = None /\ pos[r] <= Len(active[r])
    /\ to' = [to EXCEPT ![r] = active[r][pos[r]]]
    /\ pos' = [pos EXCEPT ![r] = @ + 1]
    /\ UNCHANGED <<published, listener, inbox, dead, before, active, page, faults>>

\* send_json returns; what is sent to a browser that is gone is lost.
broadcast_sent(r) ==
    /\ to[r] # None
    /\ got' = IF peer[to[r]] = "open" THEN [got EXCEPT ![to[r]] = Append(@, Event(r))] ELSE got
    /\ to' = [to EXCEPT ![r] = None]
    /\ UNCHANGED <<published, listener, inbox, pos, dead, before, active, peer, faults>>

\* Mutant: the try is around the loop.
broadcast_raises_out(r) ==
    /\ to[r] # None /\ peer[to[r]] # "open"
    /\ dead' = [dead EXCEPT ![r] = @ \union {to[r]}]
    /\ pos' = [pos EXCEPT ![r] = Len(active[r]) + 1]
    /\ to' = [to EXCEPT ![r] = None]
    /\ UNCHANGED <<published, listener, inbox, before, active, page, faults>>

\* Mutant: the failed socket is noted after the loop has moved on.
broadcast_raises_late(r) ==
    /\ to[r] # None /\ peer[to[r]] # "open"
    /\ to' = [to EXCEPT ![r] = None]
    /\ dead' = [dead EXCEPT ![r] = @ \union {to'[r]}]
    /\ UNCHANGED <<published, listener, inbox, pos, before, active, page, faults>>

\* except Exception: dead.append(ws).
broadcast_raises(r) ==
    /\ to[r] # None /\ peer[to[r]] # "open"
    /\ dead' = [dead EXCEPT ![r] = @ \union {to[r]}]
    /\ to' = [to EXCEPT ![r] = None]
    /\ UNCHANGED <<published, listener, inbox, pos, before, active, page, faults>>

\* A list after list.remove of its elements in D: the others move up, in order.
Remaining(s, D) ==
    LET keep    == {i \in 1 .. Len(s) : s[i] \notin D}
        rank(i) == Cardinality({k \in keep : k <= i})
    IN [j \in 1 .. Cardinality(keep) |-> s[CHOOSE i \in keep : rank(i) = j]]

\* The loop is over: the dead are disconnected, the next message is awaited.
broadcast_ends(r) ==
    /\ listener[r] = "sending" /\ to[r] = None /\ pos[r] > Len(active[r])
    /\ active' = [active EXCEPT ![r] = Remaining(@, dead[r])]
    /\ listener' = [listener EXCEPT ![r] = "listening"]
    /\ inbox' = [inbox EXCEPT ![r] = Tail(@)]
    /\ pos' = [pos EXCEPT ![r] = 0]
    /\ dead' = [dead EXCEPT ![r] = {}] /\ before' = [before EXCEPT ![r] = {}]
    /\ UNCHANGED <<published, to, page, faults>>

listener_step(r) ==
    \/ subscribe(r) \/ listen(r) \/ broadcast_next(r)
    \/ broadcast_sent(r) \/ broadcast_raises(r) \/ broadcast_ends(r)

-----------------------------------------------------------------------------
(* routers/ws.py: one handler per socket, and the pages *)

\* A socket object nobody refers to any more.
Unused(w) ==
    /\ peer[w] = "none"
    /\ \A r \in Replicas : to[r] # w /\ w \notin Elements(active[r]) \union dead[r] \union before[r]

\* A page's connect() reaches some replica: accept, append.
connect(w, r) ==
    /\ Unused(w)
    /\ peer' = [peer EXCEPT ![w] = "open"]
    /\ active' = [active EXCEPT ![r] = Append(@, w)]
    /\ UNCHANGED <<published, bus, got, faults>>

\* The page is closed or its network fails; onclose calls connect() again, for
\* another socket.
closes(w) ==
    /\ peer[w] = "open"
    /\ peer' = [peer EXCEPT ![w] = "closed"]
    /\ UNCHANGED <<published, bus, active, got, faults>>

\* list.remove: the later elements move up.
Without(s, i) == [j \in 1 .. Len(s) - 1 |-> IF j < i THEN s[j] ELSE s[j + 1]]

\* receive_text raises WebSocketDisconnect: manager.disconnect, which does
\* nothing when the broadcast was faster.
dashboard_ws_ends(w) ==
    /\ peer[w] = "closed"
    /\ peer' = [peer EXCEPT ![w] = "none"] /\ got' = [got EXCEPT ![w] = <<>>]
    /\ \/ /\ \A r \in Replicas : w \notin Elements(active[r])
          /\ UNCHANGED active
       \/ \E r \in Replicas : \E i \in 1 .. Len(active[r]) :
             /\ active[r][i] = w
             /\ active' = [active EXCEPT ![r] = Without(@, i)]
    /\ UNCHANGED <<published, bus, faults>>

-----------------------------------------------------------------------------
(* Faults *)

Stopped(r, l) ==
    /\ listener' = [listener EXCEPT ![r] = l]
    /\ inbox' = [inbox EXCEPT ![r] = <<>>]
    /\ pos' = [pos EXCEPT ![r] = 0] /\ to' = [to EXCEPT ![r] = None]
    /\ dead' = [dead EXCEPT ![r] = {}] /\ before' = [before EXCEPT ![r] = {}]
    /\ faults < MaxFaults /\ faults' = faults + 1
    /\ UNCHANGED published

\* listen() raises: only CancelledError is caught, so the task is over and the
\* replica serves on without events.
redis_lost(r) ==
    /\ listener[r] = "listening"
    /\ Stopped(r, "dead")
    /\ UNCHANGED <<active, page>>

\* The process ends (close_redis_bus cancels the task) and starts again.
replica_restarts(r) ==
    /\ Stopped(r, "starting")
    /\ active' = [active EXCEPT ![r] = <<>>]
    /\ LET lost == Elements(active[r]) IN
          /\ peer' = [w \in Sockets |-> IF w \in lost THEN "none" ELSE peer[w]]
          /\ got' = [w \in Sockets |-> IF w \in lost THEN <<>> ELSE got[w]]

Next ==
    \/ publish_event
    \/ \E r \in Replicas : listener_step(r) \/ redis_lost(r) \/ replica_restarts(r)
    \/ \E w \in Sockets : closes(w) \/ dashboard_ws_ends(w) \/ \E r \in Replicas : connect(w, r)

Spec == Init /\ [][Next]_vars

\* A listener goes on: a client that does not read is cut off by the server's
\* ping time-out, so every send ends.
FairSpec == Spec /\ \A r \in Replicas : WF_vars(listener_step(r))

-----------------------------------------------------------------------------
\* The types of the listeners' state and of the sockets.
TypeOK ==
    /\ published \in 0 .. MaxEvents /\ faults \in 0 .. MaxFaults
    /\ listener \in [Replicas -> {"starting", "listening", "sending", "dead"}]
    /\ inbox \in [Replicas -> Seq(1 .. MaxEvents)]
    /\ active \in [Replicas -> Seq(Sockets)]
    /\ pos \in [Replicas -> Nat]
    /\ to \in [Replicas -> Sockets \union {None}]
    /\ dead \in [Replicas -> SUBSET Sockets] /\ before \in [Replicas -> SUBSET Sockets]
    /\ peer \in [Sockets -> {"none", "open", "closed"}]
    /\ got \in [Sockets -> Seq(1 .. MaxEvents)]

(***************************************************************************)
(* A socket gets events in the order of publication and none twice,         *)
(* although broadcast's loop runs over a list that handlers change.         *)
(***************************************************************************)
InOrderOnce ==
    \A w \in Sockets : \A i, j \in 1 .. Len(got[w]) : i < j => got[w][i] < got[w][j]

(***************************************************************************)
(* redis_bus.py: events go "to every connected /ws/dashboard client".  A    *)
(* broadcast reaches every socket that was connected when it began and      *)
(* still is, except that each of them that leaves the list during the       *)
(* broadcast may cost one other the event.                                  *)
(***************************************************************************)
Missed(r) ==
    {w \in before[r] \intersect Elements(active[r]) :
        peer[w] = "open" /\ Event(r) \notin Elements(got[w])}

MissesOnlyForLeavers ==
    \A r \in Replicas :
        listener[r] = "sending" /\ to[r] = None /\ pos[r] > Len(active[r])
            => Cardinality(Missed(r)) <= Cardinality(before[r] \ Elements(active[r]))

(***************************************************************************)
(* A broadcast ends although sockets join and leave the list it goes over:  *)
(* what Redis delivered to a replica is handled, as long as every send ends.*)
(***************************************************************************)
EventsAreHandled == \A r \in Replicas : inbox[r] # <<>> ~> inbox[r] = <<>>
=============================================================================
