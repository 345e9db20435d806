----------------------------- MODULE VncPortPool -----------------------------
(***************************************************************************)
(* allocate_vnc_port and release_vnc_port of                               *)
(* src/backend/app/services/overlay_manager.py, run by the vm-worker        *)
(* replicas against one Redis SET.  Every Redis command is one atomic step; *)
(* between two commands of a call the other clients may do anything.        *)
(*                                                                          *)
(* A client is one job slot of a worker: the provisioning jobs it runs one  *)
(* after the other each allocate a port, and the teardowns of their sessions *)
(* release them.  That a teardown releases only the port its session has,   *)
(* and only once, is the caller's obligation; module VMLifecycle checks it. *)
(***************************************************************************)
EXTENDS Integers

CONSTANTS Clients,   \* job slots of the vm-worker replicas
          PortMin,   \* _VNC_PORT_MIN
          PortMax    \* _VNC_PORT_MAX; the range excludes it

ASSUME PortRangeAssumption == PortMin \in Nat /\ PortMax \in Nat /\ PortMin <= PortMax

Ports == PortMin .. (PortMax - 1)

VARIABLES
    in_use,       \* the Redis SET knpodly:vnc_ports:in_use
    pc,           \* "idle" | "scan" (inside the for loop) | "raised"
    snapshot,     \* the local in_use: what SMEMBERS answered
    cand,         \* the loop variable port
    holds,        \* the ports a client was given and will release
    always_free   \* history: ports that were free at every moment of the call

vars == <<in_use, pc, snapshot, cand, holds, always_free>>

Init ==
    /\ in_use = {}
    /\ pc = [c \in Clients |-> "idle"]
    /\ snapshot = [c \in Clients |-> {}]
    /\ cand = [c \in Clients |-> PortMin]
    /\ holds = [c \in Clients |-> {}]
    /\ always_free = [c \in Clients |-> {}]

\* The call ends, its locals with it.
leave(c, status) ==
    /\ pc' = [pc EXCEPT ![c] = status]
    /\ snapshot' = [snapshot EXCEPT ![c] = {}]
    /\ cand' = [cand EXCEPT ![c] = PortMin]

\* SADD marks p; nobody's call can count it as free throughout any more.
marked(c, p) ==
    /\ in_use' = in_use \union {p}
    /\ always_free' = [d \in Clients |-> IF d = c THEN {} ELSE always_free[d] \ {p}]

(***************************************************************************)
(* Mutated steps, none of them part of the specification: the bugs that the *)
(* properties below are there to exclude.                                   *)
(***************************************************************************)
\* SADD's answer is not looked at: the stale snapshot is trusted.
sadd_trusts_snapshot(c) ==
    /\ pc[c] = "scan" /\ cand[c] < PortMax
    /\ cand[c] \notin snapshot[c]
    /\ marked(c, cand[c])
    /\ holds' = [holds EXCEPT ![c] = @ \union {cand[c]}]
    /\ leave(c, "idle")

\* range(_VNC_PORT_MIN, _VNC_PORT_MAX + 1).
sadd_past_range(c) ==
    /\ pc[c] = "scan" /\ cand[c] <= PortMax
    /\ cand[c] \notin snapshot[c] \union in_use
    /\ marked(c, cand[c])
    /\ holds' = [holds EXCEPT ![c] = @ \union {cand[c]}]
    /\ leave(c, "idle")

\* A lost race is retried on the same port.
sadd_refused_retries(c) ==
    /\ pc[c] = "scan" /\ cand[c] < PortMax
    /\ cand[c] \notin snapshot[c]
    /\ cand[c] \in in_use
    /\ UNCHANGED vars

\* A lost race advances the loop twice.
sadd_refused_skips_two(c) ==
    /\ pc[c] = "scan" /\ cand[c] < PortMax
    /\ cand[c] \notin snapshot[c]
    /\ cand[c] \in in_use
    /\ cand' = [cand EXCEPT ![c] = @ + 2]
    /\ UNCHANGED <<in_use, pc, snapshot, holds, always_free>>

\* A lost race gives up the rest of the range.
sadd_refused_gives_up(c) ==
    /\ pc[c] = "scan" /\ cand[c] < PortMax
    /\ cand[c] \notin snapshot[c]
    /\ cand[c] \in in_use
    /\ cand' = [cand EXCEPT ![c] = PortMax]
    /\ UNCHANGED <<in_use, pc, snapshot, holds, always_free>>

(***************************************************************************)
(* allocate_vnc_port                                                       *)
(***************************************************************************)
smembers(c) ==
    /\ pc[c] # "scan"
    /\ pc' = [pc EXCEPT ![c] = "scan"]
    /\ snapshot' = [snapshot EXCEPT ![c] = in_use]
    /\ cand' = [cand EXCEPT ![c] = PortMin]
    /\ always_free' = [always_free EXCEPT ![c] = Ports \ in_use]
    /\ UNCHANGED <<in_use, holds>>

\* `if port in in_use: continue'
skip_port(c) ==
    /\ pc[c] = "scan" /\ cand[c] < PortMax
    /\ cand[c] \in snapshot[c]
    /\ cand' = [cand EXCEPT ![c] = @ + 1]
    /\ UNCHANGED <<in_use, pc, snapshot, holds, always_free>>

\* SADD answers 1: the port is ours.
sadd_added(c) ==
    /\ pc[c] = "scan" /\ cand[c] < PortMax
    /\ cand[c] \notin snapshot[c]
    /\ cand[c] \notin in_use
    /\ marked(c, cand[c])
    /\ holds' = [holds EXCEPT ![c] = @ \union {cand[c]}]
    /\ leave(c, "idle")

\* SADD answers 0: another client claimed it after our SMEMBERS.
sadd_refused(c) ==
    /\ pc[c] = "scan" /\ cand[c] < PortMax
    /\ cand[c] \notin snapshot[c]
    /\ cand[c] \in in_use
    /\ cand' = [cand EXCEPT ![c] = @ + 1]
    /\ UNCHANGED <<in_use, pc, snapshot, holds, always_free>>

allocate_raises(c) ==
    /\ pc[c] = "scan" /\ cand[c] >= PortMax
    /\ leave(c, "raised")
    /\ always_free' = [always_free EXCEPT ![c] = {}]
    /\ UNCHANGED <<in_use, holds>>

(***************************************************************************)
(* release_vnc_port: one SREM.                                             *)
(***************************************************************************)
release_vnc_port(c, p) ==
    /\ p \in holds[c]
    /\ in_use' = in_use \ {p}
    /\ holds' = [holds EXCEPT ![c] = @ \ {p}]
    /\ UNCHANGED <<pc, snapshot, cand, always_free>>

(***************************************************************************)
(* Failures.  A worker dies inside the loop; or a session ends without its *)
(* port being released: define_and_start raised, the job was cut off after *)
(* its SADD, or the teardown was.                                          *)
(***************************************************************************)
worker_dies(c) ==
    /\ pc[c] = "scan"
    /\ leave(c, "idle")
    /\ always_free' = [always_free EXCEPT ![c] = {}]
    /\ UNCHANGED <<in_use, holds>>

port_forgotten(c, p) ==
    /\ p \in holds[c]
    /\ holds' = [holds EXCEPT ![c] = @ \ {p}]
    /\ UNCHANGED <<in_use, pc, snapshot, cand, always_free>>

loop_step(c) ==
    skip_port(c) \/ sadd_added(c) \/ sadd_refused(c) \/ allocate_raises(c)

Next ==
    \E c \in Clients :
        \/ smembers(c)
        \/ loop_step(c)
        \/ worker_dies(c)
        \/ \E p \in Ports : release_vnc_port(c, p) \/ port_forgotten(c, p)

Spec == Init /\ [][Next]_vars

\* A started call keeps running: the event loop resumes it after each answer.
FairSpec == Spec /\ \A c \in Clients : WF_vars(loop_step(c))

-----------------------------------------------------------------------------
TypeOK ==
    /\ in_use \in SUBSET Ports
    /\ pc \in [Clients -> {"idle", "scan", "raised"}]
    /\ snapshot \in [Clients -> SUBSET Ports]
    /\ cand \in [Clients -> PortMin .. PortMax]
    /\ holds \in [Clients -> SUBSET Ports]
    /\ always_free \in [Clients -> SUBSET Ports]

(***************************************************************************)
(* overlay_manager.py's header: "concurrent allocations never collide".    *)
(* No two sessions hold one port, although every call decides on a snapshot *)
(* that may be stale.                                                       *)
(***************************************************************************)
PortMutex ==
    \A c, d \in Clients : c # d => holds[c] \intersect holds[d] = {}

(***************************************************************************)
(* A held port is marked in the Redis set, so no call can claim it.        *)
(***************************************************************************)
HeldIsMarked == \A c \in Clients : holds[c] \subseteq in_use

(***************************************************************************)
(* "Atomically claims the lowest free port": whatever the others did during *)
(* the call, every port below the one it returns was taken at some moment   *)
(* of the call.                                                             *)
(***************************************************************************)
ClaimsLowestFree ==
    [][\A c \in Clients : \A p \in holds'[c] \ holds[c] :
          \A q \in always_free[c] : p <= q]_vars

(***************************************************************************)
(* The call raises "No free VNC ports" only when no port stayed free during *)
(* the whole call.                                                          *)
(***************************************************************************)
RaisesOnlyWhenNoneStayedFree ==
    [][\A c \in Clients :
          pc[c] = "scan" /\ pc'[c] = "raised" => always_free[c] = {}]_vars

(***************************************************************************)
(* Every call of allocate_vnc_port returns or raises, however often the     *)
(* other clients take ports from under it: the loop never rescans.          *)
(***************************************************************************)
AllocationEnds == \A c \in Clients : pc[c] = "scan" ~> pc[c] # "scan"

(***************************************************************************)
(* The pool implements the registry: the ports a client was given are the   *)
(* held ones, the marked ports that nobody holds are the lost ones.         *)
(***************************************************************************)
Unheld == {p \in in_use : \A c \in Clients : p \notin holds[c]}

Registry == INSTANCE PortRegistry WITH held <- holds, lost <- Unheld

ImplementsRegistry == Registry!Spec

-----------------------------------------------------------------------------
(* The inductive invariant. *)

\* Where the loop stands, every port below the candidate has been busy.
PassedWereBusy ==
    \A c \in Clients : pc[c] = "scan" =>
        /\ \A q \in always_free[c] : cand[c] <= q
        /\ always_free[c] \intersect snapshot[c] = {}
        /\ always_free[c] \intersect in_use = {}

Inv == TypeOK /\ PortMutex /\ HeldIsMarked /\ PassedWereBusy

=============================================================================
