---------------------------- MODULE PortRegistry ----------------------------
(***************************************************************************)
(* What the VNC port pool of services/overlay_manager.py promises to the   *)
(* vm-worker replicas, without Redis, snapshots or loops: a port is granted *)
(* to one client at a time, comes back when its client returns it, and is   *)
(* gone for good only when its client forgets to return it.                 *)
(***************************************************************************)
EXTENDS Integers

CONSTANTS Clients,      \* the sessions that need a port
          Ports         \* the port range

VARIABLES held,         \* the ports each client has and will return
          lost          \* ports marked in use that no client will return

vars == <<held, lost>>

Init == held = [c \in Clients |-> {}] /\ lost = {}

Grant(c, p) ==
    /\ p \notin lost
    /\ \A d \in Clients : p \notin held[d]
    /\ held' = [held EXCEPT ![c] = @ \union {p}]
    /\ UNCHANGED lost

Return(c, p) ==
    /\ p \in held[c]
    /\ held' = [held EXCEPT ![c] = @ \ {p}]
    /\ UNCHANGED lost

Forget(c, p) ==
    /\ p \in held[c]
    /\ held' = [held EXCEPT ![c] = @ \ {p}]
    /\ lost' = lost \union {p}

Next == \E c \in Clients, p \in Ports : Grant(c, p) \/ Return(c, p) \/ Forget(c, p)

Spec == Init /\ [][Next]_vars
=============================================================================
