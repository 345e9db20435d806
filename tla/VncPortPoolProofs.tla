-------------------------- MODULE VncPortPoolProofs --------------------------
(***************************************************************************)
(* Proofs about VncPortPool for every set of clients and every port range: *)
(* the inductive invariant Inv, the two promises of allocate_vnc_port, and  *)
(* the refinement of PortRegistry.                                          *)
(***************************************************************************)
EXTENDS VncPortPool, TLAPS

(***************************************************************************)
(* Init establishes the invariant of the pool.                             *)
(***************************************************************************)
LEMMA InitInv == Init => Inv
BY PortRangeAssumption
DEF Init, Inv, TypeOK, PortMutex, HeldIsMarked, PassedWereBusy, Ports

(***************************************************************************)
(* Every Redis command and every failure keeps the types.                  *)
(***************************************************************************)
LEMMA NextTypeOK == TypeOK /\ [Next]_vars => TypeOK'
<1> SUFFICES ASSUME TypeOK, [Next]_vars PROVE TypeOK'
    OBVIOUS
<1> USE PortRangeAssumption DEF TypeOK, Ports
<1>1. ASSUME NEW c \in Clients, smembers(c) PROVE TypeOK'
    BY <1>1 DEF smembers
<1>2. ASSUME NEW c \in Clients, skip_port(c) PROVE TypeOK'
    BY <1>2 DEF skip_port
<1>3. ASSUME NEW c \in Clients, sadd_added(c) PROVE TypeOK'
    <2>1. cand[c] \in Ports
        BY <1>3 DEF sadd_added
    <2>2. in_use' \in SUBSET Ports /\ holds' \in [Clients -> SUBSET Ports]
        BY <1>3, <2>1 DEF sadd_added, marked
    <2>3. always_free' \in [Clients -> SUBSET Ports]
        BY <1>3 DEF sadd_added, marked
    <2>4. /\ pc' \in [Clients -> {"idle", "scan", "raised"}]
          /\ snapshot' \in [Clients -> SUBSET Ports]
          /\ cand' \in [Clients -> PortMin .. PortMax]
        BY <1>3 DEF sadd_added, leave
    <2> QED BY <2>2, <2>3, <2>4
<1>4. ASSUME NEW c \in Clients, sadd_refused(c) PROVE TypeOK'
    BY <1>4 DEF sadd_refused
<1>5. ASSUME NEW c \in Clients, allocate_raises(c) PROVE TypeOK'
    BY <1>5 DEF allocate_raises, leave
<1>6. ASSUME NEW c \in Clients, worker_dies(c) PROVE TypeOK'
    BY <1>6 DEF worker_dies, leave
<1>7. ASSUME NEW c \in Clients, NEW p \in Ports, release_vnc_port(c, p) PROVE TypeOK'
    BY <1>7 DEF release_vnc_port
<1>8. ASSUME NEW c \in Clients, NEW p \in Ports, port_forgotten(c, p) PROVE TypeOK'
    BY <1>8 DEF port_forgotten
<1>9. CASE UNCHANGED vars
    BY <1>9 DEF vars
<1> QED
    BY <1>1, <1>2, <1>3, <1>4, <1>5, <1>6, <1>7, <1>8, <1>9 DEF Next, loop_step

(***************************************************************************)
(* A claim takes a port outside in_use, which no client holds; a release   *)
(* takes away a port only its holder holds.                                *)
(***************************************************************************)
LEMMA NextMutex == Inv /\ [Next]_vars => (PortMutex /\ HeldIsMarked)'
<1> SUFFICES ASSUME Inv, [Next]_vars PROVE (PortMutex /\ HeldIsMarked)'
    OBVIOUS
<1> USE DEF Inv, TypeOK, PortMutex, HeldIsMarked
<1>1. ASSUME NEW c \in Clients, sadd_added(c) PROVE (PortMutex /\ HeldIsMarked)'
    BY <1>1 DEF sadd_added, marked
<1>2. ASSUME NEW c \in Clients, NEW p \in Ports, release_vnc_port(c, p)
      PROVE  (PortMutex /\ HeldIsMarked)'
    BY <1>2 DEF release_vnc_port
<1>3. ASSUME NEW c \in Clients, NEW p \in Ports, port_forgotten(c, p)
      PROVE  (PortMutex /\ HeldIsMarked)'
    BY <1>3 DEF port_forgotten
<1>4. ASSUME NEW c \in Clients, \/ smembers(c) \/ skip_port(c) \/ sadd_refused(c)
                                \/ allocate_raises(c) \/ worker_dies(c)
      PROVE  (PortMutex /\ HeldIsMarked)'
    BY <1>4 DEF smembers, skip_port, sadd_refused, allocate_raises, worker_dies
<1>5. CASE UNCHANGED vars
    BY <1>5 DEF vars
<1> QED
    BY <1>1, <1>2, <1>3, <1>4, <1>5 DEF Next, loop_step

(***************************************************************************)
(* The loop passes a port only when the snapshot or SADD says it is taken. *)
(***************************************************************************)
LEMMA NextPassed == Inv /\ [Next]_vars => PassedWereBusy'
<1> SUFFICES ASSUME Inv, [Next]_vars, NEW d \in Clients, pc'[d] = "scan"
             PROVE  /\ \A q \in always_free'[d] : cand'[d] <= q
                    /\ always_free'[d] \intersect snapshot'[d] = {}
                    /\ always_free'[d] \intersect in_use' = {}
    BY DEF PassedWereBusy
<1> DEFINE Goal == /\ \A q \in always_free'[d] : cand'[d] <= q
                   /\ always_free'[d] \intersect snapshot'[d] = {}
                   /\ always_free'[d] \intersect in_use' = {}
<1> USE PortRangeAssumption DEF Inv, TypeOK, PassedWereBusy, Ports
<1>1. ASSUME NEW c \in Clients, smembers(c) PROVE Goal
    BY <1>1 DEF smembers
<1>2. ASSUME NEW c \in Clients, skip_port(c) PROVE Goal
    <2>1. CASE c = d
        <3>1. \A q \in always_free[d] : cand[d] <= q /\ q # cand[d]
            BY <1>2, <2>1 DEF skip_port
        <3> QED BY <1>2, <2>1, <3>1 DEF skip_port
    <2>2. CASE c # d
        BY <1>2, <2>2 DEF skip_port
    <2> QED BY <2>1, <2>2
<1>3. ASSUME NEW c \in Clients, sadd_added(c) PROVE Goal
    BY <1>3 DEF sadd_added, marked, leave
<1>4. ASSUME NEW c \in Clients, sadd_refused(c) PROVE Goal
    <2>1. CASE c = d
        <3>1. \A q \in always_free[d] : cand[d] <= q /\ q # cand[d]
            BY <1>4, <2>1 DEF sadd_refused
        <3> QED BY <1>4, <2>1, <3>1 DEF sadd_refused
    <2>2. CASE c # d
        BY <1>4, <2>2 DEF sadd_refused
    <2> QED BY <2>1, <2>2
<1>5. ASSUME NEW c \in Clients, allocate_raises(c) PROVE Goal
    BY <1>5 DEF allocate_raises, leave
<1>6. ASSUME NEW c \in Clients, worker_dies(c) PROVE Goal
    BY <1>6 DEF worker_dies, leave
<1>7. ASSUME NEW c \in Clients, NEW p \in Ports, release_vnc_port(c, p) PROVE Goal
    BY <1>7 DEF release_vnc_port
<1>8. ASSUME NEW c \in Clients, NEW p \in Ports, port_forgotten(c, p) PROVE Goal
    BY <1>8 DEF port_forgotten
<1>9. CASE UNCHANGED vars
    BY <1>9 DEF vars
<1> QED
    BY <1>1, <1>2, <1>3, <1>4, <1>5, <1>6, <1>7, <1>8, <1>9 DEF Next, loop_step

(***************************************************************************)
(* The invariant holds in every reachable state of the pool.               *)
(***************************************************************************)
THEOREM PoolInvariant == Spec => []Inv
<1>1. Inv /\ [Next]_vars => Inv'
    BY NextTypeOK, NextMutex, NextPassed DEF Inv
<1> QED
    BY InitInv, <1>1, PTL DEF Spec

(***************************************************************************)
(* The types of the pool's state hold for every range and set of clients.  *)
(***************************************************************************)
THEOREM PoolTypeOK == Spec => []TypeOK
<1>1. Inv => TypeOK
    BY DEF Inv
<1> QED
    BY PoolInvariant, <1>1, PTL

(***************************************************************************)
(* Concurrent allocations never collide: no two clients hold one port.     *)
(***************************************************************************)
THEOREM PoolMutex == Spec => []PortMutex
<1>1. Inv => PortMutex
    BY DEF Inv
<1> QED
    BY PoolInvariant, <1>1, PTL

(***************************************************************************)
(* The port that allocate_vnc_port returns is below every port that stayed *)
(* free during the call.                                                   *)
(***************************************************************************)
THEOREM PoolClaimsLowestFree == Spec => ClaimsLowestFree
<1> DEFINE A == \A c \in Clients : \A p \in holds'[c] \ holds[c] :
                    \A q \in always_free[c] : p <= q
<1>1. Inv /\ [Next]_vars => [A]_vars
    <2> SUFFICES ASSUME Inv, Next, NEW c \in Clients, NEW p \in holds'[c] \ holds[c],
                        NEW q \in always_free[c]
                 PROVE  p <= q
        BY DEF vars
    <2> USE DEF Inv, TypeOK
    <2>1. ASSUME NEW d \in Clients, sadd_added(d) PROVE p <= q
        <3>1. d = c /\ p = cand[c] /\ pc[c] = "scan"
            BY <2>1 DEF sadd_added
        <3> QED BY <3>1 DEF PassedWereBusy
    <2>2. ASSUME NEW d \in Clients, \/ smembers(d) \/ skip_port(d) \/ sadd_refused(d)
                                    \/ allocate_raises(d) \/ worker_dies(d)
          PROVE  FALSE
        BY <2>2 DEF smembers, skip_port, sadd_refused, allocate_raises, worker_dies
    <2>3. ASSUME NEW d \in Clients, NEW r \in Ports,
                 release_vnc_port(d, r) \/ port_forgotten(d, r)
          PROVE  FALSE
        BY <2>3 DEF release_vnc_port, port_forgotten
    <2> QED BY <2>1, <2>2, <2>3 DEF Next, loop_step
<1> QED
    BY PoolInvariant, <1>1, PTL DEF Spec, ClaimsLowestFree

(***************************************************************************)
(* allocate_vnc_port raises only when no port stayed free during the call. *)
(***************************************************************************)
THEOREM PoolRaisesHonestly == Spec => RaisesOnlyWhenNoneStayedFree
<1> DEFINE A == \A c \in Clients :
                    pc[c] = "scan" /\ pc'[c] = "raised" => always_free[c] = {}
<1>1. Inv /\ [Next]_vars => [A]_vars
    <2> SUFFICES ASSUME Inv, Next, NEW c \in Clients, pc[c] = "scan", pc'[c] = "raised"
                 PROVE  always_free[c] = {}
        BY DEF vars
    <2> USE DEF Inv, TypeOK
    <2>1. allocate_raises(c)
        <3>1. ASSUME NEW d \in Clients, smembers(d) \/ skip_port(d) \/ sadd_refused(d)
              PROVE  FALSE
            BY <3>1 DEF smembers, skip_port, sadd_refused
        <3>2. ASSUME NEW d \in Clients, sadd_added(d) \/ worker_dies(d) PROVE FALSE
            BY <3>2 DEF sadd_added, worker_dies, leave
        <3>3. ASSUME NEW d \in Clients, NEW r \in Ports,
                     release_vnc_port(d, r) \/ port_forgotten(d, r)
              PROVE  FALSE
            BY <3>3 DEF release_vnc_port, port_forgotten
        <3>4. ASSUME NEW d \in Clients, allocate_raises(d) PROVE d = c
            BY <3>4 DEF allocate_raises, leave
        <3> QED BY <3>1, <3>2, <3>3, <3>4 DEF Next, loop_step
    <2>2. \A q \in always_free[c] : q \in Ports /\ PortMax <= q
        BY <2>1, PortRangeAssumption DEF allocate_raises, PassedWereBusy, Ports
    <2> QED BY <2>2, PortRangeAssumption DEF Ports
<1> QED
    BY PoolInvariant, <1>1, PTL DEF Spec, RaisesOnlyWhenNoneStayedFree

(***************************************************************************)
(* The pool implements the registry: every Redis command is a Grant, a     *)
(* Return or no visible step, and a port is lost only when it is forgotten. *)
(***************************************************************************)
THEOREM PoolImplementsRegistry == Spec => ImplementsRegistry
<1>1. Init => Registry!Init
    BY DEF Init, Registry!Init, Unheld
<1>2. Inv /\ [Next]_vars => [Registry!Next]_(Registry!vars)
    <2> SUFFICES ASSUME Inv, [Next]_vars
                 PROVE  Registry!Next \/ UNCHANGED <<holds, Unheld>>
        BY DEF Registry!vars
    <2> USE DEF Inv, TypeOK
    <2>1. ASSUME NEW c \in Clients, sadd_added(c) PROVE Registry!Next
        <3>1. cand[c] \in Ports
            BY <2>1, PortRangeAssumption DEF sadd_added, Ports
        <3>2. Unheld' = Unheld
            BY <2>1 DEF sadd_added, marked, Unheld
        <3>3. Registry!Grant(c, cand[c])
            BY <2>1, <3>2 DEF sadd_added, HeldIsMarked, Unheld, Registry!Grant
        <3> QED BY <3>1, <3>3 DEF Registry!Next
    <2>2. ASSUME NEW c \in Clients, NEW p \in Ports, release_vnc_port(c, p)
          PROVE  Registry!Next
        <3>1. Unheld' = Unheld
            BY <2>2 DEF release_vnc_port, PortMutex, Unheld
        <3>2. Registry!Return(c, p)
            BY <2>2, <3>1 DEF release_vnc_port, Registry!Return
        <3> QED BY <3>2 DEF Registry!Next
    <2>3. ASSUME NEW c \in Clients, NEW p \in Ports, port_forgotten(c, p)
          PROVE  Registry!Next
        <3>1. Unheld' = Unheld \union {p}
            BY <2>3 DEF port_forgotten, PortMutex, HeldIsMarked, Unheld
        <3>2. Registry!Forget(c, p)
            BY <2>3, <3>1 DEF port_forgotten, Registry!Forget
        <3> QED BY <3>2 DEF Registry!Next
    <2>4. ASSUME NEW c \in Clients, \/ smembers(c) \/ skip_port(c) \/ sadd_refused(c)
                                    \/ allocate_raises(c) \/ worker_dies(c)
          PROVE  UNCHANGED <<holds, Unheld>>
        BY <2>4 DEF smembers, skip_port, sadd_refused, allocate_raises, worker_dies, Unheld
    <2>5. CASE UNCHANGED vars
        BY <2>5 DEF vars, Unheld
    <2> QED
        BY <2>1, <2>2, <2>3, <2>4, <2>5 DEF Next, loop_step
<1> QED
    BY PoolInvariant, <1>1, <1>2, PTL DEF Spec, ImplementsRegistry, Registry!Spec
=============================================================================
