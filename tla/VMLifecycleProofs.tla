-------------------------- MODULE VMLifecycleProofs --------------------------
(***************************************************************************)
(* Proofs about VMLifecycle for any number of users, sessions, ports,      *)
(* requests, scheduler and collector processes, stops and failures.        *)
(***************************************************************************)
EXTENDS VMLifecycle, TLAPS

-----------------------------------------------------------------------------
(* Part 1.  Types, and references to rows that exist. *)

(***************************************************************************)
(* The initial state has the types and refers to no row.                   *)
(***************************************************************************)
LEMMA InitBase == Init => BaseInv
BY ConstantsAssumption
DEF Init, BaseInv, TypeOK, RowsType, StoresType, JobsType, ProcsType, BoundsType,
    ProcsOK, JobsOK, States, ActiveStates, FinalStates, DomainStates, Defined, Live,
    Row, NoRow, Dues, LaunchSteps, StopSteps

(***************************************************************************)
(* The copies of rows that processes hold are rows.                        *)
(***************************************************************************)
LEMMA NoRowType == NoRow \in Row
BY DEF NoRow, Row, States, Dues

(***************************************************************************)
(* What RowOf reads from the table is a row.                               *)
(***************************************************************************)
LEMMA RowOfType == RowsType => \A s \in Sessions : RowOf(s) \in Row
BY DEF RowsType, RowOf, Row

(***************************************************************************)
(* A process that returns, raises or dies keeps the types and refers to no *)
(* row any more; the other processes are untouched.                        *)
(***************************************************************************)
LEMMA LeavesOK ==
    ASSUME ProcsType, NEW p \in Procs, Leaves(p)
    PROVE  /\ ProcsType'
           /\ pc'[p] = "idle" /\ todo'[p] = {}
           /\ \A r \in Procs \ {p} : /\ pc'[r] = pc[r] /\ who'[r] = who[r]
                                     /\ cur'[r] = cur[r] /\ todo'[r] = todo[r]
                                     /\ mem'[r] = mem[r] /\ reason'[r] = reason[r]
BY NoRowType DEF ProcsType, Leaves

(***************************************************************************)
(* A process that is done with a row goes on with fewer rows, or leaves.   *)
(***************************************************************************)
LEMMA VisitedOK ==
    ASSUME ProcsType, NEW p \in Procs, NEW s \in Sessions, Visited(p, s)
    PROVE  /\ ProcsType'
           /\ pc'[p] \in {"idle", "loop"} /\ todo'[p] \subseteq todo[p]
           /\ \A t \in todo'[p] : mem'[p][t] = mem[p][t]
           /\ \A r \in Procs \ {p} : /\ pc'[r] = pc[r] /\ who'[r] = who[r]
                                     /\ cur'[r] = cur[r] /\ todo'[r] = todo[r]
                                     /\ mem'[r] = mem[r] /\ reason'[r] = reason[r]
<1>1. CASE todo[p] = {s}
    BY <1>1, LeavesOK DEF Visited
<1>2. CASE todo[p] # {s}
    <2>1. /\ pc' = [pc EXCEPT ![p] = "loop"] /\ cur' = [cur EXCEPT ![p] = None]
          /\ mem' = [mem EXCEPT ![p] = [mem[p] EXCEPT ![s] = NoRow]]
          /\ todo' = [todo EXCEPT ![p] = todo[p] \ {s}]
          /\ reason' = [reason EXCEPT ![p] = None] /\ who' = who
        BY <1>2 DEF Visited, GoesTo
    <2>2. [mem[p] EXCEPT ![s] = NoRow] \in [Sessions -> Row]
        BY NoRowType DEF ProcsType
    <2>3. \A t \in todo'[p] : mem'[p][t] = mem[p][t]
        BY <2>1, <2>2 DEF ProcsType
    <2> QED BY <2>1, <2>2, <2>3 DEF ProcsType
<1> QED BY <1>1, <1>2

(***************************************************************************)
(* Launching keeps the types and the references.                           *)
(***************************************************************************)
LEMMA LaunchBase ==
    ASSUME BaseInv, NEW h \in Handlers,
           \/ \E u \in Users : launch_vm(h, u)
           \/ launch_capacity(h) \/ launch_refused(h) \/ launch_insert(h)
           \/ launch_conflict(h) \/ launch_enqueue(h)
    PROVE  BaseInv'
<1> USE DEF BaseInv, TypeOK, ProcsOK, JobsOK
<1> h \in Procs
    BY DEF Procs
<1>1. ASSUME NEW u \in Users, launch_vm(h, u) PROVE BaseInv'
    BY <1>1 DEF launch_vm, GoesTo, row, stores, jobs, bounds, RowsType, StoresType, JobsType,
        ProcsType, BoundsType, LaunchSteps, StopSteps
<1>2. ASSUME launch_capacity(h) PROVE BaseInv'
    BY <1>2 DEF launch_capacity, GoesTo, row, stores, jobs, bounds, RowsType, StoresType, JobsType,
        ProcsType, BoundsType, LaunchSteps, StopSteps
<1>3. ASSUME launch_refused(h) \/ launch_conflict(h) PROVE BaseInv'
    BY <1>3, LeavesOK DEF launch_refused, launch_conflict, row, stores, jobs, bounds,
        RowsType, StoresType, JobsType, BoundsType, LaunchSteps, StopSteps
<1>4. ASSUME launch_insert(h) PROVE BaseInv'
    <2>1. PICK s \in Sessions : /\ state[s] = "unused"
                                /\ state' = [state EXCEPT ![s] = "queued"]
                                /\ owner' = [owner EXCEPT ![s] = who[h]]
                                /\ cur' = [cur EXCEPT ![h] = s]
        BY <1>4 DEF launch_insert
    <2>2. who[h] \in Users
        BY <1>4 DEF launch_insert, LaunchSteps
    <2>3. RowsType'
        BY <1>4, <2>1, <2>2 DEF launch_insert, RowsType, States, ActiveStates
    <2>4. ProcsType'
        BY <1>4, <2>1 DEF launch_insert, GoesTo, ProcsType, LaunchSteps
    <2>5. StoresType' /\ JobsType' /\ BoundsType'
        BY <1>4 DEF launch_insert, stores, jobs, bounds, StoresType, JobsType, BoundsType
    <2>6. ProcsOK'
        BY <1>4, <2>1, <2>2 DEF launch_insert, GoesTo, RowsType, ProcsType, LaunchSteps, StopSteps
    <2>7. JobsOK'
        BY <1>4, <2>1 DEF launch_insert, jobs, RowsType
    <2> QED BY <2>3, <2>4, <2>5, <2>6, <2>7
<1>5. ASSUME launch_enqueue(h) PROVE BaseInv'
    <2>1. cur[h] \in Sessions /\ state[cur[h]] # "unused"
        BY <1>5 DEF launch_enqueue
    <2>2. ProcsType' /\ ProcsOK'
        BY <1>5, LeavesOK DEF launch_enqueue, row, LaunchSteps, StopSteps
    <2>3. RowsType' /\ StoresType' /\ BoundsType'
        BY <1>5 DEF launch_enqueue, row, stores, bounds, RowsType, StoresType, BoundsType
    <2>4. JobsType' /\ JobsOK'
        BY <1>5, <2>1 DEF launch_enqueue, row, JobsType
    <2> QED BY <2>2, <2>3, <2>4
<1> QED BY <1>1, <1>2, <1>3, <1>4, <1>5

(***************************************************************************)
(* Stop requests, sweeps and collectors choose rows that exist.            *)
(***************************************************************************)
LEMMA ChooseBase ==
    ASSUME BaseInv, NEW p \in Procs,
           \/ p \in Handlers /\ \E s \in Sessions, r \in {"user_stop", "force_stop"} : request_stop(p, s, r)
           \/ sweep_select(p)
           \/ p \in Sweepers /\ \E s \in Sessions : sweep_stop(p, s)
           \/ gc_select(p) /\ p \in Collectors
           \/ \E s \in Sessions : gc_mismatch(p, s) \/ gc_match(p, s)
    PROVE  BaseInv'
<1> USE DEF BaseInv, TypeOK, ProcsOK, JobsOK
<1>1. ASSUME NEW s \in Sessions, NEW r \in {"user_stop", "force_stop"}, request_stop(p, s, r),
             p \in Handlers
      PROVE  BaseInv'
    <2>1. RowsType' /\ StoresType' /\ JobsType' /\ BoundsType' /\ JobsOK'
        BY <1>1, ConstantsAssumption DEF request_stop, row, stores, jobs, RowsType, StoresType,
            JobsType, BoundsType
    <2>2. mem' = [mem EXCEPT ![p] = [mem[p] EXCEPT ![s] = RowOf(s)]]
        BY <1>1 DEF request_stop
    <2>3. [mem[p] EXCEPT ![s] = RowOf(s)] \in [Sessions -> Row]
        BY RowOfType DEF ProcsType
    <2>4. ProcsType'
        BY <1>1, <2>2, <2>3 DEF request_stop, Stops, GoesTo, ProcsType, StopSteps, Reasons
    <2>5. ProcsOK'
        BY <1>1, ConstantsAssumption
        DEF request_stop, Stops, GoesTo, row, ProcsType, LaunchSteps, StopSteps
    <2> QED BY <2>1, <2>4, <2>5
<1>2. ASSUME NEW S \in SUBSET Sessions, Selects(p, S),
             \A s \in S : state[s] # "unused" /\ (p \in Sweepers => due[s] # "no")
      PROVE  BaseInv'
    <2>1. [s \in Sessions |-> IF s \in S THEN RowOf(s) ELSE NoRow] \in [Sessions -> Row]
        BY NoRowType, RowOfType
    <2>2. ProcsType'
        BY <1>2, <2>1 DEF Selects, GoesTo, ProcsType
    <2>3. RowsType' /\ StoresType' /\ JobsType' /\ BoundsType' /\ JobsOK'
        BY <1>2 DEF Selects, row, stores, jobs, bounds, RowsType, StoresType, JobsType, BoundsType
    <2>4. \A s \in S : mem'[p][s].due = due[s]
        BY <1>2 DEF Selects, RowOf, ProcsType
    <2>5. /\ pc' = [pc EXCEPT ![p] = "loop"] /\ todo' = [todo EXCEPT ![p] = S]
          /\ \A r \in Procs \ {p} : mem'[r] = mem[r]
          /\ UNCHANGED <<row, who, cur>>
        BY <1>2 DEF Selects, GoesTo, ProcsType
    <2>6. ProcsOK'
        BY <1>2, <2>4, <2>5 DEF row, ProcsType, LaunchSteps, StopSteps
    <2> QED BY <2>2, <2>3, <2>6
<1>3. ASSUME sweep_select(p) PROVE BaseInv'
    BY <1>3, <1>2 DEF sweep_select
<1>4. ASSUME gc_select(p), p \in Collectors PROVE BaseInv'
    BY <1>4, <1>2, ConstantsAssumption DEF gc_select
<1>5. ASSUME NEW s \in Sessions, NEW r \in Reasons, s \in todo[p], Stops(p, s, r),
             UNCHANGED <<row, stores, jobs, who, mem, todo, bounds>>
      PROVE  BaseInv'
    <2>1. RowsType' /\ StoresType' /\ JobsType' /\ BoundsType' /\ JobsOK'
        BY <1>5 DEF row, stores, jobs, bounds, RowsType, StoresType, JobsType, BoundsType
    <2>2. ProcsType' /\ ProcsOK'
        BY <1>5 DEF Stops, GoesTo, row, ProcsType, LaunchSteps, StopSteps
    <2> QED BY <2>1, <2>2
<1>6. ASSUME NEW s \in Sessions, sweep_stop(p, s), p \in Sweepers PROVE BaseInv'
    <2>1. mem[p][s].due \in Reasons
        BY <1>6 DEF sweep_stop, ProcsType, Row, Dues, Reasons
    <2> QED BY <1>6, <2>1, <1>5 DEF sweep_stop
<1>7. ASSUME NEW s \in Sessions, gc_mismatch(p, s) PROVE BaseInv'
    BY <1>7, <1>5 DEF gc_mismatch, Reasons
<1>8. ASSUME NEW s \in Sessions, gc_match(p, s) PROVE BaseInv'
    <2>1. RowsType' /\ StoresType' /\ JobsType' /\ BoundsType' /\ JobsOK'
        BY <1>8 DEF gc_match, row, stores, jobs, bounds, RowsType, StoresType, JobsType, BoundsType
    <2>2. ProcsType' /\ ProcsOK'
        BY <1>8, VisitedOK DEF gc_match, row, LaunchSteps, StopSteps
    <2> QED BY <2>1, <2>2
<1> QED BY <1>1, <1>3, <1>4, <1>6, <1>7, <1>8

(***************************************************************************)
(* stop_vm writes stopping, stopped or expired to a row that exists.       *)
(***************************************************************************)
LEMMA StopBase ==
    ASSUME BaseInv, NEW p \in Procs, stop_step(p)
    PROVE  BaseInv'
<1> USE DEF BaseInv, TypeOK, ProcsOK, JobsOK
<1> DEFINE s == cur[p]
<1>0. s \in Sessions /\ state[s] # "unused" /\ pc[p] \in StopSteps
    BY DEF stop_step, stop_begin, stop_domain, stop_undefine, stop_overlay, stop_release,
        stop_commit, stop_raises, StopSteps
<1> HIDE DEF s
<1>1. ASSUME stop_begin(p) PROVE BaseInv'
    <2>1. state' = state \/ state' = [state EXCEPT ![s] = "stopping"]
        BY <1>1 DEF stop_begin, s
    <2>2. RowsType' /\ StoresType' /\ JobsType' /\ BoundsType' /\ JobsOK'
        BY <1>0, <1>1, <2>1 DEF stop_begin, stores, jobs, bounds, RowsType, StoresType, JobsType,
            BoundsType, States, ActiveStates
    <2>3. ProcsType' /\ ProcsOK'
        BY <1>0, <1>1, <2>1 DEF stop_begin, GoesTo, RowsType, ProcsType, LaunchSteps, StopSteps
    <2> QED BY <2>2, <2>3
<1>2. ASSUME \/ stop_domain(p) /\ domain' \in [Sessions -> DomainStates]
             \/ stop_undefine(p) /\ domain' \in [Sessions -> DomainStates]
             \/ stop_overlay(p) \/ stop_release(p)
      PROVE  BaseInv'
    <2>1. RowsType' /\ StoresType' /\ JobsType' /\ BoundsType' /\ JobsOK'
        BY <1>2 DEF stop_domain, stop_undefine, stop_overlay, stop_release, row, stores, jobs,
            bounds, RowsType, StoresType, JobsType, BoundsType
    <2>2. PICK step \in {"stop_undefine", "stop_overlay", "stop_release", "stop_commit"} :
            /\ pc[p] \in StopSteps /\ pc' = [pc EXCEPT ![p] = step]
            /\ UNCHANGED <<row, who, cur, mem, todo, reason>>
        BY <1>2 DEF stop_domain, stop_undefine, stop_overlay, stop_release, GoesTo, StopSteps
    <2>3. ProcsType' /\ ProcsOK'
        BY <2>2 DEF row, ProcsType, LaunchSteps, StopSteps
    <2> QED BY <2>1, <2>3
<1>3. ASSUME stop_domain(p) PROVE BaseInv'
    <2>1. domain' \in [Sessions -> DomainStates]
        BY <1>0, <1>3 DEF stop_domain, s, force_destroy, graceful_shutdown, StoresType,
            DomainStates, Defined, Live
    <2> QED BY <1>2, <1>3, <2>1
<1>4. ASSUME stop_undefine(p) PROVE BaseInv'
    <2>1. domain' \in [Sessions -> DomainStates]
        BY <1>0, <1>4 DEF stop_undefine, s, undefine, StoresType, DomainStates, Defined, Live
    <2> QED BY <1>2, <1>4, <2>1
<1>5. ASSUME stop_commit(p) PROVE BaseInv'
    <2>1. \E f \in {"expired", "stopped"} : state' = [state EXCEPT ![s] = f]
        BY <1>5 DEF stop_commit, s
    <2>2. RowsType' /\ StoresType' /\ JobsType' /\ BoundsType' /\ JobsOK'
        BY <1>0, <1>5, <2>1 DEF stop_commit, stores, jobs, bounds, RowsType, StoresType, JobsType,
            BoundsType, States, FinalStates
    <2>3. Visited(p, s)
        BY <1>5 DEF stop_commit, s
    <2>4. \A t \in Sessions : state[t] # "unused" => state'[t] # "unused"
        BY <2>1 DEF RowsType
    <2>5. ProcsType'
        BY <1>0, <1>5, <2>3, VisitedOK DEF stop_commit
    <2>6. ProcsOK'
        <3> SUFFICES ASSUME NEW r \in Procs
                     PROVE  /\ pc'[r] \in LaunchSteps => who'[r] \in Users
                            /\ pc'[r] \in StopSteps \union {"launch_enqueue"} =>
                                   cur'[r] \in Sessions /\ state'[cur'[r]] # "unused"
                            /\ \A t \in todo'[r] :
                                   state'[t] # "unused" /\ (r \in Sweepers => mem'[r][t].due # "no")
            OBVIOUS
        <3>1. todo[r] \subseteq Sessions
            BY DEF ProcsType
        <3>2. CASE r = p
            BY <1>0, <2>3, <2>4, <2>5, <3>1, <3>2, VisitedOK DEF LaunchSteps, StopSteps
        <3>3. CASE r # p
            <4>1. /\ pc'[r] = pc[r] /\ who'[r] = who[r] /\ cur'[r] = cur[r] /\ todo'[r] = todo[r]
                  /\ mem'[r] = mem[r]
                BY <1>0, <2>3, <3>3, VisitedOK
            <4> QED BY <2>4, <2>5, <3>1, <4>1
        <3> QED BY <3>2, <3>3
    <2> QED BY <2>2, <2>5, <2>6
<1>6. ASSUME stop_raises(p) PROVE BaseInv'
    BY <1>6, LeavesOK DEF stop_raises, row, stores, jobs, bounds, RowsType, StoresType, JobsType,
        BoundsType, LaunchSteps, StopSteps
<1> QED BY <1>1, <1>2, <1>3, <1>4, <1>5, <1>6 DEF stop_step

(***************************************************************************)
(* A provisioning job works on the row it was enqueued for.                *)
(***************************************************************************)
LEMMA JobBase ==
    ASSUME BaseInv, NEW s \in Sessions,
           job_step(s) \/ job_interrupted(s) \/ job_redelivered(s)
    PROVE  BaseInv'
<1> USE DEF BaseInv, TypeOK, ProcsOK, JobsOK
<1>0. state[s] # "unused" /\ job[s] # "none"
    BY DEF job_step, provision_load, provision_begin, provision_overlay, provision_port,
        provision_define, provision_define_raises, provision_create_raises, provision_fail,
        provision_cleanup, provision_commit, provision_publish, provision_raises,
        job_interrupted, job_redelivered, JobSteps
<1>a. ASSUME UNCHANGED procs,
             \A t \in Sessions : state[t] # "unused" => state'[t] # "unused"
      PROVE  ProcsType' /\ ProcsOK'
    <2>1. ProcsType'
        BY <1>a DEF procs, ProcsType
    <2>2. ProcsOK'
        BY <1>a DEF procs, ProcsType
    <2> QED BY <2>1, <2>2
<1>b. ASSUME \E f \in States \ {"unused"} : state' = [state EXCEPT ![s] = f]
      PROVE  \A t \in Sessions : state[t] # "unused" => state'[t] # "unused"
    BY <1>b DEF RowsType
<1>1. ASSUME provision_load(s) PROVE BaseInv'
    <2>1. RowsType' /\ StoresType' /\ JobsType' /\ BoundsType' /\ JobsOK'
        BY <1>0, <1>1 DEF provision_load, JobGoesTo, row, stores, bounds, RowsType, StoresType,
            JobsType, BoundsType, JobSteps
    <2> QED BY <2>1, <1>1, <1>a DEF provision_load, row
<1>2. ASSUME provision_begin(s) PROVE BaseInv'
    <2>1. state' = state \/ state' = [state EXCEPT ![s] = "provisioning"]
        BY <1>2 DEF provision_begin
    <2>2. RowsType' /\ StoresType' /\ JobsType' /\ BoundsType' /\ JobsOK'
        BY <1>0, <1>2, <2>1 DEF provision_begin, JobGoesTo, stores, bounds, RowsType, StoresType,
            JobsType, BoundsType, JobSteps, States, ActiveStates
    <2>3. \A t \in Sessions : state[t] # "unused" => state'[t] # "unused"
        BY <2>1 DEF RowsType
    <2> QED BY <2>2, <2>3, <1>2, <1>a DEF provision_begin
<1>3. ASSUME provision_overlay(s) PROVE BaseInv'
    <2>1. RowsType' /\ StoresType' /\ JobsType' /\ BoundsType' /\ JobsOK'
        BY <1>0, <1>3 DEF provision_overlay, JobGoesTo, row, bounds, RowsType, StoresType,
            JobsType, BoundsType, JobSteps
    <2> QED BY <2>1, <1>3, <1>a DEF provision_overlay, row
<1>4. ASSUME provision_port(s) PROVE BaseInv'
    <2>1. RowsType' /\ StoresType' /\ JobsType' /\ BoundsType' /\ JobsOK'
        BY <1>0, <1>4 DEF provision_port, JobGoesTo, row, bounds, RowsType, StoresType,
            JobsType, BoundsType, JobSteps
    <2> QED BY <2>1, <1>4, <1>a DEF provision_port, row
<1>5. ASSUME provision_define(s) PROVE BaseInv'
    <2>1. RowsType' /\ StoresType' /\ JobsType' /\ BoundsType' /\ JobsOK'
        BY <1>0, <1>5 DEF provision_define, Reborn, JobGoesTo, row, bounds, RowsType, StoresType,
            JobsType, BoundsType, JobSteps, DomainStates, Live
    <2> QED BY <2>1, <1>5, <1>a DEF provision_define, row
<1>6. ASSUME provision_define_raises(s) PROVE BaseInv'
    <2>1. RowsType' /\ StoresType' /\ JobsType' /\ BoundsType' /\ JobsOK'
        BY <1>0, <1>6, ConstantsAssumption DEF provision_define_raises, JobGoesTo, row, stores,
            RowsType, StoresType, JobsType, BoundsType, JobSteps
    <2> QED BY <2>1, <1>6, <1>a DEF provision_define_raises, row
<1>7. ASSUME provision_create_raises(s) PROVE BaseInv'
    <2>1. RowsType' /\ StoresType' /\ JobsType' /\ BoundsType' /\ JobsOK'
        BY <1>0, <1>7, ConstantsAssumption DEF provision_create_raises, Reborn, JobGoesTo, row,
            RowsType, StoresType, JobsType, BoundsType, JobSteps, DomainStates, Defined
    <2> QED BY <2>1, <1>7, <1>a DEF provision_create_raises, row
<1>8. ASSUME provision_fail(s) PROVE BaseInv'
    <2>1. RowsType' /\ StoresType' /\ JobsType' /\ BoundsType' /\ JobsOK'
        BY <1>0, <1>8 DEF provision_fail, JobGoesTo, stores, bounds, RowsType, StoresType,
            JobsType, BoundsType, JobSteps, States, FinalStates
    <2> QED BY <2>1, <1>8, <1>a, <1>b DEF provision_fail, States, FinalStates
<1>9. ASSUME provision_commit(s) PROVE BaseInv'
    <2>1. RowsType' /\ StoresType' /\ JobsType' /\ BoundsType' /\ JobsOK'
        BY <1>0, <1>9 DEF provision_commit, JobGoesTo, stores, bounds, RowsType, StoresType,
            JobsType, BoundsType, JobSteps, States, ActiveStates, Dues
    <2> QED BY <2>1, <1>9, <1>a, <1>b DEF provision_commit, States, ActiveStates
<1>10. ASSUME provision_cleanup(s) \/ provision_publish(s) \/ provision_raises(s) PROVE BaseInv'
    <2>1. RowsType' /\ StoresType' /\ JobsType' /\ BoundsType' /\ JobsOK'
        BY <1>0, <1>10 DEF provision_cleanup, provision_publish, provision_raises, JobEnds, JobGoesTo,
            row, stores, bounds, RowsType, StoresType, JobsType, BoundsType, States
    <2> QED BY <2>1, <1>10, <1>a DEF provision_cleanup, provision_publish, provision_raises, row
<1>11. ASSUME job_interrupted(s) \/ job_redelivered(s) PROVE BaseInv'
    <2>1. RowsType' /\ StoresType' /\ JobsType' /\ BoundsType' /\ JobsOK'
        BY <1>0, <1>11, ConstantsAssumption DEF job_interrupted, job_redelivered, JobEnds, JobGoesTo,
            row, stores, RowsType, StoresType, JobsType, BoundsType, States
    <2> QED BY <2>1, <1>11, <1>a DEF job_interrupted, job_redelivered, row
<1> QED
    BY <1>1, <1>2, <1>3, <1>4, <1>5, <1>6, <1>7, <1>8, <1>9, <1>10, <1>11 DEF job_step

(***************************************************************************)
(* Guests, clocks and failures keep the types and the references.          *)
(***************************************************************************)
LEMMA EnvironmentBase ==
    ASSUME BaseInv,
           \/ \E s \in Sessions : guest_powers_off(s) \/ falls_due(s) \/ renewed(s)
           \/ \E p \in Procs : interrupted(p)
    PROVE  BaseInv'
<1> USE DEF BaseInv, TypeOK, ProcsOK, JobsOK
<1>1. ASSUME NEW s \in Sessions, guest_powers_off(s) PROVE BaseInv'
    <2>1. RowsType' /\ StoresType' /\ JobsType' /\ BoundsType' /\ JobsOK'
        BY <1>1 DEF guest_powers_off, row, jobs, bounds, RowsType, StoresType,
            JobsType, BoundsType, DomainStates, Defined, Live
    <2>2. ProcsType' /\ ProcsOK'
        BY <1>1 DEF guest_powers_off, row, procs, ProcsType
    <2> QED BY <2>1, <2>2
<1>2. ASSUME NEW s \in Sessions, falls_due(s) \/ renewed(s) PROVE BaseInv'
    <2>1. RowsType' /\ StoresType' /\ JobsType' /\ BoundsType' /\ JobsOK'
        BY <1>2, ConstantsAssumption DEF falls_due, renewed, stores, jobs, bounds, RowsType, StoresType, JobsType,
            BoundsType, Dues
    <2>2. ProcsType' /\ ProcsOK'
        BY <1>2 DEF falls_due, renewed, procs, ProcsType
    <2> QED BY <2>1, <2>2
<1>3. ASSUME NEW p \in Procs, interrupted(p) PROVE BaseInv'
    <2>1. RowsType' /\ StoresType' /\ JobsType' /\ BoundsType' /\ JobsOK'
        BY <1>3, ConstantsAssumption DEF interrupted, row, stores, jobs, RowsType, StoresType,
            JobsType, BoundsType
    <2>2. ProcsType' /\ ProcsOK'
        BY <1>3, LeavesOK DEF interrupted, row, LaunchSteps, StopSteps
    <2> QED BY <2>1, <2>2
<1> QED BY <1>1, <1>2, <1>3

(***************************************************************************)
(* Every step keeps the types and the references.                          *)
(***************************************************************************)
LEMMA NextBase == BaseInv /\ [Next]_vars => BaseInv'
<1> SUFFICES ASSUME BaseInv, [Next]_vars PROVE BaseInv'
    OBVIOUS
<1>1. ASSUME NEW h \in Handlers, handler_step(h) PROVE BaseInv'
    BY <1>1, LaunchBase, ChooseBase, StopBase DEF handler_step, Procs
<1>2. ASSUME NEW w \in Sweepers, sweeper_step(w) PROVE BaseInv'
    BY <1>2, ChooseBase, StopBase DEF sweeper_step, Procs
<1>3. ASSUME NEW g \in Collectors, collector_step(g) PROVE BaseInv'
    BY <1>3, ChooseBase, StopBase DEF collector_step, Procs
<1>4. ASSUME NEW s \in Sessions, session_step(s) PROVE BaseInv'
    BY <1>4, JobBase, EnvironmentBase DEF session_step
<1>5. ASSUME NEW p \in Procs, interrupted(p) PROVE BaseInv'
    BY <1>5, EnvironmentBase
<1>6. CASE UNCHANGED vars
    BY <1>6 DEF vars, row, stores, jobs, procs, bounds, BaseInv, TypeOK, RowsType, StoresType,
        JobsType, ProcsType, BoundsType, ProcsOK, JobsOK
<1> QED BY <1>1, <1>2, <1>3, <1>4, <1>5, <1>6 DEF Next

(***************************************************************************)
(* Types and references hold in every reachable state.                     *)
(***************************************************************************)
THEOREM LifecycleBase == Spec => []BaseInv
BY InitBase, NextBase, PTL DEF Spec

(***************************************************************************)
(* The types of the lifecycle's state, for all instances.                  *)
(***************************************************************************)
THEOREM LifecycleTypeOK == Spec => []TypeOK
<1>1. BaseInv => TypeOK
    BY DEF BaseInv
<1> QED BY LifecycleBase, <1>1, PTL

-----------------------------------------------------------------------------
(* Part 2.  The unique index. *)

\* Session s of user u is written in state st, and the index accepts it.
Writes(s, u, st) ==
    /\ state' = [state EXCEPT ![s] = st]
    /\ owner' = [owner EXCEPT ![s] = u]
    /\ IndexAllows(s, u, st)

\* A step writes at most one row's state, past the index.
WritesOneRow ==
    \/ state' = state /\ owner' = owner
    \/ \E s \in Sessions, u \in Users, st \in States : Writes(s, u, st)

(***************************************************************************)
(* Every step that changes state goes through the index: an INSERT of      *)
(* launch_vm, an UPDATE of stop_vm or of provision_vm.                     *)
(***************************************************************************)
LEMMA NextWritesOneRow == BaseInv /\ [Next]_vars => WritesOneRow
<1> SUFFICES ASSUME BaseInv, [Next]_vars PROVE WritesOneRow
    OBVIOUS
<1> USE DEF BaseInv, TypeOK, RowsType
<1>a. ASSUME NEW s \in Sessions, state[s] # "unused", NEW st \in States,
             state' = [state EXCEPT ![s] = st], owner' = owner, IndexAllows(s, owner[s], st)
      PROVE  WritesOneRow
    <2>1. owner[s] \in Users /\ owner' = [owner EXCEPT ![s] = owner[s]]
        BY <1>a
    <2> QED BY <1>a, <2>1 DEF WritesOneRow, Writes
<1>b. ASSUME NEW s \in Sessions, NEW st \in FinalStates PROVE IndexAllows(s, owner[s], st)
    BY DEF IndexAllows, ActiveStates, FinalStates
<1>1. ASSUME NEW h \in Handlers, launch_insert(h) PROVE WritesOneRow
    <2>1. who[h] \in Users
        BY <1>1 DEF launch_insert, ProcsOK, LaunchSteps, Procs
    <2> QED BY <1>1, <2>1 DEF launch_insert, WritesOneRow, Writes, States, ActiveStates
<1>2. ASSUME NEW p \in Procs, stop_begin(p) PROVE WritesOneRow
    <2>1. cur[p] \in Sessions /\ state[cur[p]] # "unused"
        BY <1>2 DEF stop_begin, ProcsOK, StopSteps
    <2>2. CASE state' = state
        BY <1>2, <2>2 DEF stop_begin, WritesOneRow
    <2>3. CASE state' # state
        BY <1>2, <2>1, <2>3, <1>a DEF stop_begin, States, ActiveStates
    <2> QED BY <2>2, <2>3
<1>3. ASSUME NEW p \in Procs, stop_commit(p) PROVE WritesOneRow
    <2>1. cur[p] \in Sessions /\ state[cur[p]] # "unused"
        BY <1>3 DEF stop_commit, ProcsOK, StopSteps
    <2>2. PICK f \in {"expired", "stopped"} : state' = [state EXCEPT ![cur[p]] = f]
        BY <1>3 DEF stop_commit
    <2>3. f \in FinalStates /\ f \in States /\ owner' = owner
        BY <1>3 DEF stop_commit, States, FinalStates
    <2> QED BY <2>1, <2>2, <2>3, <1>a, <1>b
<1>4. ASSUME NEW s \in Sessions, provision_begin(s) PROVE WritesOneRow
    <2>1. state[s] # "unused"
        BY <1>4 DEF provision_begin, JobsOK
    <2>2. CASE state' = state
        BY <1>4, <2>2 DEF provision_begin, WritesOneRow
    <2>3. CASE state' # state
        BY <1>4, <2>1, <2>3, <1>a DEF provision_begin, States, ActiveStates
    <2> QED BY <2>2, <2>3
<1>5. ASSUME NEW s \in Sessions, provision_fail(s) PROVE WritesOneRow
    <2>1. state[s] # "unused" /\ "failed" \in FinalStates /\ "failed" \in States /\ owner' = owner
        BY <1>5 DEF provision_fail, JobsOK, States, FinalStates
    <2> QED BY <1>5, <2>1, <1>a, <1>b DEF provision_fail
<1>6. ASSUME NEW s \in Sessions, provision_commit(s) PROVE WritesOneRow
    <2>1. state[s] # "unused" /\ "running" \in States /\ owner' = owner
        BY <1>6 DEF provision_commit, JobsOK, States, ActiveStates
    <2> QED BY <1>6, <2>1, <1>a DEF provision_commit
<1>7. ASSUME NEW p \in Procs, stop_step(p) PROVE WritesOneRow
    BY <1>7, <1>2, <1>3 DEF stop_step, stop_domain, stop_undefine, stop_overlay, stop_release,
        stop_raises, row, WritesOneRow
<1>8. ASSUME NEW h \in Handlers, handler_step(h) PROVE WritesOneRow
    BY <1>8, <1>1, <1>7 DEF handler_step, launch_vm, launch_capacity, launch_refused, launch_conflict,
        launch_enqueue, request_stop, row, WritesOneRow, Procs
<1>9. ASSUME NEW w \in Sweepers, sweeper_step(w) PROVE WritesOneRow
    BY <1>9, <1>7 DEF sweeper_step, sweep_select, Selects, sweep_stop, row, WritesOneRow, Procs
<1>10. ASSUME NEW g \in Collectors, collector_step(g) PROVE WritesOneRow
    BY <1>10, <1>7 DEF collector_step, gc_select, Selects, gc_mismatch, gc_match, row, WritesOneRow, Procs
<1>11. ASSUME NEW s \in Sessions, session_step(s) PROVE WritesOneRow
    BY <1>11, <1>4, <1>5, <1>6 DEF session_step, job_step, provision_load, provision_overlay,
        provision_port, provision_define, provision_define_raises, provision_create_raises,
        provision_cleanup, provision_publish, provision_raises, guest_powers_off, falls_due, renewed,
        job_interrupted, job_redelivered, row, WritesOneRow
<1>12. ASSUME NEW p \in Procs, interrupted(p) PROVE WritesOneRow
    BY <1>12 DEF interrupted, row, WritesOneRow
<1>13. CASE UNCHANGED vars
    BY <1>13 DEF vars, row, WritesOneRow
<1> QED BY <1>8, <1>9, <1>10, <1>11, <1>12, <1>13 DEF Next

(***************************************************************************)
(* No interleaving of launches, late or repeated jobs, stops, sweeps and   *)
(* collectors, with or without redelivery, gives a user two active rows.   *)
(***************************************************************************)
THEOREM LifecycleOneActive == Spec => []OneActivePerUser
<1>1. Init => OneActivePerUser
    BY DEF Init, OneActivePerUser, Active, ActiveStates
<1>2. BaseInv /\ OneActivePerUser /\ [Next]_vars => OneActivePerUser'
    <2> SUFFICES ASSUME BaseInv, OneActivePerUser, WritesOneRow PROVE OneActivePerUser'
        BY NextWritesOneRow
    <2>1. CASE state' = state /\ owner' = owner
        BY <2>1 DEF OneActivePerUser, Active
    <2>2. ASSUME NEW s \in Sessions, NEW u \in Users, NEW st \in States, Writes(s, u, st)
          PROVE  OneActivePerUser'
        <3>1. /\ state'[s] = st /\ owner'[s] = u
              /\ \A t \in Sessions \ {s} : state'[t] = state[t] /\ owner'[t] = owner[t]
            BY <2>2 DEF Writes, BaseInv, TypeOK, RowsType
        <3>2. st \in ActiveStates => \A t \in Active \ {s} : owner[t] # u
            BY <2>2 DEF Writes, IndexAllows
        <3> QED BY <3>1, <3>2 DEF OneActivePerUser, Active
    <2> QED BY <2>1, <2>2 DEF WritesOneRow
<1> QED BY <1>1, <1>2, LifecycleBase, PTL DEF Spec

-----------------------------------------------------------------------------
(* Part 3.  The ledger of ports, domains and teardowns. *)

(***************************************************************************)
(* The ledger is empty initially.                                          *)
(***************************************************************************)
LEMMA InitLedger == Init => LedgerInv
BY DEF Init, LedgerInv, LaunchLedger, RowLedger, JobLedger, CopyLedger, TeardownLedger, PortLedger,
    RunningLedger, TransientLedger, ForceLedger, Owned, Past, Tearing, Started, Defined, NoRow

\* Process p is not tearing down after this step and holds only copies it had,
\* or fresh ones; the stores and the jobs are as before.
Steps(p) ==
    /\ UNCHANGED <<stores, jobs, vnc_port>>
    /\ \A s \in Sessions : state'[s] = "running" => state[s] = "running"
    /\ \A r \in Procs \ {p} : /\ pc'[r] = pc[r] /\ cur'[r] = cur[r]
                              /\ mem'[r] = mem[r] /\ reason'[r] = reason[r]
    /\ pc'[p] \in {"idle", "loop", "stop_begin", "stop_commit"} \union LaunchSteps
    /\ \A s \in Sessions :
          \/ mem'[p][s] = mem[p][s]
          \/ mem'[p][s].vnc_port = None
          \/ mem'[p][s].vnc_port = vnc_port[s] /\ mem'[p][s].state = state'[s]
    /\ pc'[p] = "launch_enqueue" =>
          /\ job[cur'[p]] = "none"
          /\ \A r \in Procs \ {p} : pc[r] = "launch_enqueue" => cur[r] # cur'[p]

(***************************************************************************)
(* Such a step keeps the ledger.                                           *)
(***************************************************************************)
LEMMA StepsLedger ==
    ASSUME BaseInv, LedgerInv, NEW p \in Procs, Steps(p)
    PROVE  LedgerInv'
<1>0. reborn' = reborn
    BY DEF Steps, stores
<1>1. LaunchLedger'
    BY DEF LedgerInv, LaunchLedger, Steps, jobs
<1>2. RowLedger' /\ JobLedger'
    BY DEF LedgerInv, RowLedger, JobLedger, Steps, jobs, stores
<1>3. CopyLedger'
    <2> SUFFICES ASSUME NEW r \in Procs, NEW s \in Sessions \ reborn, mem'[r][s].vnc_port # None
                 PROVE  /\ mem'[r][s].vnc_port = vnc_port'[s]
                        /\ mem'[r][s].state = "stopping" \/ (Tearing(r)' /\ cur'[r] = s)
                              => state'[s] # "running"
        BY <1>0 DEF CopyLedger
    <2>1. CASE r = p
        BY <2>1 DEF LedgerInv, CopyLedger, Steps, Tearing, LaunchSteps
    <2>2. CASE r # p
        BY <2>2 DEF LedgerInv, CopyLedger, Steps, Tearing
    <2> QED BY <2>1, <2>2
<1>4. TeardownLedger'
    BY DEF LedgerInv, TeardownLedger, Steps, Tearing, Past, stores, LaunchSteps
<1>5. \A s \in Sessions : Owned(s)' \subseteq Owned(s)
    BY DEF Steps, Owned, Past, stores, jobs, LaunchSteps
<1>6. PortLedger'
    <2>1. \A r \in Procs : Past(r)' => Past(r) /\ cur'[r] = cur[r]
        BY DEF Steps, Past, LaunchSteps
    <2> QED BY <1>5, <2>1 DEF LedgerInv, PortLedger, Steps, stores, jobs
<1>7. RunningLedger'
    BY DEF LedgerInv, RunningLedger, Steps, stores
<1>8. TransientLedger'
    BY DEF LedgerInv, TransientLedger, Started, Steps, stores, jobs
<1>9. ForceLedger'
    BY DEF LedgerInv, ForceLedger, Steps, Past, stores, LaunchSteps
<1> QED
    BY <1>1, <1>2, <1>3, <1>4, <1>6, <1>7, <1>8, <1>9 DEF LedgerInv

(***************************************************************************)
(* Requests, sweeps and collectors that start, go on or end keep the       *)
(* ledger, and so do a stop's last commit and a process that is cut off.   *)
(***************************************************************************)
LEMMA ProcessLedger ==
    ASSUME BaseInv, LedgerInv, NEW p \in Procs,
           \/ \E u \in Users : launch_vm(p, u)
           \/ launch_capacity(p) \/ launch_refused(p) \/ launch_insert(p) \/ launch_conflict(p)
           \/ \E s \in Sessions, r \in {"user_stop", "force_stop"} : request_stop(p, s, r)
           \/ sweep_select(p) \/ gc_select(p)
           \/ \E s \in Sessions : sweep_stop(p, s) \/ gc_mismatch(p, s) \/ gc_match(p, s)
           \/ stop_commit(p) \/ stop_raises(p) \/ interrupted(p)
    PROVE  LedgerInv'
<1> SUFFICES Steps(p)
    BY StepsLedger
<1> USE DEF BaseInv, TypeOK, ProcsType
<1>1. ASSUME \/ \E u \in Users : launch_vm(p, u)
             \/ launch_capacity(p)
      PROVE  Steps(p)
    BY <1>1 DEF launch_vm, launch_capacity, GoesTo, row, Steps, LaunchSteps
<1>2. ASSUME Leaves(p), UNCHANGED <<row, stores, jobs>> PROVE Steps(p)
    <2>1. \A s \in Sessions : mem'[p][s].vnc_port = None
        BY <1>2 DEF Leaves, NoRow
    <2> QED BY <1>2, <2>1, LeavesOK DEF row, Steps
<1>3. ASSUME launch_refused(p) \/ launch_conflict(p) \/ stop_raises(p) \/ interrupted(p)
      PROVE  Steps(p)
    BY <1>3, <1>2 DEF launch_refused, launch_conflict, stop_raises, interrupted
<1>4. ASSUME launch_insert(p) PROVE Steps(p)
    <2>1. PICK s \in Sessions : /\ state[s] = "unused"
                                /\ state' = [state EXCEPT ![s] = "queued"]
                                /\ cur' = [cur EXCEPT ![p] = s]
        BY <1>4 DEF launch_insert
    <2>2. job[s] = "none" /\ \A r \in Procs : pc[r] = "launch_enqueue" => cur[r] # s
        BY <2>1 DEF JobsOK, ProcsOK
    <2>3. \A t \in Sessions : state'[t] = "running" => state[t] = "running"
        BY <2>1 DEF RowsType
    <2> QED BY <1>4, <2>1, <2>2, <2>3 DEF launch_insert, GoesTo, Steps, LaunchSteps
<1>5. ASSUME NEW s \in Sessions, NEW r \in {"user_stop", "force_stop"}, request_stop(p, s, r)
      PROVE  Steps(p)
    <2>1. mem' = [mem EXCEPT ![p] = [mem[p] EXCEPT ![s] = RowOf(s)]]
        BY <1>5 DEF request_stop
    <2>2. \A t \in Sessions :
            \/ mem'[p][t] = mem[p][t]
            \/ mem'[p][t].vnc_port = vnc_port[t] /\ mem'[p][t].state = state[t]
        BY <2>1 DEF RowOf
    <2>3. \A r2 \in Procs \ {p} : mem'[r2] = mem[r2]
        BY <2>1
    <2> QED BY <1>5, <2>2, <2>3 DEF request_stop, Stops, GoesTo, row, Steps, LaunchSteps
<1>6. ASSUME NEW S \in SUBSET Sessions, Selects(p, S) PROVE Steps(p)
    <2>1. \A t \in Sessions :
            \/ mem'[p][t].vnc_port = None
            \/ mem'[p][t].vnc_port = vnc_port[t] /\ mem'[p][t].state = state[t]
        BY <1>6 DEF Selects, RowOf, NoRow
    <2> QED BY <1>6, <2>1 DEF Selects, GoesTo, row, Steps, LaunchSteps
<1>7. ASSUME sweep_select(p) \/ gc_select(p) PROVE Steps(p)
    BY <1>7, <1>6 DEF sweep_select, gc_select
<1>8. ASSUME NEW s \in Sessions, sweep_stop(p, s) \/ gc_mismatch(p, s) PROVE Steps(p)
    BY <1>8 DEF sweep_stop, gc_mismatch, Stops, GoesTo, row, Steps, LaunchSteps
<1>9. ASSUME NEW s \in Sessions, Visited(p, s)
      PROVE  \A t \in Sessions : mem'[p][t] = mem[p][t] \/ mem'[p][t].vnc_port = None
    <2>1. CASE todo[p] = {s}
        BY <1>9, <2>1 DEF Visited, Leaves, NoRow
    <2>2. CASE todo[p] # {s}
        <3>1. mem' = [mem EXCEPT ![p] = [mem[p] EXCEPT ![s] = NoRow]]
            BY <1>9, <2>2 DEF Visited
        <3> QED BY <3>1 DEF NoRow
    <2> QED BY <2>1, <2>2
<1>10. ASSUME NEW s \in Sessions, gc_match(p, s) PROVE Steps(p)
    BY <1>10, <1>9, VisitedOK DEF gc_match, row, Steps, LaunchSteps
<1>11. ASSUME stop_commit(p) PROVE Steps(p)
    <2>1. cur[p] \in Sessions
        BY <1>11 DEF stop_commit, ProcsOK, StopSteps
    <2>2. \A t \in Sessions : state'[t] = "running" => state[t] = "running"
        BY <1>11, <2>1 DEF stop_commit, RowsType
    <2> QED BY <1>11, <2>1, <2>2, <1>9, VisitedOK DEF stop_commit, Steps, LaunchSteps
<1> QED
    BY <1>1, <1>3, <1>4, <1>5, <1>7, <1>8, <1>10, <1>11

(***************************************************************************)
(* stop_vm's first commit: from here on the session is not running.        *)
(***************************************************************************)
LEMMA StopBeginLedger ==
    ASSUME BaseInv, LedgerInv, NEW p \in Procs, stop_begin(p)
    PROVE  LedgerInv'
<1> DEFINE s == cur[p]
<1> USE DEF BaseInv, TypeOK, ProcsType
<1>0. s \in Sessions
    BY DEF stop_begin, ProcsOK, StopSteps
<1>1. \/ state' = [state EXCEPT ![s] = "stopping"]
      \/ state' = state /\ mem[p][s].state = "stopping"
    BY DEF stop_begin
<1>2. \A t \in Sessions : state'[t] = "running" => state[t] = "running"
    BY <1>0, <1>1 DEF RowsType
<1>3. CASE mem[p][s].vnc_port = None
    <2>1. Steps(p)
        BY <1>2, <1>3 DEF stop_begin, GoesTo, Steps, LaunchSteps
    <2> QED BY <2>1, StepsLedger
<1>4. CASE mem[p][s].vnc_port # None
    <2>1. s \notin reborn => state'[s] # "running"
        BY <1>0, <1>1, <1>4 DEF RowsType, LedgerInv, CopyLedger
    <2>2. pc' = [pc EXCEPT ![p] = "stop_domain"] /\ UNCHANGED <<vnc_port, stores, jobs, cur, mem, reason>>
        BY <1>4 DEF stop_begin, GoesTo
    <2>3. LaunchLedger'
        BY <2>2 DEF LedgerInv, LaunchLedger, jobs
    <2>4. RowLedger' /\ JobLedger'
        BY <1>2, <2>2 DEF LedgerInv, RowLedger, JobLedger, jobs, stores
    <2>5. CopyLedger'
        BY <1>2, <2>1, <2>2 DEF LedgerInv, CopyLedger, Tearing, stores
    <2>6. TeardownLedger'
        BY <1>4, <2>2 DEF LedgerInv, TeardownLedger, Tearing, Past, stores
    <2>7. \A t \in Sessions : Owned(t)' \subseteq Owned(t)
        BY <2>2 DEF Owned, Past, stores, jobs
    <2>8. PortLedger'
        BY <2>2, <2>7 DEF LedgerInv, PortLedger, Past, stores, jobs
    <2>9. RunningLedger' /\ TransientLedger'
        BY <1>2, <2>2 DEF LedgerInv, RunningLedger, TransientLedger, Started, stores, jobs
    <2>10. ForceLedger'
        BY <2>2 DEF LedgerInv, ForceLedger, Past, stores
    <2> QED BY <2>3, <2>4, <2>5, <2>6, <2>8, <2>9, <2>10 DEF LedgerInv
<1> QED BY <1>3, <1>4

(***************************************************************************)
(* The rest of stop_vm: undefine lets one process per domain pass, which   *)
(* then releases the session's own port.                                   *)
(***************************************************************************)
LEMMA TeardownStepsLedger ==
    ASSUME BaseInv, LedgerInv, NEW p \in Procs,
           stop_domain(p) \/ stop_undefine(p) \/ stop_overlay(p) \/ stop_release(p)
    PROVE  LedgerInv'
<1> USE DEF BaseInv, TypeOK, ProcsType
<1>s. PICK s \in Sessions : s = cur[p]
    BY DEF stop_domain, stop_undefine, stop_overlay, stop_release, ProcsOK, StopSteps
<1>a. Tearing(p) /\ mem[p][s].vnc_port # None
    BY <1>s DEF stop_domain, stop_undefine, stop_overlay, stop_release, Tearing, LedgerInv, TeardownLedger
<1>0. s \notin reborn =>
        /\ mem[p][s].vnc_port = vnc_port[s] /\ vnc_port[s] # None /\ dom_port[s] = vnc_port[s]
        /\ state[s] # "running" /\ job[s] # "commit"
    BY <1>s, <1>a DEF LedgerInv, CopyLedger, JobLedger
<1>1. UNCHANGED <<state, vnc_port, dom_port, reborn, jobs, cur, mem, reason>>
    BY DEF stop_domain, stop_undefine, stop_overlay, stop_release, row
<1>2. PICK step \in {"stop_undefine", "stop_overlay", "stop_release", "stop_commit"} :
        pc' = [pc EXCEPT ![p] = step]
    BY DEF stop_domain, stop_undefine, stop_overlay, stop_release, GoesTo
<1>3. LaunchLedger' /\ RowLedger'
    BY <1>1, <1>2 DEF LedgerInv, LaunchLedger, RowLedger, jobs
<1>4. CopyLedger'
    BY <1>s, <1>a, <1>0, <1>1, <1>2 DEF LedgerInv, CopyLedger, Tearing
<1>6. ASSUME stop_domain(p) PROVE LedgerInv'
    <2>1. /\ domain' \in [Sessions -> DomainStates]
          /\ \A t \in Sessions \ {s} : domain'[t] = domain[t]
          /\ domain'[s] \in Defined <=> domain[s] \in Defined
          /\ domain'[s] = "transient" => domain[s] = "transient"
          /\ domain'[s] \in {"shutoff", "absent"} \/ domain'[s] = domain[s]
          /\ reason[p] = "force_stop" => domain'[s] \in {"shutoff", "absent"}
        BY <1>s, <1>6 DEF stop_domain, force_destroy, graceful_shutdown, StoresType,
            DomainStates, Defined, Live
    <2>2. /\ in_use' = in_use /\ overlays' = overlays
          /\ ~Past(p) /\ pc' = [pc EXCEPT ![p] = "stop_undefine"]
        BY <1>6 DEF stop_domain, GoesTo, Past
    <2>3. JobLedger'
        BY <1>1, <2>1, <2>2 DEF LedgerInv, JobLedger, jobs
    <2>4. \A r \in Procs : /\ Past(r)' <=> Past(r)
                           /\ Past(r) => cur[r] \in Sessions
                           /\ Tearing(r)' <=> Tearing(r)
        BY <1>a, <2>2 DEF Past, Tearing, ProcsOK, StopSteps
    <2>5. TeardownLedger'
        BY <1>1, <2>1, <2>4 DEF LedgerInv, TeardownLedger
    <2>6. \A t \in Sessions : Owned(t)' \subseteq Owned(t)
        BY <1>1, <2>1, <2>4 DEF Owned, jobs
    <2>7. PortLedger'
        BY <1>1, <2>1, <2>2, <2>4, <2>6 DEF LedgerInv, PortLedger, jobs
    <2>8. RunningLedger'
        BY <1>1, <2>1, <2>2 DEF LedgerInv, RunningLedger
    <2>9. TransientLedger'
        BY <1>1, <2>1 DEF LedgerInv, TransientLedger, Started, jobs
    <2>10. ForceLedger'
        <3> SUFFICES ASSUME NEW r \in Procs, cur[r] \notin reborn, reason[r] = "force_stop"
                     PROVE  /\ pc'[r] = "stop_undefine" => domain'[cur[r]] \in {"shutoff", "absent"}
                            /\ Past(r)' => domain'[cur[r]] = "absent"
            BY <1>1 DEF ForceLedger
        <3>1. CASE r = p
            BY <1>s, <2>1, <2>2, <2>4, <3>1
        <3>2. CASE r # p
            <4>1. pc[r] \in {"stop_undefine", "stop_overlay", "stop_release"} => cur[r] \in Sessions
                BY DEF ProcsOK, StopSteps
            <4>2. pc'[r] = pc[r]
                BY <2>2, <3>2
            <4>3. /\ pc[r] = "stop_undefine" => domain[cur[r]] \in {"shutoff", "absent"}
                  /\ Past(r) => domain[cur[r]] = "absent"
                BY DEF LedgerInv, ForceLedger
            <4>4. cur[r] \in Sessions /\ domain[cur[r]] \in {"shutoff", "absent"}
                     => domain'[cur[r]] \in {"shutoff", "absent"}
                BY <2>1
            <4>5. Past(r) => domain'[cur[r]] = "absent"
                <5>1. CASE cur[r] = s
                    BY <1>s, <1>6, <4>3, <5>1 DEF stop_domain, force_destroy, graceful_shutdown, Live
                <5>2. CASE cur[r] # s
                    BY <2>1, <4>1, <4>3, <5>2 DEF Past
                <5> QED BY <5>1, <5>2
            <4> QED BY <2>4, <4>1, <4>2, <4>3, <4>4, <4>5
        <3> QED BY <3>1, <3>2
    <2> QED BY <1>3, <1>4, <2>3, <2>5, <2>7, <2>8, <2>9, <2>10 DEF LedgerInv
<1>7. ASSUME stop_undefine(p) PROVE LedgerInv'
    <2>1. /\ \A t \in Sessions \ {s} : domain'[t] = domain[t]
          /\ domain[s] \in Defined /\ domain'[s] \notin Defined
          /\ domain[s] = "shutoff" => domain'[s] = "absent"
          /\ domain'[s] \in {"transient", "absent"}
        BY <1>s, <1>7 DEF stop_undefine, undefine, StoresType, Defined
    <2>2. /\ in_use' = in_use /\ overlays' = overlays
          /\ ~Past(p) /\ pc[p] = "stop_undefine" /\ pc' = [pc EXCEPT ![p] = "stop_overlay"]
        BY <1>7 DEF stop_undefine, GoesTo, Past
    <2>3. JobLedger'
        BY <1>0, <1>1, <2>1, <2>2 DEF LedgerInv, JobLedger, jobs
    <2>4. /\ Past(p)' /\ \A r \in Procs \ {p} : Past(r)' <=> Past(r)
          /\ \A r \in Procs : Past(r) \/ Tearing(r) => cur[r] \in Sessions
        BY <2>2 DEF Past, Tearing, ProcsOK, StopSteps
    <2>a. s \notin reborn => \A r \in Procs : Past(r) => cur[r] # s
        BY <2>1 DEF LedgerInv, TeardownLedger
    <2>5. TeardownLedger'
        <3> SUFFICES ASSUME NEW r \in Procs
                     PROVE  /\ Tearing(r)' => mem[r][cur[r]].vnc_port # None
                            /\ Past(r)' /\ cur[r] \notin reborn =>
                                  /\ domain'[cur[r]] \notin Defined
                                  /\ \A q \in Procs : Past(q)' /\ cur[r] = cur[q] => r = q
            BY <1>1 DEF TeardownLedger
        <3>1. CASE r = p
            BY <1>s, <1>a, <2>1, <2>4, <2>a, <3>1
        <3>2. CASE r # p
            <4>1. Tearing(r)' <=> Tearing(r)
                BY <2>2, <3>2 DEF Tearing
            <4>2. ASSUME Past(r), cur[r] \notin reborn
                  PROVE  /\ domain'[cur[r]] \notin Defined
                         /\ \A q \in Procs : Past(q)' /\ cur[r] = cur[q] => r = q
                <5>1. cur[r] # s /\ cur[r] \in Sessions
                    BY <2>4, <2>a, <4>2
                <5> QED BY <1>s, <2>1, <2>4, <4>2, <5>1 DEF LedgerInv, TeardownLedger
            <4> QED BY <2>4, <3>2, <4>1, <4>2 DEF LedgerInv, TeardownLedger
        <3> QED BY <3>1, <3>2
    <2>6. \A t \in Sessions : Owned(t)' \subseteq Owned(t)
        BY <1>s, <1>1, <2>1, <2>2, <2>4 DEF Owned, jobs
    <2>7. PortLedger'
        BY <1>s, <1>1, <2>1, <2>2, <2>4, <2>6 DEF LedgerInv, PortLedger, jobs
    <2>8. RunningLedger'
        BY <1>0, <1>1, <2>1, <2>2 DEF LedgerInv, RunningLedger
    <2>9. TransientLedger'
        <3> SUFFICES ASSUME reborn = {}, NEW u \in Sessions, NEW t \in Sessions,
                            Started(u)', u # t, domain'[t] = "transient"
                     PROVE  dom_port'[t] # dom_port'[u]
            BY <1>1 DEF TransientLedger
        <3>1. u # s /\ Started(u)
            BY <1>1, <2>1 DEF Started, jobs
        <3>2. CASE t = s
            <4>1. dom_port[u] \in Ports
                BY <3>1 DEF Started, LedgerInv, JobLedger, RowsType, StoresType
            <4>2. dom_port[u] \in Owned(u) /\ (dom_port[s] \in Ports => dom_port[s] \in Owned(s))
                BY <3>1, <4>1, <2>1 DEF Owned, Started
            <4> QED BY <1>1, <3>1, <3>2, <4>1, <4>2 DEF LedgerInv, PortLedger
        <3>3. CASE t # s
            BY <1>1, <2>1, <3>1, <3>3 DEF LedgerInv, TransientLedger
        <3> QED BY <3>2, <3>3
    <2>10. ForceLedger'
        <3> SUFFICES ASSUME NEW r \in Procs, cur[r] \notin reborn, reason[r] = "force_stop"
                     PROVE  /\ pc'[r] = "stop_undefine" => domain'[cur[r]] \in {"shutoff", "absent"}
                            /\ Past(r)' => domain'[cur[r]] = "absent"
            BY <1>1 DEF ForceLedger
        <3>1. CASE r = p
            <4>1. domain[s] \in {"shutoff", "absent"}
                BY <1>s, <2>2, <3>1 DEF LedgerInv, ForceLedger
            <4> QED BY <1>s, <2>1, <2>2, <3>1, <4>1 DEF Defined
        <3>2. CASE r # p
            <4>1. pc[r] \in {"stop_undefine", "stop_overlay", "stop_release"} => cur[r] \in Sessions
                BY DEF ProcsOK, StopSteps
            <4>2. pc'[r] = pc[r]
                BY <2>2, <3>2
            <4>3. Past(r)' <=> Past(r)
                BY <4>2 DEF Past
            <4>4. /\ pc[r] = "stop_undefine" => domain[cur[r]] \in {"shutoff", "absent"}
                  /\ Past(r) => domain[cur[r]] = "absent"
                BY DEF LedgerInv, ForceLedger
            <4> QED BY <2>1, <4>1, <4>2, <4>3, <4>4 DEF Past, Defined
        <3> QED BY <3>1, <3>2
    <2> QED BY <1>3, <1>4, <2>3, <2>5, <2>7, <2>8, <2>9, <2>10 DEF LedgerInv
<1>8. ASSUME stop_overlay(p) PROVE LedgerInv'
    <2>1. /\ overlays' = overlays \ {s} /\ in_use' = in_use /\ domain' = domain
          /\ pc[p] = "stop_overlay" /\ pc' = [pc EXCEPT ![p] = "stop_release"]
        BY <1>s, <1>8 DEF stop_overlay, GoesTo
    <2>2. JobLedger'
        BY <1>0, <1>1, <2>1 DEF LedgerInv, JobLedger, jobs
    <2>3. TeardownLedger' /\ ForceLedger'
        BY <1>1, <2>1 DEF LedgerInv, TeardownLedger, ForceLedger, Tearing, Past
    <2>4. \A t \in Sessions : Owned(t)' \subseteq Owned(t)
        BY <1>1, <2>1 DEF Owned, Past, jobs
    <2>5. PortLedger'
        BY <1>1, <2>1, <2>4 DEF LedgerInv, PortLedger, Past, jobs
    <2>6. RunningLedger' /\ TransientLedger'
        BY <1>0, <1>1, <2>1 DEF LedgerInv, RunningLedger, TransientLedger, Started, jobs
    <2> QED BY <1>3, <1>4, <2>2, <2>3, <2>5, <2>6 DEF LedgerInv
<1>9. ASSUME stop_release(p) PROVE LedgerInv'
    <2>1. /\ in_use' = in_use \ {mem[p][s].vnc_port} /\ overlays' = overlays /\ domain' = domain
          /\ pc[p] = "stop_release" /\ pc' = [pc EXCEPT ![p] = "stop_commit"]
        BY <1>s, <1>9 DEF stop_release, GoesTo
    <2>2. JobLedger'
        BY <1>1, <2>1 DEF LedgerInv, JobLedger, jobs
    <2>3. TeardownLedger' /\ ForceLedger'
        BY <1>1, <2>1 DEF LedgerInv, TeardownLedger, ForceLedger, Tearing, Past
    <2>4. \A t \in Sessions : Owned(t)' \subseteq Owned(t)
        BY <1>1, <2>1 DEF Owned, Past, jobs
    <2>7. ASSUME reborn = {} PROVE PortLedger'
        <3>1. vnc_port[s] = dom_port[s] /\ vnc_port[s] \in Ports /\ in_use' = in_use \ {vnc_port[s]}
            BY <1>0, <2>1, <2>7 DEF RowsType
        <3>2. domain[s] \notin Defined /\ \A r \in Procs \ {p} : Past(r) => cur[r] # s
            BY <1>s, <2>1, <2>7 DEF LedgerInv, TeardownLedger, Past
        <3>3. vnc_port[s] \in Owned(s)
            BY <1>s, <2>1, <3>1 DEF Owned, Past
        <3>4. job[s] = "define" => jport[s] # vnc_port[s]
            BY <1>s, <2>1, <2>7, <3>1 DEF LedgerInv, PortLedger, Past
        <3>5. vnc_port[s] \notin Owned(s)'
            BY <1>1, <2>1, <3>2, <3>4 DEF Owned, Past, jobs
        <3>6. \A t \in Sessions \ {s} : vnc_port[s] \notin Owned(t)
            BY <2>7, <3>3 DEF LedgerInv, PortLedger
        <3>7. \A t \in Sessions : Owned(t)' \subseteq in_use'
            BY <2>4, <2>7, <3>1, <3>5, <3>6 DEF LedgerInv, PortLedger
        <3>8. \A t, u \in Sessions : t # u => Owned(t)' \intersect Owned(u)' = {}
            BY <2>4, <2>7 DEF LedgerInv, PortLedger
        <3>9. \A t \in Sessions : job'[t] = "define" /\ dom_port'[t] = jport'[t]
                 => domain'[t] \notin Defined /\ \A r \in Procs : Past(r)' => cur'[r] # t
            BY <1>1, <2>1, <2>7 DEF LedgerInv, PortLedger, Past, jobs
        <3> QED BY <3>7, <3>8, <3>9 DEF PortLedger
    <2>8. RunningLedger' /\ TransientLedger'
        BY <1>1, <2>1 DEF LedgerInv, RunningLedger, TransientLedger, Started, jobs
    <2>9. PortLedger'
        BY <1>1, <2>7 DEF PortLedger
    <2> QED BY <1>3, <1>4, <2>2, <2>3, <2>9, <2>8 DEF LedgerInv
<1> QED BY <1>6, <1>7, <1>8, <1>9

(***************************************************************************)
(* A launch enqueues its job: no job of that session was delivered yet.    *)
(***************************************************************************)
LEMMA EnqueueLedger ==
    ASSUME BaseInv, LedgerInv, NEW p \in Procs, launch_enqueue(p)
    PROVE  LedgerInv'
<1> USE DEF BaseInv, TypeOK, ProcsType, JobsType
<1>1. PICK s \in Sessions : s = cur[p] /\ job[s] = "none"
    BY DEF launch_enqueue, ProcsOK, LedgerInv, LaunchLedger
<1>2. /\ job' = [job EXCEPT ![s] = "queued"]
      /\ UNCHANGED <<state, vnc_port, stores, jmem, jport>>
      /\ pc' = [pc EXCEPT ![p] = "idle"]
      /\ \A r \in Procs \ {p} : /\ cur'[r] = cur[r] /\ mem'[r] = mem[r]
                                /\ reason'[r] = reason[r]
      /\ \A t \in Sessions : mem'[p][t].vnc_port = None
    BY <1>1 DEF launch_enqueue, Leaves, row, NoRow
<1>3. LaunchLedger'
    BY <1>1, <1>2 DEF LedgerInv, LaunchLedger, launch_enqueue, ProcsOK
<1>4. RowLedger' /\ JobLedger'
    BY <1>1, <1>2 DEF LedgerInv, RowLedger, JobLedger, stores
<1>5. CopyLedger'
    BY <1>2 DEF LedgerInv, CopyLedger, Tearing, stores
<1>6. TeardownLedger'
    BY <1>2 DEF LedgerInv, TeardownLedger, Tearing, Past, stores
<1>7. \A t \in Sessions : Owned(t)' \subseteq Owned(t)
    BY <1>1, <1>2 DEF Owned, Past, stores
<1>8. PortLedger'
    BY <1>1, <1>2, <1>7 DEF LedgerInv, PortLedger, Past, stores
<1>9. RunningLedger'
    BY <1>2 DEF LedgerInv, RunningLedger, stores
<1>10. TransientLedger'
    BY <1>1, <1>2 DEF LedgerInv, TransientLedger, Started, stores
<1>11. ForceLedger'
    BY <1>2 DEF LedgerInv, ForceLedger, Past, stores
<1> QED
    BY <1>3, <1>4, <1>5, <1>6, <1>8, <1>9, <1>10, <1>11 DEF LedgerInv

\* A step of session s's job, or a new delivery of it, that moves neither ports
\* nor domains and keeps every row's vnc_port.
QuietJob(s) ==
    /\ UNCHANGED <<procs, in_use, domain, dom_port, reborn, vnc_port>>
    /\ job[s] # "none"
    /\ \A t \in Sessions : state'[t] = "running" => state[t] = "running"
    /\ \A t \in Sessions \ {s} : /\ job'[t] = job[t] /\ jport'[t] = jport[t] /\ jmem'[t] = jmem[t]
                                 /\ t \in overlays' <=> t \in overlays
    /\ job'[s] \in {"queued", "begin", "overlay", "port", "fail", "cleanup", "done"}
    /\ job'[s] = "port" => s \in overlays'
    /\ state'[s] = "running" =>
          /\ job'[s] \in {"queued", "begin", "done"} /\ overlays' = overlays
          /\ job'[s] = "begin" => jmem'[s] # "provisioning"

(***************************************************************************)
(* Such a step keeps the ledger.                                           *)
(***************************************************************************)
LEMMA QuietJobLedger ==
    ASSUME BaseInv, LedgerInv, NEW s \in Sessions, QuietJob(s)
    PROVE  LedgerInv'
<1>1. LaunchLedger'
    BY DEF LedgerInv, LaunchLedger, QuietJob, procs, BaseInv, ProcsOK
<1>2. RowLedger' /\ JobLedger'
    BY DEF LedgerInv, RowLedger, JobLedger, QuietJob
<1>3. CopyLedger'
    BY DEF LedgerInv, CopyLedger, QuietJob, procs, Tearing
<1>4. TeardownLedger' /\ ForceLedger'
    BY DEF LedgerInv, TeardownLedger, ForceLedger, QuietJob, procs, Tearing, Past
<1>5. \A t \in Sessions : Owned(t)' \subseteq Owned(t)
    BY DEF Owned, Past, QuietJob, procs
<1>6. PortLedger'
    BY <1>5 DEF LedgerInv, PortLedger, Past, QuietJob, procs
<1>7. RunningLedger'
    BY DEF LedgerInv, RunningLedger, QuietJob
<1>8. TransientLedger'
    BY DEF LedgerInv, TransientLedger, Started, QuietJob
<1> QED
    BY <1>1, <1>2, <1>3, <1>4, <1>6, <1>7, <1>8 DEF LedgerInv

(***************************************************************************)
(* Every step of a job that neither takes a port, nor defines a domain,    *)
(* nor records the running VM keeps the ledger, and so does a job that is  *)
(* cut off or delivered again.                                             *)
(***************************************************************************)
LEMMA JobLedgerKept ==
    ASSUME BaseInv, LedgerInv, NEW s \in Sessions,
           \/ provision_load(s) \/ provision_begin(s) \/ provision_overlay(s)
           \/ provision_define_raises(s) \/ provision_fail(s) \/ provision_cleanup(s)
           \/ provision_publish(s) \/ provision_raises(s) \/ job_interrupted(s)
           \/ job_redelivered(s)
    PROVE  LedgerInv'
<1> SUFFICES QuietJob(s)
    BY QuietJobLedger
<1> USE DEF BaseInv, TypeOK, JobsType, RowsType
<1>0. state[s] = "running" => /\ job[s] \in {"queued", "begin", "publish", "done"}
                              /\ job[s] = "begin" => jmem[s] # "provisioning"
    BY DEF LedgerInv, RowLedger
<1>1. ASSUME provision_load(s) PROVE QuietJob(s)
    BY <1>1 DEF provision_load, JobGoesTo, row, stores, QuietJob
<1>2. ASSUME provision_begin(s) PROVE QuietJob(s)
    <2>1. \A t \in Sessions : state'[t] = "running" => state[t] = "running"
        BY <1>2 DEF provision_begin
    <2>2. state'[s] # "running"
        BY <1>0, <1>2 DEF provision_begin
    <2> QED BY <1>2, <2>1, <2>2 DEF provision_begin, JobGoesTo, stores, QuietJob
<1>3. ASSUME provision_overlay(s) PROVE QuietJob(s)
    BY <1>0, <1>3 DEF provision_overlay, JobGoesTo, row, QuietJob
<1>4. ASSUME provision_define_raises(s) PROVE QuietJob(s)
    BY <1>0, <1>4 DEF provision_define_raises, JobGoesTo, row, stores, QuietJob
<1>5. ASSUME provision_fail(s) PROVE QuietJob(s)
    BY <1>5 DEF provision_fail, JobGoesTo, stores, QuietJob
<1>6. ASSUME provision_cleanup(s) PROVE QuietJob(s)
    BY <1>0, <1>6 DEF provision_cleanup, JobEnds, JobGoesTo, row, QuietJob
<1>7. ASSUME provision_publish(s) \/ provision_raises(s) \/ job_interrupted(s) PROVE QuietJob(s)
    BY <1>7 DEF provision_publish, provision_raises, job_interrupted, JobEnds, JobGoesTo,
        JobSteps, row, stores, QuietJob
<1>8. ASSUME job_redelivered(s) PROVE QuietJob(s)
    BY <1>8 DEF job_redelivered, JobGoesTo, JobSteps, row, stores, QuietJob
<1> QED BY <1>1, <1>2, <1>3, <1>4, <1>5, <1>6, <1>7, <1>8

(***************************************************************************)
(* Until a session's row has had a domain nobody tears the session down:   *)
(* no copy of its row names a port.                                        *)
(***************************************************************************)
LEMMA Untouched ==
    ASSUME BaseInv, LedgerInv, NEW s \in Sessions \ reborn, vnc_port[s] = None
    PROVE  \A p \in Procs : mem[p][s].vnc_port = None /\ ~(Tearing(p) /\ cur[p] = s)
<1>1. \A p \in Procs : mem[p][s].vnc_port = None
    BY DEF LedgerInv, CopyLedger
<1> QED BY <1>1 DEF LedgerInv, TeardownLedger

(***************************************************************************)
(* allocate_vnc_port gives the job a port that no session owns.            *)
(***************************************************************************)
LEMMA PortStepLedger ==
    ASSUME BaseInv, LedgerInv, NEW s \in Sessions, provision_port(s)
    PROVE  LedgerInv'
<1> USE DEF BaseInv, TypeOK, JobsType
<1>1. PICK q \in Ports \ in_use : in_use' = in_use \union {q} /\ jport' = [jport EXCEPT ![s] = q]
    BY DEF provision_port
<1>2. /\ job[s] = "port" /\ job' = [job EXCEPT ![s] = "define"]
      /\ UNCHANGED <<state, vnc_port, overlays, domain, dom_port, reborn, jmem, procs>>
    BY DEF provision_port, JobGoesTo, row
<1>3. LaunchLedger'
    BY <1>2 DEF LedgerInv, LaunchLedger, procs, ProcsOK
<1>4. RowLedger' /\ JobLedger'
    BY <1>1, <1>2 DEF LedgerInv, RowLedger, JobLedger
<1>5. CopyLedger' /\ TeardownLedger' /\ ForceLedger' /\ RunningLedger'
    BY <1>2 DEF LedgerInv, CopyLedger, TeardownLedger, ForceLedger, RunningLedger, procs, Tearing, Past
<1>6. /\ \A t \in Sessions \ {s} : Owned(t)' \subseteq Owned(t)
      /\ Owned(s)' \subseteq Owned(s) \union {q}
    BY <1>1, <1>2 DEF Owned, Past, procs
<1>7. ASSUME reborn = {} PROVE PortLedger'
    <2>1. \A t \in Sessions : q \notin Owned(t)
        BY <1>1, <1>7 DEF LedgerInv, PortLedger
    <2>2. \A t \in Sessions : Owned(t)' \subseteq in_use'
        BY <1>1, <1>6, <1>7 DEF LedgerInv, PortLedger
    <2>3. \A t, u \in Sessions : t # u => Owned(t)' \intersect Owned(u)' = {}
        BY <1>6, <1>7, <2>1 DEF LedgerInv, PortLedger
    <2>4. dom_port[s] = q => domain[s] \notin Defined /\ \A r \in Procs : Past(r) => cur[r] # s
        BY <2>1 DEF Owned
    <2>5. \A t \in Sessions : job'[t] = "define" /\ dom_port'[t] = jport'[t]
             => domain'[t] \notin Defined /\ \A r \in Procs : Past(r)' => cur'[r] # t
        BY <1>1, <1>2, <1>7, <2>4 DEF LedgerInv, PortLedger, Past, procs
    <2> QED BY <2>2, <2>3, <2>5 DEF PortLedger
<1>8. TransientLedger'
    BY <1>2 DEF LedgerInv, TransientLedger, Started
<1>9. PortLedger'
    BY <1>2, <1>7 DEF PortLedger
<1> QED BY <1>3, <1>4, <1>5, <1>8, <1>9 DEF LedgerInv

(***************************************************************************)
(* defineXML turns the job's port into the domain's; a domain that starts  *)
(* found no other QEMU on its port.  A row that had a domain before is in  *)
(* reborn from this step on.                                               *)
(***************************************************************************)
LEMMA DefineLedger ==
    ASSUME BaseInv, LedgerInv, NEW s \in Sessions,
           provision_define(s) \/ provision_create_raises(s)
    PROVE  LedgerInv'
<1> USE DEF BaseInv, TypeOK, JobsType, StoresType
<1>1. /\ job[s] = "define" /\ domain[s] = "absent" /\ jport[s] \in Ports
      /\ dom_port' = [dom_port EXCEPT ![s] = jport[s]]
      /\ reborn' = IF vnc_port[s] = None THEN reborn ELSE reborn \union {s}
      /\ UNCHANGED <<state, vnc_port, in_use, overlays, jmem, jport, procs>>
    BY DEF provision_define, provision_create_raises, Reborn, row, LedgerInv, JobLedger
<1>2. PICK step \in {"commit", "fail"}, d \in {"running", "shutoff"} :
        /\ job' = [job EXCEPT ![s] = step] /\ domain' = [domain EXCEPT ![s] = d]
        /\ step = "commit" => ~PortBound(s, jport[s])
    BY DEF provision_define, provision_create_raises, JobGoesTo
<1>3. s \notin reborn' =>
        /\ vnc_port[s] = None
        /\ \A p \in Procs : mem[p][s].vnc_port = None /\ ~(Tearing(p) /\ cur[p] = s)
    BY <1>1, Untouched
<1>a. /\ reborn \subseteq reborn'
      /\ reborn' = {} => reborn = {} /\ s \notin reborn'
      /\ state[s] # "running"
    BY <1>1 DEF LedgerInv, RowLedger
<1>4. LaunchLedger'
    BY <1>1, <1>2 DEF LedgerInv, LaunchLedger, procs, ProcsOK
<1>5. RowLedger' /\ JobLedger'
    BY <1>1, <1>2, <1>3, <1>a DEF LedgerInv, RowLedger, JobLedger, Defined
<1>6. CopyLedger'
    BY <1>1, <1>a DEF LedgerInv, CopyLedger, procs, Tearing
<1>7. TeardownLedger' /\ ForceLedger'
    <2>1. \A p \in Procs : (Tearing(p) \/ pc[p] = "stop_undefine") /\ cur[p] \notin reborn'
             => cur[p] \notin reborn /\ domain'[cur[p]] = domain[cur[p]]
        BY <1>2, <1>3, <1>a DEF ProcsOK, StopSteps, Tearing
    <2>2. \A p \in Procs : Past(p) => Tearing(p)
        BY DEF Past, Tearing
    <2> QED BY <1>1, <2>1, <2>2 DEF LedgerInv, TeardownLedger, ForceLedger, procs, Tearing, Past
<1>8. \A t \in Sessions : Owned(t)' \subseteq Owned(t)
    BY <1>1, <1>2 DEF Owned, Past, procs
<1>9. PortLedger'
    BY <1>1, <1>2, <1>8, <1>a DEF LedgerInv, PortLedger, Past, procs
<1>10. RunningLedger'
    BY <1>1, <1>2, <1>a DEF LedgerInv, RunningLedger
<1>11. TransientLedger'
    <2> SUFFICES ASSUME reborn' = {}, NEW u \in Sessions, NEW t \in Sessions,
                        Started(u)', u # t, domain'[t] = "transient"
                 PROVE  dom_port'[t] # dom_port'[u]
        BY DEF TransientLedger
    <2>1. t # s /\ domain[t] = "transient" /\ dom_port'[t] = dom_port[t]
        BY <1>1, <1>2
    <2>2. CASE u = s
        BY <1>1, <1>2, <1>3, <1>a, <2>1, <2>2 DEF Started, PortBound, Live
    <2>3. CASE u # s
        BY <1>1, <1>2, <1>a, <2>1, <2>3 DEF LedgerInv, TransientLedger, Started
    <2> QED BY <2>2, <2>3
<1> QED
    BY <1>4, <1>5, <1>6, <1>7, <1>9, <1>10, <1>11 DEF LedgerInv

(***************************************************************************)
(* The commit that records the running VM: its domain, overlay and port    *)
(* are there, whatever happened to the row meanwhile.                      *)
(***************************************************************************)
LEMMA CommitLedger ==
    ASSUME BaseInv, LedgerInv, NEW s \in Sessions, provision_commit(s)
    PROVE  LedgerInv'
<1> USE DEF BaseInv, TypeOK, JobsType, RowsType
<1>1. /\ job[s] = "commit" /\ job' = [job EXCEPT ![s] = "publish"]
      /\ state' = [state EXCEPT ![s] = "running"]
      /\ vnc_port' = [vnc_port EXCEPT ![s] = jport[s]]
      /\ UNCHANGED <<stores, jmem, jport, procs>>
    BY DEF provision_commit, JobGoesTo
<1>2. jport[s] \in Ports /\ jport[s] # None /\ dom_port[s] = jport[s]
    BY <1>1, ConstantsAssumption DEF LedgerInv, JobLedger
<1>b. s \notin reborn => vnc_port[s] = None /\ domain[s] \in Defined /\ s \in overlays
    BY <1>1 DEF LedgerInv, JobLedger
<1>3. s \notin reborn =>
        \A p \in Procs : mem[p][s].vnc_port = None /\ ~(Tearing(p) /\ cur[p] = s)
    BY <1>b, Untouched
<1>4. LaunchLedger'
    BY <1>1 DEF LedgerInv, LaunchLedger, procs, ProcsOK
<1>5. RowLedger' /\ JobLedger'
    BY <1>1, <1>2 DEF LedgerInv, RowLedger, JobLedger, stores
<1>6. CopyLedger'
    BY <1>1, <1>3 DEF LedgerInv, CopyLedger, procs, stores, Tearing
<1>7. TeardownLedger' /\ ForceLedger'
    BY <1>1 DEF LedgerInv, TeardownLedger, ForceLedger, procs, stores, Tearing, Past
<1>8. \A t \in Sessions : Owned(t)' \subseteq Owned(t)
    BY <1>1 DEF Owned, Past, procs, stores
<1>9. PortLedger'
    BY <1>1, <1>8 DEF LedgerInv, PortLedger, Past, procs, stores
<1>10. RunningLedger'
    BY <1>1, <1>b DEF LedgerInv, RunningLedger, stores
<1>11. TransientLedger'
    BY <1>1 DEF LedgerInv, TransientLedger, Started, stores
<1> QED
    BY <1>4, <1>5, <1>6, <1>7, <1>9, <1>10, <1>11 DEF LedgerInv

(***************************************************************************)
(* A guest that powers off leaves its configuration behind, or nothing.    *)
(***************************************************************************)
LEMMA GuestLedger ==
    ASSUME BaseInv, LedgerInv, NEW s \in Sessions, guest_powers_off(s)
    PROVE  LedgerInv'
<1> USE DEF BaseInv, TypeOK, StoresType
<1>1. /\ UNCHANGED <<state, vnc_port, in_use, overlays, dom_port, reborn, jobs, procs>>
      /\ \A t \in Sessions :
            /\ domain'[t] \in Defined <=> domain[t] \in Defined
            /\ domain'[t] = "transient" => domain[t] = "transient"
            /\ domain[t] \in {"shutoff", "absent"} => domain'[t] = domain[t]
    BY DEF guest_powers_off, row, Live, Defined
<1>2. LaunchLedger' /\ RowLedger' /\ JobLedger' /\ CopyLedger'
    BY <1>1 DEF LedgerInv, LaunchLedger, RowLedger, JobLedger, CopyLedger, jobs, procs, Tearing
<1>3. TeardownLedger'
    BY <1>1 DEF LedgerInv, TeardownLedger, procs, Tearing, Past, ProcsOK, StopSteps
<1>4. ForceLedger'
    BY <1>1 DEF LedgerInv, ForceLedger, procs, Past, ProcsOK, StopSteps
<1>5. \A t \in Sessions : Owned(t)' \subseteq Owned(t)
    BY <1>1 DEF Owned, Past, procs, jobs
<1>6. PortLedger'
    BY <1>1, <1>5 DEF LedgerInv, PortLedger, Past, jobs, procs
<1>7. RunningLedger' /\ TransientLedger'
    BY <1>1 DEF LedgerInv, RunningLedger, TransientLedger, Started, jobs
<1> QED BY <1>2, <1>3, <1>4, <1>6, <1>7 DEF LedgerInv

(***************************************************************************)
(* Every step keeps the ledger.                                            *)
(***************************************************************************)
LEMMA NextLedger ==
    ASSUME BaseInv, LedgerInv, [Next]_vars
    PROVE  LedgerInv'
<1>1. ASSUME NEW p \in Procs, stop_step(p) PROVE LedgerInv'
    BY <1>1, StopBeginLedger, TeardownStepsLedger, ProcessLedger DEF stop_step
<1>2. ASSUME NEW h \in Handlers, handler_step(h) PROVE LedgerInv'
    BY <1>1, <1>2, ProcessLedger, EnqueueLedger DEF handler_step, Procs
<1>3. ASSUME NEW w \in Sweepers, sweeper_step(w) PROVE LedgerInv'
    BY <1>1, <1>3, ProcessLedger DEF sweeper_step, Procs
<1>4. ASSUME NEW g \in Collectors, collector_step(g) PROVE LedgerInv'
    BY <1>1, <1>4, ProcessLedger DEF collector_step, Procs
<1>5. ASSUME NEW p \in Procs, interrupted(p) PROVE LedgerInv'
    BY <1>5, ProcessLedger
<1>6. ASSUME NEW s \in Sessions, session_step(s) PROVE LedgerInv'
    <2>1. CASE job_step(s) \/ job_interrupted(s) \/ job_redelivered(s)
        BY <2>1, JobLedgerKept, PortStepLedger, DefineLedger, CommitLedger DEF job_step
    <2>2. CASE guest_powers_off(s)
        BY <2>2, GuestLedger
    <2>3. CASE falls_due(s) \/ renewed(s)
        BY <2>3 DEF falls_due, renewed, stores, jobs, procs, LedgerInv, LaunchLedger, RowLedger, JobLedger,
            CopyLedger, TeardownLedger, PortLedger, RunningLedger, TransientLedger, ForceLedger, Owned,
            Past, Tearing, Started
    <2> QED BY <1>6, <2>1, <2>2, <2>3 DEF session_step
<1>7. CASE UNCHANGED vars
    BY <1>7 DEF vars, row, stores, jobs, procs, LedgerInv, LaunchLedger, RowLedger, JobLedger, CopyLedger,
        TeardownLedger, PortLedger, RunningLedger, TransientLedger, ForceLedger, Owned, Past,
        Tearing, Started
<1> QED
    BY <1>2, <1>3, <1>4, <1>5, <1>6, <1>7 DEF Next

(***************************************************************************)
(* The ledger holds in every reachable state, for any number of sessions,  *)
(* ports, processes, stops, failures and redelivered jobs.                 *)
(***************************************************************************)
THEOREM LifecycleLedger == Spec => []LedgerInv
<1>1. BaseInv /\ LedgerInv /\ [Next]_vars => LedgerInv'
    BY NextLedger
<1> QED BY InitLedger, <1>1, LifecycleBase, PTL DEF Spec

(***************************************************************************)
(* What a running row offers is there: no stop, sweep or collector tears   *)
(* down the domain, the overlay or the port of a row that says running,    *)
(* with the exception of rows whose job, run again, brought the VM back.   *)
(***************************************************************************)
THEOREM LifecycleRunningIsBacked == Spec => []RunningIsBacked
<1>1. BaseInv /\ LedgerInv => RunningIsBacked
    <2> SUFFICES ASSUME BaseInv, LedgerInv, NEW s \in Sessions, state[s] = "running"
                 PROVE  /\ vnc_port[s] = dom_port[s]
                        /\ s \notin reborn => domain[s] \in Defined /\ s \in overlays
                        /\ reborn = {} => vnc_port[s] \in in_use
        BY DEF RunningIsBacked
    <2>1. vnc_port[s] = dom_port[s] /\ dom_port[s] \in Ports
        BY DEF LedgerInv, RowLedger, BaseInv, TypeOK, RowsType
    <2>2. s \notin reborn => domain[s] \in Defined /\ s \in overlays
        BY DEF LedgerInv, RunningLedger
    <2>3. reborn = {} => dom_port[s] \in Owned(s)
        BY <2>1, <2>2 DEF Owned
    <2> QED BY <2>1, <2>2, <2>3 DEF LedgerInv, PortLedger
<1> QED BY LifecycleLedger, LifecycleBase, <1>1, PTL

(***************************************************************************)
(* The ledger keeps every other session's domain off a running row's port. *)
(***************************************************************************)
LEMMA LedgerIsExclusive == BaseInv /\ LedgerInv => ConsoleIsExclusive
<1> SUFFICES ASSUME BaseInv, LedgerInv, reborn = {}, NEW s \in Sessions, NEW t \in Sessions,
                    s # t, state[s] = "running", domain[t] # "absent"
             PROVE  dom_port[t] # vnc_port[s]
    BY DEF ConsoleIsExclusive
<1>1. vnc_port[s] # None /\ domain[s] \in Defined
    BY DEF LedgerInv, RowLedger, RunningLedger
<1>2. vnc_port[s] = dom_port[s] /\ dom_port[s] \in Ports
    BY <1>1 DEF LedgerInv, RowLedger, BaseInv, TypeOK, RowsType
<1>3. CASE domain[t] = "transient"
    BY <1>1, <1>2, <1>3 DEF LedgerInv, TransientLedger, Started
<1>4. CASE domain[t] \in Defined
    <2>1. dom_port[s] \in Owned(s) /\ (dom_port[t] \in Ports => dom_port[t] \in Owned(t))
        BY <1>1, <1>2, <1>4 DEF Owned
    <2> QED BY <1>2, <2>1 DEF LedgerInv, PortLedger
<1> QED BY <1>3, <1>4 DEF BaseInv, TypeOK, StoresType, DomainStates, Defined, Live

(***************************************************************************)
(* The VNC port of a running row leads to that session's VM only, until a  *)
(* job that runs again brings a stopped VM back.                           *)
(***************************************************************************)
THEOREM LifecycleConsoleIsExclusive == Spec => []ConsoleIsExclusive
BY LifecycleLedger, LifecycleBase, LedgerIsExclusive, PTL

(***************************************************************************)
(* A forced stop that got past undefine has killed the VM, unless the job  *)
(* of that session ran again and defined it once more.                     *)
(***************************************************************************)
THEOREM LifecycleForceStopKills == Spec => []ForceStopKills
<1>1. LedgerInv => ForceStopKills
    BY DEF LedgerInv, ForceLedger, ForceStopKills, Past
<1> QED BY LifecycleLedger, <1>1, PTL

-----------------------------------------------------------------------------
(* Part 4.  The sessions use the port pool as clients of PortRegistry. *)

\* The ports of the sessions other than s stay with them.
OthersKeep(s) == \A t \in Sessions \ {s} : Owned(t)' = Owned(t)

KeepsPorts == in_use' = in_use /\ \A t \in Sessions : Owned(t)' = Owned(t)

Takes(s, q) ==
    /\ q \notin in_use /\ in_use' = in_use \union {q}
    /\ Owned(s)' = Owned(s) \union {q} /\ OthersKeep(s)

GivesBack(s, q) ==
    /\ in_use' = in_use \ {q}
    /\ q \in Owned(s) /\ Owned(s)' = Owned(s) \ {q} /\ OthersKeep(s)

Abandons(s, q) ==
    /\ in_use' = in_use
    /\ q \in Owned(s) /\ Owned(s)' = Owned(s) \ {q} /\ OthersKeep(s)

(***************************************************************************)
(* These are the registry's steps, given that ports are marked and owned   *)
(* by one session at a time.                                               *)
(***************************************************************************)
LEMMA RegistrySteps ==
    ASSUME BaseInv, LedgerInv, reborn = {},
           KeepsPorts \/ \E s \in Sessions, q \in Ports :
                             Takes(s, q) \/ GivesBack(s, q) \/ Abandons(s, q)
    PROVE  [Registry!Next]_(Registry!vars)
<1> DEFINE Lost == {q \in in_use : \A s \in Sessions : q \notin Owned(s)}
           Held == [s \in Sessions |-> Owned(s)]
<1>0. \A s \in Sessions : /\ Owned(s) \subseteq in_use
                           /\ \A t \in Sessions \ {s} : Owned(s) \intersect Owned(t) = {}
    BY DEF LedgerInv, PortLedger
<1> SUFFICES Registry!Next \/ (Held' = Held /\ Lost' = Lost)
    BY DEF Registry!vars
<1>1. CASE KeepsPorts
    BY <1>1 DEF KeepsPorts
<1>2. ASSUME NEW s \in Sessions, NEW q \in Ports, Takes(s, q)
      PROVE  Registry!Next
    <2>1. Lost' = Lost
        BY <1>0, <1>2 DEF Takes, OthersKeep
    <2>2. Held' = [Held EXCEPT ![s] = Held[s] \union {q}]
        BY <1>2 DEF Takes, OthersKeep
    <2>3. q \notin Lost /\ \A t \in Sessions : q \notin Held[t]
        BY <1>0, <1>2 DEF Takes
    <2>4. Registry!Grant(s, q)
        BY <2>1, <2>2, <2>3 DEF Registry!Grant
    <2> QED BY <2>4 DEF Registry!Next
<1>3. ASSUME NEW s \in Sessions, NEW q \in Ports, GivesBack(s, q)
      PROVE  Registry!Next
    <2>1. Lost' = Lost
        BY <1>0, <1>3 DEF GivesBack, OthersKeep
    <2>2. Held' = [Held EXCEPT ![s] = Held[s] \ {q}] /\ q \in Held[s]
        BY <1>3 DEF GivesBack, OthersKeep
    <2>3. Registry!Return(s, q)
        BY <2>1, <2>2 DEF Registry!Return
    <2> QED BY <2>3 DEF Registry!Next
<1>4. ASSUME NEW s \in Sessions, NEW q \in Ports, Abandons(s, q)
      PROVE  Registry!Next
    <2>1. Lost' = Lost \union {q}
        BY <1>0, <1>4 DEF Abandons, OthersKeep
    <2>2. Held' = [Held EXCEPT ![s] = Held[s] \ {q}] /\ q \in Held[s]
        BY <1>4 DEF Abandons, OthersKeep
    <2>3. Registry!Forget(s, q)
        BY <2>1, <2>2 DEF Registry!Forget
    <2> QED BY <2>3 DEF Registry!Next
<1> QED BY <1>1, <1>2, <1>3, <1>4

\* The processes that are past undefine stay so, with the same session.
SamePast == \A p \in Procs : /\ Past(p)' <=> Past(p)
                             /\ Past(p) => cur'[p] = cur[p]

(***************************************************************************)
(* A process that is not past undefine and does not get there, or steps    *)
(* on from removing the overlay, moves no port.                            *)
(***************************************************************************)
LEMMA ProcessKeepsPorts ==
    ASSUME BaseInv, LedgerInv, NEW p \in Procs,
           \/ \E u \in Users : launch_vm(p, u)
           \/ launch_capacity(p) \/ launch_refused(p) \/ launch_insert(p) \/ launch_conflict(p)
           \/ launch_enqueue(p)
           \/ \E s \in Sessions, r \in {"user_stop", "force_stop"} : request_stop(p, s, r)
           \/ sweep_select(p) \/ gc_select(p)
           \/ \E s \in Sessions : sweep_stop(p, s) \/ gc_mismatch(p, s) \/ gc_match(p, s)
           \/ stop_begin(p) \/ stop_overlay(p) \/ stop_commit(p) \/ stop_raises(p)
           \/ ~Past(p) /\ interrupted(p)
    PROVE  KeepsPorts
<1> USE DEF BaseInv, TypeOK, ProcsType, JobsType
<1>1. SamePast
    <2>1. ASSUME launch_refused(p) \/ launch_conflict(p) \/ launch_enqueue(p) \/ stop_raises(p)
                    \/ (~Past(p) /\ interrupted(p))
          PROVE  SamePast
        BY <2>1, LeavesOK DEF launch_refused, launch_conflict, launch_enqueue, stop_raises,
            interrupted, Past, SamePast
    <2>2. ASSUME NEW s \in Sessions, gc_match(p, s) PROVE SamePast
        BY <2>2, VisitedOK DEF gc_match, Past, SamePast
    <2>3. ASSUME stop_commit(p) PROVE SamePast
        BY <2>3, VisitedOK DEF stop_commit, Past, SamePast, ProcsOK, StopSteps
    <2>4. ASSUME \/ \E u \in Users : launch_vm(p, u)
                 \/ launch_capacity(p) \/ launch_insert(p)
                 \/ sweep_select(p) \/ gc_select(p)
                 \/ stop_begin(p) \/ stop_overlay(p)
          PROVE  SamePast
        BY <2>4 DEF launch_vm, launch_capacity, launch_insert, sweep_select, gc_select, Selects,
            stop_begin, stop_overlay, GoesTo, Past, SamePast
    <2>5. ASSUME NEW s \in Sessions,
                 \/ \E r \in {"user_stop", "force_stop"} : request_stop(p, s, r)
                 \/ sweep_stop(p, s) \/ gc_mismatch(p, s)
          PROVE  SamePast
        BY <2>5 DEF request_stop, sweep_stop, gc_mismatch, Stops, GoesTo, Past, SamePast
    <2> QED BY <2>1, <2>2, <2>3, <2>4, <2>5
<1>2. UNCHANGED <<in_use, domain, dom_port, jport>>
    BY DEF launch_vm, launch_capacity, launch_refused, launch_insert, launch_conflict,
        launch_enqueue, request_stop, sweep_select, gc_select, Selects, sweep_stop, gc_mismatch,
        gc_match, stop_begin, stop_overlay, stop_commit, stop_raises, interrupted, stores, jobs
<1>3. \A t \in Sessions : job'[t] = "define" <=> job[t] = "define"
    <2>1. CASE launch_enqueue(p)
        <3>1. cur[p] \in Sessions /\ job[cur[p]] = "none"
            BY <2>1 DEF launch_enqueue, ProcsOK, LedgerInv, LaunchLedger
        <3> QED BY <2>1, <3>1 DEF launch_enqueue
    <2>2. CASE ~launch_enqueue(p)
        BY <2>2 DEF launch_vm, launch_capacity, launch_refused, launch_insert, launch_conflict,
            request_stop, sweep_select, gc_select, Selects, sweep_stop, gc_mismatch,
            gc_match, stop_begin, stop_overlay, stop_commit, stop_raises, interrupted, jobs
    <2> QED BY <2>1, <2>2
<1> QED BY <1>1, <1>2, <1>3 DEF KeepsPorts, Owned, SamePast

(***************************************************************************)
(* A stop that is past undefine will give back the row's port, which the   *)
(* session owns on account of that stop only.                              *)
(***************************************************************************)
LEMMA PastOwnsOne ==
    ASSUME BaseInv, LedgerInv, reborn = {}, NEW p \in Procs, Past(p)
    PROVE  /\ cur[p] \in Sessions /\ vnc_port[cur[p]] \in Ports
           /\ mem[p][cur[p]].vnc_port = vnc_port[cur[p]]
           /\ dom_port[cur[p]] = vnc_port[cur[p]]
           /\ job[cur[p]] = "define" => jport[cur[p]] # vnc_port[cur[p]]
           /\ domain[cur[p]] \notin Defined
           /\ vnc_port[cur[p]] \in Owned(cur[p])
           /\ \A r \in Procs \ {p} : Past(r) => cur[r] # cur[p]
<1>1. cur[p] \in Sessions /\ Tearing(p)
    BY DEF BaseInv, ProcsOK, StopSteps, Past, Tearing
<1>2. mem[p][cur[p]].vnc_port # None /\ mem[p][cur[p]].vnc_port = vnc_port[cur[p]]
    BY <1>1 DEF LedgerInv, TeardownLedger, CopyLedger
<1>3. dom_port[cur[p]] = vnc_port[cur[p]] /\ vnc_port[cur[p]] \in Ports
    BY <1>1, <1>2 DEF LedgerInv, JobLedger, BaseInv, TypeOK, RowsType
<1>4. domain[cur[p]] \notin Defined /\ \A r \in Procs \ {p} : Past(r) => cur[r] # cur[p]
    BY DEF LedgerInv, TeardownLedger
<1>5. vnc_port[cur[p]] \in Owned(cur[p])
    BY <1>1, <1>3 DEF Owned
<1>6. job[cur[p]] = "define" => jport[cur[p]] # vnc_port[cur[p]]
    BY <1>1, <1>3 DEF LedgerInv, PortLedger
<1> QED BY <1>1, <1>2, <1>3, <1>4, <1>5, <1>6

(***************************************************************************)
(* The teardown keeps the port until it gives it back; cut off after       *)
(* undefine it abandons it.  What a redelivered job of the same session    *)
(* has taken meanwhile stays the session's.                                *)
(***************************************************************************)
LEMMA TeardownPorts ==
    ASSUME BaseInv, LedgerInv, reborn = {}, NEW p \in Procs,
           \/ stop_domain(p) \/ stop_undefine(p) \/ stop_release(p)
           \/ Past(p) /\ interrupted(p)
    PROVE  KeepsPorts \/ \E s \in Sessions, q \in Ports : GivesBack(s, q) \/ Abandons(s, q)
<1> USE DEF BaseInv, TypeOK, ProcsType, StoresType
<1>0. PICK s \in Sessions : s = cur[p]
    BY PastOwnsOne DEF stop_domain, stop_undefine, stop_release, ProcsOK, StopSteps
<1>1. CASE stop_domain(p)
    <2>2. /\ UNCHANGED <<in_use, dom_port, jobs, cur>>
          /\ \A t \in Sessions : domain'[t] \in Defined <=> domain[t] \in Defined
        BY <1>0, <1>1 DEF stop_domain, force_destroy, graceful_shutdown, DomainStates, Defined, Live
    <2>3. \A r \in Procs : Past(r)' <=> Past(r)
        BY <1>1 DEF stop_domain, GoesTo, Past
    <2> QED BY <2>2, <2>3 DEF KeepsPorts, Owned, jobs
<1>2. CASE stop_undefine(p)
    <2>1. domain[s] \in Defined
        BY <1>0, <1>2 DEF stop_undefine, undefine
    <2>2. UNCHANGED <<in_use, dom_port, jobs, cur>> /\ \A t \in Sessions \ {s} : domain'[t] = domain[t]
        BY <1>0, <1>2 DEF stop_undefine, undefine
    <2>3. Past(p)' /\ \A r \in Procs \ {p} : Past(r)' <=> Past(r)
        BY <1>2 DEF stop_undefine, GoesTo, Past
    <2>4. ~Past(p)
        BY <1>2 DEF stop_undefine, Past
    <2>5. Owned(s)' = Owned(s)
        BY <1>0, <2>1, <2>2, <2>3 DEF Owned, jobs
    <2>6. OthersKeep(s)
        BY <1>0, <2>2, <2>3, <2>4 DEF OthersKeep, Owned, jobs
    <2> QED BY <2>2, <2>5, <2>6 DEF KeepsPorts, OthersKeep
<1>3. ASSUME Past(p), ~Past(p)', \A r \in Procs \ {p} : (Past(r)' <=> Past(r)) /\ (Past(r) => cur'[r] = cur[r]),
             UNCHANGED <<domain, dom_port, jobs>>
      PROVE  Owned(s)' = Owned(s) \ {vnc_port[s]} /\ OthersKeep(s)
    <2>1. /\ dom_port[s] = vnc_port[s] /\ domain[s] \notin Defined
          /\ job[s] = "define" => jport[s] # vnc_port[s]
          /\ \A r \in Procs \ {p} : Past(r) => cur[r] # s
        BY <1>0, <1>3, PastOwnsOne
    <2>2. \A r \in Procs : ~(Past(r)' /\ cur'[r] = s)
        BY <1>3, <2>1
    <2>3. Owned(s)' = Owned(s) \ {vnc_port[s]}
        BY <1>3, <2>1, <2>2 DEF Owned, jobs
    <2>4. OthersKeep(s)
        BY <1>0, <1>3 DEF OthersKeep, Owned, jobs
    <2> QED BY <2>3, <2>4
<1>4. CASE stop_release(p)
    <2>1. Past(p) /\ ~Past(p)' /\ \A r \in Procs \ {p} : Past(r)' <=> Past(r)
        BY <1>4 DEF stop_release, GoesTo, Past
    <2>2. UNCHANGED <<domain, dom_port, jobs, cur>> /\ in_use' = in_use \ {mem[p][s].vnc_port}
        BY <1>0, <1>4 DEF stop_release
    <2>3. GivesBack(s, vnc_port[s])
        BY <1>0, <1>3, <2>1, <2>2, PastOwnsOne DEF GivesBack
    <2> QED BY <1>0, <2>1, <2>3, PastOwnsOne
<1>5. CASE Past(p) /\ interrupted(p)
    <2>1. /\ ~Past(p)'
          /\ \A r \in Procs \ {p} : (Past(r)' <=> Past(r)) /\ cur'[r] = cur[r]
        BY <1>5, LeavesOK DEF interrupted, Past
    <2>2. UNCHANGED <<in_use, domain, dom_port, jobs>>
        BY <1>5 DEF interrupted, stores
    <2>3. Abandons(s, vnc_port[s])
        BY <1>0, <1>3, <1>5, <2>1, <2>2, PastOwnsOne DEF Abandons
    <2> QED BY <1>0, <1>5, <2>3, PastOwnsOne
<1> QED BY <1>1, <1>2, <1>4, <1>5

(***************************************************************************)
(* A job takes one port, turns it into its domain's, and abandons it when  *)
(* it ends, or is delivered again, in between.                             *)
(***************************************************************************)
LEMMA JobPorts ==
    ASSUME BaseInv, LedgerInv, NEW s \in Sessions,
           job_step(s) \/ job_interrupted(s) \/ job_redelivered(s), reborn' = {}
    PROVE  KeepsPorts \/ \E q \in Ports : Takes(s, q) \/ Abandons(s, q)
<1> USE DEF BaseInv, TypeOK, JobsType, StoresType
<1>0. /\ UNCHANGED procs
      /\ \A t \in Sessions \ {s} : job'[t] = job[t] /\ jport'[t] = jport[t]
    BY DEF job_step, job_interrupted, job_redelivered, provision_load, provision_begin, provision_overlay,
        provision_port, provision_define, provision_define_raises, provision_create_raises,
        provision_fail, provision_cleanup, provision_commit, provision_publish, provision_raises,
        JobEnds, JobGoesTo
<1>a. reborn = {}
    BY DEF job_step, job_interrupted, job_redelivered, provision_load, provision_begin, provision_overlay,
        provision_port, provision_define, provision_define_raises, provision_create_raises,
        provision_fail, provision_cleanup, provision_commit, provision_publish, provision_raises,
        Reborn, stores
<1>1. CASE provision_port(s)
    <2>1. PICK q \in Ports \ in_use : in_use' = in_use \union {q} /\ jport' = [jport EXCEPT ![s] = q]
        BY <1>1 DEF provision_port
    <2>2. /\ UNCHANGED <<domain, dom_port>> /\ job[s] = "port" /\ job'[s] = "define" /\ jport'[s] = q
        BY <1>1, <2>1 DEF provision_port, JobGoesTo
    <2>3. Owned(s)' = Owned(s) \union {q} /\ OthersKeep(s)
        BY <1>0, <2>2 DEF Owned, OthersKeep, Past, procs
    <2> QED BY <2>1, <2>3 DEF Takes
<1>2. CASE provision_define(s) \/ provision_create_raises(s)
    <2>1. /\ job[s] = "define" /\ jport[s] \in Ports /\ domain[s] = "absent"
          /\ job'[s] # "define" /\ domain'[s] \in Defined /\ dom_port'[s] = jport[s]
          /\ \A t \in Sessions \ {s} : domain'[t] = domain[t] /\ dom_port'[t] = dom_port[t]
          /\ in_use' = in_use
        BY <1>2 DEF provision_define, provision_create_raises, JobGoesTo, Defined, LedgerInv, JobLedger
    <2>2. vnc_port[s] = None
        BY <1>2 DEF provision_define, provision_create_raises, Reborn
    <2>3. \A p \in Procs : ~(Past(p) /\ cur[p] = s)
        BY <1>a, <2>2, Untouched DEF Past, Tearing
    <2>4. Owned(s) = {jport[s]} /\ Owned(s)' = {jport[s]}
        BY <1>0, <2>1, <2>3 DEF Owned, Past, procs, Defined
    <2>5. OthersKeep(s)
        BY <1>0, <2>1 DEF Owned, OthersKeep, Past, procs
    <2> QED BY <2>1, <2>4, <2>5 DEF KeepsPorts, OthersKeep
<1>3. CASE job[s] = "define" /\ (provision_define_raises(s) \/ job_interrupted(s) \/ job_redelivered(s))
    <2>1. UNCHANGED stores /\ job'[s] # "define" /\ jport[s] \in Ports
        BY <1>3 DEF provision_define_raises, job_interrupted, job_redelivered, JobEnds, JobGoesTo,
            LedgerInv, JobLedger
    <2>2. dom_port[s] = jport[s] => domain[s] \notin Defined /\ \A p \in Procs : Past(p) => cur[p] # s
        BY <1>3, <1>a DEF LedgerInv, PortLedger
    <2>3. jport[s] \in Owned(s) /\ Owned(s)' = Owned(s) \ {jport[s]}
        BY <1>0, <1>3, <2>1, <2>2 DEF Owned, Past, procs, stores
    <2>4. OthersKeep(s)
        BY <1>0, <2>1 DEF Owned, OthersKeep, Past, procs, stores
    <2>5. Abandons(s, jport[s])
        BY <2>1, <2>3, <2>4 DEF Abandons, stores
    <2> QED BY <2>1, <2>5
<1>4. CASE /\ job[s] # "define"
           /\ \/ provision_load(s) \/ provision_begin(s) \/ provision_overlay(s)
              \/ provision_fail(s) \/ provision_cleanup(s) \/ provision_commit(s)
              \/ provision_publish(s) \/ provision_raises(s) \/ job_interrupted(s)
              \/ job_redelivered(s)
    <2>1. UNCHANGED <<in_use, domain, dom_port>> /\ job'[s] # "define"
        BY <1>4 DEF provision_load, provision_begin, provision_overlay, provision_fail,
            provision_cleanup, provision_commit, provision_publish, provision_raises,
            job_interrupted, job_redelivered, JobEnds, JobGoesTo, stores
    <2> QED BY <1>0, <1>4, <2>1 DEF KeepsPorts, Owned, Past, procs
<1>5. job[s] = "define" =>
        \/ provision_define(s) \/ provision_create_raises(s)
        \/ provision_define_raises(s) \/ job_interrupted(s) \/ job_redelivered(s)
    BY DEF job_step, provision_load, provision_begin, provision_overlay, provision_port,
        provision_fail, provision_cleanup, provision_commit, provision_publish, provision_raises
<1>6. provision_define_raises(s) => job[s] = "define"
    BY DEF provision_define_raises
<1> QED BY <1>1, <1>2, <1>3, <1>4, <1>5, <1>6 DEF job_step

(***************************************************************************)
(* A history of reborn sessions is never forgotten.                        *)
(***************************************************************************)
LEMMA RebornGrows == [Next]_vars => reborn \subseteq reborn'
<1> SUFFICES ASSUME [Next]_vars PROVE reborn \subseteq reborn'
    OBVIOUS
<1>1. ASSUME NEW p \in Procs, stop_step(p) PROVE reborn' = reborn
    BY <1>1 DEF stop_step, stop_begin, stop_domain, stop_undefine, stop_overlay, stop_release, stop_commit,
        stop_raises, stores
<1>2. ASSUME NEW h \in Handlers, handler_step(h) PROVE reborn' = reborn
    BY <1>1, <1>2 DEF handler_step, launch_vm, launch_capacity, launch_refused, launch_insert,
        launch_conflict, launch_enqueue, request_stop, stores, Procs
<1>3. ASSUME NEW w \in Sweepers, sweeper_step(w) PROVE reborn' = reborn
    BY <1>1, <1>3 DEF sweeper_step, sweep_select, Selects, sweep_stop, stores, Procs
<1>4. ASSUME NEW g \in Collectors, collector_step(g) PROVE reborn' = reborn
    BY <1>1, <1>4 DEF collector_step, gc_select, Selects, gc_mismatch, gc_match, stores, Procs
<1>5. ASSUME NEW s \in Sessions, session_step(s) PROVE reborn \subseteq reborn'
    BY <1>5 DEF session_step, job_step, provision_load, provision_begin, provision_overlay, provision_port,
        provision_define, provision_define_raises, provision_create_raises, provision_fail,
        provision_cleanup, provision_commit, provision_publish, provision_raises, guest_powers_off,
        falls_due, renewed, job_interrupted, job_redelivered, Reborn, stores
<1>6. ASSUME NEW p \in Procs, interrupted(p) PROVE reborn' = reborn
    BY <1>6 DEF interrupted, stores
<1>7. CASE UNCHANGED vars
    BY <1>7 DEF vars, stores
<1> QED BY <1>2, <1>3, <1>4, <1>5, <1>6, <1>7 DEF Next

(***************************************************************************)
(* The sessions implement the registry's clients: a port has one owner,    *)
(* is given back once, by its owner, and is lost only when a job or a      *)
(* teardown ends, or a job is delivered again, while it owns the port, up  *)
(* to the step in which a redelivered job defines a second domain.         *)
(***************************************************************************)
THEOREM LifecycleUsesPortsAsRegistry == Spec => UsesPortsAsRegistry
<1>1. Init => Registry!Init
    BY DEF Init, Registry!Init, Owned, Past, Defined
<1>2. BaseInv /\ LedgerInv /\ [Next]_vars => [reborn' = {} => [Registry!Next]_(Registry!vars)]_vars
    <2> DEFINE Mapped == KeepsPorts \/ \E s \in Sessions, q \in Ports :
                             Takes(s, q) \/ GivesBack(s, q) \/ Abandons(s, q)
    <2> SUFFICES ASSUME BaseInv, LedgerInv, [Next]_vars, reborn' = {} PROVE Mapped
        BY RegistrySteps, RebornGrows
    <2>0. reborn = {}
        BY RebornGrows
    <2> HIDE DEF Mapped
    <2>1. ASSUME NEW p \in Procs, stop_step(p) PROVE Mapped
        BY <2>0, <2>1, ProcessKeepsPorts, TeardownPorts DEF stop_step, Mapped
    <2>2. ASSUME NEW h \in Handlers, handler_step(h) PROVE Mapped
        BY <2>1, <2>2, ProcessKeepsPorts DEF handler_step, Procs, Mapped
    <2>3. ASSUME NEW w \in Sweepers, sweeper_step(w) PROVE Mapped
        BY <2>1, <2>3, ProcessKeepsPorts DEF sweeper_step, Procs, Mapped
    <2>4. ASSUME NEW g \in Collectors, collector_step(g) PROVE Mapped
        BY <2>1, <2>4, ProcessKeepsPorts DEF collector_step, Procs, Mapped
    <2>5. ASSUME NEW p \in Procs, interrupted(p) PROVE Mapped
        BY <2>0, <2>5, ProcessKeepsPorts, TeardownPorts DEF Mapped
    <2>6. ASSUME NEW s \in Sessions, session_step(s) PROVE Mapped
        <3>1. CASE job_step(s) \/ job_interrupted(s) \/ job_redelivered(s)
            BY <3>1, JobPorts DEF Mapped
        <3>2. CASE guest_powers_off(s)
            <4>1. /\ UNCHANGED <<in_use, dom_port, jobs, procs>>
                  /\ \A t \in Sessions : domain'[t] \in Defined <=> domain[t] \in Defined
                BY <3>2 DEF guest_powers_off, Live, Defined, BaseInv, TypeOK, StoresType
            <4> QED BY <4>1 DEF Mapped, KeepsPorts, Owned, Past, jobs, procs
        <3>3. CASE falls_due(s) \/ renewed(s)
            BY <3>3 DEF falls_due, renewed, stores, jobs, procs, Mapped, KeepsPorts, Owned, Past
        <3> QED BY <2>6, <3>1, <3>2, <3>3 DEF session_step
    <2>7. CASE UNCHANGED vars
        BY <2>7 DEF vars, stores, jobs, procs, Mapped, KeepsPorts, Owned, Past
    <2> QED BY <2>2, <2>3, <2>4, <2>5, <2>6, <2>7 DEF Next
<1> QED
    BY LifecycleLedger, LifecycleBase, <1>1, <1>2, PTL DEF Spec, UsesPortsAsRegistry
=============================================================================
