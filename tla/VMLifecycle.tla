----------------------------- MODULE VMLifecycle -----------------------------
(***************************************************************************)
(* The life of a VM session across the processes that touch it:            *)
(*   - API request handlers (api/v1/routers/vms.py) that launch and stop,   *)
(*   - arq jobs (workers/vm_worker.py) that provision,                      *)
(*   - the scheduler's sweep (workers/scheduler.py) that stops due sessions, *)
(*   - the one-shot collector (workers/gc_orphaned_vms.py),                 *)
(* all through services/vm_lifecycle.py, on four shared stores: the         *)
(* vm_sessions table, the Redis set of VNC ports, the overlay directory and *)
(* libvirt.  A step ends where the code awaits a commit, a Redis command, a *)
(* file operation or a libvirt call.                                        *)
(*                                                                          *)
(* Rows are read once and kept (expire_on_commit=False): a process works on *)
(* the copy it loaded, and SQLAlchemy writes an attribute only when it      *)
(* differs from that copy.  provision_vm sets libvirt_domain_name,          *)
(* overlay_disk_path and vnc_port in one UPDATE and nothing clears them, so *)
(* vnc_port # None stands for all three being set.                          *)
(***************************************************************************)
EXTENDS Integers, FiniteSets

CONSTANTS
    Users,            \* everybody who may launch
    Students,         \* the users whose role is student
    Sessions,         \* session ids a run can hand out (bound)
    Ports,            \* the VNC port range
    MaxConcurrent,    \* policy.max_concurrent_vms_total
    Handlers,         \* API requests in flight at once (bound)
    Sweepers,         \* scheduler processes: one or none
    Collectors,       \* runs of gc_orphaned_vms at once
    MaxStops,         \* stop and force-stop requests (bound)
    MaxRenewals,      \* extensions and reported activity of due sessions (bound)
    MaxFaults,        \* failures of calls and processes (bound)
    MaxRedeliveries,  \* jobs arq hands out again after a worker died (bound)
    None

ASSUME ConstantsAssumption ==
    /\ Students \subseteq Users
    /\ None \notin Users \union Sessions \union Ports
    /\ Handlers \intersect (Sweepers \union Collectors) = {}
    /\ Sweepers \intersect Collectors = {}
    /\ MaxConcurrent \in Nat /\ MaxStops \in Nat /\ MaxRenewals \in Nat
    /\ MaxFaults \in Nat /\ MaxRedeliveries \in Nat

Procs == Handlers \union Sweepers \union Collectors

VARIABLES
    \* vm_sessions
    state,         \* VMState, or "unused" for an id without a row
    owner,         \* user_id
    vnc_port,      \* vnc_port (with the domain name and the overlay path)
    due,           \* what the sweep's clock comparison says of the row
    \* Redis, the overlay directory, libvirt
    in_use,        \* knpodly:vnc_ports:in_use
    overlays,      \* sessions whose <id>.qcow2 exists
    domain,        \* libvirt domain knpodly-<id>
    dom_port,      \* the VNC port in that domain's XML
    reborn,        \* history: sessions whose row already had a domain when
                   \* their job, run again, defined another one
    \* arq jobs provision_vm(<id>)
    job,           \* "none", "queued", the next step of the job, or "done"
    jmem,          \* state in the job's copy of the row
    jport,         \* the job's local vnc_port
    \* handlers, sweepers, collectors
    pc,            \* the next step
    who,           \* the user whose launch a handler serves
    cur,           \* the session stop_vm works on
    mem,           \* the process's copies of rows
    todo,          \* rows the process still has to visit
    reason,        \* stop_vm's reason; force is reason = "force_stop"
    \* bounds
    stops, renewals, faults, redeliveries

row    == <<state, owner, vnc_port, due>>
stores == <<in_use, overlays, domain, dom_port, reborn>>
jobs   == <<job, jmem, jport>>
procs  == <<pc, who, cur, mem, todo, reason>>
bounds == <<stops, renewals, faults, redeliveries>>
vars   == <<row, stores, jobs, procs, bounds>>

-----------------------------------------------------------------------------
(* Vocabulary *)

ActiveStates   == {"queued", "provisioning", "running", "stopping"}
FinalStates    == {"stopped", "expired", "failed"}
States         == {"unused"} \union ActiveStates \union FinalStates
Defined        == {"running", "shutoff"}     \* undefine would find a configuration
Live           == {"running", "transient"}   \* a QEMU process holds the VNC port
DomainStates   == {"absent"} \union Defined \union Live
JobSteps       == {"begin", "overlay", "port", "define", "commit", "fail", "cleanup", "publish"}
LaunchSteps    == {"launch_capacity", "launch_insert", "launch_enqueue"}
StopSteps      == {"stop_begin", "stop_domain", "stop_undefine",
                   "stop_overlay", "stop_release", "stop_commit"}
Reasons        == {"user_stop", "force_stop", "expired", "idle_timeout", "error"}
Dues           == {"no", "expired", "idle_timeout"}
Row            == [state : States, vnc_port : Ports \union {None}, due : Dues]
NoRow          == [state |-> "unused", vnc_port |-> None, due |-> "no"]

RowOf(s)       == [state |-> state[s], vnc_port |-> vnc_port[s], due |-> due[s]]
Active         == {s \in Sessions : state[s] \in ActiveStates}

\* Mutant: the index forgets the sessions that are being stopped.
index_without_stopping(s, u, st) ==
    st \in ActiveStates \ {"stopping"} =>
        \A t \in {r \in Sessions \ {s} : state[r] \in ActiveStates \ {"stopping"}} : owner[t] # u

\* The unique index uniq_one_active_session_per_student accepts session s of
\* user u in state st.  It has no condition on the role.
IndexAllows(s, u, st) ==
    st \in ActiveStates => \A t \in Active \ {s} : owner[t] # u

Init ==
    /\ state = [s \in Sessions |-> "unused"]
    /\ owner = [s \in Sessions |-> None]
    /\ vnc_port = [s \in Sessions |-> None]
    /\ due = [s \in Sessions |-> "no"]
    /\ in_use = {} /\ overlays = {}
    /\ domain = [s \in Sessions |-> "absent"]
    /\ dom_port = [s \in Sessions |-> None] /\ reborn = {}
    /\ job = [s \in Sessions |-> "none"]
    /\ jmem = [s \in Sessions |-> "unused"]
    /\ jport = [s \in Sessions |-> None]
    /\ pc = [p \in Procs |-> "idle"]
    /\ who = [p \in Procs |-> None]
    /\ cur = [p \in Procs |-> None]
    /\ mem = [p \in Procs |-> [s \in Sessions |-> NoRow]]
    /\ todo = [p \in Procs |-> {}]
    /\ reason = [p \in Procs |-> None]
    /\ stops = 0 /\ renewals = 0 /\ faults = 0 /\ redeliveries = 0

\* Process p returns, raises or dies; its locals are gone.
Leaves(p) ==
    /\ pc' = [pc EXCEPT ![p] = "idle"]
    /\ who' = [who EXCEPT ![p] = None]
    /\ cur' = [cur EXCEPT ![p] = None]
    /\ mem' = [mem EXCEPT ![p] = [s \in Sessions |-> NoRow]]
    /\ todo' = [todo EXCEPT ![p] = {}]
    /\ reason' = [reason EXCEPT ![p] = None]

GoesTo(p, step) == pc' = [pc EXCEPT ![p] = step]

-----------------------------------------------------------------------------
(***************************************************************************)
(* POST /vms: launch_vm.  A refusal that changes nothing (maintenance, own  *)
(* VM active, no capacity, OS unavailable) just ends the request.           *)
(***************************************************************************)
\* vm_lifecycle.launch_vm up to the first await that sees other rows: only
\* students are checked for an active VM of their own.
launch_vm(h, u) ==
    /\ pc[h] = "idle"
    /\ u \in Students => \A s \in Active : owner[s] # u
    /\ GoesTo(h, "launch_capacity")
    /\ who' = [who EXCEPT ![h] = u]
    /\ UNCHANGED <<row, stores, jobs, cur, mem, todo, reason, bounds>>

launch_capacity(h) ==
    /\ pc[h] = "launch_capacity"
    /\ Cardinality(Active) < MaxConcurrent
    /\ GoesTo(h, "launch_insert")
    /\ UNCHANGED <<row, stores, jobs, who, cur, mem, todo, reason, bounds>>

\* VMLimitExceeded or OSUnavailable.
launch_refused(h) ==
    /\ pc[h] = "launch_capacity"
    /\ Leaves(h)
    /\ UNCHANGED <<row, stores, jobs, bounds>>

\* Mutant: the row is inserted without its user.
launch_insert_anonymous(h) ==
    /\ pc[h] = "launch_insert"
    /\ \E s \in Sessions :
          /\ state[s] = "unused"
          /\ IndexAllows(s, who[h], "queued")
          /\ state' = [state EXCEPT ![s] = "queued"]
          /\ cur' = [cur EXCEPT ![h] = s]
    /\ GoesTo(h, "launch_enqueue")
    /\ UNCHANGED <<owner, vnc_port, due, stores, jobs, who, mem, todo, reason, bounds>>

launch_insert(h) ==
    /\ pc[h] = "launch_insert"
    /\ \E s \in Sessions :
          /\ state[s] = "unused"
          /\ IndexAllows(s, who[h], "queued")
          /\ state' = [state EXCEPT ![s] = "queued"]
          /\ owner' = [owner EXCEPT ![s] = who[h]]
          /\ cur' = [cur EXCEPT ![h] = s]
    /\ GoesTo(h, "launch_enqueue")
    /\ UNCHANGED <<vnc_port, due, stores, jobs, who, mem, todo, reason, bounds>>

\* The index refuses the row: IntegrityError, which nothing catches.
launch_conflict(h) ==
    /\ pc[h] = "launch_insert"
    /\ \E s \in Active : owner[s] = who[h]
    /\ Leaves(h)
    /\ UNCHANGED <<row, stores, jobs, bounds>>

\* pool.enqueue_job, after the row is committed.
launch_enqueue(h) ==
    /\ pc[h] = "launch_enqueue"
    /\ job' = [job EXCEPT ![cur[h]] = "queued"]
    /\ Leaves(h)
    /\ UNCHANGED <<row, stores, jmem, jport, bounds>>

-----------------------------------------------------------------------------
(***************************************************************************)
(* Whom stop_vm is called for: stop and force-stop requests, due sessions, *)
(* and sessions whose domain is gone.                                      *)
(***************************************************************************)
Stops(p, s, r) ==
    /\ GoesTo(p, "stop_begin")
    /\ cur' = [cur EXCEPT ![p] = s]
    /\ reason' = [reason EXCEPT ![p] = r]

\* POST /vms/{id}/stop and /force-stop: whatever state the row is in.
request_stop(h, s, r) ==
    /\ pc[h] = "idle" /\ state[s] # "unused"
    /\ stops < MaxStops /\ stops' = stops + 1
    /\ Stops(h, s, r)
    /\ mem' = [mem EXCEPT ![h][s] = RowOf(s)]
    /\ todo' = [todo EXCEPT ![h] = {s}]
    /\ UNCHANGED <<row, stores, jobs, who, renewals, faults, redeliveries>>

\* Reads the rows of S into p's session and starts visiting them.
Selects(p, S) ==
    /\ S # {}
    /\ GoesTo(p, "loop")
    /\ mem' = [mem EXCEPT ![p] = [s \in Sessions |-> IF s \in S THEN RowOf(s) ELSE NoRow]]
    /\ todo' = [todo EXCEPT ![p] = S]
    /\ UNCHANGED <<row, stores, jobs, who, cur, reason, bounds>>

\* One sweep: `now' and the rows are read once.  A sweep that finds nothing
\* due stops nothing.
sweep_select(w) ==
    /\ pc[w] = "idle"
    /\ Selects(w, {s \in Sessions : state[s] = "running" /\ due[s] # "no"})

\* The SELECT has no ORDER BY.
sweep_stop(w, s) ==
    /\ pc[w] = "loop" /\ s \in todo[w]
    /\ Stops(w, s, mem[w][s].due)
    /\ UNCHANGED <<row, stores, jobs, who, mem, todo, bounds>>

gc_select(g) ==
    /\ pc[g] = "idle"
    /\ Selects(g, {s \in Sessions : /\ state[s] \in {"running", "stopping"}
                                   /\ vnc_port[s] # None})

\* p is done with session s and goes on to the next one, if any.
Visited(p, s) ==
    IF todo[p] = {s}
    THEN Leaves(p)
    ELSE /\ GoesTo(p, "loop")
         /\ cur' = [cur EXCEPT ![p] = None]
         /\ mem' = [mem EXCEPT ![p][s] = NoRow]
         /\ todo' = [todo EXCEPT ![p] = @ \ {s}]
         /\ reason' = [reason EXCEPT ![p] = None]
         /\ UNCHANGED who

\* get_domain_info: None or "shutoff" is a mismatch.
gc_mismatch(g, s) ==
    /\ pc[g] = "loop" /\ s \in todo[g]
    /\ domain[s] \in {"absent", "shutoff"}
    /\ Stops(g, s, "error")
    /\ UNCHANGED <<row, stores, jobs, who, mem, todo, bounds>>

gc_match(g, s) ==
    /\ pc[g] = "loop" /\ s \in todo[g]
    /\ domain[s] \in Live
    /\ Visited(g, s)
    /\ UNCHANGED <<row, stores, jobs, bounds>>

-----------------------------------------------------------------------------
(***************************************************************************)
(* libvirt, as services/libvirt_client.py calls it.  An operation that is   *)
(* not enabled raises.                                                      *)
(***************************************************************************)
\* dom.shutdown() raises unless the domain is active, and only asks the guest.
graceful_shutdown(s) == domain[s] \in Live /\ UNCHANGED domain

\* Mutant: isActive() is tested the wrong way round.
force_destroy_inverted(s) == domain[s] # "absent" /\ UNCHANGED domain

\* dom.destroy() ends QEMU; a domain without a configuration is gone then.
force_destroy(s) ==
    /\ domain[s] # "absent"
    /\ domain' = [domain EXCEPT ![s] = IF @ = "transient" THEN "absent" ELSE "shutoff"]

\* Mutant: a domain that is not there is no error, as in FakeLibvirtClient.
undefine_idempotent(s) ==
    domain' = [domain EXCEPT ![s] = IF @ \in Live THEN "transient" ELSE "absent"]

\* dom.undefine() raises without a configuration; an active domain lives on as
\* a transient one.
undefine(s) ==
    /\ domain[s] \in Defined
    /\ domain' = [domain EXCEPT ![s] = IF @ = "running" THEN "transient" ELSE "absent"]

\* Another QEMU listens on VNC port q, so create() cannot.
PortBound(s, q) == \E t \in Sessions \ {s} : domain[t] \in Live /\ dom_port[t] = q

-----------------------------------------------------------------------------
(***************************************************************************)
(* vm_lifecycle.stop_vm, the same steps for every caller.                   *)
(***************************************************************************)
\* Mutant: stopping is not written before the teardown.
stop_begin_unrecorded(p) ==
    /\ pc[p] = "stop_begin"
    /\ GoesTo(p, IF mem[p][cur[p]].vnc_port # None THEN "stop_domain" ELSE "stop_commit")
    /\ UNCHANGED <<row, stores, jobs, who, cur, mem, todo, reason, bounds>>

\* session.state = stopping; commit.  No UPDATE when the copy says stopping.
stop_begin(p) ==
    /\ pc[p] = "stop_begin"
    /\ IF mem[p][cur[p]].state = "stopping"
       THEN UNCHANGED state
       ELSE /\ IndexAllows(cur[p], owner[cur[p]], "stopping")
            /\ state' = [state EXCEPT ![cur[p]] = "stopping"]
    /\ GoesTo(p, IF mem[p][cur[p]].vnc_port # None THEN "stop_domain" ELSE "stop_commit")
    /\ UNCHANGED <<owner, vnc_port, due, stores, jobs, who, cur, mem, todo, reason, bounds>>

stop_domain(p) ==
    /\ pc[p] = "stop_domain"
    /\ IF reason[p] = "force_stop" THEN force_destroy(cur[p]) ELSE graceful_shutdown(cur[p])
    /\ GoesTo(p, "stop_undefine")
    /\ UNCHANGED <<row, in_use, overlays, dom_port, reborn, jobs, who, cur, mem, todo, reason, bounds>>

stop_undefine(p) ==
    /\ pc[p] = "stop_undefine"
    /\ undefine(cur[p])
    /\ GoesTo(p, "stop_overlay")
    /\ UNCHANGED <<row, in_use, overlays, dom_port, reborn, jobs, who, cur, mem, todo, reason, bounds>>

stop_overlay(p) ==
    /\ pc[p] = "stop_overlay"
    /\ overlays' = overlays \ {cur[p]}
    /\ GoesTo(p, "stop_release")
    /\ UNCHANGED <<row, in_use, domain, dom_port, reborn, jobs, who, cur, mem, todo, reason, bounds>>

stop_release(p) ==
    /\ pc[p] = "stop_release"
    /\ in_use' = in_use \ {mem[p][cur[p]].vnc_port}
    /\ GoesTo(p, "stop_commit")
    /\ UNCHANGED <<row, overlays, domain, dom_port, reborn, jobs, who, cur, mem, todo, reason, bounds>>

stop_commit(p) ==
    /\ pc[p] = "stop_commit"
    /\ state' = [state EXCEPT ![cur[p]] = IF reason[p] = "expired" THEN "expired" ELSE "stopped"]
    /\ Visited(p, cur[p])
    /\ UNCHANGED <<owner, vnc_port, due, stores, jobs, bounds>>

\* An exception of stop_vm ends the request, the whole sweep or the collector.
stop_raises(p) ==
    /\ \/ /\ pc[p] = "stop_begin"
          /\ mem[p][cur[p]].state # "stopping"
          /\ ~IndexAllows(cur[p], owner[cur[p]], "stopping")
       \/ pc[p] = "stop_domain" /\ domain[cur[p]] = "absent"
       \/ pc[p] = "stop_domain" /\ domain[cur[p]] = "shutoff" /\ reason[p] # "force_stop"
       \/ pc[p] = "stop_undefine" /\ domain[cur[p]] \notin Defined
    /\ Leaves(p)
    /\ UNCHANGED <<row, stores, jobs, bounds>>

stop_step(p) ==
    \/ stop_begin(p) \/ stop_domain(p) \/ stop_undefine(p) \/ stop_overlay(p)
    \/ stop_release(p) \/ stop_commit(p) \/ stop_raises(p)

-----------------------------------------------------------------------------
(***************************************************************************)
(* The arq job provision_vm of session s.                                   *)
(***************************************************************************)
JobGoesTo(s, step) == job' = [job EXCEPT ![s] = step]

\* The job ends; what it had allocated and not recorded nobody knows.
JobEnds(s) ==
    /\ JobGoesTo(s, "done")
    /\ jmem' = [jmem EXCEPT ![s] = "unused"]
    /\ jport' = [jport EXCEPT ![s] = None]

\* workers/vm_worker.py loads the row; it does not look at its state.
provision_load(s) ==
    /\ job[s] = "queued"
    /\ JobGoesTo(s, "begin")
    /\ jmem' = [jmem EXCEPT ![s] = state[s]]
    /\ UNCHANGED <<row, stores, jport, procs, bounds>>

provision_begin(s) ==
    /\ job[s] = "begin"
    /\ IF jmem[s] = "provisioning"
       THEN UNCHANGED state
       ELSE /\ IndexAllows(s, owner[s], "provisioning")
            /\ state' = [state EXCEPT ![s] = "provisioning"]
    /\ JobGoesTo(s, "overlay")
    /\ UNCHANGED <<owner, vnc_port, due, stores, jmem, jport, procs, bounds>>

provision_overlay(s) ==
    /\ job[s] = "overlay"
    /\ overlays' = overlays \union {s}
    /\ JobGoesTo(s, "port")
    /\ UNCHANGED <<row, in_use, domain, dom_port, reborn, jmem, jport, procs, bounds>>

\* Mutant: the Redis set is read but the port is not added to it.
provision_port_unmarked(s) ==
    /\ job[s] = "port"
    /\ \E q \in Ports \ in_use : jport' = [jport EXCEPT ![s] = q]
    /\ JobGoesTo(s, "define")
    /\ UNCHANGED <<row, stores, jmem, procs, bounds>>

\* allocate_vnc_port, one step by VncPortPool's refinement of PortRegistry.
provision_port(s) ==
    /\ job[s] = "port"
    /\ \E q \in Ports \ in_use :
          /\ in_use' = in_use \union {q}
          /\ jport' = [jport EXCEPT ![s] = q]
    /\ JobGoesTo(s, "define")
    /\ UNCHANGED <<row, overlays, domain, dom_port, reborn, jmem, procs, bounds>>

\* The domain of s is defined: the first one, or one more.
Reborn(s) == reborn' = IF vnc_port[s] = None THEN reborn ELSE reborn \union {s}

\* defineXML and create both succeed.
provision_define(s) ==
    /\ job[s] = "define"
    /\ domain[s] = "absent" /\ ~PortBound(s, jport[s])
    /\ domain' = [domain EXCEPT ![s] = "running"]
    /\ dom_port' = [dom_port EXCEPT ![s] = jport[s]]
    /\ Reborn(s)
    /\ JobGoesTo(s, "commit")
    /\ UNCHANGED <<row, in_use, overlays, jmem, jport, procs, bounds>>

\* defineXML raises: the name is taken by a domain of an earlier delivery, or
\* the host failed.
provision_define_raises(s) ==
    /\ job[s] = "define"
    /\ \/ domain[s] # "absent" /\ UNCHANGED faults
       \/ faults < MaxFaults /\ faults' = faults + 1
    /\ JobGoesTo(s, "fail")
    /\ UNCHANGED <<row, stores, jmem, jport, procs, stops, renewals, redeliveries>>

\* create() raises after defineXML: the port is bound, or the host failed.
provision_create_raises(s) ==
    /\ job[s] = "define" /\ domain[s] = "absent"
    /\ \/ PortBound(s, jport[s]) /\ UNCHANGED faults
       \/ faults < MaxFaults /\ faults' = faults + 1
    /\ domain' = [domain EXCEPT ![s] = "shutoff"]
    /\ dom_port' = [dom_port EXCEPT ![s] = jport[s]]
    /\ Reborn(s)
    /\ JobGoesTo(s, "fail")
    /\ UNCHANGED <<row, in_use, overlays, jmem, jport, procs, stops, renewals, redeliveries>>

\* except Exception: state = failed; commit; ...
provision_fail(s) ==
    /\ job[s] = "fail"
    /\ state' = [state EXCEPT ![s] = "failed"]
    /\ JobGoesTo(s, "cleanup")
    /\ UNCHANGED <<owner, vnc_port, due, stores, jmem, jport, procs, bounds>>

\* ... destroy_overlay; raise.
provision_cleanup(s) ==
    /\ job[s] = "cleanup"
    /\ overlays' = overlays \ {s}
    /\ JobEnds(s)
    /\ UNCHANGED <<row, in_use, domain, dom_port, reborn, procs, bounds>>

\* One UPDATE records the domain, the overlay, the port, running and new times.
provision_commit(s) ==
    /\ job[s] = "commit"
    /\ IndexAllows(s, owner[s], "running")
    /\ state' = [state EXCEPT ![s] = "running"]
    /\ vnc_port' = [vnc_port EXCEPT ![s] = jport[s]]
    /\ due' = [due EXCEPT ![s] = "no"]
    /\ JobGoesTo(s, "publish")
    /\ UNCHANGED <<owner, stores, jmem, jport, procs, bounds>>

\* publish_event("vm.running"); arq records the job as finished.
provision_publish(s) ==
    /\ job[s] = "publish"
    /\ JobEnds(s)
    /\ UNCHANGED <<row, stores, procs, bounds>>

\* Exceptions outside the try: the job fails and arq does not retry it.
provision_raises(s) ==
    /\ \/ /\ job[s] = "begin" /\ jmem[s] # "provisioning"
          /\ ~IndexAllows(s, owner[s], "provisioning")
       \/ job[s] = "overlay" /\ domain[s] \in Live   \* the image is locked
       \/ job[s] = "port" /\ Ports \subseteq in_use
       \/ job[s] = "commit" /\ ~IndexAllows(s, owner[s], "running")
    /\ JobEnds(s)
    /\ UNCHANGED <<row, stores, procs, bounds>>

job_step(s) ==
    \/ provision_load(s) \/ provision_begin(s) \/ provision_overlay(s)
    \/ provision_port(s) \/ provision_define(s) \/ provision_define_raises(s)
    \/ provision_create_raises(s) \/ provision_fail(s) \/ provision_cleanup(s)
    \/ provision_commit(s) \/ provision_publish(s) \/ provision_raises(s)

-----------------------------------------------------------------------------
(***************************************************************************)
(* The environment.                                                         *)
(***************************************************************************)
\* The guest shuts down or crashes (on_poweroff, on_crash: destroy).
guest_powers_off(s) ==
    /\ domain[s] \in Live
    /\ domain' = [domain EXCEPT ![s] = IF @ = "running" THEN "shutoff" ELSE "absent"]
    /\ UNCHANGED <<row, in_use, overlays, dom_port, reborn, jobs, procs, bounds>>

\* A session runs past expires_at, or past the idle timeout; only the sweep
\* looks.
falls_due(s) ==
    /\ Sweepers # {}
    /\ state[s] = "running" /\ due[s] = "no"
    /\ \E r \in {"expired", "idle_timeout"} : due' = [due EXCEPT ![s] = r]
    /\ UNCHANGED <<state, owner, vnc_port, stores, jobs, procs, bounds>>

\* POST /vms/{id}/extend and /activity: later times for a row in any state.
\* (A session both expired and idle falls due again.)
renewed(s) ==
    /\ due[s] # "no"
    /\ renewals < MaxRenewals /\ renewals' = renewals + 1
    /\ due' = [due EXCEPT ![s] = "no"]
    /\ UNCHANGED <<state, owner, vnc_port, stores, jobs, procs, stops, faults, redeliveries>>

\* A request, sweep or collector is cut off: a call raises or its process dies.
interrupted(p) ==
    /\ pc[p] # "idle" /\ faults < MaxFaults
    /\ faults' = faults + 1
    /\ Leaves(p)
    /\ UNCHANGED <<row, stores, jobs, stops, renewals, redeliveries>>

\* A job is cut off: qemu-img, Redis or a commit raises, or it times out.
job_interrupted(s) ==
    /\ job[s] \in JobSteps /\ faults < MaxFaults
    /\ faults' = faults + 1
    /\ JobEnds(s)
    /\ UNCHANGED <<row, stores, procs, stops, renewals, redeliveries>>

\* The worker dies before arq has recorded the job as finished: it runs again.
job_redelivered(s) ==
    /\ job[s] \in JobSteps /\ redeliveries < MaxRedeliveries
    /\ redeliveries' = redeliveries + 1
    /\ JobGoesTo(s, "queued")
    /\ jmem' = [jmem EXCEPT ![s] = "unused"]
    /\ jport' = [jport EXCEPT ![s] = None]
    /\ UNCHANGED <<row, stores, procs, stops, renewals, faults>>

handler_step(h) ==
    \/ \E u \in Users : launch_vm(h, u)
    \/ launch_capacity(h) \/ launch_refused(h) \/ launch_insert(h)
    \/ launch_conflict(h) \/ launch_enqueue(h)
    \/ \E s \in Sessions, r \in {"user_stop", "force_stop"} : request_stop(h, s, r)
    \/ stop_step(h)

sweeper_step(w) ==
    \/ sweep_select(w)
    \/ \E s \in Sessions : sweep_stop(w, s)
    \/ stop_step(w)

collector_step(g) ==
    \/ gc_select(g)
    \/ \E s \in Sessions : gc_mismatch(g, s) \/ gc_match(g, s)
    \/ stop_step(g)

session_step(s) ==
    \/ job_step(s) \/ guest_powers_off(s) \/ falls_due(s) \/ renewed(s)
    \/ job_interrupted(s) \/ job_redelivered(s)

Next ==
    \/ \E h \in Handlers : handler_step(h)
    \/ \E w \in Sweepers : sweeper_step(w)
    \/ \E g \in Collectors : collector_step(g)
    \/ \E p \in Procs : interrupted(p)
    \/ \E s \in Sessions : session_step(s)

Spec == Init /\ [][Next]_vars

\* The scheduler sweeps every SWEEP_INTERVAL_SECONDS, systemd starts the
\* collector every 10 minutes, the workers take jobs while there are any, and
\* a started request is served.  Nothing obliges users or guests to act.
FairSpec ==
    /\ Spec
    /\ \A w \in Sweepers : WF_vars(sweeper_step(w))
    /\ \A g \in Collectors : WF_vars(collector_step(g))
    /\ \A s \in Sessions : WF_vars(job_step(s))
    /\ \A h \in Handlers : WF_vars(pc[h] # "idle" /\ handler_step(h))

-----------------------------------------------------------------------------
RowsType ==
    /\ state \in [Sessions -> States]
    /\ owner \in [Sessions -> Users \union {None}]
    /\ \A s \in Sessions : state[s] # "unused" => owner[s] \in Users
    /\ vnc_port \in [Sessions -> Ports \union {None}]
    /\ due \in [Sessions -> Dues]

StoresType ==
    /\ in_use \in SUBSET Ports
    /\ overlays \in SUBSET Sessions
    /\ domain \in [Sessions -> DomainStates]
    /\ dom_port \in [Sessions -> Ports \union {None}]
    /\ reborn \in SUBSET Sessions

JobsType ==
    /\ job \in [Sessions -> {"none", "queued", "done"} \union JobSteps]
    /\ jmem \in [Sessions -> States]
    /\ jport \in [Sessions -> Ports \union {None}]

ProcsType ==
    /\ pc \in [Procs -> {"idle", "loop"} \union LaunchSteps \union StopSteps]
    /\ who \in [Procs -> Users \union {None}]
    /\ cur \in [Procs -> Sessions \union {None}]
    /\ mem \in [Procs -> [Sessions -> Row]]
    /\ todo \in [Procs -> SUBSET Sessions]
    /\ reason \in [Procs -> Reasons \union {None}]

BoundsType ==
    /\ stops \in 0 .. MaxStops
    /\ renewals \in 0 .. MaxRenewals
    /\ faults \in 0 .. MaxFaults
    /\ redeliveries \in 0 .. MaxRedeliveries

TypeOK == RowsType /\ StoresType /\ JobsType /\ ProcsType /\ BoundsType

(***************************************************************************)
(* GET /vms/mine reads at most one active session (scalar_one_or_none), and *)
(* "One running VM per student (DB unique index is the source of truth)":   *)
(* no order of racing launches, revived jobs and repeated stops gives a     *)
(* user two active sessions.                                                *)
(***************************************************************************)
OneActivePerUser ==
    \A s, t \in Active : owner[s] = owner[t] => s = t

(***************************************************************************)
(* A row that says running has its domain, its overlay and its port: no     *)
(* stop, sweep or collector tears down what the row still offers.  Excepted *)
(* are the sessions of reborn: provision_vm does not look at the state of   *)
(* the row, so a job that runs again after a stop has undefined the domain  *)
(* brings the VM back under that stop, which deletes its overlay.           *)
(***************************************************************************)
RunningIsBacked ==
    \A s \in Sessions : state[s] = "running" =>
        /\ vnc_port[s] = dom_port[s]
        /\ s \notin reborn => domain[s] \in Defined /\ s \in overlays
        /\ reborn = {} => vnc_port[s] \in in_use

(***************************************************************************)
(* The console relays to vnc_port of a running row (routers/console.py):    *)
(* only that session's domain may use the port, also after double stops,    *)
(* redelivered jobs and reuse of released ports.  Excepted are histories in *)
(* which a job brought a stopped VM back: a stop of it that holds the old   *)
(* copy gives back a port that may be another session's by then.            *)
(***************************************************************************)
ConsoleIsExclusive ==
    reborn = {} =>
        \A s, t \in Sessions : s # t /\ state[s] = "running" =>
            domain[t] = "absent" \/ dom_port[t] # vnc_port[s]

(***************************************************************************)
(* LECTURER_GUIDE: force-stop is for a student who must "be cut off          *)
(* immediately".  Once a forced stop is past undefine the VM is gone, even   *)
(* when a graceful stop or the job of the same session is under way, unless  *)
(* that job ran again and found the domain gone and defined it once more.    *)
(***************************************************************************)
ForceStopKills ==
    \A p \in Procs :
        pc[p] \in {"stop_overlay", "stop_release"} /\ reason[p] = "force_stop"
            => domain[cur[p]] = "absent" \/ cur[p] \in reborn

(***************************************************************************)
(* Every running session that is past its expiry or idle timeout leaves     *)
(* running, unless it is renewed: one session whose teardown raises, which  *)
(* ends the whole sweep, cannot keep the others alive.                      *)
(***************************************************************************)
DueIsSwept ==
    \A s \in Sessions : state[s] = "running" /\ due[s] # "no" ~> state[s] # "running" \/ due[s] = "no"

(***************************************************************************)
(* The sessions use the port pool as PortRegistry's clients.  A port is a   *)
(* session's while its job is about to define the domain, while the domain  *)
(* is configured with it, and until the teardown that undefined the domain  *)
(* gives it back: no teardown gives back a port twice or the port of another *)
(* session, also when jobs run again, up to the step in which one of them   *)
(* defines a domain for a row that had one.                                 *)
(***************************************************************************)
Past(p) == pc[p] \in {"stop_overlay", "stop_release"}   \* p has undefined its domain

Owned(s) ==
    {q \in Ports :
        \/ job[s] = "define" /\ jport[s] = q
        \/ /\ dom_port[s] = q
           /\ domain[s] \in Defined \/ \E p \in Procs : Past(p) /\ cur[p] = s}

Registry == INSTANCE PortRegistry WITH
    Clients <- Sessions,
    held    <- [s \in Sessions |-> Owned(s)],
    lost    <- {q \in in_use : \A s \in Sessions : q \notin Owned(s)}

UsesPortsAsRegistry ==
    Registry!Init /\ [][reborn' = {} => [Registry!Next]_(Registry!vars)]_vars

-----------------------------------------------------------------------------
(* What documentation and comments say that the code does not do. *)

(***************************************************************************)
(* gc_orphaned_vms.py "cleans up any mismatch": a session whose domain is   *)
(* off or gone ends; graceful_shutdown raises on exactly those domains.     *)
(***************************************************************************)
Mismatch(s) ==
    /\ state[s] \in {"running", "stopping"} /\ vnc_port[s] # None
    /\ domain[s] \in {"absent", "shutoff"}

MismatchIsCollected ==
    \A s \in Sessions : Mismatch(s) ~> state[s] \in FinalStates

-----------------------------------------------------------------------------
(***************************************************************************)
(* The inductive invariant behind the safety properties.                    *)
(***************************************************************************)
\* Processes and jobs refer to rows that exist.
ProcsOK ==
    \A p \in Procs :
        /\ pc[p] \in LaunchSteps => who[p] \in Users
        /\ pc[p] \in StopSteps \union {"launch_enqueue"} =>
               cur[p] \in Sessions /\ state[cur[p]] # "unused"
        /\ \A s \in todo[p] : state[s] # "unused" /\ (p \in Sweepers => mem[p][s].due # "no")

JobsOK == \A s \in Sessions : job[s] # "none" => state[s] # "unused"

BaseInv == TypeOK /\ ProcsOK /\ JobsOK

\* The ledger holds for the sessions whose row has had one domain only; that of
\* the ports while there are no others.
Tearing(p) == pc[p] \in {"stop_domain", "stop_undefine", "stop_overlay", "stop_release"}

\* A row that runs is written by its job's last steps, and the job, run again,
\* overwrites that before it does anything else.
RowLedger ==
    \A s \in Sessions : state[s] = "running" =>
        /\ vnc_port[s] # None /\ vnc_port[s] = dom_port[s]
        /\ job[s] \in {"queued", "begin", "publish", "done"}
        /\ job[s] = "begin" => jmem[s] # "provisioning"

JobLedger ==
    \A s \in Sessions :
        /\ job[s] \in {"define", "commit"} => jport[s] \in Ports
        /\ job[s] = "commit" => dom_port[s] = jport[s]
        /\ s \notin reborn =>
               /\ job[s] = "commit" => vnc_port[s] = None /\ domain[s] \in Defined
               /\ job[s] \in {"port", "define", "commit"} /\ vnc_port[s] = None => s \in overlays
               /\ vnc_port[s] # None => dom_port[s] = vnc_port[s]

\* A row's launch enqueues its job once.
LaunchLedger ==
    \A p \in Procs : pc[p] = "launch_enqueue" =>
        /\ job[cur[p]] = "none"
        /\ \A r \in Procs : pc[r] = "launch_enqueue" /\ cur[r] = cur[p] => r = p

\* A copy's port is the row's; a session somebody tears down is not running.
CopyLedger ==
    \A p \in Procs, s \in Sessions \ reborn :
        mem[p][s].vnc_port # None =>
            /\ mem[p][s].vnc_port = vnc_port[s]
            /\ mem[p][s].state = "stopping" \/ (Tearing(p) /\ cur[p] = s) => state[s] # "running"

\* Only the process whose undefine succeeded gets past it.
TeardownLedger ==
    \A p \in Procs :
        /\ Tearing(p) => mem[p][cur[p]].vnc_port # None
        /\ Past(p) /\ cur[p] \notin reborn =>
               /\ domain[cur[p]] \notin Defined
               /\ \A r \in Procs : Past(r) /\ cur[p] = cur[r] => p = r

PortLedger ==
    reborn = {} => \A s \in Sessions :
        /\ Owned(s) \subseteq in_use
        /\ \A t \in Sessions \ {s} : Owned(s) \intersect Owned(t) = {}
        /\ job[s] = "define" /\ dom_port[s] = jport[s]
               => domain[s] \notin Defined /\ \A p \in Procs : Past(p) => cur[p] # s

RunningLedger ==
    \A s \in Sessions \ reborn : state[s] = "running" => domain[s] \in Defined /\ s \in overlays

\* A domain that was started has no QEMU of an undefined domain on its port.
Started(s) == domain[s] \in Defined /\ (job[s] = "commit" \/ vnc_port[s] # None)

TransientLedger ==
    reborn = {} => \A s, t \in Sessions :
        Started(s) /\ s # t /\ domain[t] = "transient" => dom_port[t] # dom_port[s]

ForceLedger ==
    \A p \in Procs : cur[p] \notin reborn /\ reason[p] = "force_stop" =>
        /\ pc[p] = "stop_undefine" => domain[cur[p]] \in {"shutoff", "absent"}
        /\ Past(p) => domain[cur[p]] = "absent"

LedgerInv ==
    /\ LaunchLedger /\ RowLedger /\ JobLedger /\ CopyLedger /\ TeardownLedger
    /\ PortLedger /\ RunningLedger /\ TransientLedger /\ ForceLedger
=============================================================================
