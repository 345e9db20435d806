---------------------------- MODULE SessionTimers ----------------------------
(***************************************************************************)
(* The clocks of one session: how long it may run, how extensions and      *)
(* reported activity move its end, and what the scheduler's sweep makes of  *)
(* them (workers/scheduler.py, extend_session and record_activity of        *)
(* services/vm_lifecycle.py).  Requests and the sweep read the row, await,  *)
(* and write the columns they changed: SQLAlchemy leaves out of the UPDATE  *)
(* a column whose new value equals the one that was read.                   *)
(*                                                                          *)
(* One unit of the clock is far longer than a request: an extension that    *)
(* has begun ends before the next unit.  A sweep may take any time, since   *)
(* it tears other sessions down on its way.                                 *)
(***************************************************************************)
EXTENDS Integers

CONSTANTS
    Requests,              \* extension and activity requests in flight at once (bound)
    SessionMinutes,        \* policy.max_session_minutes
    ExtensionMinutes,      \* policy.max_extension_minutes
    MaxExtensions,         \* vm_sessions.max_extensions
    IdleTimeoutMinutes,    \* policy.idle_timeout_minutes
    IdleWarningMinutes,    \* policy.idle_warning_minutes
    LastStart,             \* the session is running by then (bound)
    Prompt                 \* TRUE: every unit of the clock has a whole sweep

ASSUME TimersAssumption ==
    /\ SessionMinutes \in Nat /\ ExtensionMinutes \in Nat /\ MaxExtensions \in Nat
    /\ IdleTimeoutMinutes \in Nat /\ IdleWarningMinutes \in Nat
    /\ LastStart \in Nat /\ Prompt \in BOOLEAN

VARIABLES
    now,
    \* the row
    state, started_at, expires_at, extension_count, last_activity_at,
    warned,        \* idle_warning_sent_at is not NULL
    \* a request: what it is doing and the row it read
    req, copy,
    \* the sweep: its next step, its `now' and the row it read
    sweep, seen,
    swept,         \* a whole sweep ended in this unit of the clock
    idle_warnings, \* vm.idle_warning events since the last recorded activity
    late           \* history: at that activity, the event of a warning that was
                   \* committed before was still to come

row  == <<state, started_at, expires_at, extension_count, last_activity_at, warned>>
vars == <<now, row, req, copy, sweep, seen, swept, idle_warnings, late>>

NULL   == -1
Row    == [expires_at : Int, extension_count : Int, last_activity_at : Int, warned : BOOLEAN]

\* What a reader keeps of the row: the columns it uses.
Reads(end, extensions, activity, warning) ==
    [expires_at |-> end, extension_count |-> extensions, last_activity_at |-> activity,
     warned |-> warning]
ForExtension == Reads(expires_at, extension_count, NULL, FALSE)
ForActivity  == Reads(NULL, 0, NULL, warned)
ForSweep     == Reads(expires_at, 0, last_activity_at, warned)
NoRow        == Reads(NULL, 0, NULL, FALSE)
NoLook       == [now |-> 0, row |-> NoRow]

\* The clock stops with the session, or after every possible expiry (bound).
LastTime == LastStart + SessionMinutes + MaxExtensions * ExtensionMinutes + 1

Init ==
    /\ now = 0
    /\ state = "queued" /\ started_at = NULL /\ expires_at = NULL /\ extension_count = 0
    /\ last_activity_at = NULL /\ warned = FALSE
    /\ req = [r \in Requests |-> "idle"] /\ copy = [r \in Requests |-> NoRow]
    /\ sweep = "idle" /\ seen = NoLook /\ swept = FALSE
    /\ idle_warnings = 0 /\ late = FALSE

-----------------------------------------------------------------------------
(* Time, and the commit of provision_vm that starts the session's clocks. *)

tick ==
    /\ now < LastTime /\ state # "ended"
    /\ state = "queued" => now < LastStart
    /\ \A r \in Requests : req[r] # "extend"
    /\ Prompt => swept /\ sweep = "idle"
    /\ now' = now + 1 /\ swept' = FALSE
    /\ UNCHANGED <<row, req, copy, sweep, seen, idle_warnings, late>>

provision_commit ==
    /\ state = "queued"
    /\ state' = "running"
    /\ started_at' = now /\ last_activity_at' = now
    /\ expires_at' = now + SessionMinutes
    /\ UNCHANGED <<now, extension_count, warned, req, copy, sweep, seen, swept, idle_warnings, late>>

-----------------------------------------------------------------------------
(***************************************************************************)
(* POST /vms/{id}/extend and /vms/{id}/activity, and the messages on         *)
(* /ws/vm/{id}/activity (vm_activity_ws), on a row in any state.             *)
(***************************************************************************)
Loads(r, request, columns) ==
    /\ req[r] = "idle"
    /\ req' = [req EXCEPT ![r] = request]
    /\ copy' = [copy EXCEPT ![r] = columns]
    /\ UNCHANGED <<now, row, sweep, seen, swept, idle_warnings, late>>

Finishes(r) ==
    /\ req' = [req EXCEPT ![r] = "idle"]
    /\ copy' = [copy EXCEPT ![r] = NoRow]
    /\ UNCHANGED <<now, state, started_at, sweep, seen, swept>>

\* Mutant: the number of extensions is not checked.
extend_session_unlimited(r) == Loads(r, "extend", ForExtension)

\* Loads the row and checks the number of extensions; then awaits the policy.
extend_session(r) == extension_count < MaxExtensions /\ Loads(r, "extend", ForExtension)

\* Mutant: the new end is computed by the database, the count from the copy.
extend_commit_in_place(r) ==
    /\ req[r] = "extend"
    /\ expires_at' = (IF copy[r].expires_at = NULL THEN now ELSE expires_at) + ExtensionMinutes
    /\ extension_count' = copy[r].extension_count + 1
    /\ Finishes(r)
    /\ UNCHANGED <<last_activity_at, warned, idle_warnings, late>>

extend_commit(r) ==
    /\ req[r] = "extend"
    /\ expires_at' = (IF copy[r].expires_at = NULL THEN now ELSE copy[r].expires_at) + ExtensionMinutes
    /\ extension_count' = copy[r].extension_count + 1
    /\ Finishes(r)
    /\ UNCHANGED <<last_activity_at, warned, idle_warnings, late>>

report_activity(r) == Loads(r, "activity", ForActivity)

\* idle_warning_sent_at = None is written only when the copy had a value.
record_activity(r) ==
    /\ req[r] = "activity"
    /\ last_activity_at' = now
    /\ warned' = (warned /\ ~copy[r].warned)
    /\ idle_warnings' = 0 /\ late' = (sweep = "publish")
    /\ Finishes(r)
    /\ UNCHANGED <<expires_at, extension_count>>

-----------------------------------------------------------------------------
(***************************************************************************)
(* _check_expired_and_idle_sessions, for this session: the visit decides on *)
(* the row and the time of the sweep's beginning.                           *)
(***************************************************************************)
expired  == seen.now >= seen.row.expires_at
idle_for == seen.now - seen.row.last_activity_at

SweepGoesTo(step) ==
    /\ sweep' = step
    /\ UNCHANGED <<now, started_at, expires_at, extension_count, last_activity_at, req, copy, late>>

SweepEnds ==
    /\ SweepGoesTo("idle")
    /\ seen' = NoLook /\ swept' = TRUE

stop_vm == state' = "ended" /\ SweepEnds /\ UNCHANGED <<warned, idle_warnings>>

\* Mutant: the sweep passes over sessions it has warned.
sweep_read_unwarned ==
    /\ sweep = "idle"
    /\ IF state = "running" /\ ~warned
       THEN SweepGoesTo("visit") /\ seen' = [now |-> now, row |-> ForSweep] /\ UNCHANGED swept
       ELSE SweepEnds
    /\ UNCHANGED <<state, warned, idle_warnings>>

sweep_read ==
    /\ sweep = "idle"
    /\ IF state = "running"
       THEN SweepGoesTo("visit") /\ seen' = [now |-> now, row |-> ForSweep] /\ UNCHANGED swept
       ELSE SweepEnds
    /\ UNCHANGED <<state, warned, idle_warnings>>

sweep_expire == sweep = "visit" /\ expired /\ stop_vm

\* vm.expiry_warning is published or not; no decision depends on it.
sweep_expiry_warning ==
    /\ sweep = "visit" /\ ~expired
    /\ SweepGoesTo("idle_check")
    /\ UNCHANGED <<state, seen, swept, warned, idle_warnings>>

sweep_idle_stop == sweep = "idle_check" /\ idle_for >= IdleTimeoutMinutes /\ stop_vm

\* Mutant: the warning is not recorded.
sweep_idle_warning_unrecorded ==
    /\ sweep = "idle_check"
    /\ idle_for < IdleTimeoutMinutes /\ idle_for >= IdleWarningMinutes /\ ~seen.row.warned
    /\ SweepGoesTo("publish")
    /\ UNCHANGED <<state, warned, seen, swept, idle_warnings>>

\* Records the warning and commits ...
sweep_idle_warning ==
    /\ sweep = "idle_check"
    /\ idle_for < IdleTimeoutMinutes /\ idle_for >= IdleWarningMinutes /\ ~seen.row.warned
    /\ warned' = TRUE
    /\ SweepGoesTo("publish")
    /\ UNCHANGED <<state, seen, swept, idle_warnings>>

\* ... then publishes vm.idle_warning.
sweep_publish ==
    /\ sweep = "publish"
    /\ idle_warnings' = idle_warnings + 1
    /\ SweepEnds
    /\ UNCHANGED <<state, warned>>

sweep_passes ==
    /\ sweep = "idle_check"
    /\ idle_for < IdleTimeoutMinutes
    /\ idle_for < IdleWarningMinutes \/ seen.row.warned
    /\ SweepEnds
    /\ UNCHANGED <<state, warned, idle_warnings>>

sweep_step ==
    \/ sweep_read \/ sweep_expire \/ sweep_expiry_warning \/ sweep_idle_stop
    \/ sweep_idle_warning \/ sweep_publish \/ sweep_passes

Next ==
    \/ tick \/ provision_commit \/ sweep_step
    \/ \E r \in Requests :
          extend_session(r) \/ extend_commit(r) \/ report_activity(r) \/ record_activity(r)

Spec == Init /\ [][Next]_vars

\* The clock runs, the scheduler goes on sweeping, a request that extends is
\* served.
FairSpec ==
    /\ Spec
    /\ WF_vars(tick) /\ WF_vars(sweep_step)
    /\ \A r \in Requests : WF_vars(extend_commit(r))

-----------------------------------------------------------------------------
TypeOK ==
    /\ now \in 0 .. LastTime
    /\ state \in {"queued", "running", "ended"}
    /\ started_at \in {NULL} \union Nat /\ expires_at \in {NULL} \union Nat
    /\ extension_count \in 0 .. MaxExtensions
    /\ last_activity_at \in {NULL} \union Nat /\ warned \in BOOLEAN
    /\ req \in [Requests -> {"idle", "extend", "activity"}]
    /\ copy \in [Requests -> Row]
    /\ sweep \in {"idle", "visit", "idle_check", "publish"}
    /\ seen \in [now : Nat, row : Row]
    /\ swept \in BOOLEAN /\ idle_warnings \in Nat /\ late \in BOOLEAN

(***************************************************************************)
(* "Default session 2h, one extension up to +1h": whatever extension        *)
(* requests race each other, the start of the session or the sweep, the     *)
(* session's end is covered by the extensions that were counted.            *)
(***************************************************************************)
NoFreeTime ==
    state # "queued" =>
        expires_at <= started_at + SessionMinutes + extension_count * ExtensionMinutes

(***************************************************************************)
(* scheduler.py: "sessions idle past idle_warning_minutes -> emit warning   *)
(* event (once)": one event until activity is recorded again, also when     *)
(* the activity is recorded between the sweep's read and its commit.  The   *)
(* code keeps this except when activity is recorded between the commit of a *)
(* warning and its publication: that event comes after the activity, and    *)
(* the next idle period may have one more.                                  *)
(***************************************************************************)
WarnsOncePerIdlePeriod == idle_warnings <= (IF late THEN 2 ELSE 1)

(***************************************************************************)
(* Every session ends, however often its user reports activity and asks for *)
(* extensions.                                                              *)
(***************************************************************************)
SessionEnds == state = "running" ~> state = "ended"

(***************************************************************************)
(* STUDENT_GUIDE: an idle VM shuts down and "you'll get a warning at 15     *)
(* minutes of inactivity" (activity during the very sweep that stops the    *)
(* VM set aside); activity recorded between an earlier sweep's read and     *)
(* commit leaves the session marked as warned.                              *)
(***************************************************************************)
IdleStopIsWarned ==
    [][sweep_idle_stop => idle_warnings > 0 \/ last_activity_at # seen.row.last_activity_at]_vars

-----------------------------------------------------------------------------
(***************************************************************************)
(* The inductive invariant behind NoFreeTime and WarnsOncePerIdlePeriod.    *)
(***************************************************************************)
\* Without extensions the session ends by then; a session that is still queued
\* starts now or later.
Base == IF state = "queued" THEN now ELSE started_at + SessionMinutes

Covered(end, extensions) == end = NULL \/ end <= Base + extensions * ExtensionMinutes

\* A request that read no end is served before the clock moves on.
ExtensionLedger ==
    /\ Covered(expires_at, extension_count)
    /\ expires_at = NULL => state = "queued"
    /\ state # "queued" => started_at \in 0 .. now
    /\ sweep # "idle" => state # "queued"
    /\ \A r \in Requests : req[r] = "extend" =>
          /\ copy[r].extension_count \in 0 .. (MaxExtensions - 1)
          /\ copy[r].expires_at \in {NULL} \union Nat
          /\ Covered(copy[r].expires_at, copy[r].extension_count)
          /\ copy[r].expires_at = NULL => state = "queued" \/ started_at = now

\* A warning that was or will be published is on the row until activity is
\* recorded, or is the one that was late; only the sweep puts one there.
One(b) == IF b THEN 1 ELSE 0

WarningLedger ==
    /\ sweep \in {"visit", "idle_check"} /\ ~seen.row.warned => ~warned
    /\ idle_warnings + One(sweep = "publish") <= One(late) + One(warned)

TimersInv == TypeOK /\ ExtensionLedger /\ WarningLedger
=============================================================================
