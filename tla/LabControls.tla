----------------------------- MODULE LabControls -----------------------------
(***************************************************************************)
(* What lecturers turn while students launch: maintenance windows and the   *)
(* VM limit policy (routers/admin.py, services/policy.py), the checks of    *)
(* launch_vm that depend on them (services/vm_lifecycle.py), and the banner *)
(* of a student page that is open all along.  Every request reads, awaits   *)
(* and writes what it read: nothing locks a row, and SQLAlchemy writes only *)
(* the columns whose value differs from the one that was read.              *)
(*                                                                          *)
(* Of sessions only the number of active ones is kept; what makes and ends  *)
(* them otherwise is VMLifecycle.                                           *)
(***************************************************************************)
EXTENDS Integers, FiniteSets

CONSTANTS
    Requests,     \* requests in flight at once (bound)
    Windows,      \* rows of maintenance_windows that some request still knows (bound)
    Limits,       \* values a column of the policy may have
    Default,      \* the value in the seeded policy, and in the settings
    MaxRevived,   \* sessions a late job or stop makes active again (bound)
    MaxFaults     \* toggles that end before they publish (bound)

ASSUME ControlsAssumption ==
    /\ IsFiniteSet(Requests) /\ Requests # {}
    /\ Limits \subseteq Nat /\ Default \in Limits
    /\ MaxRevived \in Nat /\ MaxFaults \in Nat

\* One column stands for those that launches do not look at.
Policy   == [max_concurrent_vms_total : Limits, idle_timeout_minutes : Limits]
Defaults == [max_concurrent_vms_total |-> Default, idle_timeout_minutes |-> Default]

VARIABLES
    open,         \* the windows whose is_active is true
    seeded,       \* the policy row exists
    policy,       \* its columns
    active,       \* the number of active sessions
    banner,       \* what the student page shows
    \* per request
    pc, student,  \* its next step; a launch by a student
    saw,          \* the windows a toggle read
    copy,         \* the policy a launch or patch read
    wants,        \* the policy with the patch's payload set on it
    \* history and bounds
    spoilt,       \* the last toggles overlapped, or one did not get to publish
    slipped,      \* student launches since maintenance began
    revived, faults

rows   == <<open, seeded, policy, active>>
locals == <<pc, student, saw, copy, wants>>
vars   == <<rows, banner, locals, spoilt, slipped, revived, faults>>

Toggles  == {"enable", "disable", "publish_enabled", "publish_disabled"}
Launches == {"policy", "capacity", "insert"}

Init ==
    /\ open = {} /\ seeded \in BOOLEAN /\ policy = Defaults /\ active = 0 /\ banner = FALSE
    /\ pc = [r \in Requests |-> "idle"] /\ student = [r \in Requests |-> FALSE]
    /\ saw = [r \in Requests |-> {}]
    /\ copy = [r \in Requests |-> Defaults] /\ wants = [r \in Requests |-> Defaults]
    /\ spoilt = FALSE /\ slipped = 0 /\ revived = 0 /\ faults = 0

GoesTo(r, step) == pc' = [pc EXCEPT ![r] = step]

Ends(r) ==
    /\ GoesTo(r, "idle")
    /\ student' = [student EXCEPT ![r] = FALSE] /\ saw' = [saw EXCEPT ![r] = {}]
    /\ copy' = [copy EXCEPT ![r] = Defaults] /\ wants' = [wants EXCEPT ![r] = Defaults]

-----------------------------------------------------------------------------
(* POST /admin/maintenance/enable and /disable *)

\* Both begin with the SELECT of the active windows.
toggle(r, step) ==
    /\ pc[r] = "idle"
    /\ GoesTo(r, step)
    /\ saw' = [saw EXCEPT ![r] = open]
    /\ spoilt' = (\E q \in Requests : pc[q] \in Toggles)
    /\ UNCHANGED <<rows, banner, student, copy, wants, slipped, revived, faults>>

\* A row nobody has read.
New(w) == w \notin open /\ \A q \in Requests : w \notin saw[q]

\* One commit closes the windows that were read and adds one.
enable_maintenance(r) ==
    /\ pc[r] = "enable"
    /\ \E w \in Windows : New(w) /\ open' = (open \ saw[r]) \union {w}
    /\ slipped' = IF open = {} THEN 0 ELSE slipped
    /\ GoesTo(r, "publish_enabled")
    /\ UNCHANGED <<seeded, policy, active, banner, student, saw, copy, wants, spoilt, revived, faults>>

\* Mutant: one of the windows that were read is closed, as with .first().
disable_maintenance_first(r) ==
    /\ pc[r] = "disable"
    /\ \/ saw[r] = {} /\ UNCHANGED open
       \/ \E w \in saw[r] : open' = open \ {w}
    /\ GoesTo(r, "publish_disabled")
    /\ UNCHANGED <<seeded, policy, active, banner, student, saw, copy, wants, spoilt, slipped, revived, faults>>

disable_maintenance(r) ==
    /\ pc[r] = "disable"
    /\ open' = open \ saw[r]
    /\ GoesTo(r, "publish_disabled")
    /\ UNCHANGED <<seeded, policy, active, banner, student, saw, copy, wants, spoilt, slipped, revived, faults>>

\* publish_event; the page sets or clears its banner.
publish(r) ==
    /\ pc[r] \in {"publish_enabled", "publish_disabled"}
    /\ banner' = (pc[r] = "publish_enabled")
    /\ Ends(r)
    /\ UNCHANGED <<rows, spoilt, slipped, revived, faults>>

\* The audit row or Redis fails after the commit.
toggle_interrupted(r) ==
    /\ pc[r] \in Toggles /\ faults < MaxFaults
    /\ faults' = faults + 1 /\ spoilt' = TRUE
    /\ Ends(r)
    /\ UNCHANGED <<rows, banner, slipped, revived>>

-----------------------------------------------------------------------------
(* The policy *)

get_active_policy == IF seeded THEN policy ELSE Defaults

\* PATCH /admin/vm-limit-policy reads the row and sets the payload's columns.
update_vm_limit_policy(r, p) ==
    /\ pc[r] = "idle" /\ seeded       \* otherwise 404
    /\ GoesTo(r, "patch")
    /\ copy' = [copy EXCEPT ![r] = policy] /\ wants' = [wants EXCEPT ![r] = p]
    /\ UNCHANGED <<rows, banner, student, saw, spoilt, slipped, revived, faults>>

\* Mutant: without exclude_unset, what the payload leaves out is written as null.
update_commit_nulls(r) ==
    /\ pc[r] = "patch"
    /\ policy' = [c \in DOMAIN policy |-> IF wants[r][c] # copy[r][c] THEN wants[r][c] ELSE -1]
    /\ Ends(r)
    /\ UNCHANGED <<open, seeded, active, banner, spoilt, slipped, revived, faults>>

\* setattr only marks what changes: the UPDATE sets those columns.
update_commit(r) ==
    /\ pc[r] = "patch"
    /\ policy' = [c \in DOMAIN policy |-> IF wants[r][c] # copy[r][c] THEN wants[r][c] ELSE policy[c]]
    /\ Ends(r)
    /\ UNCHANGED <<open, seeded, active, banner, spoilt, slipped, revived, faults>>

-----------------------------------------------------------------------------
(* launch_vm.  A refusal just ends the request. *)

\* Mutant: the check is left out.
launch_vm_unchecked(r, s) ==
    /\ pc[r] = "idle"
    /\ GoesTo(r, "policy")
    /\ student' = [student EXCEPT ![r] = s]
    /\ UNCHANGED <<rows, banner, saw, copy, wants, spoilt, slipped, revived, faults>>

\* Only students are held up by maintenance.
launch_vm(r, s) ==
    /\ pc[r] = "idle" /\ (s => open = {})
    /\ GoesTo(r, "policy")
    /\ student' = [student EXCEPT ![r] = s]
    /\ UNCHANGED <<rows, banner, saw, copy, wants, spoilt, slipped, revived, faults>>

launch_policy(r) ==
    /\ pc[r] = "policy"
    /\ copy' = [copy EXCEPT ![r] = get_active_policy]
    /\ GoesTo(r, "capacity")
    /\ UNCHANGED <<rows, banner, student, saw, wants, spoilt, slipped, revived, faults>>

\* Mutant: > for >=.
launch_capacity_off_by_one(r) ==
    /\ pc[r] = "capacity"
    /\ active <= copy[r].max_concurrent_vms_total
    /\ GoesTo(r, "insert")
    /\ UNCHANGED <<rows, banner, student, saw, copy, wants, spoilt, slipped, revived, faults>>

launch_capacity(r) ==
    /\ pc[r] = "capacity"
    /\ active < copy[r].max_concurrent_vms_total
    /\ GoesTo(r, "insert")
    /\ UNCHANGED <<rows, banner, student, saw, copy, wants, spoilt, slipped, revived, faults>>

\* VMLimitExceeded, OSUnavailable or the unique index.
launch_refused(r) ==
    /\ pc[r] \in Launches
    /\ Ends(r)
    /\ UNCHANGED <<rows, banner, spoilt, slipped, revived, faults>>

launch_insert(r) ==
    /\ pc[r] = "insert"
    /\ active' = active + 1
    /\ slipped' = IF student[r] /\ open # {} THEN slipped + 1 ELSE slipped
    /\ Ends(r)
    /\ UNCHANGED <<open, seeded, policy, banner, spoilt, revived, faults>>

session_ends ==
    /\ active > 0 /\ active' = active - 1
    /\ UNCHANGED <<open, seeded, policy, banner, locals, spoilt, slipped, revived, faults>>

\* A late job or a repeated stop takes a final session back among the active.
session_revived ==
    /\ revived < MaxRevived /\ revived' = revived + 1
    /\ active' = active + 1
    /\ UNCHANGED <<open, seeded, policy, banner, locals, spoilt, slipped, faults>>

Next ==
    \/ \E r \in Requests :
          \/ toggle(r, "enable") \/ toggle(r, "disable")
          \/ enable_maintenance(r) \/ disable_maintenance(r)
          \/ publish(r) \/ toggle_interrupted(r)
          \/ \E p \in Policy : update_vm_limit_policy(r, p)
          \/ update_commit(r)
          \/ \E s \in BOOLEAN : launch_vm(r, s)
          \/ launch_policy(r) \/ launch_capacity(r) \/ launch_refused(r) \/ launch_insert(r)
    \/ session_ends \/ session_revived

Spec == Init /\ [][Next]_vars

-----------------------------------------------------------------------------
\* The types of the rows and of the requests' locals.
TypeOK ==
    /\ open \in SUBSET Windows /\ seeded \in BOOLEAN /\ policy \in Policy
    /\ active \in Nat /\ banner \in BOOLEAN
    /\ pc \in [Requests -> {"idle", "patch"} \union Toggles \union Launches]
    /\ student \in [Requests -> BOOLEAN] /\ saw \in [Requests -> SUBSET Windows]
    /\ copy \in [Requests -> Policy] /\ wants \in [Requests -> Policy]
    /\ spoilt \in BOOLEAN /\ slipped \in Nat
    /\ revived \in 0 .. MaxRevived /\ faults \in 0 .. MaxFaults

(***************************************************************************)
(* launch_vm counts the active sessions and inserts later: the lab passes   *)
(* the highest max_concurrent_vms_total by less than the number of requests *)
(* in flight, besides sessions that were made active again.                 *)
(***************************************************************************)
OvershootIsBounded ==
    \E limit \in Limits : active < limit + Cardinality(Requests) + revived

(***************************************************************************)
(* LECTURER_GUIDE: maintenance mode comes before planned work.  However long *)
(* it lasts and whoever toggles it, the students' launches that still get    *)
(* through are those that were past their check when it began.               *)
(***************************************************************************)
SlipsAreBounded == open # {} => slipped < Cardinality(Requests)

(***************************************************************************)
(* ADMIN_GUIDE: enabling "broadcasts a maintenance banner to connected       *)
(* dashboards".  When toggles did not overlap since, the banner is shown     *)
(* exactly while launches are refused - also after overlapping enables left  *)
(* several windows open.                                                     *)
(***************************************************************************)
BannerIsTrue ==
    ~spoilt /\ (\A r \in Requests : pc[r] \notin Toggles) => (banner <=> open # {})
=============================================================================
