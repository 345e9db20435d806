-------------------------- MODULE LabControlsProofs --------------------------
(***************************************************************************)
(* Proofs about LabControls for any number of requests, windows and limits. *)
(***************************************************************************)
EXTENDS LabControls, FiniteSetTheorems, TLAPS

\* Launches that are past the check of the limit, and students' launches past
\* the check of maintenance.
Inserting == {r \in Requests : pc[r] = "insert"}
Admitted  == {r \in Requests : pc[r] \in Launches /\ student[r]}

\* A launch past its check counts as a session.
RoomLedger ==
    \E limit \in Limits : active + Cardinality(Inserting) < limit + Cardinality(Requests) + revived

\* A student's launch past its check counts as one that slips through.
SlipLedger == open # {} => slipped + Cardinality(Admitted) < Cardinality(Requests)

\* Toggles that do not overlap: there is one, and nothing moved under it.
Alone(r) ==
    /\ \A q \in Requests : pc[q] \in Toggles => q = r
    /\ pc[r] \in {"enable", "disable"} => saw[r] = open
    /\ pc[r] = "publish_enabled" => open # {}
    /\ pc[r] = "publish_disabled" => open = {}

ToggleLedger == ~spoilt => \A r \in Requests : pc[r] \in Toggles => Alone(r)

ControlsInv == TypeOK /\ RoomLedger /\ SlipLedger /\ ToggleLedger /\ BannerIsTrue

(***************************************************************************)
(* Counting requests: a set of them is finite and no larger than Requests, *)
(* and smaller when it leaves one out.                                     *)
(***************************************************************************)
LEMMA Counting ==
    /\ \A S \in SUBSET Requests :
          /\ IsFiniteSet(S) /\ Cardinality(S) \in Nat
          /\ Cardinality(S) <= Cardinality(Requests)
          /\ \A r \in Requests : r \notin S => Cardinality(S) < Cardinality(Requests)
          /\ \A T \in SUBSET S : Cardinality(T) <= Cardinality(S)
          /\ \A r \in S : Cardinality(S \ {r}) = Cardinality(S) - 1
    /\ Cardinality(Requests) \in Nat \ {0}
<1>1. ASSUME NEW S \in SUBSET Requests
      PROVE  IsFiniteSet(S) /\ Cardinality(S) \in Nat /\ Cardinality(S) <= Cardinality(Requests)
    BY FS_Subset, FS_CardinalityType, ControlsAssumption
<1>2. ASSUME NEW S \in SUBSET Requests, NEW r \in Requests, r \notin S
      PROVE  Cardinality(S) < Cardinality(Requests)
    <2>1. Cardinality(S \union {r}) = Cardinality(S) + 1
        BY <1>1, <1>2, FS_AddElement
    <2>2. Cardinality(S \union {r}) <= Cardinality(Requests)
        BY <1>1
    <2> QED BY <1>1, <2>1, <2>2, FS_CardinalityType, ControlsAssumption
<1>3. ASSUME NEW S \in SUBSET Requests, NEW T \in SUBSET S
      PROVE  Cardinality(T) <= Cardinality(S)
    BY <1>1, FS_Subset
<1>4. ASSUME NEW S \in SUBSET Requests, NEW r \in S
      PROVE  Cardinality(S \ {r}) = Cardinality(S) - 1
    BY <1>1, FS_RemoveElement
<1>5. Cardinality(Requests) \in Nat \ {0}
    BY FS_CardinalityType, FS_EmptySet, ControlsAssumption
<1> QED BY <1>1, <1>2, <1>3, <1>4, <1>5

(***************************************************************************)
(* A request that ends keeps the types of the locals.                      *)
(***************************************************************************)
LEMMA EndsType ==
    ASSUME TypeOK, NEW r \in Requests, Ends(r)
    PROVE  /\ pc' \in [Requests -> {"idle", "patch"} \union Toggles \union Launches]
           /\ student' \in [Requests -> BOOLEAN] /\ saw' \in [Requests -> SUBSET Windows]
           /\ copy' \in [Requests -> Policy] /\ wants' \in [Requests -> Policy]
<1>1. Defaults \in Policy
    BY ControlsAssumption DEF Defaults, Policy
<1> QED BY <1>1 DEF TypeOK, Ends, GoesTo

(***************************************************************************)
(* Every step of a toggle, a patch, a launch or a session keeps the types. *)
(***************************************************************************)
LEMMA NextTypeOK == TypeOK /\ [Next]_vars => TypeOK'
<1> SUFFICES ASSUME TypeOK, [Next]_vars PROVE TypeOK'
    OBVIOUS
<1>0. Defaults \in Policy
    BY ControlsAssumption DEF Defaults, Policy
<1>1. ASSUME NEW r \in Requests, NEW to \in {"enable", "disable"}, toggle(r, to) PROVE TypeOK'
    BY <1>1 DEF toggle, GoesTo, TypeOK, Toggles, Launches, rows
<1>2. ASSUME NEW r \in Requests, enable_maintenance(r) \/ disable_maintenance(r) PROVE TypeOK'
    BY <1>2 DEF enable_maintenance, disable_maintenance, GoesTo, TypeOK, Toggles, Launches
<1>3. ASSUME NEW r \in Requests, publish(r) PROVE TypeOK'
    BY <1>3, EndsType DEF publish, TypeOK, rows
<1>4. ASSUME NEW r \in Requests, toggle_interrupted(r) PROVE TypeOK'
    <2>1. faults' \in 0 .. MaxFaults
        BY <1>4, ControlsAssumption DEF toggle_interrupted, TypeOK
    <2> QED BY <1>4, <2>1, EndsType DEF toggle_interrupted, TypeOK, rows
<1>5. ASSUME NEW r \in Requests, NEW p \in Policy, update_vm_limit_policy(r, p) PROVE TypeOK'
    BY <1>5 DEF update_vm_limit_policy, GoesTo, TypeOK, rows
<1>6. ASSUME NEW r \in Requests, update_commit(r) PROVE TypeOK'
    <2>1. policy' \in Policy
        BY <1>6 DEF update_commit, TypeOK, Policy
    <2> QED BY <1>6, <2>1, EndsType DEF update_commit, TypeOK
<1>7. ASSUME NEW r \in Requests, NEW s \in BOOLEAN, launch_vm(r, s) PROVE TypeOK'
    BY <1>7 DEF launch_vm, GoesTo, TypeOK, Launches, rows
<1>8. ASSUME NEW r \in Requests, launch_policy(r) \/ launch_capacity(r) PROVE TypeOK'
    BY <1>0, <1>8 DEF launch_policy, launch_capacity, get_active_policy, GoesTo, TypeOK, Launches, rows
<1>9. ASSUME NEW r \in Requests, launch_refused(r) PROVE TypeOK'
    BY <1>9, EndsType DEF launch_refused, TypeOK, rows
<1>10. ASSUME NEW r \in Requests, launch_insert(r) PROVE TypeOK'
    <2>1. active' \in Nat /\ slipped' \in Nat
        BY <1>10 DEF launch_insert, TypeOK
    <2> QED BY <1>10, <2>1, EndsType DEF launch_insert, TypeOK
<1>11. CASE session_ends
    BY <1>11 DEF session_ends, TypeOK, locals
<1>12. CASE session_revived
    <2>1. active' \in Nat /\ revived' \in 0 .. MaxRevived
        BY <1>12, ControlsAssumption DEF session_revived, TypeOK
    <2> QED BY <1>12, <2>1 DEF session_revived, TypeOK, locals
<1>13. CASE UNCHANGED vars
    BY <1>13 DEF vars, rows, locals, TypeOK
<1> QED BY <1>1, <1>2, <1>3, <1>4, <1>5, <1>6, <1>7, <1>8, <1>9, <1>10, <1>11, <1>12, <1>13 DEF Next

(***************************************************************************)
(* The room ledger survives a step that adds neither a session nor a launch *)
(* past its check.                                                         *)
(***************************************************************************)
LEMMA RoomKept ==
    ASSUME TypeOK, TypeOK', RoomLedger, active' <= active, revived' = revived,
           Inserting' \subseteq Inserting
    PROVE  RoomLedger'
<1>1. PICK limit \in Limits :
          active + Cardinality(Inserting) < limit + Cardinality(Requests) + revived
    BY DEF RoomLedger
<1>2. Inserting \in SUBSET Requests /\ Inserting' \in SUBSET Requests
    BY DEF Inserting
<1>3. /\ Cardinality(Inserting) \in Nat /\ Cardinality(Inserting') \in Nat
      /\ Cardinality(Inserting') <= Cardinality(Inserting)
    BY <1>2, Counting
<1>4. /\ active \in Nat /\ active' \in Nat /\ revived \in Nat /\ limit \in Nat
      /\ Cardinality(Requests) \in Nat
    BY ControlsAssumption, Counting DEF TypeOK
<1>5. active' + Cardinality(Inserting') < limit + Cardinality(Requests) + revived'
    BY <1>1, <1>3, <1>4
<1> QED BY <1>5 DEF RoomLedger

(***************************************************************************)
(* A launch passes the check only below a limit, and its insert turns it   *)
(* from a launch past the check into a session.                            *)
(***************************************************************************)
LEMMA NextRoom == TypeOK /\ RoomLedger /\ [Next]_vars => RoomLedger'
<1> SUFFICES ASSUME TypeOK, RoomLedger, [Next]_vars PROVE RoomLedger'
    OBVIOUS
<1>0. TypeOK'
    BY NextTypeOK
<1>1. /\ active \in Nat /\ revived \in Nat /\ Cardinality(Requests) \in Nat \ {0}
      /\ Inserting \in SUBSET Requests /\ Inserting' \in SUBSET Requests
    BY Counting DEF TypeOK, Inserting
<1>2. Cardinality(Inserting) \in Nat /\ Cardinality(Inserting') \in Nat
    BY <1>1, Counting
<1>3. ASSUME NEW r \in Requests, launch_capacity(r) PROVE RoomLedger'
    <2>1. copy[r].max_concurrent_vms_total \in Limits
        BY DEF TypeOK, Policy
    <2>2. PICK limit \in Limits : active < limit
        BY <1>3, <2>1 DEF launch_capacity
    <2>3. active' = active /\ revived' = revived
        BY <1>3 DEF launch_capacity, rows
    <2>4. Cardinality(Inserting') <= Cardinality(Requests)
        BY <1>1, Counting
    <2>5. active' + Cardinality(Inserting') < limit + Cardinality(Requests) + revived'
        BY <1>1, <1>2, <2>2, <2>3, <2>4, ControlsAssumption
    <2> QED BY <2>5 DEF RoomLedger
<1>4. ASSUME NEW r \in Requests, launch_insert(r) PROVE RoomLedger'
    <2>1. r \in Inserting /\ Inserting' = Inserting \ {r}
        BY <1>4 DEF launch_insert, Inserting, Ends, GoesTo, TypeOK
    <2>2. Cardinality(Inserting') = Cardinality(Inserting) - 1
        BY <1>1, <2>1, Counting
    <2>3. active' = active + 1 /\ revived' = revived
        BY <1>4 DEF launch_insert
    <2>4. active' + Cardinality(Inserting') = active + Cardinality(Inserting)
        BY <1>1, <1>2, <2>2, <2>3
    <2> QED BY <2>3, <2>4 DEF RoomLedger
<1>5. CASE session_revived
    <2>1. Inserting' = Inserting
        BY <1>5 DEF session_revived, locals, Inserting
    <2>2. active' = active + 1 /\ revived' = revived + 1
        BY <1>5 DEF session_revived
    <2>3. PICK limit \in Limits :
              active + Cardinality(Inserting) < limit + Cardinality(Requests) + revived
        BY DEF RoomLedger
    <2>4. active' + Cardinality(Inserting') < limit + Cardinality(Requests) + revived'
        BY <1>1, <1>2, <2>1, <2>2, <2>3, ControlsAssumption
    <2> QED BY <2>4 DEF RoomLedger
<1>6. CASE session_ends
    <2>1. Inserting' = Inserting /\ active' <= active /\ revived' = revived
        BY <1>1, <1>6 DEF session_ends, locals, Inserting
    <2> QED BY <1>0, <2>1, RoomKept
<1>7. ASSUME NEW r \in Requests,
             \/ \E to \in {"enable", "disable"} : toggle(r, to)
             \/ enable_maintenance(r) \/ disable_maintenance(r)
             \/ \E p \in Policy : update_vm_limit_policy(r, p)
             \/ \E s \in BOOLEAN : launch_vm(r, s)
             \/ launch_policy(r)
      PROVE  RoomLedger'
    <2>1. active' = active /\ revived' = revived
        BY <1>7 DEF toggle, enable_maintenance, disable_maintenance, update_vm_limit_policy,
                          launch_vm, launch_policy, rows
    <2>2. \E to \in {"enable", "disable", "publish_enabled", "publish_disabled", "patch",
                     "policy", "capacity"} : GoesTo(r, to)
        BY <1>7 DEF toggle, enable_maintenance, disable_maintenance, update_vm_limit_policy,
                    launch_vm, launch_policy
    <2>3. Inserting' \subseteq Inserting
        BY <2>2 DEF GoesTo, Inserting, TypeOK
    <2> QED BY <1>0, <1>1, <2>1, <2>3, RoomKept
<1>8. ASSUME NEW r \in Requests,
             publish(r) \/ toggle_interrupted(r) \/ update_commit(r) \/ launch_refused(r)
      PROVE  RoomLedger'
    <2>1. active' <= active /\ revived' = revived
        BY <1>1, <1>8 DEF publish, toggle_interrupted, update_commit, launch_refused, rows
    <2>2. GoesTo(r, "idle")
        BY <1>8 DEF publish, toggle_interrupted, update_commit, launch_refused, Ends
    <2>3. Inserting' \subseteq Inserting
        BY <2>2 DEF GoesTo, Inserting, TypeOK
    <2> QED BY <1>0, <2>1, <2>3, RoomKept
<1>9. CASE UNCHANGED vars
    <2>1. Inserting' = Inserting /\ active' <= active /\ revived' = revived
        BY <1>1, <1>9 DEF vars, rows, locals, Inserting
    <2> QED BY <1>0, <2>1, RoomKept
<1> QED BY <1>3, <1>4, <1>5, <1>6, <1>7, <1>8, <1>9 DEF Next

(***************************************************************************)
(* The slip ledger survives a step that lets no student past the check and *)
(* keeps a maintenance that began earlier, or ends it.                     *)
(***************************************************************************)
LEMMA SlipKept ==
    ASSUME TypeOK, TypeOK', SlipLedger, open' # {} => open # {} /\ slipped' = slipped,
           Admitted' \subseteq Admitted
    PROVE  SlipLedger'
<1> SUFFICES ASSUME open' # {}
             PROVE  slipped' + Cardinality(Admitted') < Cardinality(Requests)
    BY DEF SlipLedger
<1>1. slipped + Cardinality(Admitted) < Cardinality(Requests) /\ slipped' = slipped
    BY DEF SlipLedger
<1>2. Admitted \in SUBSET Requests /\ Admitted' \in SUBSET Requests
    BY DEF Admitted
<1>3. /\ Cardinality(Admitted) \in Nat /\ Cardinality(Admitted') \in Nat
      /\ Cardinality(Admitted') <= Cardinality(Admitted)
      /\ Cardinality(Requests) \in Nat
    BY <1>2, Counting
<1> QED BY <1>1, <1>3 DEF TypeOK

(***************************************************************************)
(* When maintenance begins, the lecturer's own request is not a launch; as *)
(* long as it lasts no student passes the check, and an insert turns a     *)
(* launch past the check into one that slipped through.                    *)
(***************************************************************************)
LEMMA NextSlip == TypeOK /\ SlipLedger /\ [Next]_vars => SlipLedger'
<1> SUFFICES ASSUME TypeOK, SlipLedger, [Next]_vars PROVE SlipLedger'
    OBVIOUS
<1>0. TypeOK'
    BY NextTypeOK
<1>1. Admitted \in SUBSET Requests /\ Admitted' \in SUBSET Requests
    BY DEF Admitted
<1>2. /\ Cardinality(Admitted) \in Nat /\ Cardinality(Admitted') \in Nat
      /\ Cardinality(Requests) \in Nat \ {0} /\ slipped \in Nat
    BY <1>1, Counting DEF TypeOK
<1>3. ASSUME NEW r \in Requests, enable_maintenance(r) PROVE SlipLedger'
    <2>1. r \notin Admitted' /\ Admitted' \subseteq Admitted
        BY <1>3 DEF enable_maintenance, GoesTo, Admitted, Launches, TypeOK
    <2>2. CASE open = {}
        <3>1. slipped' = 0
            BY <1>3, <2>2 DEF enable_maintenance
        <3>2. Cardinality(Admitted') < Cardinality(Requests)
            BY <1>1, <2>1, Counting
        <3> QED BY <1>2, <3>1, <3>2 DEF SlipLedger
    <2>3. CASE open # {}
        <3>1. slipped' = slipped
            BY <1>3, <2>3 DEF enable_maintenance
        <3> QED BY <1>0, <2>1, <2>3, <3>1, SlipKept
    <2> QED BY <2>2, <2>3
<1>4. ASSUME NEW r \in Requests, launch_insert(r) PROVE SlipLedger'
    <2>1. Admitted' = Admitted \ {r} /\ open' = open
        BY <1>4 DEF launch_insert, Ends, GoesTo, Admitted, Launches, TypeOK
    <2>2. CASE student[r] /\ open # {}
        <3>1. r \in Admitted
            BY <1>4, <2>2 DEF launch_insert, Admitted, Launches
        <3>2. Cardinality(Admitted') = Cardinality(Admitted) - 1
            BY <1>1, <2>1, <3>1, Counting
        <3>3. slipped' = slipped + 1
            BY <1>4, <2>2 DEF launch_insert
        <3> QED BY <1>2, <2>2, <3>2, <3>3 DEF SlipLedger
    <2>3. CASE ~(student[r] /\ open # {})
        <3>1. slipped' = slipped
            BY <1>4, <2>3 DEF launch_insert
        <3> QED BY <1>0, <2>1, <3>1, SlipKept
    <2> QED BY <2>2, <2>3
<1>5. ASSUME NEW r \in Requests, NEW s \in BOOLEAN, launch_vm(r, s) PROVE SlipLedger'
    <2>1. open' = open /\ slipped' = slipped
        BY <1>5 DEF launch_vm, rows
    <2>2. CASE open # {}
        <3>1. Admitted' \subseteq Admitted
            BY <1>5, <2>2 DEF launch_vm, GoesTo, Admitted, TypeOK
        <3> QED BY <1>0, <2>1, <3>1, SlipKept
    <2>3. CASE open = {}
        BY <2>1, <2>3 DEF SlipLedger
    <2> QED BY <2>2, <2>3
<1>6. ASSUME NEW r \in Requests,
             \/ \E to \in {"enable", "disable"} : toggle(r, to)
             \/ disable_maintenance(r)
             \/ \E p \in Policy : update_vm_limit_policy(r, p)
      PROVE  SlipLedger'
    <2>1. open' \subseteq open /\ slipped' = slipped /\ student' = student
        BY <1>6 DEF toggle, disable_maintenance, update_vm_limit_policy, rows
    <2>2. \E to \in {"enable", "disable", "publish_disabled", "patch"} : GoesTo(r, to)
        BY <1>6 DEF toggle, disable_maintenance, update_vm_limit_policy
    <2>3. Admitted' \subseteq Admitted
        BY <2>1, <2>2 DEF GoesTo, Admitted, Launches, TypeOK
    <2> QED BY <1>0, <2>1, <2>3, SlipKept
<1>7. ASSUME NEW r \in Requests, launch_policy(r) \/ launch_capacity(r) PROVE SlipLedger'
    <2>1. open' = open /\ slipped' = slipped /\ student' = student
        BY <1>7 DEF launch_policy, launch_capacity, rows
    <2>2. pc[r] \in Launches /\ \E to \in {"capacity", "insert"} : GoesTo(r, to)
        BY <1>7 DEF launch_policy, launch_capacity, Launches
    <2>3. Admitted' \subseteq Admitted
        BY <2>1, <2>2 DEF GoesTo, Admitted, TypeOK
    <2> QED BY <1>0, <2>1, <2>3, SlipKept
<1>8. ASSUME NEW r \in Requests,
             publish(r) \/ toggle_interrupted(r) \/ update_commit(r) \/ launch_refused(r)
      PROVE  SlipLedger'
    <2>1. open' = open /\ slipped' = slipped
        BY <1>8 DEF publish, toggle_interrupted, update_commit, launch_refused, rows
    <2>2. Ends(r)
        BY <1>8 DEF publish, toggle_interrupted, update_commit, launch_refused
    <2>3. Admitted' \subseteq Admitted
        BY <2>2 DEF Ends, GoesTo, Admitted, Launches, TypeOK
    <2> QED BY <1>0, <2>1, <2>3, SlipKept
<1>9. CASE session_ends \/ session_revived \/ UNCHANGED vars
    <2>1. open' = open /\ slipped' = slipped /\ Admitted' = Admitted
        BY <1>9 DEF session_ends, session_revived, vars, rows, locals, Admitted
    <2> QED BY <1>0, <2>1, SlipKept
<1> QED BY <1>3, <1>4, <1>5, <1>6, <1>7, <1>8, <1>9 DEF Next

(***************************************************************************)
(* A toggle that begins alone reads the windows as they are, commits on    *)
(* what it read, and publishes what it committed; one that begins while    *)
(* another is in flight, or ends before it publishes, spoils the banner.   *)
(***************************************************************************)
LEMMA NextToggle ==
    TypeOK /\ ToggleLedger /\ BannerIsTrue /\ [Next]_vars => ToggleLedger' /\ BannerIsTrue'
<1> SUFFICES ASSUME TypeOK, ToggleLedger, BannerIsTrue, [Next]_vars
             PROVE  ToggleLedger' /\ BannerIsTrue'
    OBVIOUS
<1>1. ASSUME NEW r \in Requests, NEW to \in {"enable", "disable"}, toggle(r, to)
      PROVE  ToggleLedger' /\ BannerIsTrue'
    <2>1. pc'[r] = to /\ saw'[r] = open' /\ \A q \in Requests \ {r} : pc'[q] = pc[q]
        BY <1>1 DEF toggle, GoesTo, TypeOK, rows
    <2>2. to \in Toggles
        BY DEF Toggles
    <2>3. BannerIsTrue'
        BY <2>1, <2>2 DEF BannerIsTrue
    <2>4. ~spoilt' => \A q \in Requests : pc[q] \notin Toggles
        BY <1>1 DEF toggle
    <2>5. ToggleLedger'
        BY <2>1, <2>4 DEF ToggleLedger, Alone
    <2> QED BY <2>3, <2>5
<1>2. ASSUME NEW r \in Requests, enable_maintenance(r) \/ disable_maintenance(r)
      PROVE  ToggleLedger' /\ BannerIsTrue'
    <2>1. /\ spoilt' = spoilt /\ pc[r] \in Toggles /\ pc'[r] \in Toggles
          /\ pc'[r] \in {"publish_enabled", "publish_disabled"}
          /\ \A q \in Requests \ {r} : pc'[q] = pc[q]
        BY <1>2 DEF enable_maintenance, disable_maintenance, GoesTo, Toggles, TypeOK
    <2>2. BannerIsTrue'
        BY <2>1 DEF BannerIsTrue
    <2>3. ASSUME ~spoilt PROVE Alone(r)'
        <3>1. Alone(r)
            BY <2>1, <2>3 DEF ToggleLedger
        <3>2. \A q \in Requests : pc'[q] \in Toggles => q = r
            BY <2>1, <3>1 DEF Alone
        <3>3. pc'[r] = "publish_enabled" => open' # {}
            BY <1>2, <2>1 DEF enable_maintenance, disable_maintenance, GoesTo, TypeOK
        <3>4. pc'[r] = "publish_disabled" => open' = {}
            BY <1>2, <2>1, <3>1 DEF enable_maintenance, disable_maintenance, GoesTo, TypeOK, Alone
        <3> QED BY <2>1, <3>2, <3>3, <3>4 DEF Alone
    <2>4. ToggleLedger'
        BY <2>1, <2>3 DEF ToggleLedger, Alone
    <2> QED BY <2>2, <2>4
<1>3. ASSUME NEW r \in Requests, publish(r) PROVE ToggleLedger' /\ BannerIsTrue'
    <2>1. /\ spoilt' = spoilt /\ open' = open /\ banner' = (pc[r] = "publish_enabled")
          /\ pc[r] \in {"publish_enabled", "publish_disabled"} /\ pc[r] \in Toggles
          /\ pc' = [pc EXCEPT ![r] = "idle"]
        BY <1>3 DEF publish, Ends, GoesTo, rows, Toggles
    <2>2. ~spoilt => Alone(r)
        BY <2>1 DEF ToggleLedger
    <2>3. ~spoilt => \A q \in Requests : pc'[q] \notin Toggles
        BY <2>1, <2>2 DEF Alone, Toggles, TypeOK
    <2>4. ~spoilt => (banner' <=> open' # {})
        BY <2>1, <2>2 DEF Alone
    <2> QED BY <2>1, <2>3, <2>4 DEF ToggleLedger, BannerIsTrue
<1>4. ASSUME NEW r \in Requests, toggle_interrupted(r) PROVE ToggleLedger' /\ BannerIsTrue'
    BY <1>4 DEF toggle_interrupted, ToggleLedger, BannerIsTrue
<1>5. ASSUME open' = open, banner' = banner, spoilt' = spoilt,
             \A q \in Requests : /\ pc'[q] \in Toggles <=> pc[q] \in Toggles
                                 /\ pc[q] \in Toggles => pc'[q] = pc[q] /\ saw'[q] = saw[q]
      PROVE  ToggleLedger' /\ BannerIsTrue'
    BY <1>5 DEF ToggleLedger, BannerIsTrue, Alone
<1>6. ASSUME NEW r \in Requests,
             \/ \E p \in Policy : update_vm_limit_policy(r, p)
             \/ \E s \in BOOLEAN : launch_vm(r, s)
             \/ launch_policy(r) \/ launch_capacity(r)
      PROVE  ToggleLedger' /\ BannerIsTrue'
    <2>1. /\ open' = open /\ banner' = banner /\ spoilt' = spoilt /\ saw' = saw
          /\ pc[r] \notin Toggles
        BY <1>6 DEF update_vm_limit_policy, launch_vm, launch_policy, launch_capacity, rows, Toggles
    <2>2. \E to \in {"patch", "policy", "capacity", "insert"} : GoesTo(r, to)
        BY <1>6 DEF update_vm_limit_policy, launch_vm, launch_policy, launch_capacity
    <2> QED BY <1>5, <2>1, <2>2 DEF GoesTo, Toggles, TypeOK
<1>7. ASSUME NEW r \in Requests, update_commit(r) \/ launch_refused(r) \/ launch_insert(r)
      PROVE  ToggleLedger' /\ BannerIsTrue'
    <2>1. /\ open' = open /\ banner' = banner /\ spoilt' = spoilt
          /\ pc[r] \notin Toggles
        BY <1>7 DEF update_commit, launch_refused, launch_insert, rows, Toggles, Launches
    <2>2. pc' = [pc EXCEPT ![r] = "idle"] /\ saw' = [saw EXCEPT ![r] = {}]
        BY <1>7 DEF update_commit, launch_refused, launch_insert, Ends, GoesTo
    <2> QED BY <1>5, <2>1, <2>2 DEF Toggles, TypeOK
<1>8. CASE session_ends \/ session_revived \/ UNCHANGED vars
    <2>1. open' = open /\ banner' = banner /\ spoilt' = spoilt /\ pc' = pc /\ saw' = saw
        BY <1>8 DEF session_ends, session_revived, vars, rows, locals
    <2> QED BY <1>5, <2>1
<1> QED BY <1>1, <1>2, <1>3, <1>4, <1>6, <1>7, <1>8 DEF Next

(***************************************************************************)
(* Before the first request nothing is counted and nothing is toggled.     *)
(***************************************************************************)
LEMMA InitControls == Init => ControlsInv
<1> SUFFICES ASSUME Init PROVE ControlsInv
    OBVIOUS
<1>1. TypeOK
    <2>1. Defaults \in Policy
        BY ControlsAssumption DEF Defaults, Policy
    <2>2. 0 \in 0 .. MaxRevived /\ 0 \in 0 .. MaxFaults
        BY ControlsAssumption
    <2> QED BY <2>1, <2>2 DEF Init, TypeOK
<1>2. RoomLedger
    <2>1. Inserting = {}
        BY DEF Init, Inserting
    <2>2. active + Cardinality(Inserting) < Default + Cardinality(Requests) + revived
        BY <2>1, FS_EmptySet, Counting, ControlsAssumption DEF Init
    <2> QED BY <2>2, ControlsAssumption DEF RoomLedger
<1>3. SlipLedger /\ ToggleLedger /\ BannerIsTrue
    BY DEF Init, SlipLedger, ToggleLedger, BannerIsTrue, Toggles
<1> QED BY <1>1, <1>2, <1>3 DEF ControlsInv

(***************************************************************************)
(* The ledgers hold in every reachable state, for every number of requests *)
(* and every set of limits.                                                *)
(***************************************************************************)
THEOREM ControlsInvariant == Spec => []ControlsInv
<1>1. ControlsInv /\ [Next]_vars => ControlsInv'
    BY NextTypeOK, NextRoom, NextSlip, NextToggle DEF ControlsInv
<1> QED BY InitControls, <1>1, PTL DEF Spec

(***************************************************************************)
(* The types of the rows and of the requests' locals.                      *)
(***************************************************************************)
THEOREM ControlsTypeOK == Spec => []TypeOK
<1>1. ControlsInv => TypeOK
    BY DEF ControlsInv
<1> QED BY ControlsInvariant, <1>1, PTL

(***************************************************************************)
(* However many launches count before any of them inserts, the lab passes  *)
(* a limit by less than the requests in flight.                            *)
(***************************************************************************)
THEOREM ControlsOvershoot == Spec => []OvershootIsBounded
<1>1. ControlsInv => OvershootIsBounded
    <2> SUFFICES ASSUME ControlsInv PROVE OvershootIsBounded
        OBVIOUS
    <2>1. PICK limit \in Limits :
              active + Cardinality(Inserting) < limit + Cardinality(Requests) + revived
        BY DEF ControlsInv, RoomLedger
    <2>2. Inserting \in SUBSET Requests
        BY DEF Inserting
    <2>3. Cardinality(Inserting) \in Nat /\ Cardinality(Requests) \in Nat
        BY <2>2, Counting
    <2>4. active \in Nat /\ revived \in Nat /\ limit \in Nat
        BY ControlsAssumption DEF ControlsInv, TypeOK
    <2>5. active < limit + Cardinality(Requests) + revived
        BY <2>1, <2>3, <2>4
    <2> QED BY <2>5 DEF OvershootIsBounded
<1> QED BY ControlsInvariant, <1>1, PTL

(***************************************************************************)
(* During a maintenance, however it is toggled, fewer students' launches   *)
(* get through than requests are in flight.                                *)
(***************************************************************************)
THEOREM ControlsSlips == Spec => []SlipsAreBounded
<1>1. ControlsInv => SlipsAreBounded
    <2> SUFFICES ASSUME ControlsInv, open # {} PROVE slipped < Cardinality(Requests)
        BY DEF SlipsAreBounded
    <2>1. slipped + Cardinality(Admitted) < Cardinality(Requests) /\ slipped \in Nat
        BY DEF ControlsInv, SlipLedger, TypeOK
    <2>2. Admitted \in SUBSET Requests
        BY DEF Admitted
    <2>3. Cardinality(Admitted) \in Nat /\ Cardinality(Requests) \in Nat
        BY <2>2, Counting
    <2> QED BY <2>1, <2>3
<1> QED BY ControlsInvariant, <1>1, PTL

(***************************************************************************)
(* The banner of an open page tells the truth while toggles do not overlap.*)
(***************************************************************************)
THEOREM ControlsBanner == Spec => []BannerIsTrue
<1>1. ControlsInv => BannerIsTrue
    BY DEF ControlsInv
<1> QED BY ControlsInvariant, <1>1, PTL
=============================================================================
