------------------------ MODULE SessionTimersProofs ------------------------
(***************************************************************************)
(* Proofs about SessionTimers for every policy and any number of requests  *)
(* in flight.                                                              *)
(***************************************************************************)
EXTENDS SessionTimers, TLAPS

(***************************************************************************)
(* One more extension adds its minutes.                                    *)
(***************************************************************************)
LEMMA OneMore ==
    \A n \in Nat : /\ n * ExtensionMinutes \in Nat
                   /\ (n + 1) * ExtensionMinutes = n * ExtensionMinutes + ExtensionMinutes
BY TimersAssumption

(***************************************************************************)
(* An end and its bound move by the same minutes.                          *)
(***************************************************************************)
LEMMA AddBoth == \A x, b, m, k \in Nat : x <= b + m => x + k <= b + (m + k)
OBVIOUS

(***************************************************************************)
(* What the readers keep of the row is a row.                              *)
(***************************************************************************)
LEMMA CopiesType ==
    /\ NoRow \in Row /\ NoLook \in [now : Nat, row : Row]
    /\ TypeOK => ForExtension \in Row /\ ForActivity \in Row /\ ForSweep \in Row
<1>1. \A e, a \in {NULL} \union Nat, n \in Nat, w \in BOOLEAN : Reads(e, n, a, w) \in Row
    BY DEF Reads, Row, NULL
<1>2. NoRow \in Row
    BY <1>1 DEF NoRow
<1>3. NoLook \in [now : Nat, row : Row]
    BY <1>2 DEF NoLook
<1>4. ASSUME TypeOK PROVE ForExtension \in Row /\ ForActivity \in Row /\ ForSweep \in Row
    <2>1. /\ expires_at \in {NULL} \union Nat /\ last_activity_at \in {NULL} \union Nat
          /\ NULL \in {NULL} \union Nat /\ warned \in BOOLEAN /\ FALSE \in BOOLEAN
        BY <1>4 DEF TypeOK
    <2>2. extension_count \in Nat /\ 0 \in Nat
        BY <1>4, TimersAssumption DEF TypeOK
    <2>3. ForExtension \in Row
        BY <1>1, <2>1, <2>2 DEF ForExtension
    <2>4. ForActivity \in Row
        BY <1>1, <2>1, <2>2 DEF ForActivity
    <2>5. ForSweep \in Row
        BY <1>1, <2>1, <2>2 DEF ForSweep
    <2> QED BY <2>3, <2>4, <2>5
<1> QED BY <1>2, <1>3, <1>4

(***************************************************************************)
(* The clocks are consistent initially.                                    *)
(***************************************************************************)
LEMMA InitTimers == Init => TimersInv
<1> SUFFICES ASSUME Init PROVE TimersInv
    OBVIOUS
<1>1. LastTime \in Nat
    BY TimersAssumption, OneMore DEF LastTime
<1>2. TypeOK
    <2>1. 0 \in 0 .. LastTime /\ 0 \in 0 .. MaxExtensions /\ 0 \in Nat
        BY <1>1, TimersAssumption
    <2>2. copy \in [Requests -> Row] /\ req \in [Requests -> {"idle", "extend", "activity"}]
        BY CopiesType DEF Init
    <2>3. seen \in [now : Nat, row : Row]
        BY CopiesType DEF Init
    <2> QED BY <2>1, <2>2, <2>3 DEF Init, TypeOK
<1>3. ExtensionLedger
    BY DEF Init, ExtensionLedger, Covered, NULL
<1>4. WarningLedger
    BY DEF Init, WarningLedger, One
<1> QED BY <1>2, <1>3, <1>4 DEF TimersInv

(***************************************************************************)
(* The clock and the start of the session only move the base forward.      *)
(***************************************************************************)
LEMMA TimeTimers ==
    ASSUME TimersInv, tick \/ provision_commit
    PROVE  TimersInv'
<1> USE TimersAssumption, OneMore DEF TimersInv, NULL
<1>0. LastTime \in Nat
    BY DEF LastTime
<1>1. CASE tick
    <2>1. TypeOK'
        <3>1. now' \in 0 .. LastTime
            BY <1>0, <1>1 DEF tick, TypeOK
        <3>2. swept' \in BOOLEAN
            BY <1>1 DEF tick
        <3> QED BY <1>1, <3>1, <3>2 DEF tick, row, TypeOK
    <2>2. Covered(expires_at, extension_count)'
        BY <1>1 DEF tick, row, TypeOK, ExtensionLedger, Covered, Base
    <2>3. ExtensionLedger'
        BY <1>1, <2>2 DEF tick, row, TypeOK, ExtensionLedger
    <2>4. WarningLedger'
        BY <1>1 DEF tick, row, WarningLedger
    <2> QED BY <2>1, <2>3, <2>4
<1>2. CASE provision_commit
    <2>1. TypeOK'
        BY <1>2 DEF provision_commit, TypeOK
    <2>2. Covered(expires_at, extension_count)'
        BY <1>2 DEF provision_commit, TypeOK, Covered, Base
    <2>3. ASSUME NEW r \in Requests, req[r] = "extend"
          PROVE  Covered(copy[r].expires_at, copy[r].extension_count)'
        BY <1>2, <2>3 DEF provision_commit, TypeOK, ExtensionLedger, Covered, Base
    <2>4. ExtensionLedger'
        BY <1>2, <2>2, <2>3 DEF provision_commit, TypeOK, ExtensionLedger
    <2>5. WarningLedger'
        BY <1>2 DEF provision_commit, WarningLedger
    <2> QED BY <2>1, <2>4, <2>5
<1> QED BY <1>1, <1>2

(***************************************************************************)
(* Requests: an extension adds its minutes to the end it read and one to   *)
(* the count it read.                                                      *)
(***************************************************************************)
LEMMA RequestTimers ==
    ASSUME TimersInv, NEW r \in Requests,
           extend_session(r) \/ extend_commit(r) \/ report_activity(r) \/ record_activity(r)
    PROVE  TimersInv'
<1> USE TimersAssumption DEF TimersInv, NULL
<1>1. CASE extend_session(r)
    <2>1. TypeOK'
        BY <1>1, CopiesType DEF extend_session, Loads, row, TypeOK
    <2>2. copy'[r].expires_at = expires_at /\ copy'[r].extension_count = extension_count
        BY <1>1 DEF extend_session, Loads, ForExtension, Reads, TypeOK
    <2>3. /\ UNCHANGED <<now, row>>
          /\ \A q \in Requests \ {r} : req'[q] = req[q] /\ copy'[q] = copy[q]
        BY <1>1 DEF extend_session, Loads, TypeOK
    <2>4. Base' = Base /\ sweep' = sweep
        BY <1>1, <2>3 DEF extend_session, Loads, row, Base
    <2>5. ASSUME NEW q \in Requests, req'[q] = "extend"
          PROVE  /\ copy'[q].extension_count \in 0 .. (MaxExtensions - 1)
                 /\ copy'[q].expires_at \in {NULL} \union Nat
                 /\ Covered(copy[q].expires_at, copy[q].extension_count)'
                 /\ copy'[q].expires_at = NULL => state' = "queued" \/ started_at' = now'
        <3>1. CASE q = r
            BY <1>1, <2>2, <2>3, <2>4, <3>1
                DEF extend_session, row, TypeOK, ExtensionLedger, Covered
        <3>2. CASE q # r
            BY <2>3, <2>4, <2>5, <3>2 DEF row, ExtensionLedger, Covered
        <3> QED BY <3>1, <3>2
    <2>6. ExtensionLedger'
        BY <2>3, <2>4, <2>5 DEF row, ExtensionLedger, Covered
    <2>7. WarningLedger'
        BY <1>1 DEF extend_session, Loads, row, WarningLedger
    <2> QED BY <2>1, <2>6, <2>7
<1>2. CASE extend_commit(r)
    <2> DEFINE e == copy[r].expires_at
               c == copy[r].extension_count
    <2>1. /\ c \in 0 .. (MaxExtensions - 1) /\ c \in Nat /\ e \in {NULL} \union Nat
          /\ Covered(e, c)
          /\ e = NULL => state = "queued" \/ started_at = now
        BY <1>2 DEF extend_commit, ExtensionLedger
    <2>2. /\ expires_at' = (IF e = NULL THEN now ELSE e) + ExtensionMinutes
          /\ extension_count' = c + 1
          /\ UNCHANGED <<now, state, started_at, last_activity_at, warned, idle_warnings, late, sweep, seen, swept>>
        BY <1>2 DEF extend_commit, Finishes
    <2>3. /\ req' = [req EXCEPT ![r] = "idle"] /\ copy' = [copy EXCEPT ![r] = NoRow]
        BY <1>2 DEF extend_commit, Finishes
    <2>4. TypeOK'
        BY <2>1, <2>2, <2>3, CopiesType DEF TypeOK
    <2>5. Covered(expires_at, extension_count)'
        <3>1. now \in Nat /\ (state # "queued" => started_at \in Nat)
            BY DEF TypeOK, ExtensionLedger
        <3>2. Base' = Base /\ Base \in Nat
            BY <2>2, <3>1 DEF Base
        <3>3. (c + 1) * ExtensionMinutes = c * ExtensionMinutes + ExtensionMinutes
              /\ c * ExtensionMinutes \in Nat
            BY <2>1, OneMore
        <3>4. e = NULL => now <= Base
            BY <2>1, <3>1 DEF Base
        <3>5. CASE e = NULL
            <4>1. expires_at' = now + ExtensionMinutes
                BY <2>2, <3>5
            <4> QED BY <2>2, <3>1, <3>2, <3>3, <3>4, <3>5, <4>1 DEF Covered
        <3>6. CASE e # NULL
            <4>1. expires_at' = e + ExtensionMinutes /\ e \in Nat
                BY <2>1, <2>2, <3>6
            <4>2. e <= Base + c * ExtensionMinutes
                BY <2>1, <3>6 DEF Covered
            <4>3. e + ExtensionMinutes <= Base + (c * ExtensionMinutes + ExtensionMinutes)
                BY <3>2, <3>3, <4>1, <4>2, AddBoth
            <4> QED BY <2>2, <3>2, <3>3, <4>1, <4>3 DEF Covered
        <3> QED BY <3>5, <3>6
    <2>6. expires_at' # NULL
        BY <2>1, <2>2 DEF TypeOK
    <2>7. ASSUME NEW q \in Requests, req'[q] = "extend"
          PROVE  /\ copy'[q].extension_count \in 0 .. (MaxExtensions - 1)
                 /\ copy'[q].expires_at \in {NULL} \union Nat
                 /\ Covered(copy[q].expires_at, copy[q].extension_count)'
                 /\ copy'[q].expires_at = NULL => state' = "queued" \/ started_at' = now'
        BY <2>2, <2>3, <2>7 DEF TypeOK, ExtensionLedger, Covered, Base
    <2>8. ExtensionLedger'
        BY <2>2, <2>5, <2>6, <2>7 DEF ExtensionLedger
    <2>9. WarningLedger'
        BY <2>2 DEF WarningLedger
    <2> QED BY <2>4, <2>8, <2>9
<1>3. CASE report_activity(r)
    <2>1. TypeOK'
        BY <1>3, CopiesType DEF report_activity, Loads, row, TypeOK
    <2>2. ExtensionLedger'
        BY <1>3 DEF report_activity, Loads, row, TypeOK, ExtensionLedger, Covered, Base
    <2>3. WarningLedger'
        BY <1>3 DEF report_activity, Loads, row, WarningLedger
    <2> QED BY <2>1, <2>2, <2>3
<1>4. CASE record_activity(r)
    <2>1. TypeOK'
        BY <1>4, CopiesType DEF record_activity, Finishes, TypeOK
    <2>2. ExtensionLedger'
        BY <1>4 DEF record_activity, Finishes, TypeOK, ExtensionLedger, Covered, Base
    <2>3. WarningLedger'
        BY <1>4 DEF record_activity, Finishes, WarningLedger, One, TypeOK
    <2> QED BY <2>1, <2>2, <2>3
<1> QED BY <1>1, <1>2, <1>3, <1>4

(***************************************************************************)
(* The sweep warns only when the row it read had no warning, and publishes *)
(* what it has committed.                                                  *)
(***************************************************************************)
LEMMA SweepTimers ==
    ASSUME TimersInv, sweep_step
    PROVE  TimersInv'
<1> USE DEF TimersInv, NULL
<1> USE DEF stop_vm, SweepEnds, SweepGoesTo
<1>1. /\ UNCHANGED <<now, started_at, expires_at, extension_count, last_activity_at, req, copy>>
      /\ state' = state \/ (state' = "ended" /\ state # "queued")
      /\ sweep' # "idle" => state' # "queued"
    BY DEF sweep_step, sweep_read, sweep_expire, sweep_expiry_warning, sweep_idle_stop,
        sweep_idle_warning, sweep_publish, sweep_passes, TypeOK, ExtensionLedger
<1>2. ExtensionLedger'
    <2>1. Base' = Base
        BY <1>1 DEF Base
    <2> QED BY <1>1, <2>1 DEF ExtensionLedger, Covered
<1>3. CASE sweep_read
    <2>1. seen' \in [now : Nat, row : Row]
        BY <1>3, CopiesType DEF sweep_read, TypeOK
    <2>2. TypeOK'
        BY <1>1, <1>3, <2>1 DEF sweep_read, TypeOK
    <2>3. WarningLedger'
        BY <1>3 DEF sweep_read, ForSweep, Reads, WarningLedger, TypeOK
    <2> QED BY <1>2, <2>2, <2>3
<1>4. CASE sweep_idle_warning
    <2>1. TypeOK'
        BY <1>1, <1>4, CopiesType DEF sweep_idle_warning, TypeOK
    <2>2. WarningLedger'
        BY <1>4 DEF sweep_idle_warning, WarningLedger, One, TypeOK
    <2> QED BY <1>2, <2>1, <2>2
<1>5. CASE sweep_expire \/ sweep_idle_stop \/ sweep_expiry_warning \/ sweep_passes
    <2>1. TypeOK'
        BY <1>1, <1>5, CopiesType DEF sweep_expire, sweep_idle_stop, sweep_expiry_warning,
            sweep_passes, TypeOK
    <2>2. WarningLedger'
        BY <1>5 DEF sweep_expire, sweep_idle_stop, sweep_expiry_warning, sweep_passes,
            WarningLedger, TypeOK
    <2> QED BY <1>2, <2>1, <2>2
<1>6. CASE sweep_publish
    <2>1. TypeOK'
        BY <1>1, <1>6, CopiesType DEF sweep_publish, TypeOK
    <2>2. WarningLedger'
        BY <1>6 DEF sweep_publish, WarningLedger, One, TypeOK
    <2> QED BY <1>2, <2>1, <2>2
<1> QED BY <1>3, <1>4, <1>5, <1>6 DEF sweep_step

(***************************************************************************)
(* Every step keeps the clocks consistent.                                 *)
(***************************************************************************)
LEMMA NextTimers == TimersInv /\ [Next]_vars => TimersInv'
<1> SUFFICES ASSUME TimersInv, [Next]_vars PROVE TimersInv'
    OBVIOUS
<1>1. CASE Next
    BY <1>1, TimeTimers, RequestTimers, SweepTimers DEF Next
<1>2. CASE UNCHANGED vars
    BY <1>2 DEF vars, row, TimersInv, TypeOK, ExtensionLedger, WarningLedger, Covered, Base
<1> QED BY <1>1, <1>2

(***************************************************************************)
(* The inductive invariant holds in every reachable state.                 *)
(***************************************************************************)
LEMMA TimersInvariant == Spec => []TimersInv
BY InitTimers, NextTimers, PTL DEF Spec

(***************************************************************************)
(* The columns stay in their ranges; in particular no race of extension    *)
(* requests takes the count past max_extensions.                           *)
(***************************************************************************)
THEOREM TimersTypeOK == Spec => []TypeOK
<1>1. TimersInv => TypeOK
    BY DEF TimersInv
<1> QED BY <1>1, TimersInvariant, PTL

(***************************************************************************)
(* extend_session: the session's end is covered by the counted extensions. *)
(***************************************************************************)
THEOREM TimersNoFreeTime == Spec => []NoFreeTime
<1>1. TimersInv => NoFreeTime
    BY TimersAssumption DEF TimersInv, ExtensionLedger, Covered, Base, NoFreeTime
<1> QED BY <1>1, TimersInvariant, PTL

(***************************************************************************)
(* The sweep publishes one idle warning until activity is recorded, and at *)
(* most one more, whose commit came before that activity.                  *)
(***************************************************************************)
THEOREM TimersWarnsOnce == Spec => []WarnsOncePerIdlePeriod
<1>1. TimersInv => WarnsOncePerIdlePeriod
    BY DEF TimersInv, TypeOK, WarningLedger, One, WarnsOncePerIdlePeriod
<1> QED BY <1>1, TimersInvariant, PTL
=============================================================================
