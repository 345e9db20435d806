---------------------------- MODULE AccountsProofs ----------------------------
(***************************************************************************)
(* Proofs about Accounts for any table, any calls and any number of        *)
(* requests and limiter keys.                                              *)
(***************************************************************************)
EXTENDS Accounts, FiniteSetTheorems, TLAPS

\* What the outcome and the next step of a request say of its call, of the row
\* it read and of the table: no account is ever deleted.
RequestLedger ==
    \A r \in Requests :
        /\ pc[r] # "new" => call[r] \in Calls
        /\ pc[r] \in {"incr", "expire", "select", "reset"} => call[r].op = "login"
        /\ pc[r] = "auth" => call[r].op # "login"
        /\ pc[r] = "target" => call[r].op \notin {"login", "change"}
        /\ pc[r] \in {"reset", "target"} => copy[r] \in Row /\ user[call[r].actor] \in Row
        /\ pc[r] = "commit" /\ call[r].op # "create" =>
              copy[r] \in Row /\ user[call[r].target] \in Row

\* A request in flight has seen the present moment, and one past its check a
\* moment at which it was to be allowed.
MomentLedger ==
    \A r \in Requests :
        /\ pc[r] \in Steps => Allowed(call[r], user[call[r].actor]) \in moments[r]
        /\ pc[r] \in {"reset", "target", "commit"} => TRUE \in moments[r]

\* Requests that may have counted on key k, and those between the limiter and
\* their password check.
Counted(k) == {r \in Requests : pc[r] \notin {"new", "incr"} /\ call[r].key = k}
Past(k)    == {r \in Requests : pc[r] \in {"expire", "select"} /\ call[r].key = k}

CountLedger == \A k \in Keys : count[k] <= Cardinality(Counted(k))

\* An attempt that the counter let through is checked at most once.
PassLedger ==
    \A k \in Keys : checks[k] + Cardinality(Past(k))
                       <= (IF count[k] < MaxAttempts THEN count[k] ELSE MaxAttempts) + carried[k]

AccountsInv ==
    TypeOK /\ RequestLedger /\ MomentLedger /\ CountLedger /\ PassLedger
    /\ CountersExpire /\ DecisionsHaveAMoment

(***************************************************************************)
(* The UPDATE keeps a row a row and its role; only an enable activates it, *)
(* only a disable deactivates it, and only a change or a reset sets its    *)
(* password.                                                               *)
(***************************************************************************)
LEMMA Updated ==
    ASSUME NEW c \in Calls, NEW read \in Row, NEW present \in Row
    PROVE  LET row == updated(c, read, present) IN
           /\ row \in Row
           /\ row.role = present.role
           /\ row.active = present.active \/ row.active = assigned(c, read).active
           /\ row.active # present.active => c.op \in {"enable", "disable"}
           /\ row.active # present.active => row.active = (c.op = "enable")
           /\ row.pw # present.pw => c.op \in {"change", "reset"}
<1> DEFINE row == updated(c, read, present)
<1>1. c \in Call
    BY AccountsAssumption
<1>2. assigned(c, read).active \in BOOLEAN
    BY <1>1 DEF assigned, Call, Row
<1>3. /\ row = [present EXCEPT !.pw = row.pw, !.active = row.active]
      /\ row.pw = IF c.op \in {"change", "reset"} THEN c.new ELSE present.pw
      /\ row.active = IF assigned(c, read).active # read.active
                      THEN assigned(c, read).active ELSE present.active
    BY DEF updated, Row
<1>4. row.pw \in Passwords /\ row.active \in BOOLEAN
    BY <1>1, <1>2, <1>3 DEF Call, Row
<1>5. row \in Row /\ row.role = present.role
    BY <1>3, <1>4 DEF Row
<1>6. assigned(c, read).active # read.active =>
          /\ c.op \in {"enable", "disable"}
          /\ assigned(c, read).active = (c.op = "enable")
    BY DEF assigned, Row
<1> QED BY <1>3, <1>5, <1>6

(***************************************************************************)
(* Counting requests.                                                      *)
(***************************************************************************)
LEMMA Counting ==
    /\ \A S \in SUBSET Requests :
          /\ IsFiniteSet(S) /\ Cardinality(S) \in Nat
          /\ Cardinality(S) <= Cardinality(Requests)
          /\ \A T \in SUBSET S : Cardinality(T) <= Cardinality(S)
          /\ \A r : Cardinality(S \ {r}) = IF r \in S THEN Cardinality(S) - 1 ELSE Cardinality(S)
          /\ \A r : Cardinality(S \union {r}) = IF r \in S THEN Cardinality(S) ELSE Cardinality(S) + 1
    /\ Cardinality(Requests) \in Nat
<1>1. ASSUME NEW S \in SUBSET Requests
      PROVE  IsFiniteSet(S) /\ Cardinality(S) \in Nat /\ Cardinality(S) <= Cardinality(Requests)
    BY FS_Subset, FS_CardinalityType, AccountsAssumption
<1>2. ASSUME NEW S \in SUBSET Requests, NEW T \in SUBSET S PROVE Cardinality(T) <= Cardinality(S)
    BY <1>1, FS_Subset
<1>3. ASSUME NEW S \in SUBSET Requests, NEW r
      PROVE  /\ Cardinality(S \ {r}) = IF r \in S THEN Cardinality(S) - 1 ELSE Cardinality(S)
             /\ Cardinality(S \union {r}) = IF r \in S THEN Cardinality(S) ELSE Cardinality(S) + 1
    BY <1>1, FS_RemoveElement, FS_AddElement
<1> QED BY <1>1, <1>2, <1>3, FS_CardinalityType, AccountsAssumption

(***************************************************************************)
(* The sets of requests that are counted; the key of a request in flight.  *)
(***************************************************************************)
LEMMA CountedSets ==
    ASSUME TypeOK, NEW k
    PROVE  /\ Counted(k) \in SUBSET Requests /\ Counted(k)' \in SUBSET Requests
           /\ Past(k) \in SUBSET Requests /\ Past(k)' \in SUBSET Requests
           /\ Cardinality(Counted(k)) \in Nat /\ Cardinality(Counted(k)') \in Nat
           /\ Cardinality(Past(k)) \in Nat /\ Cardinality(Past(k)') \in Nat
<1>1. /\ Counted(k) \in SUBSET Requests /\ Counted(k)' \in SUBSET Requests
      /\ Past(k) \in SUBSET Requests /\ Past(k)' \in SUBSET Requests
    BY DEF Counted, Past
<1> QED BY <1>1, Counting

(***************************************************************************)
(* Who sends a request, whom it changes and its key are what Call says.    *)
(***************************************************************************)
LEMMA CallFields ==
    ASSUME RequestLedger, NEW r \in Requests, pc[r] # "new"
    PROVE  /\ call[r] \in Calls /\ call[r].actor \in Users /\ call[r].target \in Users
           /\ call[r].key \in Keys /\ call[r].new \in Passwords /\ call[r].role \in Roles
           /\ call[r].op \in {"login", "change", "create"} \union UserOps
           /\ call[r].op \in {"login", "change"} => call[r].target = call[r].actor
<1>1. call[r] \in Calls /\ call[r] \in Call
    BY AccountsAssumption DEF RequestLedger
<1> QED BY <1>1, AccountsAssumption DEF Call

(***************************************************************************)
(* A request never returns to a step before the limiter.                   *)
(***************************************************************************)
LEMMA NeverBack ==
    ASSUME TypeOK, [Next]_vars, NEW q \in Requests, pc[q] \notin {"new", "incr"}
    PROVE  pc'[q] \notin {"new", "incr"} /\ call'[q] = call[q]
<1>1. ASSUME NEW r \in Requests, NEW c \in Calls, request_arrives(r, c)
      PROVE  pc'[q] \notin {"new", "incr"} /\ call'[q] = call[q]
    BY <1>1 DEF request_arrives, GoesTo, TypeOK
<1>2. ASSUME NEW r \in Requests, step(r) \/ request_dies(r)
      PROVE  pc'[q] \notin {"new", "incr"} /\ call'[q] = call[q]
    <2>1. /\ \E to \in {"expire", "limited", "select", "denied", "reset", "commit", "target",
                        "failed", "ok", "died"} : GoesTo(r, to)
          /\ call' = call
        BY <1>2 DEF step, request_dies, login_incr, login_expire, login_select, login_reset,
                    get_current_user, select_target, commit, insert
    <2> QED BY <2>1 DEF GoesTo, TypeOK
<1>3. CASE (\E k \in Keys : window_ends(k)) \/ UNCHANGED vars
    BY <1>3 DEF window_ends, vars, locals
<1> QED BY <1>1, <1>2, <1>3 DEF Next

(***************************************************************************)
(* INCR counts a request that had not been counted; no other step adds to  *)
(* a counter.                                                              *)
(***************************************************************************)
LEMMA NextCount ==
    ASSUME TypeOK, RequestLedger, CountLedger, [Next]_vars
    PROVE  count' \in [Keys -> 0 .. Cardinality(Requests)] /\ CountLedger'
<1>1. \A k \in Keys : Counted(k) \subseteq Counted(k)'
    BY NeverBack DEF Counted
<1>2. \A k \in Keys : Cardinality(Counted(k)) <= Cardinality(Counted(k)')
    BY <1>1, CountedSets, Counting
<1>3. ASSUME count' \in [Keys -> Nat], CountLedger'
      PROVE  count' \in [Keys -> 0 .. Cardinality(Requests)]
    <2>1. \A k \in Keys : Cardinality(Counted(k)') <= Cardinality(Requests)
        BY CountedSets, Counting
    <2>2. \A k \in Keys : count'[k] <= Cardinality(Requests)
        BY <1>3, <2>1, CountedSets, Counting DEF CountLedger
    <2> QED BY <1>3, <2>2, Counting
<1>4. \A k \in Keys : count[k] \in Nat /\ count[k] <= Cardinality(Counted(k))
    BY DEF TypeOK, CountLedger
<1>5. ASSUME count' \in [Keys -> Nat], \A k \in Keys : count'[k] <= count[k]
      PROVE  count' \in [Keys -> 0 .. Cardinality(Requests)] /\ CountLedger'
    <2>1. CountLedger'
        BY <1>2, <1>4, <1>5, CountedSets DEF CountLedger
    <2> QED BY <1>3, <1>5, <2>1
<1>6. ASSUME NEW r \in Requests, login_incr(r)
      PROVE  count' \in [Keys -> 0 .. Cardinality(Requests)] /\ CountLedger'
    <2>0. pc[r] # "new"
        BY <1>6 DEF login_incr
    <2>1. PICK k \in Keys : k = call[r].key
        BY <2>0, CallFields
    <2>a. count' = [count EXCEPT ![k] = count[k] + 1]
        BY <1>6, <2>1 DEF login_incr
    <2>2. r \notin Counted(k) /\ r \in Counted(k)'
        <3>1. pc[r] = "incr" /\ call' = call /\ \E to \in {"expire", "limited", "select"} : GoesTo(r, to)
            BY <1>6 DEF login_incr
        <3> QED BY <2>1, <3>1 DEF Counted, GoesTo, TypeOK
    <2>3. Counted(k) \union {r} \in SUBSET Counted(k)'
        BY <1>1, <2>1, <2>2
    <2>4. Cardinality(Counted(k) \union {r}) <= Cardinality(Counted(k)')
        BY <2>3, CountedSets, Counting
    <2>5. Cardinality(Counted(k) \union {r}) = Cardinality(Counted(k)) + 1
        BY <2>2, CountedSets, Counting
    <2>6. Cardinality(Counted(k)) + 1 <= Cardinality(Counted(k)')
        BY <2>4, <2>5
    <2>7. count \in [Keys -> Nat] /\ count' \in [Keys -> Nat]
        <3>1. count \in [Keys -> Nat]
            BY <1>4 DEF TypeOK
        <3>2. count[k] + 1 \in Nat
            BY <1>4, <2>1
        <3> QED BY <2>a, <3>1, <3>2
    <2>8. ASSUME NEW j \in Keys PROVE count'[j] <= Cardinality(Counted(j)')
        <3>1. CASE j = k
            <4>1. count'[k] = count[k] + 1
                BY <2>7, <2>a
            <4>2. /\ count[k] \in Nat /\ count[k] <= Cardinality(Counted(k))
                  /\ Cardinality(Counted(k)) \in Nat /\ Cardinality(Counted(k)') \in Nat
                BY <1>4, <2>1, CountedSets
            <4>3. count'[k] <= Cardinality(Counted(k)')
                BY <2>6, <4>1, <4>2
            <4> QED BY <3>1, <4>3
        <3>2. CASE j # k
            <4>1. count'[j] = count[j]
                BY <2>a, <3>2 DEF TypeOK
            <4> QED BY <1>2, <1>4, <4>1, CountedSets
        <3> QED BY <3>1, <3>2
    <2> QED BY <1>3, <2>7, <2>8 DEF CountLedger
<1>7. ASSUME NEW k \in Keys, Vanishes(k)
      PROVE  count' \in [Keys -> 0 .. Cardinality(Requests)] /\ CountLedger'
    <2>1. count' \in [Keys -> Nat] /\ \A j \in Keys : count'[j] <= count[j]
        BY <1>4, <1>7 DEF Vanishes, TypeOK
    <2> QED BY <1>5, <2>1
<1>8. CASE UNCHANGED count
    <2>1. count' \in [Keys -> Nat] /\ \A j \in Keys : count'[j] <= count[j]
        BY <1>4, <1>8 DEF TypeOK
    <2> QED BY <1>5, <2>1
<1>9. ASSUME NEW r \in Requests, login_reset(r) PROVE \E k \in Keys : Vanishes(k)
    BY <1>9, CallFields DEF login_reset
<1> QED
    BY <1>6, <1>7, <1>8, <1>9
    DEF Next, step, request_arrives, login_expire, login_select, get_current_user, select_target,
        commit, insert, request_dies, window_ends, redis, vars

(***************************************************************************)
(* The call stays what it is, and what is known of the copy and the table  *)
(* carries the request from its check to its commit.                       *)
(***************************************************************************)
LEMMA NextRequests ==
    ASSUME TypeOK, RequestLedger, [Next]_vars
    PROVE  RequestLedger' /\ user' \in [Users -> Row \union {None}]
<1> DEFINE Fine(r) ==
        /\ pc[r] # "new" => call[r] \in Calls
        /\ pc[r] \in {"incr", "expire", "select", "reset"} => call[r].op = "login"
        /\ pc[r] = "auth" => call[r].op # "login"
        /\ pc[r] = "target" => call[r].op \notin {"login", "change"}
        /\ pc[r] \in {"reset", "target"} => copy[r] \in Row /\ user[call[r].actor] \in Row
        /\ pc[r] = "commit" /\ call[r].op # "create" =>
              copy[r] \in Row /\ user[call[r].target] \in Row
<1>1. \A r \in Requests : Fine(r)
    BY DEF RequestLedger
<1>2. ASSUME NEW r \in Requests, user' \in [Users -> Row \union {None}], Fine(r)',
             \A u \in Users : user[u] \in Row => user'[u] \in Row,
             \A q \in Requests \ {r} : pc'[q] = pc[q] /\ call'[q] = call[q] /\ copy'[q] = copy[q]
      PROVE  RequestLedger' /\ user' \in [Users -> Row \union {None}]
    <2>1. ASSUME NEW q \in Requests \ {r} PROVE Fine(q)'
        <3>1. Fine(q)
            BY <1>1
        <3>2. pc[q] # "new" => call[q].actor \in Users /\ call[q].target \in Users
            BY CallFields
        <3> QED BY <1>2, <3>1, <3>2
    <2> QED BY <1>2, <2>1 DEF RequestLedger
<1>3. ASSUME NEW r \in Requests, NEW c \in Calls, request_arrives(r, c)
      PROVE  RequestLedger' /\ user' \in [Users -> Row \union {None}]
    <2>1. /\ pc'[r] = (IF c.op = "login" THEN "incr" ELSE "auth") /\ call'[r] = c
          /\ \A q \in Requests \ {r} : pc'[q] = pc[q] /\ call'[q] = call[q]
          /\ user' = user /\ copy' = copy
        BY <1>3 DEF request_arrives, GoesTo, TypeOK
    <2>2. Fine(r)'
        BY <2>1
    <2>3. user' \in [Users -> Row \union {None}]
        BY <2>1 DEF TypeOK
    <2> QED BY <1>2, <2>1, <2>2, <2>3
<1>4. ASSUME NEW r \in Requests, NEW to, user' = user, call' = call, GoesTo(r, to),
             \A q \in Requests \ {r} : copy'[q] = copy[q],
             pc[r] # "new",
             \/ to \notin {"new", "incr", "expire", "select", "reset", "auth", "target", "commit"}
             \/ to \in {"expire", "select"} /\ call[r].op = "login"
             \/ to = "reset" /\ call[r].op = "login" /\ copy'[r] \in Row /\ user[call[r].actor] \in Row
             \/ /\ to = "target" /\ call[r].op \notin {"login", "change"}
                /\ copy'[r] \in Row /\ user[call[r].actor] \in Row
             \/ /\ to = "commit"
                /\ call[r].op # "create" => copy'[r] \in Row /\ user[call[r].target] \in Row
      PROVE  RequestLedger' /\ user' \in [Users -> Row \union {None}]
    <2>1. pc'[r] = to /\ \A q \in Requests \ {r} : pc'[q] = pc[q]
        BY <1>4 DEF GoesTo, TypeOK
    <2>2. Fine(r)'
        BY <1>1, <1>4, <2>1
    <2>3. user' \in [Users -> Row \union {None}]
        BY <1>4 DEF TypeOK
    <2> QED BY <1>2, <1>4, <2>1, <2>2, <2>3
<1>5. ASSUME NEW r \in Requests, login_incr(r) \/ login_expire(r) \/ request_dies(r)
      PROVE  RequestLedger' /\ user' \in [Users -> Row \union {None}]
    <2>1. /\ user' = user /\ call' = call /\ copy' = copy /\ pc[r] # "new"
          /\ \/ pc[r] \in {"incr", "expire"} /\ \E to \in {"expire", "limited", "select"} : GoesTo(r, to)
             \/ GoesTo(r, "died")
        BY <1>5 DEF login_incr, login_expire, request_dies, Steps
    <2>2. pc[r] \in {"incr", "expire"} => call[r].op = "login"
        BY <1>1
    <2>3. PICK to : /\ GoesTo(r, to)
                    /\ \/ to \in {"expire", "select"} /\ call[r].op = "login"
                       \/ to \in {"limited", "died"}
        BY <2>1, <2>2
    <2> QED BY <1>4, <2>1, <2>3
<1>6. ASSUME NEW r \in Requests, login_select(r)
      PROVE  RequestLedger' /\ user' \in [Users -> Row \union {None}]
    <2>1. pc[r] = "select" /\ call[r].op = "login" /\ call[r].actor \in Users
        BY <1>1, <1>6, CallFields DEF login_select
    <2>2. /\ user' = user /\ call' = call /\ \A q \in Requests \ {r} : copy'[q] = copy[q]
          /\ copy'[r] = user[call[r].actor]
          /\ \/ GoesTo(r, "denied")
             \/ GoesTo(r, "reset") /\ user[call[r].actor] # None
        BY <1>6 DEF login_select, Reads, TypeOK
    <2>3. user[call[r].actor] \in Row \union {None}
        BY <2>1 DEF TypeOK
    <2> QED BY <1>4, <2>1, <2>2, <2>3
<1>7. ASSUME NEW r \in Requests, login_reset(r)
      PROVE  RequestLedger' /\ user' \in [Users -> Row \union {None}]
    <2>1. /\ pc[r] = "reset" /\ call[r].op = "login" /\ copy[r] \in Row
          /\ user[call[r].actor] \in Row /\ call[r].target = call[r].actor
        BY <1>1, <1>7, CallFields DEF login_reset
    <2>2. user' = user /\ call' = call /\ copy' = copy /\ GoesTo(r, "commit")
        BY <1>7 DEF login_reset
    <2> QED BY <1>4, <2>1, <2>2
<1>8. ASSUME NEW r \in Requests, get_current_user(r)
      PROVE  RequestLedger' /\ user' \in [Users -> Row \union {None}]
    <2>1. /\ pc[r] = "auth" /\ call[r].op # "login" /\ call[r].actor \in Users
          /\ call[r].op = "change" => call[r].target = call[r].actor
        BY <1>1, <1>8, CallFields DEF get_current_user
    <2>2. /\ user' = user /\ call' = call /\ \A q \in Requests \ {r} : copy'[q] = copy[q]
          /\ copy'[r] = user[call[r].actor]
          /\ \/ GoesTo(r, "denied")
             \/ GoesTo(r, "commit") /\ call[r].op = "change" /\ user[call[r].actor] # None
             \/ GoesTo(r, "target") /\ call[r].op # "change" /\ user[call[r].actor] # None
        BY <1>8 DEF get_current_user, Reads, TypeOK
    <2>3. user[call[r].actor] \in Row \union {None}
        BY <2>1 DEF TypeOK
    <2> QED BY <1>4, <2>1, <2>2, <2>3
<1>9. ASSUME NEW r \in Requests, select_target(r)
      PROVE  RequestLedger' /\ user' \in [Users -> Row \union {None}]
    <2> DEFINE row == IF call[r].target = call[r].actor THEN copy[r] ELSE user[call[r].target]
    <2>1. /\ pc[r] = "target" /\ copy[r] \in Row /\ user[call[r].actor] \in Row
          /\ call[r].target \in Users
        BY <1>1, <1>9, CallFields DEF select_target
    <2>2. row \in Row \union {None}
        BY <2>1 DEF TypeOK
    <2>3. /\ user' = user /\ call' = call /\ \A q \in Requests \ {r} : copy'[q] = copy[q]
          /\ copy'[r] = row
          /\ GoesTo(r, IF (row = None) = (call[r].op = "create") THEN "commit" ELSE "failed")
        BY <1>9 DEF select_target, Reads, TypeOK
    <2>4. \/ GoesTo(r, "failed")
          \/ GoesTo(r, "commit") /\ (call[r].op # "create" => row # None)
        BY <2>3
    <2>5. row \in Row => user[call[r].target] \in Row
        BY <2>1, AccountsAssumption DEF TypeOK
    <2> HIDE DEF row
    <2> QED BY <1>4, <2>1, <2>2, <2>3, <2>4, <2>5
<1>10. ASSUME NEW r \in Requests, commit(r)
       PROVE  RequestLedger' /\ user' \in [Users -> Row \union {None}]
    <2>1. /\ pc[r] = "commit" /\ copy[r] \in Row /\ user[call[r].target] \in Row
          /\ call[r] \in Calls /\ call[r].target \in Users
        BY <1>1, <1>10, CallFields DEF commit
    <2>2. updated(call[r], copy[r], user[call[r].target]) \in Row
        BY <2>1, Updated
    <2>3. /\ user' \in [Users -> Row \union {None}]
          /\ \A u \in Users : user[u] \in Row => user'[u] \in Row
        BY <1>10, <2>1, <2>2 DEF commit, TypeOK
    <2>4. /\ pc'[r] = "ok" /\ call' = call
          /\ \A q \in Requests \ {r} : pc'[q] = pc[q] /\ copy'[q] = copy[q]
        BY <1>10 DEF commit, GoesTo, Reads, TypeOK
    <2> QED BY <1>2, <2>1, <2>3, <2>4
<1>11. ASSUME NEW r \in Requests, insert(r)
       PROVE  RequestLedger' /\ user' \in [Users -> Row \union {None}]
    <2>1. /\ pc[r] = "commit" /\ call[r] \in Calls /\ call[r].target \in Users
          /\ call[r].new \in Passwords /\ call[r].role \in Roles
        BY <1>11, CallFields DEF insert
    <2>2. [pw |-> call[r].new, role |-> call[r].role, active |-> TRUE] \in Row
        BY <2>1 DEF Row
    <2>3. /\ user' \in [Users -> Row \union {None}]
          /\ \A u \in Users : user[u] \in Row => user'[u] \in Row
        BY <1>11, <2>1, <2>2 DEF insert, TypeOK
    <2>4. /\ pc'[r] \in {"ok", "failed"} /\ call' = call /\ copy' = copy
          /\ \A q \in Requests \ {r} : pc'[q] = pc[q]
        BY <1>11 DEF insert, GoesTo, TypeOK
    <2> QED BY <1>2, <2>1, <2>3, <2>4
<1>12. CASE (\E k \in Keys : window_ends(k)) \/ UNCHANGED vars
    <2>1. user' = user /\ call' = call /\ pc' = pc /\ copy' = copy
        BY <1>12 DEF window_ends, vars, locals
    <2> QED BY <2>1 DEF RequestLedger, TypeOK
<1> QED
    BY <1>3, <1>5, <1>6, <1>7, <1>8, <1>9, <1>10, <1>11, <1>12 DEF Next, step

(***************************************************************************)
(* Every step keeps the types of the table, the counters and the locals.   *)
(***************************************************************************)
LEMMA NextTypeOK ==
    ASSUME TypeOK, RequestLedger, CountLedger, [Next]_vars
    PROVE  TypeOK'
<1>1. /\ user' \in [Users -> Row \union {None}]
      /\ count' \in [Keys -> 0 .. Cardinality(Requests)]
    BY NextCount, NextRequests
<1>2. ASSUME NEW r \in Requests, NEW to \in Steps \union Outcomes, GoesTo(r, to)
      PROVE  pc' \in [Requests -> Steps \union Outcomes \union {"new"}]
    BY <1>2 DEF GoesTo, TypeOK
<1>3. ASSUME NEW k \in Keys, Vanishes(k)
      PROVE  /\ ttl' \in SUBSET Keys /\ orphaned' \in SUBSET Keys
             /\ checks' \in [Keys -> Nat] /\ carried' \in [Keys -> Nat]
    <2>1. Past(k) \in SUBSET Requests /\ Cardinality(Past(k)) \in Nat
        BY CountedSets
    <2>2. carried' = [carried EXCEPT ![k] = Cardinality(Past(k))]
        BY <1>3 DEF Vanishes, Past
    <2>3. carried' \in [Keys -> Nat]
        BY <2>1, <2>2 DEF TypeOK
    <2> QED BY <1>3, <2>3 DEF Vanishes, TypeOK
<1>4. ASSUME NEW r \in Requests, NEW c \in Calls, request_arrives(r, c) PROVE TypeOK'
    <2>1. pc' \in [Requests -> Steps \union Outcomes \union {"new"}]
        BY <1>2, <1>4 DEF request_arrives, Steps
    <2>2. moments' \in [Requests -> SUBSET BOOLEAN] /\ call' \in [Requests -> Calls \union {None}]
        <3>1. Allowed(c, user[c.actor]) \in BOOLEAN
            BY DEF Allowed
        <3> QED BY <1>4, <3>1 DEF request_arrives, TypeOK
    <2> QED BY <1>1, <1>4, <2>1, <2>2 DEF request_arrives, redis, limits, TypeOK
<1>5. ASSUME NEW r \in Requests, login_incr(r) PROVE TypeOK'
    <2>1. pc' \in [Requests -> Steps \union Outcomes \union {"new"}]
        BY <1>2, <1>5 DEF login_incr, Steps, Outcomes
    <2> QED BY <1>1, <1>5, <2>1 DEF login_incr, limits, TypeOK
<1>6. ASSUME NEW r \in Requests, login_expire(r) PROVE TypeOK'
    <2>1. pc' \in [Requests -> Steps \union Outcomes \union {"new"}]
        BY <1>2, <1>6 DEF login_expire, Steps, Outcomes
    <2>2. ttl' \in SUBSET Keys /\ orphaned' \in SUBSET Keys
        BY <1>6, CallFields DEF login_expire, TypeOK
    <2> QED BY <1>1, <1>6, <2>1, <2>2 DEF login_expire, TypeOK
<1>7. ASSUME NEW r \in Requests, login_select(r) PROVE TypeOK'
    <2>1. pc' \in [Requests -> Steps \union Outcomes \union {"new"}]
        BY <1>2, <1>7 DEF login_select, Steps, Outcomes
    <2>2. call[r].key \in Keys /\ call[r].actor \in Users
        BY <1>7, CallFields DEF login_select
    <2>3. checks' \in [Keys -> Nat]
        BY <1>7, <2>2 DEF login_select, TypeOK
    <2>4. copy' \in [Requests -> Row \union {None}]
        BY <1>7, <2>2 DEF login_select, Reads, TypeOK
    <2> QED BY <1>1, <1>7, <2>1, <2>3, <2>4 DEF login_select, redis, TypeOK
<1>8. ASSUME NEW r \in Requests, login_reset(r) PROVE TypeOK'
    <2>1. pc' \in [Requests -> Steps \union Outcomes \union {"new"}]
        BY <1>2, <1>8 DEF login_reset, Steps, Outcomes
    <2>2. PICK k \in Keys : Vanishes(k)
        BY <1>8, CallFields DEF login_reset
    <2>3. /\ ttl' \in SUBSET Keys /\ orphaned' \in SUBSET Keys
          /\ checks' \in [Keys -> Nat] /\ carried' \in [Keys -> Nat]
        BY <1>3, <2>2
    <2> QED BY <1>1, <1>8, <2>1, <2>3 DEF login_reset, TypeOK
<1>9. ASSUME NEW r \in Requests, get_current_user(r) PROVE TypeOK'
    <2>1. pc' \in [Requests -> Steps \union Outcomes \union {"new"}]
        BY <1>2, <1>9 DEF get_current_user, Steps, Outcomes
    <2>2. copy' \in [Requests -> Row \union {None}]
        BY <1>9, CallFields DEF get_current_user, Reads, TypeOK
    <2> QED BY <1>1, <1>9, <2>1, <2>2 DEF get_current_user, redis, limits, TypeOK
<1>10. ASSUME NEW r \in Requests, select_target(r) PROVE TypeOK'
    <2>1. pc' \in [Requests -> Steps \union Outcomes \union {"new"}]
        BY <1>2, <1>10 DEF select_target, Steps, Outcomes
    <2>2. copy' \in [Requests -> Row \union {None}]
        BY <1>10, CallFields DEF select_target, Reads, TypeOK
    <2> QED BY <1>1, <1>10, <2>1, <2>2 DEF select_target, redis, limits, TypeOK
<1>11. ASSUME AnotherMoment PROVE moments' \in [Requests -> SUBSET BOOLEAN]
    <2>1. \A q \in Requests : Allowed(call[q], user'[call[q].actor]) \in BOOLEAN
        BY DEF Allowed
    <2> QED BY <1>11, <2>1 DEF AnotherMoment, TypeOK
<1>12. ASSUME NEW r \in Requests, commit(r) \/ insert(r) PROVE TypeOK'
    <2>1. pc' \in [Requests -> Steps \union Outcomes \union {"new"}]
        BY <1>2, <1>12 DEF commit, insert, Outcomes
    <2>2. moments' \in [Requests -> SUBSET BOOLEAN]
        BY <1>11, <1>12 DEF commit, insert
    <2>3. copy' \in [Requests -> Row \union {None}]
        BY <1>12 DEF commit, insert, Reads, TypeOK
    <2> QED BY <1>1, <1>12, <2>1, <2>2, <2>3 DEF commit, insert, redis, limits, TypeOK
<1>13. ASSUME NEW r \in Requests, request_dies(r) PROVE TypeOK'
    <2>1. pc' \in [Requests -> Steps \union Outcomes \union {"new"}]
        BY <1>2, <1>13 DEF request_dies, Outcomes
    <2>2. orphaned' \in SUBSET Keys
        <3>1. call[r].key \in Keys
            BY <1>13, CallFields DEF request_dies, Steps
        <3> QED BY <1>13, <3>1 DEF request_dies, TypeOK
    <2>3. faults' \in 0 .. MaxFaults
        BY <1>13, AccountsAssumption DEF request_dies, TypeOK
    <2> QED BY <1>1, <1>13, <2>1, <2>2, <2>3 DEF request_dies, redis, TypeOK
<1>14. ASSUME NEW k \in Keys, window_ends(k) PROVE TypeOK'
    <2>1. /\ ttl' \in SUBSET Keys /\ orphaned' \in SUBSET Keys
          /\ checks' \in [Keys -> Nat] /\ carried' \in [Keys -> Nat]
        BY <1>3, <1>14 DEF window_ends
    <2> QED BY <1>1, <1>14, <2>1 DEF window_ends, locals, TypeOK
<1>15. CASE UNCHANGED vars
    BY <1>15 DEF vars, redis, locals, limits, TypeOK
<1> QED
    BY <1>4, <1>5, <1>6, <1>7, <1>8, <1>9, <1>10, <1>12, <1>13, <1>14, <1>15 DEF Next, step

(***************************************************************************)
(* Whatever others commit, a request in flight has seen the present        *)
(* moment; a check that lets it pass, or refuses it, decides by the row of *)
(* such a moment.                                                          *)
(***************************************************************************)
LEMMA NextMoments ==
    ASSUME TypeOK, RequestLedger, MomentLedger, DecisionsHaveAMoment, [Next]_vars
    PROVE  MomentLedger' /\ DecisionsHaveAMoment'
<1> DEFINE Kept(r) ==
        /\ pc[r] \in Steps => Allowed(call[r], user[call[r].actor]) \in moments[r]
        /\ pc[r] \in {"reset", "target", "commit", "ok"} => TRUE \in moments[r]
        /\ pc[r] = "denied" => FALSE \in moments[r]
<1>1. \A r \in Requests : Kept(r)
    BY DEF MomentLedger, DecisionsHaveAMoment
<1>2. ASSUME \A r \in Requests : Kept(r)'
      PROVE  MomentLedger' /\ DecisionsHaveAMoment'
    BY <1>2 DEF MomentLedger, DecisionsHaveAMoment
<1>3. ASSUME NEW r \in Requests, NEW c \in Calls, request_arrives(r, c), NEW q \in Requests
      PROVE  Kept(q)'
    <2>1. user' = user
        BY <1>3 DEF request_arrives
    <2>2. CASE q = r
        <3>1. pc'[q] \in {"incr", "auth"} /\ call'[q] = c
            BY <1>3, <2>2 DEF request_arrives, GoesTo, TypeOK
        <3>2. moments'[q] = {Allowed(c, user[c.actor])}
            BY <1>3, <2>2 DEF request_arrives, TypeOK
        <3> QED BY <2>1, <3>1, <3>2
    <2>3. CASE q # r
        <3>1. pc'[q] = pc[q] /\ call'[q] = call[q] /\ moments'[q] = moments[q]
            BY <1>3, <2>3 DEF request_arrives, GoesTo, TypeOK
        <3>2. Kept(q)
            BY <1>1
        <3> QED BY <2>1, <3>1, <3>2
    <2> QED BY <2>2, <2>3
<1>4. ASSUME NEW r \in Requests, NEW to, pc[r] \in Steps, user' = user, call' = call,
             moments' = moments, GoesTo(r, to),
             \/ to \notin {"reset", "target", "commit", "ok", "denied"}
             \/ /\ to \in {"reset", "target", "commit"}
                /\ Allowed(call[r], user[call[r].actor]) \/ pc[r] \in {"reset", "target"}
             \/ to = "denied" /\ ~Allowed(call[r], user[call[r].actor]),
             NEW q \in Requests
      PROVE  Kept(q)'
    <2>1. Kept(q)
        BY <1>1
    <2>2. CASE q = r
        <3>1. pc'[q] = to
            BY <1>4, <2>2 DEF GoesTo, TypeOK
        <3>2. Allowed(call[q], user[call[q].actor]) \in moments'[q]
            BY <1>4, <2>1, <2>2
        <3>3. to \in {"reset", "target", "commit", "ok"} => TRUE \in moments'[q]
            <4>1. CASE Allowed(call[q], user[call[q].actor])
                <5>1. Allowed(call[q], user[call[q].actor]) = TRUE
                    BY <4>1 DEF Allowed
                <5> QED BY <3>2, <5>1
            <4>2. CASE ~Allowed(call[q], user[call[q].actor])
                BY <1>4, <2>1, <2>2, <4>2
            <4> QED BY <4>1, <4>2
        <3>4. to = "denied" => FALSE \in moments'[q]
            <4>1. to = "denied" => Allowed(call[q], user[call[q].actor]) = FALSE
                BY <1>4, <2>2 DEF Allowed
            <4> QED BY <3>2, <4>1
        <3> QED BY <1>4, <3>1, <3>2, <3>3, <3>4
    <2>3. CASE q # r
        <3>1. pc'[q] = pc[q]
            BY <1>4, <2>3 DEF GoesTo, TypeOK
        <3> QED BY <1>4, <2>1, <3>1
    <2> QED BY <2>2, <2>3
<1>5. ASSUME NEW r \in Requests, login_incr(r) \/ login_expire(r) \/ request_dies(r),
             NEW q \in Requests
      PROVE  Kept(q)'
    <2>1. /\ user' = user /\ call' = call /\ moments' = moments /\ pc[r] \in Steps
          /\ \E to \in {"expire", "limited", "select", "died"} : GoesTo(r, to)
        BY <1>5 DEF login_incr, login_expire, request_dies, Steps
    <2>2. PICK to \in {"expire", "limited", "select", "died"} : GoesTo(r, to)
        BY <2>1
    <2> QED BY <1>4, <2>1, <2>2
<1>6. ASSUME NEW r \in Requests, login_select(r), NEW q \in Requests PROVE Kept(q)'
    <2>1. pc[r] = "select" /\ pc[r] \in Steps /\ call[r].op = "login"
        BY <1>6 DEF login_select, RequestLedger, Steps
    <2>2. user' = user /\ call' = call /\ moments' = moments
        BY <1>6 DEF login_select
    <2>3. \/ GoesTo(r, "denied") /\ ~Allowed(call[r], user[call[r].actor])
          \/ GoesTo(r, "reset") /\ Allowed(call[r], user[call[r].actor])
        BY <1>6, <2>1 DEF login_select, Allowed, UserOps
    <2> QED BY <1>4, <2>1, <2>2, <2>3
<1>7. ASSUME NEW r \in Requests, login_reset(r) \/ select_target(r), NEW q \in Requests
      PROVE  Kept(q)'
    <2>1. /\ user' = user /\ call' = call /\ moments' = moments
          /\ pc[r] \in {"reset", "target"} /\ pc[r] \in Steps
          /\ \E to \in {"commit", "failed"} : GoesTo(r, to)
        BY <1>7 DEF login_reset, select_target, Steps
    <2>2. PICK to \in {"commit", "failed"} : GoesTo(r, to)
        BY <2>1
    <2> QED BY <1>4, <2>1, <2>2
<1>8. ASSUME NEW r \in Requests, get_current_user(r), NEW q \in Requests PROVE Kept(q)'
    <2>1. pc[r] = "auth" /\ pc[r] \in Steps /\ pc[r] # "new" /\ call[r].op # "login"
        BY <1>8 DEF get_current_user, RequestLedger, Steps
    <2>2. call[r].op \in {"change", "create"} \union UserOps /\ call[r].actor \in Users
        BY <2>1, CallFields
    <2>3. user' = user /\ call' = call /\ moments' = moments
        BY <1>8 DEF get_current_user
    <2>4. user[call[r].actor] \in Row \union {None}
        BY <2>2 DEF TypeOK
    <2>5. user[call[r].actor] # None =>
             (permits(call[r], user[call[r].actor]) <=> Allowed(call[r], user[call[r].actor]))
        <3>1. user[call[r].actor] # None => user[call[r].actor].role \in Roles
            BY <2>4 DEF Row
        <3> QED BY <2>2, <3>1 DEF permits, Allowed, Roles, UserOps
    <2>6. user[call[r].actor] = None => ~Allowed(call[r], user[call[r].actor])
        BY DEF Allowed
    <2>7. \/ GoesTo(r, "denied") /\ ~Allowed(call[r], user[call[r].actor])
          \/ GoesTo(r, "commit") /\ Allowed(call[r], user[call[r].actor])
          \/ GoesTo(r, "target") /\ Allowed(call[r], user[call[r].actor])
        BY <1>8, <2>5, <2>6 DEF get_current_user
    <2> QED BY <1>4, <2>1, <2>3, <2>7
<1>9. ASSUME NEW r \in Requests, commit(r) \/ insert(r), NEW q \in Requests PROVE Kept(q)'
    <2>1. /\ call' = call /\ AnotherMoment /\ pc[r] = "commit"
          /\ \E to \in {"ok", "failed"} : GoesTo(r, to)
        BY <1>9 DEF commit, insert
    <2>2. Kept(q)
        BY <1>1
    <2>3. CASE pc[q] \in Steps
        <3>1. moments'[q] = moments[q] \union {Allowed(call[q], user'[call[q].actor])}
            BY <2>1, <2>3 DEF AnotherMoment
        <3>2. pc'[q] = pc[q] \/ (pc[q] = "commit" /\ pc'[q] \in {"ok", "failed"})
            BY <2>1 DEF GoesTo, TypeOK
        <3>3. pc'[q] = pc[q] => Kept(q)'
            BY <2>1, <2>2, <3>1
        <3>4. pc[q] = "commit" /\ pc'[q] \in {"ok", "failed"} => Kept(q)'
            BY <2>2, <3>1 DEF Steps
        <3> QED BY <3>2, <3>3, <3>4
    <2>4. CASE pc[q] \notin Steps
        <3>1. pc'[q] = pc[q] /\ moments'[q] = moments[q]
            BY <2>1, <2>4 DEF AnotherMoment, GoesTo, Steps, TypeOK
        <3> QED BY <2>2, <2>4, <3>1
    <2> QED BY <2>3, <2>4
<1>10. ASSUME (\E k \in Keys : window_ends(k)) \/ UNCHANGED vars, NEW q \in Requests
       PROVE  Kept(q)'
    <2>1. user' = user /\ pc' = pc /\ call' = call /\ moments' = moments
        BY <1>10 DEF window_ends, vars, locals
    <2>2. Kept(q)
        BY <1>1
    <2> QED BY <2>1, <2>2
<1> QED
    BY <1>2, <1>3, <1>5, <1>6, <1>7, <1>8, <1>9, <1>10 DEF Next, step

(***************************************************************************)
(* What a key has room for, and when its pass ledger survives a step.      *)
(***************************************************************************)
LEMMA PassKept ==
    ASSUME TypeOK, PassLedger, NEW k \in Keys, Past(k)' \subseteq Past(k),
           count[k] <= count'[k], count'[k] \in Nat,
           checks'[k] = checks[k], carried'[k] = carried[k]
    PROVE  checks'[k] + Cardinality(Past(k)')
              <= (IF count'[k] < MaxAttempts THEN count'[k] ELSE MaxAttempts) + carried'[k]
<1>1. /\ Cardinality(Past(k)) \in Nat /\ Cardinality(Past(k)') \in Nat
      /\ Cardinality(Past(k)') <= Cardinality(Past(k))
    BY CountedSets, Counting
<1>2. count[k] \in Nat /\ checks[k] \in Nat /\ carried[k] \in Nat /\ MaxAttempts \in Nat
    BY AccountsAssumption DEF TypeOK
<1>3. checks[k] + Cardinality(Past(k))
         <= (IF count[k] < MaxAttempts THEN count[k] ELSE MaxAttempts) + carried[k]
    BY DEF PassLedger
<1> QED BY <1>1, <1>2, <1>3

(***************************************************************************)
(* The counter lets an attempt through only while it is below the limit,   *)
(* the check uses the attempt up, and a window that ends carries over the  *)
(* attempts that are still to be checked.                                  *)
(***************************************************************************)
LEMMA NextPass ==
    ASSUME TypeOK, TypeOK', RequestLedger, PassLedger, [Next]_vars
    PROVE  PassLedger'
<1> SUFFICES ASSUME NEW k \in Keys
             PROVE  checks'[k] + Cardinality(Past(k)')
                       <= (IF count'[k] < MaxAttempts THEN count'[k] ELSE MaxAttempts) + carried'[k]
    BY DEF PassLedger
<1> DEFINE Room == checks'[k] + Cardinality(Past(k)')
                      <= (IF count'[k] < MaxAttempts THEN count'[k] ELSE MaxAttempts) + carried'[k]
<1>1. /\ Past(k) \in SUBSET Requests /\ Past(k)' \in SUBSET Requests
      /\ Cardinality(Past(k)) \in Nat /\ Cardinality(Past(k)') \in Nat
    BY CountedSets
<1>2. /\ count[k] \in Nat /\ checks[k] \in Nat /\ carried[k] \in Nat
      /\ count'[k] \in Nat /\ MaxAttempts \in Nat \ {0}
    BY AccountsAssumption DEF TypeOK
<1>3. checks[k] + Cardinality(Past(k))
         <= (IF count[k] < MaxAttempts THEN count[k] ELSE MaxAttempts) + carried[k]
    BY DEF PassLedger
<1>4. ASSUME count' = count, checks' = checks, carried' = carried, Past(k)' \subseteq Past(k)
      PROVE  Room
    BY <1>2, <1>4, PassKept
<1>5. ASSUME NEW r \in Requests, NEW c \in Calls, request_arrives(r, c) PROVE Room
    <2>1. Past(k)' \subseteq Past(k)
        BY <1>5 DEF request_arrives, GoesTo, Past, TypeOK
    <2> QED BY <1>4, <1>5, <2>1 DEF request_arrives, redis, limits
<1>6. ASSUME NEW r \in Requests, login_incr(r) PROVE Room
    <2>1. /\ pc[r] = "incr" /\ call' = call /\ checks' = checks /\ carried' = carried
          /\ count' = [count EXCEPT ![call[r].key] = count[call[r].key] + 1]
        BY <1>6 DEF login_incr, limits
    <2>2. CASE call[r].key # k
        <3>1. count'[k] = count[k]
            BY <2>1, <2>2 DEF TypeOK
        <3>2. Past(k)' \subseteq Past(k)
            BY <1>6, <2>1, <2>2 DEF login_incr, GoesTo, Past, TypeOK
        <3> QED BY <1>2, <2>1, <3>1, <3>2, PassKept
    <2>3. CASE call[r].key = k
        <3>1. count'[k] = count[k] + 1
            BY <2>1, <2>3 DEF TypeOK
        <3>2. CASE count[k] < MaxAttempts
            <4>1. Past(k)' \subseteq Past(k) \union {r} /\ r \notin Past(k)
                BY <1>6, <2>1 DEF login_incr, GoesTo, Past, TypeOK
            <4>2. Cardinality(Past(k)') <= Cardinality(Past(k) \union {r})
                BY <1>1, <4>1, Counting
            <4>3. Cardinality(Past(k) \union {r}) = Cardinality(Past(k)) + 1
                BY <1>1, <4>1, Counting
            <4>4. Cardinality(Past(k)') <= Cardinality(Past(k)) + 1
                BY <4>2, <4>3
            <4> QED BY <1>1, <1>2, <1>3, <2>1, <3>1, <3>2, <4>4
        <3>3. CASE ~(count[k] < MaxAttempts)
            <4>1. count[k] + 1 > MaxAttempts /\ count[k] + 1 # 1
                BY <1>2, <3>3
            <4>2. GoesTo(r, "limited")
                BY <1>6, <2>3, <4>1 DEF login_incr
            <4>3. Past(k)' \subseteq Past(k)
                BY <2>1, <4>2 DEF GoesTo, Past, TypeOK
            <4>4. count[k] <= count'[k]
                BY <1>2, <3>1
            <4> QED BY <1>2, <2>1, <4>3, <4>4, PassKept
        <3> QED BY <3>2, <3>3
    <2> QED BY <2>2, <2>3
<1>7. ASSUME NEW r \in Requests, login_select(r) PROVE Room
    <2>1. /\ pc[r] = "select" /\ call' = call /\ count' = count /\ carried' = carried
          /\ checks' = [checks EXCEPT ![call[r].key] = checks[call[r].key] + 1]
          /\ \E to \in {"denied", "reset"} : GoesTo(r, to)
        BY <1>7 DEF login_select, redis
    <2>2. Past(k)' = Past(k) \ {r}
        BY <2>1 DEF GoesTo, Past, TypeOK
    <2>3. CASE call[r].key # k
        <3>1. checks'[k] = checks[k]
            BY <2>1, <2>3 DEF TypeOK
        <3>2. Past(k)' \subseteq Past(k) /\ count[k] <= count'[k] /\ carried'[k] = carried[k]
            BY <1>2, <2>1, <2>2
        <3> QED BY <1>2, <3>1, <3>2, PassKept
    <2>4. CASE call[r].key = k
        <3>1. checks'[k] = checks[k] + 1
            BY <2>1, <2>4 DEF TypeOK
        <3>2. r \in Past(k)
            BY <2>1, <2>4 DEF Past
        <3>3. Cardinality(Past(k)') = Cardinality(Past(k)) - 1
            BY <1>1, <2>2, <3>2, Counting
        <3> QED BY <1>1, <1>2, <1>3, <2>1, <3>1, <3>3
    <2> QED BY <2>3, <2>4
<1>8. ASSUME NEW j \in Keys, Vanishes(j), Past(k)' \subseteq Past(k) PROVE Room
    <2>1. CASE j = k
        <3>1. carried' = [carried EXCEPT ![k] = Cardinality(Past(k))]
            BY <1>8, <2>1 DEF Vanishes, Past
        <3>2. carried'[k] = Cardinality(Past(k)) /\ checks'[k] = 0 /\ count'[k] = 0
            BY <1>8, <2>1, <3>1 DEF Vanishes, TypeOK
        <3>3. Cardinality(Past(k)') <= Cardinality(Past(k))
            BY <1>1, <1>8, Counting
        <3> QED BY <1>1, <1>2, <3>2, <3>3
    <2>2. CASE j # k
        <3>1. carried'[k] = carried[k] /\ checks'[k] = checks[k] /\ count'[k] = count[k]
            BY <1>8, <2>2 DEF Vanishes, TypeOK
        <3> QED BY <1>2, <1>8, <3>1, PassKept
    <2> QED BY <2>1, <2>2
<1>9. ASSUME NEW r \in Requests, login_reset(r) PROVE Room
    <2>1. PICK j \in Keys : Vanishes(j)
        BY <1>9, CallFields DEF login_reset
    <2>2. Past(k)' \subseteq Past(k)
        BY <1>9 DEF login_reset, GoesTo, Past, TypeOK
    <2> QED BY <1>8, <2>1, <2>2
<1>10. ASSUME NEW j \in Keys, window_ends(j) PROVE Room
    <2>1. Vanishes(j) /\ Past(k)' = Past(k)
        BY <1>10 DEF window_ends, locals, Past
    <2> QED BY <1>8, <2>1
<1>11. ASSUME NEW r \in Requests,
              \/ login_expire(r) \/ get_current_user(r) \/ select_target(r)
              \/ commit(r) \/ insert(r) \/ request_dies(r)
       PROVE  Room
    <2>1. /\ count' = count /\ checks' = checks /\ carried' = carried /\ call' = call
          /\ pc[r] = "expire" \/ (\E to \in {"denied", "commit", "target", "failed", "ok", "died"} : GoesTo(r, to))
          /\ \E to : GoesTo(r, to)
        BY <1>11 DEF login_expire, get_current_user, select_target, commit, insert, request_dies,
                     redis, limits
    <2>2. Past(k)' \subseteq Past(k)
        BY <2>1 DEF GoesTo, Past, TypeOK
    <2> QED BY <1>4, <2>1, <2>2
<1>12. CASE UNCHANGED vars
    <2>1. count' = count /\ checks' = checks /\ carried' = carried /\ Past(k)' = Past(k)
        BY <1>12 DEF vars, redis, limits, locals, Past
    <2> QED BY <1>4, <2>1
<1> QED
    BY <1>5, <1>6, <1>7, <1>9, <1>10, <1>11, <1>12 DEF Next, step

(***************************************************************************)
(* The login whose INCR makes a counter sets its expiry next; until then   *)
(* only its own death leaves the counter without one.                      *)
(***************************************************************************)
LEMMA NextExpire ==
    ASSUME TypeOK, TypeOK', RequestLedger, CountersExpire, [Next]_vars
    PROVE  CountersExpire'
<1> SUFFICES ASSUME NEW k \in Keys, count'[k] > 0
             PROVE  \/ k \in ttl' \union orphaned'
                    \/ \E r \in Requests : pc'[r] = "expire" /\ call'[r].key = k
    BY DEF CountersExpire
<1> DEFINE Dated  == k \in ttl' \union orphaned'
           InCare == \E r \in Requests : pc'[r] = "expire" /\ call'[r].key = k
<1>1. count[k] > 0 =>
          \/ k \in ttl \union orphaned
          \/ \E r \in Requests : pc[r] = "expire" /\ call[r].key = k
    BY DEF CountersExpire
<1>2. count[k] \in Nat /\ count'[k] \in Nat
    BY DEF TypeOK
<1>3. ASSUME count'[k] = count[k], ttl' = ttl, orphaned' = orphaned,
             \A q \in Requests : pc[q] = "expire" => pc'[q] = "expire" /\ call'[q] = call[q]
      PROVE  Dated \/ InCare
    BY <1>1, <1>3
<1>4. ASSUME NEW r \in Requests, NEW c \in Calls, request_arrives(r, c) PROVE Dated \/ InCare
    <2>1. \A q \in Requests : pc[q] = "expire" => pc'[q] = "expire" /\ call'[q] = call[q]
        BY <1>4 DEF request_arrives, GoesTo, TypeOK
    <2> QED BY <1>3, <1>4, <2>1 DEF request_arrives, redis, limits
<1>5. ASSUME NEW r \in Requests, login_incr(r) PROVE Dated \/ InCare
    <2>1. /\ pc[r] = "incr" /\ call' = call /\ ttl' = ttl /\ orphaned' = orphaned
          /\ count' = [count EXCEPT ![call[r].key] = count[call[r].key] + 1]
        BY <1>5 DEF login_incr, limits
    <2>2. \A q \in Requests : pc[q] = "expire" => pc'[q] = "expire"
        BY <1>5, <2>1 DEF login_incr, GoesTo, TypeOK
    <2>3. CASE count[k] > 0
        BY <1>1, <2>1, <2>2, <2>3
    <2>4. CASE ~(count[k] > 0)
        <3>1. call[r].key = k /\ count[k] + 1 = 1
            BY <1>2, <2>1, <2>4 DEF TypeOK
        <3>2. GoesTo(r, "expire")
            BY <1>5, <3>1, AccountsAssumption DEF login_incr
        <3>3. pc'[r] = "expire"
            BY <3>2 DEF GoesTo, TypeOK
        <3> QED BY <2>1, <3>1, <3>3
    <2> QED BY <2>3, <2>4
<1>6. ASSUME NEW r \in Requests, login_expire(r) PROVE Dated \/ InCare
    <2>1. /\ pc[r] = "expire" /\ call' = call /\ count' = count
          /\ ttl' = (IF count[call[r].key] > 0 THEN ttl \union {call[r].key} ELSE ttl)
          /\ orphaned' = orphaned \ ttl' /\ GoesTo(r, "select")
        BY <1>6 DEF login_expire
    <2>2. k \in ttl \union orphaned => Dated
        BY <2>1
    <2>3. ASSUME NEW q \in Requests, pc[q] = "expire", call[q].key = k PROVE Dated \/ InCare
        <3>1. CASE q = r
            BY <2>1, <2>3, <3>1
        <3>2. CASE q # r
            BY <2>1, <2>3, <3>2 DEF GoesTo, TypeOK
        <3> QED BY <3>1, <3>2
    <2> QED BY <1>1, <2>1, <2>2, <2>3
<1>7. ASSUME NEW j \in Keys, Vanishes(j),
             \A q \in Requests : pc[q] = "expire" => pc'[q] = "expire" /\ call'[q] = call[q]
      PROVE  Dated \/ InCare
    <2>1. j # k
        BY <1>2, <1>7 DEF Vanishes, TypeOK
    <2>2. count'[k] = count[k] /\ ttl' = ttl \ {j} /\ orphaned' = orphaned \ {j}
        BY <1>7, <2>1 DEF Vanishes, TypeOK
    <2> QED BY <1>1, <1>7, <2>1, <2>2
<1>8. ASSUME NEW r \in Requests, login_reset(r) PROVE Dated \/ InCare
    <2>1. PICK j \in Keys : Vanishes(j)
        BY <1>8, CallFields DEF login_reset
    <2>2. \A q \in Requests : pc[q] = "expire" => pc'[q] = "expire" /\ call'[q] = call[q]
        BY <1>8 DEF login_reset, GoesTo, TypeOK
    <2> QED BY <1>7, <2>1, <2>2
<1>9. ASSUME NEW j \in Keys, window_ends(j) PROVE Dated \/ InCare
    BY <1>7, <1>9 DEF window_ends, locals
<1>10. ASSUME NEW r \in Requests,
              login_select(r) \/ get_current_user(r) \/ select_target(r) \/ commit(r) \/ insert(r)
       PROVE  Dated \/ InCare
    <2>1. /\ count' = count /\ ttl' = ttl /\ orphaned' = orphaned /\ call' = call
          /\ pc[r] # "expire" /\ \E to : GoesTo(r, to)
        BY <1>10 DEF login_select, get_current_user, select_target, commit, insert, redis, limits
    <2>2. \A q \in Requests : pc[q] = "expire" => pc'[q] = "expire"
        BY <2>1 DEF GoesTo, TypeOK
    <2> QED BY <1>3, <2>1, <2>2
<1>11. ASSUME NEW r \in Requests, request_dies(r) PROVE Dated \/ InCare
    <2>1. /\ count' = count /\ ttl' = ttl /\ call' = call /\ GoesTo(r, "died")
          /\ orphaned' = IF pc[r] = "expire" /\ count[call[r].key] > 0 /\ call[r].key \notin ttl
                         THEN orphaned \union {call[r].key} ELSE orphaned
        BY <1>11 DEF request_dies, redis
    <2>2. k \in ttl \union orphaned => Dated
        BY <2>1
    <2>3. ASSUME NEW q \in Requests, pc[q] = "expire", call[q].key = k PROVE Dated \/ InCare
        <3>1. CASE q = r
            BY <2>1, <2>3, <3>1
        <3>2. CASE q # r
            BY <2>1, <2>3, <3>2 DEF GoesTo, TypeOK
        <3> QED BY <3>1, <3>2
    <2> QED BY <1>1, <2>1, <2>2, <2>3
<1>12. CASE UNCHANGED vars
    BY <1>3, <1>12 DEF vars, redis, limits, locals
<1> QED
    BY <1>4, <1>5, <1>6, <1>8, <1>9, <1>10, <1>11, <1>12 DEF Next, step

(***************************************************************************)
(* Before the first request nothing is counted and nobody is served.       *)
(***************************************************************************)
LEMMA InitAccounts == Init => AccountsInv
<1> SUFFICES ASSUME Init PROVE AccountsInv
    OBVIOUS
<1>1. TypeOK
    <2>1. 0 \in 0 .. Cardinality(Requests) /\ 0 \in 0 .. MaxFaults
        BY Counting, AccountsAssumption
    <2> QED BY <2>1, AccountsAssumption DEF Init, TypeOK
<1>2. RequestLedger /\ MomentLedger /\ DecisionsHaveAMoment /\ CountersExpire
    BY DEF Init, RequestLedger, MomentLedger, DecisionsHaveAMoment, CountersExpire, Steps
<1>3. CountLedger /\ PassLedger
    <2>1. ASSUME NEW k \in Keys PROVE Cardinality(Past(k)) = 0 /\ Cardinality(Counted(k)) = 0
        <3>1. Past(k) = {} /\ Counted(k) = {}
            BY DEF Init, Past, Counted
        <3> QED BY <3>1, FS_EmptySet
    <2> QED BY <2>1, AccountsAssumption DEF Init, CountLedger, PassLedger
<1> QED BY <1>1, <1>2, <1>3 DEF AccountsInv

(***************************************************************************)
(* The ledgers of the limiter and of the requests hold in every reachable  *)
(* state.                                                                  *)
(***************************************************************************)
THEOREM AccountsInvariant == Spec => []AccountsInv
<1>1. AccountsInv /\ [Next]_vars => AccountsInv'
    <2> SUFFICES ASSUME AccountsInv, [Next]_vars PROVE AccountsInv'
        OBVIOUS
    <2>1. TypeOK'
        BY NextTypeOK DEF AccountsInv
    <2>2. RequestLedger' /\ CountLedger'
        BY NextRequests, NextCount DEF AccountsInv
    <2>3. MomentLedger' /\ DecisionsHaveAMoment'
        BY NextMoments DEF AccountsInv
    <2>4. PassLedger' /\ CountersExpire'
        BY <2>1, NextPass, NextExpire DEF AccountsInv
    <2> QED BY <2>1, <2>2, <2>3, <2>4 DEF AccountsInv
<1> QED BY InitAccounts, <1>1, PTL DEF Spec

(***************************************************************************)
(* The types of the table, the counters and the requests; a counter never  *)
(* exceeds the number of requests.                                         *)
(***************************************************************************)
THEOREM AccountsTypeOK == Spec => []TypeOK
<1>1. AccountsInv => TypeOK
    BY DEF AccountsInv
<1> QED BY AccountsInvariant, <1>1, PTL

(***************************************************************************)
(* Every request is served, or denied, by what its account was at one      *)
(* moment while it was served.                                             *)
(***************************************************************************)
THEOREM AccountsDecisions == Spec => []DecisionsHaveAMoment
<1>1. AccountsInv => DecisionsHaveAMoment
    BY DEF AccountsInv
<1> QED BY AccountsInvariant, <1>1, PTL

(***************************************************************************)
(* In one window no more passwords are checked than the limit and what was *)
(* in flight when the window began.                                        *)
(***************************************************************************)
THEOREM AccountsLimit == Spec => []LimitHolds
<1>1. AccountsInv => LimitHolds
    <2> SUFFICES ASSUME AccountsInv, NEW k \in Keys
                 PROVE  checks[k] <= MaxAttempts + carried[k]
        BY DEF LimitHolds
    <2>1. checks[k] + Cardinality(Past(k))
             <= (IF count[k] < MaxAttempts THEN count[k] ELSE MaxAttempts) + carried[k]
        BY DEF AccountsInv, PassLedger
    <2>2. Cardinality(Past(k)) \in Nat
        BY CountedSets DEF AccountsInv
    <2>3. count[k] \in Nat /\ checks[k] \in Nat /\ carried[k] \in Nat /\ MaxAttempts \in Nat
        BY AccountsAssumption DEF AccountsInv, TypeOK
    <2> QED BY <2>1, <2>2, <2>3
<1> QED BY AccountsInvariant, <1>1, PTL

(***************************************************************************)
(* No mix of INCR, EXPIRE and DELETE leaves a counter without an expiry,   *)
(* unless the login that made it dies.                                     *)
(***************************************************************************)
THEOREM AccountsExpiry == Spec => []CountersExpire
<1>1. AccountsInv => CountersExpire
    BY DEF AccountsInv
<1> QED BY AccountsInvariant, <1>1, PTL

(***************************************************************************)
(* The account of a name changes in one step only as the request that      *)
(* commits asks, whatever was committed since the request read the row.    *)
(***************************************************************************)
THEOREM AccountsUpdates == Spec => UpdatesAreTheRequests
<1> DEFINE Changes(u) == /\ user'[u].role = user[u].role
                         /\ ~user[u].active /\ user'[u].active => served(u, "enable")
                         /\ user[u].active /\ ~user'[u].active => served(u, "disable")
                         /\ user'[u].pw # user[u].pw => served(u, "reset") \/ served(u, "change")
<1>1. ASSUME AccountsInv, NEW r \in Requests, commit(r), NEW u \in Users, user[u] # None
      PROVE  Changes(u)
    <2> DEFINE c == call[r]
               row == updated(c, copy[r], user[u])
    <2>1. /\ pc[r] = "commit" /\ pc'[r] = "ok" /\ c.op # "create"
          /\ user' = [user EXCEPT ![c.target] = updated(c, copy[r], user[c.target])]
        BY <1>1 DEF commit, GoesTo, AccountsInv, TypeOK
    <2>2. CASE c.target # u
        BY <1>1, <2>1, <2>2 DEF AccountsInv, TypeOK
    <2>3. CASE c.target = u
        <3>1. c \in Calls /\ copy[r] \in Row /\ user[u] \in Row
            BY <1>1, <2>1, <2>3 DEF AccountsInv, RequestLedger
        <3>2. user'[u] = row
            BY <1>1, <2>1, <2>3 DEF AccountsInv, TypeOK
        <3>3. /\ row.role = user[u].role
              /\ row.active # user[u].active => c.op \in {"enable", "disable"}
              /\ row.active # user[u].active => row.active = (c.op = "enable")
              /\ row.pw # user[u].pw => c.op \in {"change", "reset"}
            BY <3>1, Updated
        <3>4. c.op \in {"enable", "disable", "change", "reset"} => served(u, c.op)
            BY <2>1, <2>3 DEF served
        <3> QED BY <3>2, <3>3, <3>4
    <2> QED BY <2>2, <2>3
<1>2. ASSUME AccountsInv, Next, NEW u \in Users, user[u] # None, user'[u] = user[u]
      PROVE  Changes(u)
    BY <1>2
<1>3. ASSUME AccountsInv, NEW r \in Requests, insert(r), NEW u \in Users, user[u] # None
      PROVE  user'[u] = user[u]
    BY <1>3 DEF insert, AccountsInv, TypeOK
<1>4. ASSUME AccountsInv, Next, ~\E r \in Requests : commit(r) \/ insert(r), NEW u \in Users
      PROVE  user'[u] = user[u]
    BY <1>4 DEF Next, step, request_arrives, login_incr, login_expire, login_select, login_reset,
                get_current_user, select_target, request_dies, window_ends
<1>5. AccountsInv /\ [Next]_vars => [\A u \in Users : user[u] # None => Changes(u)]_vars
    BY <1>1, <1>2, <1>3, <1>4
<1> QED BY AccountsInvariant, <1>5, PTL DEF Spec, UpdatesAreTheRequests
=============================================================================
