------------------------------- MODULE Accounts -------------------------------
(***************************************************************************)
(* Accounts and the login limiter: routers/auth.py, routers/users.py,       *)
(* api/v1/deps.py and services/rate_limit.py.  Every request is a coroutine *)
(* that awaits Redis or PostgreSQL between its steps, with a transaction of *)
(* its own (READ COMMITTED): it reads a user row once, decides on its copy, *)
(* and at the commit SQLAlchemy updates the columns whose value it changed. *)
(*                                                                          *)
(* A row is its password, role and status; password_hash and verify_password*)
(* are an equality of passwords.  A request's access token is valid.        *)
(***************************************************************************)
EXTENDS Integers, FiniteSets

CONSTANTS
    Users,        \* usernames, which also stand for the ids of the rows
    Passwords,
    Keys,         \* client address and lower-cased username of a login
    MaxAttempts,  \* _MAX_ATTEMPTS
    Requests,     \* requests served (bound)
    Calls,        \* what they may ask for (bound)
    MaxFaults,    \* requests that die half-way (bound)
    Table,        \* the users table at the start
    None

Roles    == {"admin", "lecturer", "student"}
Row      == [pw : Passwords, role : Roles, active : BOOLEAN]
UserOps  == {"reset", "disable", "enable"}
\* actor sends the request (for a login: the account it is for), target is the
\* account it changes, pw the password it presents and new the one it sets.
Call     == [op : {"login", "change", "create"} \union UserOps, actor : Users, target : Users,
             key : Keys, pw : Passwords, new : Passwords, role : Roles]

ASSUME AccountsAssumption ==
    /\ MaxAttempts \in Nat \ {0} /\ MaxFaults \in Nat
    /\ IsFiniteSet(Requests)
    /\ Calls \subseteq Call
    /\ \A c \in Calls : c.op \in {"login", "change"} => c.target = c.actor
    /\ None \notin Row \union Calls
    /\ Table \in [Users -> Row \union {None}]

VARIABLES
    user,         \* the table: the committed row of every username, or None
    \* Redis
    count,        \* attempts per key, 0 when the key does not exist
    ttl,          \* keys with an expiry
    \* per request
    call, pc,     \* pc is the next step, or the outcome
    copy,         \* the row as it was read
    \* history and bounds
    moments,      \* per request: was it to be allowed, at each moment it was served
    checks,       \* password checks per key since the key last vanished
    carried,      \* ... requests past the limiter by then
    orphaned,     \* keys whose creator died before it set the expiry
    faults

redis  == <<count, ttl>>
limits == <<checks, carried, orphaned>>
locals == <<call, pc, copy>>
vars   == <<user, redis, locals, moments, limits, faults>>

Outcomes == {"ok", "denied", "limited", "failed", "died"}
Steps    == {"incr", "expire", "select", "reset", "auth", "target", "commit"}

Init ==
    /\ user = Table
    /\ count = [k \in Keys |-> 0] /\ ttl = {}
    /\ call = [r \in Requests |-> None] /\ pc = [r \in Requests |-> "new"]
    /\ copy = [r \in Requests |-> None]
    /\ moments = [r \in Requests |-> {}]
    /\ checks = [k \in Keys |-> 0] /\ carried = [k \in Keys |-> 0] /\ orphaned = {}
    /\ faults = 0

GoesTo(r, step) == pc' = [pc EXCEPT ![r] = step]
Reads(r, row)   == copy' = [copy EXCEPT ![r] = row]

\* Should request c be served by what the table says of its actor?
Allowed(c, row) ==
    /\ row # None
    /\ row.active
    /\ c.op \in {"login", "change"} => row.pw = c.pw
    /\ c.op \in UserOps => row.role # "student"
    /\ c.op = "create" => row.role = "admin" \/ (row.role = "lecturer" /\ c.role # "admin")

\* The table changes while others are served.
AnotherMoment ==
    moments' = [q \in Requests |-> IF pc[q] \in Steps
                                   THEN moments[q] \union {Allowed(call[q], user'[call[q].actor])}
                                   ELSE moments[q]]

request_arrives(r, c) ==
    /\ pc[r] = "new"
    /\ call' = [call EXCEPT ![r] = c]
    /\ GoesTo(r, IF c.op = "login" THEN "incr" ELSE "auth")
    /\ moments' = [moments EXCEPT ![r] = {Allowed(c, user[c.actor])}]
    /\ UNCHANGED <<user, redis, copy, limits, faults>>

-----------------------------------------------------------------------------
(* login, check_login_rate_limit and reset_login_rate_limit *)

\* Mutant: the expiry is set before the counter exists, which does nothing.
login_incr_expire_first(r) ==
    /\ pc[r] = "incr"
    /\ LET k == call[r].key  attempts == count[k] + 1 IN
          /\ count' = [count EXCEPT ![k] = attempts]
          /\ GoesTo(r, IF attempts > MaxAttempts THEN "limited" ELSE "select")
    /\ UNCHANGED <<user, ttl, call, copy, limits, moments, faults>>

\* Mutant: the limit is off by one.
login_incr_one_more(r) ==
    /\ pc[r] = "incr"
    /\ LET k == call[r].key  attempts == count[k] + 1 IN
          /\ count' = [count EXCEPT ![k] = attempts]
          /\ GoesTo(r, CASE attempts = 1               -> "expire"
                         [] attempts > MaxAttempts + 1 -> "limited"
                         [] OTHER                      -> "select")
    /\ UNCHANGED <<user, ttl, call, copy, limits, moments, faults>>

\* Mutant: Redis gets the INCR twice.
login_incr_twice(r) ==
    /\ pc[r] = "incr"
    /\ LET k == call[r].key  attempts == count[k] + 1 IN
          /\ count' = [count EXCEPT ![k] = attempts + 1]
          /\ GoesTo(r, CASE attempts = 1           -> "expire"
                         [] attempts > MaxAttempts -> "limited"
                         [] OTHER                  -> "select")
    /\ UNCHANGED <<user, ttl, call, copy, limits, moments, faults>>

\* INCR, and the limit.
login_incr(r) ==
    /\ pc[r] = "incr"
    /\ LET k == call[r].key  attempts == count[k] + 1 IN
          /\ count' = [count EXCEPT ![k] = attempts]
          /\ GoesTo(r, CASE attempts = 1           -> "expire"
                         [] attempts > MaxAttempts -> "limited"
                         [] OTHER                  -> "select")
    /\ UNCHANGED <<user, ttl, call, copy, limits, moments, faults>>

\* EXPIRE does nothing when the key is gone.
login_expire(r) ==
    /\ pc[r] = "expire"
    /\ ttl' = IF count[call[r].key] > 0 THEN ttl \union {call[r].key} ELSE ttl
    /\ orphaned' = orphaned \ ttl'
    /\ GoesTo(r, "select")
    /\ UNCHANGED <<user, count, call, copy, checks, carried, moments, faults>>

\* The SELECT, verify_password and the status.
login_select(r) ==
    /\ pc[r] = "select"
    /\ LET c == call[r]  row == user[c.actor] IN
          /\ checks' = [checks EXCEPT ![c.key] = @ + 1]
          /\ GoesTo(r, IF row = None THEN "denied"
                       ELSE IF row.pw = c.pw /\ row.active THEN "reset" ELSE "denied")
          /\ Reads(r, row)
    /\ UNCHANGED <<user, redis, call, carried, orphaned, moments, faults>>

\* The key of the counter is gone: a window is over.
Vanishes(k) ==
    /\ count' = [count EXCEPT ![k] = 0] /\ ttl' = ttl \ {k}
    /\ checks' = [checks EXCEPT ![k] = 0] /\ orphaned' = orphaned \ {k}
    /\ carried' = [carried EXCEPT ![k] = Cardinality({q \in Requests :
                      pc[q] \in {"expire", "select"} /\ call[q].key = k})]

login_reset(r) ==
    /\ pc[r] = "reset"
    /\ Vanishes(call[r].key)
    /\ GoesTo(r, "commit")
    /\ UNCHANGED <<user, call, copy, moments, faults>>

\* Redis drops a key whose time is over.
window_ends(k) ==
    /\ k \in ttl
    /\ Vanishes(k)
    /\ UNCHANGED <<user, locals, moments, faults>>

-----------------------------------------------------------------------------
(* The requests of users who are logged in *)

\* Mutant: the account's status is not looked at.
permits_disabled(c, row) ==
    CASE c.op = "change" -> row.pw = c.pw
      [] c.op = "create" -> row.role = "admin" \/ (row.role = "lecturer" /\ c.role # "admin")
      [] OTHER           -> row.role \in {"admin", "lecturer"}

\* get_current_user's status, require_lecturer, and what the handlers ask of
\* their user.
permits(c, row) ==
    /\ row.active
    /\ CASE c.op = "change" -> row.pw = c.pw
         [] c.op = "create" -> row.role = "admin" \/ (row.role = "lecturer" /\ c.role # "admin")
         [] OTHER           -> row.role \in {"admin", "lecturer"}

get_current_user(r) ==
    /\ pc[r] = "auth"
    /\ LET c == call[r]  row == user[c.actor] IN
          /\ Reads(r, row)
          /\ GoesTo(r, IF row = None THEN "denied" ELSE IF ~permits(c, row) THEN "denied"
                       ELSE IF c.op = "change" THEN "commit" ELSE "target")
    /\ UNCHANGED <<user, redis, call, limits, moments, faults>>

\* The SELECT of the user the request is about.  The session knows its own user
\* already and does not read that row anew.
select_target(r) ==
    /\ pc[r] = "target"
    /\ LET c == call[r]  row == IF c.target = c.actor THEN copy[r] ELSE user[c.target] IN
          /\ Reads(r, row)
          /\ GoesTo(r, IF (row = None) = (c.op = "create") THEN "commit" ELSE "failed")
    /\ UNCHANGED <<user, redis, call, limits, moments, faults>>

\* What the handler assigns to its object.
assigned(c, row) ==
    CASE c.op \in {"change", "reset"} -> [row EXCEPT !.pw = c.new]
      [] c.op = "disable"             -> [row EXCEPT !.active = FALSE]
      [] c.op = "enable"              -> [row EXCEPT !.active = TRUE]
      [] OTHER                        -> row

\* Mutant: the UPDATE writes the whole row.
updated_whole(c, read, present) == assigned(c, read)

\* The UPDATE: a new hash always, the status when it is not what was read.
updated(c, read, present) ==
    [present EXCEPT !.pw = IF c.op \in {"change", "reset"} THEN c.new ELSE @,
                    !.active = IF assigned(c, read).active # read.active
                               THEN assigned(c, read).active ELSE @]

\* last_login_at is not in the model: a login changes nothing else.
commit(r) ==
    /\ pc[r] = "commit" /\ call[r].op # "create"
    /\ user' = [user EXCEPT ![call[r].target] = updated(call[r], copy[r], @)]
    /\ GoesTo(r, "ok") /\ Reads(r, None)
    /\ AnotherMoment
    /\ UNCHANGED <<redis, call, limits, faults>>

\* The INSERT; the unique username refuses the second of two.
insert(r) ==
    /\ pc[r] = "commit" /\ call[r].op = "create"
    /\ LET c == call[r] IN
          IF user[c.target] = None
          THEN /\ user' = [user EXCEPT ![c.target] = [pw |-> c.new, role |-> c.role, active |-> TRUE]]
               /\ GoesTo(r, "ok")
          ELSE GoesTo(r, "failed") /\ UNCHANGED user
    /\ AnotherMoment
    /\ UNCHANGED <<redis, call, copy, limits, faults>>

\* The API dies, or Redis or the database does not answer.
request_dies(r) ==
    /\ pc[r] \in Steps /\ faults < MaxFaults /\ faults' = faults + 1
    /\ orphaned' = IF pc[r] = "expire" /\ count[call[r].key] > 0 /\ call[r].key \notin ttl
                   THEN orphaned \union {call[r].key} ELSE orphaned
    /\ GoesTo(r, "died")
    /\ UNCHANGED <<user, redis, call, copy, checks, carried, moments>>

-----------------------------------------------------------------------------
step(r) ==
    \/ login_incr(r) \/ login_expire(r) \/ login_select(r) \/ login_reset(r)
    \/ get_current_user(r) \/ select_target(r) \/ commit(r) \/ insert(r)

Next ==
    \/ \E r \in Requests : (\E c \in Calls : request_arrives(r, c)) \/ step(r) \/ request_dies(r)
    \/ \E k \in Keys : window_ends(k)

Spec == Init /\ [][Next]_vars

-----------------------------------------------------------------------------
\* The types of the table, the counters and the requests.
TypeOK ==
    /\ user \in [Users -> Row \union {None}]
    /\ count \in [Keys -> 0 .. Cardinality(Requests)] /\ ttl \in SUBSET Keys
    /\ call \in [Requests -> Calls \union {None}] /\ pc \in [Requests -> Steps \union Outcomes \union {"new"}]
    /\ copy \in [Requests -> Row \union {None}]
    /\ moments \in [Requests -> SUBSET BOOLEAN]
    /\ checks \in [Keys -> Nat] /\ carried \in [Keys -> Nat] /\ orphaned \in SUBSET Keys
    /\ faults \in 0 .. MaxFaults

(***************************************************************************)
(* Whatever other requests do to the account meanwhile, a request that      *)
(* takes effect was to be allowed, and one that is denied was to be denied, *)
(* at one moment while it was served: with the password, the role and the   *)
(* status the account had together at that moment.                          *)
(***************************************************************************)
DecisionsHaveAMoment ==
    \A r \in Requests : /\ pc[r] = "ok" => TRUE \in moments[r]
                        /\ pc[r] = "denied" => FALSE \in moments[r]

(***************************************************************************)
(* rate_limit.py throttles attempts, per IP address and user name (its      *)
(* docstring claims more).  In one window and for one key no more than      *)
(* _MAX_ATTEMPTS passwords are checked, beyond those of the requests that   *)
(* had passed the limiter when the last window was ended, by its expiry or  *)
(* by somebody's successful login.                                          *)
(***************************************************************************)
LimitHolds == \A k \in Keys : checks[k] <= MaxAttempts + carried[k]

(***************************************************************************)
(* A counter without an expiry locks its key out for good.  However INCR,   *)
(* EXPIRE and DELETE of several logins mix, it has one, or gets one by a    *)
(* login in flight, unless the login that created it died in between.       *)
(***************************************************************************)
CountersExpire ==
    \A k \in Keys : count[k] > 0 =>
        \/ k \in ttl \union orphaned
        \/ \E r \in Requests : pc[r] = "expire" /\ call[r].key = k

\* A request for op on the account u takes effect in this step.
served(u, op) ==
    \E r \in Requests : pc[r] = "commit" /\ pc'[r] = "ok" /\ call[r].target = u /\ call[r].op = op

(***************************************************************************)
(* One step changes an account only as the request that commits asks: a     *)
(* status is changed by /disable or /enable alone and a password by a reset *)
(* or a change alone - never set back by a request that read the row        *)
(* before - and roles never change.                                         *)
(***************************************************************************)
UpdatesAreTheRequests ==
    [][\A u \in Users : user[u] # None =>
          /\ user'[u].role = user[u].role
          /\ ~user[u].active /\ user'[u].active => served(u, "enable")
          /\ user[u].active /\ ~user'[u].active => served(u, "disable")
          /\ user'[u].pw # user[u].pw => served(u, "reset") \/ served(u, "change")]_vars
=============================================================================
