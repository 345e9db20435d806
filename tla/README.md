# A TLA+ development of knpodly

knpodly lends virtual machines to students of a lab: a FastAPI backend records
sessions in PostgreSQL, an arq worker provisions them through libvirt, a
scheduler ends them when their time is up, Redis carries the job queue, the
dashboard events and the pool of VNC ports, and a React frontend shows it all.
This directory models the parts of it that share state, checks them with TLC on
small instances, and proves their main properties with TLAPS for every instance.

`PROJECT.json` holds the machine-readable part: components, runs, mutants, the
map from definitions to source lines, findings, hazards and theorems.

## 1. Inventory

| Component | State it keeps | Operations | What makes it correct |
|---|---|---|---|
| VNC port pool (`services/overlay_manager.py`) | Redis set `knpodly:vnc_ports:in_use` | `allocate_vnc_port` (SMEMBERS, then SADD per candidate), `release_vnc_port` | one holder per port; a stale snapshot costs at most a retry; raises only when nothing stayed free; ends |
| VM lifecycle service (`services/vm_lifecycle.py`) | `vm_sessions` rows | `launch_vm`, `provision_vm`, `stop_vm`, `extend_session`, `record_activity` | one active session per user; a running row has its domain, disk and port; a console leads to its own VM; ports are given back once |
| vm-worker (`workers/vm_worker.py`) | arq jobs | job `provision_vm` (and `teardown_vm`, registered and never enqueued) | a job is cut off by an error at any step without breaking the above; run again after a worker died it keeps one active session per user, and the rest until it brings back a VM that a stop has undefined (section 5) |
| Scheduler (`workers/scheduler.py`) | the rows and `now` it read for the sweep; a debounce flag for image resyncs | sweep every 15 s, resync on file events | every due session ends; one idle warning until activity is recorded, one more if that crosses the event |
| Orphan collector (`workers/gc_orphaned_vms.py`) | the rows it read | one run every 10 minutes from a systemd timer | mismatches between rows and libvirt disappear |
| VM requests (`api/v1/routers/vms.py`) | a database session per request | launch, stop, force-stop, extend, activity, lists | ownership checks; every request on its own copy of the row |
| libvirt client and domain XML (`services/libvirt_client.py`, `domain_xml.py`) | libvirt domains | define, create, shutdown, destroy, undefine, info | what each call does to a domain in every state, and when it raises |
| Session table (`models/vm_session.py`, `infra/postgres/init/001_schema.sql`) | columns, partial unique index | UPDATE of changed columns only | the index is the last guard against two active sessions |
| Policies, maintenance windows (`services/policy.py`, `routers/admin.py`) | policy row, windows, the banner of open pages | patch, enable, disable | limits are passed only by launches already in flight; no null from a patch; the banner tells the truth |
| Image catalogue (`services/image_discovery.py`, `routers/images.py`) | `operating_systems` rows, image directory | scan, sync, debounced resync, upload | every change is scanned after it was made; rows mirror the directories; no partial image from uploads that do not overlap; syncs do not deadlock |
| Dashboard bus (`services/redis_bus.py`, `routers/ws.py`) | connection lists, Redis channel | publish, fan-out, connect, disconnect | events in order and once; nobody misses one without cause; nobody blocks the bus |
| Console relay (`routers/console.py`, `services/console_proxy.py`) | two pumps per console | token lookup, connect, relay, end | a console ends when either side does |
| Login, rate limit (`routers/auth.py`, `services/rate_limit.py`, `core/security.py`) | Redis counters, tokens | login, change password | the limit holds in every window and ends with it |
| Accounts and roles (`routers/users.py`, `deps.py`) | users | create, reset, disable, enable | every decision was right at some moment of the request; no change is undone by a stale copy |
| Audit log (`services/audit.py`) | audit rows | append | nothing reads it back into a decision |
| Frontend hooks (`useDashboardSocket.ts`, `useVMActivityHeartbeat.ts`, `AuthContext.tsx`) | socket, timers, tokens | reconnect, heartbeat, refresh | reconnects until unmounted; heartbeat throttled |
| Frontend pages, deployment files | - | rendering, configuration | - |

**How they interact.** A launch request inserts a `queued` row and enqueues an
arq job. The job loads the row, creates the overlay, takes a port, defines and
starts the domain and records `running`. A stop - by the user, a lecturer, the
sweep or the collector - runs `stop_vm` in its own process on its own copy of
the row: `stopping`, domain, undefine, overlay, port, `stopped` or `expired`.
Nothing locks a row: the four stores (table, Redis set, overlay directory,
libvirt) are changed one await at a time by any number of processes, and
sessions are opened with `expire_on_commit=False` (`db/session.py:17`), so a
process works on the values it read first. SQLAlchemy writes only columns whose
value differs from the one that was read.

**What is hard.** Checks before an await that are stale after it (launch limit,
port snapshot, extension count, idle flag); two teardowns of one session; a job
that starts after its session was stopped; failures between two steps of a
teardown or a job; redelivery of a job; a graceful shutdown that only *asks* the
guest; one exception that ends a whole sweep, collector run or scan; a list
that changes under the loop that sends to its members; overlapping syncs,
uploads and toggles; Redis commands that belong together and are sent one by
one. `hazards` in
`PROJECT.json` lists these at their lines, with the properties that cover them.

## 2. Modules

| Module | Role |
|---|---|
| `PortRegistry` | abstract specification: a set of ports is given out atomically, given back by the owner, or lost |
| `VncPortPool` | `allocate_vnc_port` / `release_vnc_port`, one step per Redis command; implements `PortRegistry` |
| `VncPortPoolProofs` | theorems about it |
| `VMLifecycle` | sessions, jobs, requests, sweep, collector, libvirt, overlays; uses `PortRegistry` as its port pool |
| `VMLifecycleProofs` | theorems about it |
| `MCVMLifecycle` | `VMLifecycle` with symmetry, for TLC |
| `SessionTimers` | the clocks of one session: start, extensions, activity, warnings, expiry |
| `SessionTimersProofs` | theorems about it |
| `Console` | `VMLifecycle` composed with the console relay |
| `ConsoleProofs` | theorems about the composition; extends `VMLifecycleProofs` |
| `DashboardBus` | from `publish_event` to the browsers |
| `DashboardBusProofs` | theorems about it |
| `LabControls` | maintenance windows, the VM limit policy, and the launches that obey them |
| `LabControlsProofs` | theorems about it |
| `ImageCatalogue` | uploads, scans and syncs of the OS catalogue |
| `ImageCatalogueProofs` | theorems about it |
| `Accounts`, `MCAccounts` | logins and their limiter, user administration; an instance with an admin, a lecturer, a student and a free name |
| `AccountsProofs` | theorems about it |

`VncPortPool` and `VMLifecycle` meet in `PortRegistry`: the first shows that the
two Redis commands behave like an atomic registry, so the second may take a port
in one step (`provision_port`), and is itself shown to be a well-behaved client
of the registry (`UsesPortsAsRegistry`). `SessionTimers` refines what
`VMLifecycle` keeps as `due`, `falls_due` and `renewed`: the outcome of the
sweep's clock comparison. `Console` extends `VMLifecycle`: every step of it is
one of the lifecycle, which may hang a console up, or one of a console.
`LabControls` takes the three awaits of `launch_vm` that `VMLifecycle` keeps
together or leaves constant (window, policy, count) apart, and keeps of sessions
only their number.

### VncPortPool

`in_use` is the Redis set; a client has the `snapshot` SMEMBERS returned, the
candidate `cand` the loop is at and the ports it holds; `always_free` is a history
variable: the ports that stayed free during the call. `smembers`,
`skip_port`, `sadd_added`, `sadd_refused`, `allocate_raises` are the steps of
`allocate_vnc_port`; `release_vnc_port` is one SREM. A worker may die at any step
(`worker_dies`), and `provision_vm` drops a port when `define_and_start` raises
(`port_forgotten`).

### VMLifecycle

One variable per column or store: `state`, `owner`, `vnc_port`, `due`; `in_use`,
`overlays`, `domain`, `dom_port`; jobs are `job` (next step), `jmem` and `jport`
(the job's copy of the state and its local port); processes have `pc`, `cur`,
their copies `mem`, the rows left to visit `todo` and the `reason` of the stop.
`vnc_port # None` stands for domain name and overlay path too: one UPDATE sets
the three and nothing clears them.

`reborn` is a history variable that no guard reads: the sessions for which a job
defined a domain although their row already had one. That takes a redelivered
job and a stop that has undefined the first domain (as long as that one is
there, `defineXML` raises), and it is what the code does not survive: see section 5.

Actions are cut at the awaits of the code:

- `launch_vm`, `launch_capacity`, `launch_refused`, `launch_insert`,
  `launch_conflict`, `launch_enqueue`: the checks, the INSERT under the unique
  index, and the enqueueing after the commit;
- `provision_load` ... `provision_publish`: the job, with
  `provision_define_raises` and `provision_create_raises` for the two ways
  `define_and_start` fails, and `provision_raises` for `create_overlay` and
  `allocate_vnc_port`, which fail outside the `try`;
- `request_stop`, `sweep_select`, `sweep_stop`, `gc_select`, `gc_match`,
  `gc_mismatch`: who calls `stop_vm`, and on which copy;
- `stop_begin` ... `stop_commit`: `stop_vm` itself, shared by all callers, with
  `stop_raises` for libvirt calls on a domain in the wrong state and for an
  UPDATE the index refuses;
- environment: `guest_powers_off`, `falls_due`, `renewed`, `interrupted` and
  `job_interrupted` (failures, at most `MaxFaults`), `job_redelivered`.

libvirt is modelled by its calls: `defineXML` needs no domain, `create` takes
the VNC port or fails, `shutdown` fails on a domain that does not run and
otherwise only asks, `undefine` of a running domain leaves it running as a
transient one, and fails when there is nothing to undefine.

### SessionTimers

One session with its clocks. Requests and sweeps read the row and write later.
`extend_commit` writes the end and the count from its copy; `record_activity`
writes the time, and clears the warning only when its copy had one, since
SQLAlchemy leaves an unchanged column out of the UPDATE. `sweep_idle_warning` commits
the warning and `sweep_publish` sends its event, an await later; the history
variable `late` says whether the last recorded activity came in between. `sweep_read` keeps
`now` and the row; the branches of the loop body are actions of their own.
`Prompt` chooses between sweeps of any length and one whole sweep per unit of
the clock.

### Console

A console's record holds the row it read (`session`, `vnc_port`), the QEMU that
answered (`qemu`), its two sockets and its two pumps. `console_ws` is the lookup
by token, `relay_connects` and `relay_refused` the connection made afterwards,
`ws_to_tcp`, `tcp_to_ws`, `write_fails` and `send_fails` the ways a pump ends,
each with its `finally`; `gather` returns when both have. Bytes are not
modelled: that there are some to pass on is a choice. A session stands for its
token, and an old token of a session whose job ran twice is accepted, which the
code would not do.

### DashboardBus

Per replica: the `listener` task, its `inbox`, the list `active` and the loop's
`pos` over it, the socket `to` whose send is awaited, and `dead`. `broadcast` is
four actions because each send suspends the task; `connect` and
`dashboard_ws_ends` change the list in between, and since `list.remove` moves
later elements up, the loop's index may pass over one. `Remaining` is the list
after the dead were disconnected; it is written without recursion so that it can
be reasoned about. `redis_lost` ends the task, as the code does. Browsers reconnect with another socket.

### LabControls

`open` are the active windows, `policy` the row, `active` the number of active
sessions, `banner` what an open student page shows. Each request has what it
read (`saw`, `copy`) and, for a patch, what it `wants`. `update_commit` writes
only what differs from the copy. `spoilt` and `slipped` are history variables:
whether the last toggles overlapped, and how many students launched since
maintenance began.

### ImageCatalogue

`meta`, `image`, `tmp` are the files of a directory, `row` the committed row,
`locked` and `wrote` the uncommitted write of a sync. A sync scans directory by
directory in sort order (other processes change files meanwhile), then selects
and writes row by row; PostgreSQL's row lock makes `sync_flush` wait, and an
INSERT that waited for another one's commit fails (`sync_conflict`). Uploads
share a temporary name per slug: `file` tracks where each writer's file is now,
since `os.replace` under an open file moves it into place half-written.
`notified` stands for watchdog's events, `asleep` for `resync_pending`.

### Accounts

`user` is the table, `count` and `ttl` the limiter's keys. A request goes
through its awaits - `login_incr`, `login_expire`, `login_select`,
`login_reset`, or `get_current_user`, `select_target` - and ends in `commit` or
`insert`. The history variable `moments` collects, for each request in service,
whether the table would have allowed it; `checks` and `carried` count the
passwords compared in the present window and the attempts that were past the
limiter when the last one ended.

## 3. Runs

All instances are small enough for the checker and large enough for two of
everything that must interfere: two sessions, two ports, two actors.

| Run | Instance | Shows |
|---|---|---|
| `vnc_port_pool` | 2 clients, 3 ports | mutual exclusion, lowest free port, honest exhaustion, termination, refinement. Three ports let one call lose the race on each of them. |
| `lifecycle_core` | a student's and a lecturer's session, 1 request, 1 collector, 2 ports, 1 stop, 1 redelivery | types, and a console port that leads to its own VM, with the stop, the collector and two jobs on copies of their own, one of the jobs run again on the row in whatever state it is |
| `lifecycle_recovery` | 1 student, 2 requests, 2 sessions, 2 ports, 2 stops, 1 failure, 1 redelivery | one active session; a running row has its VM, a console its own VM, a port one owner, a forced stop kills, with two stops of one session at once, a stop or a job cut off anywhere, or libvirt refusing a domain, the stop asked for again, and a job run again after any of it. Two stops, a failure and a redelivery are what a teardown that is done twice, half or on a revived VM needs |
| `lifecycle_sweep` | 1 sweeper, 2 sessions, 1 renewal, fair | a due session leaves `running` although another teardown ends the sweep |
| `session_timers` | 2 requests, 2 extensions, sweeps of any length, fair | no free time, one warning per idle period (two after activity that came between a commit and its event), every session ends |
| `console` | 1 console, 2 sessions, 1 port, 1 redelivery, 1 stop, fair | a console leads to its own VM unless its session was stopped before it connected or a job brought a stopped VM back; either end ends it, also with a job that ran twice. One port, so that it is handed on; larger instances are left to the theorem |
| `dashboard_bus` | 1 replica, 3 sockets (reused), 2 events, 1 fault, fair | order, no duplicates, at most one miss per leaver, events handled. Three sockets let one leave, one be passed over and one be served; replicas share nothing, so one is enough |
| `lab_controls` | 2 requests, 3 windows, limits 1 and 2, 1 revived session, 1 fault | overshoot and slips below the number of requests in flight; banner right once toggles do not overlap |
| `image_catalogue` | 2 slugs, a scheduler's and an API's sync, 2 uploads, 2 changes, 1 fault, fair | no deadlock of syncs, no change lost to the debounce, catalogue current, no partial image from uploads one after the other |
| `accounts` | 3 requests of 15 kinds, 4 accounts, limit 1, 1 fault | decisions right at some moment, limit kept, counters expire, no change undone. Three requests let one log in, one attempt and one be cut off |

Runs that violate what the repository says of the program, each with its
finding in `PROJECT.json`:

| Run | Statement | What happens |
|---|---|---|
| `collector_mismatch` | "cleans up any mismatch" | `graceful_shutdown` raises for a domain that is off or gone, on every run |
| `idle_warning` | "you'll get a warning at 15 minutes of inactivity" | activity that crosses the sweep's commit leaves the session marked as warned; the next idle period has no warning |

`CHECK_DEADLOCK FALSE` in the lifecycle, console, lab and accounts runs: when all
requests are served and the bounds are used up, nobody has to ask for anything
more.

**Bounds.** `Sessions` (ids handed out), `Handlers`, `MaxStops`, `MaxRenewals`,
`MaxFaults`, `MaxRedeliveries`; `Requests`, `LastStart` and `LastTime` in
`SessionTimers`, where the clock ends after the last possible expiry;
`Consoles`; `Sockets`, `MaxEvents`; `Windows`, `MaxRevived`; `Tasks`, `Calls`,
`Uploads`, `MaxChanges`. The theorems have no bound on any of them.

**Fairness.** `VncPortPool`: a call that has begun goes on; a worker need not
allocate. `VMLifecycle`: the sweeper, the collector and the jobs take their
steps; `main()` loops for ever and catches the exceptions of a sweep, the
collector is started by a timer, arq goes on with a job, a request that has
begun goes on. Nothing is assumed of new requests, guests or failures. `SessionTimers`: the clock, the sweep and a request
that has begun an extension; nothing about activity or about new requests.
`Console`: the API serves its coroutines; nothing about browsers, VMs, or that
bytes come. `DashboardBus`: a listener goes on - uvicorn's ping time-out cuts off
a client that does not read, so every send is assumed to end; how long a slow
client holds up the events behind its own is not said. `ImageCatalogue`: the scheduler's loop runs (its 15-second sleep wakes it
although watchdog's thread does not), and a sync that has begun goes on; nobody
has to call the API. `LabControls` and `Accounts` have safety properties only.
`FairSpec` is weak fairness throughout: no step depends on being lucky.
`lifecycle_sweep` has no failures (`MaxFaults = 0`) besides the teardowns that
raise by themselves: a process that dies for ever ends nothing.

**Assumptions about the deployment.** One scheduler
(`k8s/scheduler-deployment.yaml` insists on one), several vm-workers
(`docker-compose.prod.yml` has two), several API processes (`Dockerfile` starts
four, each of which syncs the catalogue first), any number of requests. In
`SessionTimers` an extension request is served within a unit of the clock: a
request takes milliseconds, a unit is minutes. Without it `NoFreeTime` would
fail by the time a request waited while the session started: `extend_session`
takes the current time as the end of a session that has none.

## 4. Proofs

Every safety property that a run checks is also a theorem, for every value of
the constants under the named assumptions; nothing is left out of the proofs.
Few of the properties are inductive. Each proof module therefore defines an
invariant that is the conjunction of the types and of *ledgers*, which say who
is responsible for what between two steps, shows for each ledger that every
action keeps it (one lemma per ledger, one step per action), and derives the
properties. TLC has checked each ledger on the instances of section 3.

- `VncPortPoolProofs`: types, `PortMutex`, `ClaimsLowestFree`,
  `RaisesOnlyWhenNoneStayedFree`, `ImplementsRegistry`. The invariant says that
  a client's candidate lies in the range, that what it passed over was marked
  when it was seen or taken since, and that held ports are marked and disjoint.
- `VMLifecycleProofs`, part 1 (types) and part 2 (`OneActivePerUser`, with
  redelivery): `BaseInv` adds to the types that processes and jobs refer to
  existing rows; the index then gives the induction step.
- part 3, `RunningIsBacked`, `ConsoleIsExclusive`, `ForceStopKills`: none is
  inductive. `LedgerInv` follows the row (`RowLedger`: a row that runs was written
  by its job's last step) and the session's port through its owners: the job
  that took it, the domain configured with it, the teardown that undefined the
  domain (`JobLedger`, `TeardownLedger`). Such a port is marked in Redis and is no
  other session's (`PortLedger`). Copies of rows keep the port the row has, and
  a session with a port that somebody tears down is not `running`
  (`CopyLedger`). `undefine` raising on the second attempt is what keeps two
  teardowns from both reaching the release. Jobs may be delivered any number of
  times. What a second delivery breaks is confined by `reborn`: the ledgers of a
  session's own domain and overlay hold for sessions outside it, that of the
  ports, which go from session to session, while it is empty. Since nothing
  leaves it (`RebornGrows`), each of them is inductive in this form, and every
  step of a redelivered job up to its `define` is covered.
- part 4, `UsesPortsAsRegistry`: with that ledger every step after which `reborn`
  is empty maps to a step of `PortRegistry` or a stutter.
- `SessionTimersProofs`: `TypeOK` (the count never passes `max_extensions`),
  `NoFreeTime`, `WarnsOncePerIdlePeriod`. `ExtensionLedger` says that the row
  *and every copy* an extension works on are covered by their own counts,
  counted from the start of the session, or from the present before it has
  started; `WarningLedger` that a given warning, or one whose event is about to be
  published, is on the row until activity is recorded, that a sweep that read no
  warning knows that none was given, and that only activity between commit and
  event (`late`) allows one more.
- `ConsoleProofs`: every step of the composition is one of `VMLifecycle` or
  leaves it alone (`ConsoleIsLifecycle`), so `BaseInv` and `LedgerInv` hold beside
  the consoles. `RelayInv` says what a handler knows: a pump that has ended has
  closed the socket it writes to, and a handler is over exactly when both have;
  `ConsoleTypeOK` and `OverIsClosed` follow. `ShownLedger` says that until a stop
  overtakes it, a console that is about to connect holds the port of a `running`
  row. Then `LedgerIsExclusive`, a lemma of `VMLifecycleProofs`, says whose QEMU
  answers there: `ConsoleShowsOwnVM`.
- `DashboardBusProofs`: `BusInv`. A socket is at one place of one list, and one
  that is being sent to is not at a place that is still to come (`SocketLedger`);
  sockets the loop has still to visit have only earlier events than the one in
  hand (`OrderLedger`), hence `InOrderOnce`. `SlipLedger` gives
  `MissesOnlyForLeavers`: newcomers are behind those who were there, and the
  sockets passed without a send are at most as many as those that left. Each
  departure moves at most one socket under the index.
- `LabControlsProofs`: `RoomLedger` counts a launch that is past its check as a
  session, for *some* limit that was in force, which makes `OvershootIsBounded`
  inductive; `SlipLedger` does the same for students past the maintenance check
  (`SlipsAreBounded`). `ToggleLedger` says that a toggle nobody overlapped finds
  the windows it read (`BannerIsTrue`).
- `AccountsProofs`: `RequestLedger` says which rows a request holds at which
  step, `MomentLedger` that a request in flight has seen the present moment and
  one past its check a good one (`DecisionsHaveAMoment`). `CountLedger` and
  `PassLedger` follow attempts from INCR to the comparison of the password:
  each number the counter has handed out lets one attempt through
  (`LimitHolds`). `CountersExpire` is inductive; `UpdatesAreTheRequests` is an
  action property: no account is deleted under a request, and the UPDATE takes
  from the stale copy only the column its operation is about.
- `ImageCatalogueProofs`: `WriterLedger`, an upload that met no other has its
  temporary file to itself (`ImagesAreWhole`); `LockLedger`, a sync is past the
  slugs it has locked, so that of the syncs that wait, the one that waits for the
  largest slug waits for one that does not (`SomeLockHolderMoves`; the largest
  slug comes from two lemmas on finite sets of numbers); `SyncLedger`, what is
  left to do was found and an UPDATE has its row; `CleanLedger`, what a sync that
  runs alone found and wrote is what the directories hold, up to changes it has
  not seen (`QuietIsCurrent`).

**Assumptions on constants.** Only what the code or the meaning of a bound gives:
bounds and clocks are natural numbers; `Requests` (where requests are counted),
`Slugs` and `Sockets` are finite, of any size; null values are not members of
what they stand beside; a login or a change of password concerns the caller's own
account (`auth.py` has no other target); the roles of processes in `VMLifecycle`
are disjoint.

**Only model-checked**: the liveness properties (`AllocationEnds`, `DueIsSwept`,
`SessionEnds`, `EndsTogether`, `EventsAreHandled`, `ChangesAreScanned`), since
fairness and ENABLED are outside the prover's reach. The two findings are counterexamples of TLC.

## 5. Not modelled, and why

- `teardown_vm`: nothing enqueues it. `FakeLibvirtClient`: development only.
- A `define_and_start` thread (`asyncio.to_thread`) that ends after its job was
  cancelled by arq's time-out.
- Audit rows, formatting of events and responses, read-only endpoints.
- The expiry warning changes no state; by the code it is published on every
  sweep in the last minutes until an idle warning has been recorded, although
  the comment says once per session.
- In `VMLifecycle`, the values of clocks (in `SessionTimers`), and in
  `SessionTimers` user stops, which only end the session earlier.
- A stop may find a session in any state and a late job takes a stopped session
  back to `provisioning`. architecture.md draws no such arrows; the model has
  them, and the safety properties are proved with them.
- Icons: `upload_icon` writes a file that only the icon column depends on.
  Slug and file-name validation, token encoding and expiry, password hashing.
- The frontend's rendering, toasts and token storage. Its activity heartbeat is
  the activity request of `SessionTimers`, which may come at any time.
- Read-only endpoints, health checks, `host_stats`, settings.

What the code does against its own words or in a way worth knowing, met while
modelling. The models contain all of it. Where it breaks a property, the property
names the exception, and it holds with everything else.

- A job that arq runs again after its worker died does not look at the state of
  its row (vm_worker.py:27-40). While the first domain is there, the job
  fails at the locked overlay and leaves the row in `provisioning`, or at
  `defineXML` and leaves it `failed`, its overlay deleted and a second port lost,
  while the VM may run on. Once a stop has undefined it, the job defines
  and starts a new one on another port and commits `running`; the stop goes on,
  deletes the overlay under the running VM, releases the port the row had before,
  and commits `stopped`, before the job or after it. Either the row says `running`
  for a VM without its overlay, or the VM of a stopped session runs on ("destroyed completely",
  STUDENT_GUIDE.md:26-27; architecture.md:47-50 has no arrow from `stopping`
  back), also after a forced stop ("cut off immediately",
  LECTURER_GUIDE.md:23-24); and a second stop on the old copy may release a port
  that is another session's by then, which a third one may be given as well.
  `RunningIsBacked` and `ForceStopKills` except such a session; `ConsoleIsExclusive`,
  `UsesPortsAsRegistry` and `ConsoleShowsOwnVM` end with the first of them. Only
  `OneActivePerUser` holds throughout.
- The sweep commits an idle warning and publishes it an await later
  (scheduler.py:101-105). Activity recorded in between is followed by a warning
  that is out of date, and clears the mark, so that the next idle period has its
  own: two events after one activity ("(once)", scheduler.py:10).
- The limiter counts per IP address *and* user name. "One malicious IP hammering
  many usernames" and "spraying a single username from many IPs"
  (rate_limit.py:3-5) each meet a new counter with every attempt; `LimitHolds` is
  about one key.
- A directory without `base.qcow2` is not "logged and skipped"
  (image_discovery.py:25-26) but upserted, as `validating` when it says it is
  available; `scan_directory` has it so.

- `create_overlay` and `allocate_vnc_port` fail outside the `try`: the row stays
  in `provisioning` ("failed (provisioning error)", architecture.md:49) and its
  user cannot launch. A failed `define_and_start` never releases its port
  ("reused once a session ends", overlay_manager.py:28).
- A graceful stop leaves a guest that ignores it running as a transient domain
  on a released port ("destroyed completely", STUDENT_GUIDE.md:26-27).
- The unique index has no condition on the role, so a lecturer's second launch
  fails with IntegrityError ("Lecturers may launch multiple VMs.",
  vm_lifecycle.py:14).
- A broadcast passes over a socket when an earlier one leaves during it ("every
  connected /ws/dashboard client", redis_bus.py:3), and a lost Redis connection
  ends the listener until the process is restarted.
- Overlapping enables leave several active windows ("always at most one",
  admin.py:63); a page opened during maintenance shows no banner until an event
  comes.
- Two syncs that overlap may leave an older scan in a row until the next sync;
  API processes that start together may fail on each other's INSERT. A
  `ValueError` in one directory ends every scan ("should never take the whole
  catalogue down", image_discovery.py:26-27). The row of a removed directory
  stays as it is. A restarted scheduler does not scan. watchdog reports files
  being opened, so a scan may cause the next one.
- Two uploads of one slug at once may publish a partial image (images.py:70).
- A login that dies between INCR and EXPIRE leaves a counter that never expires;
  the key is locked out once it passes the limit.
- A console whose session is stopped between lookup and connection may reach the
  VM that has the port next.

## 6. Plan

The model is complete as far as section 5 says, and every safety property of the
runs is a theorem. What is left:

1. What remains true of sessions in `reborn`: which of two domains, ports and
   teardowns belong together once a job has brought a VM back, for instance that
   other sessions lose nothing while nobody stops it a second time.
2. Safety facts that the liveness runs rest on, as lemmas without fairness: a due
   session is selected by every later sweep, a pending change keeps a resync
   scheduled.
