---------------------------- MODULE ImageCatalogue ----------------------------
(***************************************************************************)
(* The OS catalogue.  Lecturers upload images (routers/images.py) and edit  *)
(* metadata.json; sync_to_database (services/image_discovery.py) scans the  *)
(* directories and upserts operating_systems: in the scheduler some seconds *)
(* after the file system changed (workers/scheduler.py), at the start of    *)
(* the API and on /rescan.  A sync reads a row, sets the columns that       *)
(* differ from its scan, and SQLAlchemy sends the INSERT or UPDATE before   *)
(* the next SELECT (autoflush); that locks the row until the only commit.   *)
(* A scan does not await, but the other processes go on meanwhile.          *)
(*                                                                          *)
(* A row has two columns here: meta for those that come from metadata.json, *)
(* image for status and checksum, which follow base.qcow2.  Slugs are       *)
(* numbered in their sort order.                                            *)
(***************************************************************************)
EXTENDS Integers, FiniteSets

CONSTANTS
    Slugs,        \* names of image directories, as numbers in sort order
    Metas,        \* contents of a metadata.json that parses
    Tasks,        \* resyncs of the scheduler at once (bound)
    Calls,        \* API start-ups and rescans at once (bound)
    Uploads,      \* uploads of base.qcow2, each of a file of its own (bound)
    MaxChanges,   \* uploads and edits of metadata.json (bound)
    MaxFaults,    \* requests, syncs and schedulers that die (bound)
    None

Syncs   == Tasks \union Calls
Images  == Uploads \union {"torn"}
Row     == [meta : Metas, image : Images \union {None}]
NoneYet == [s \in Slugs |-> None]

ASSUME CatalogueAssumption ==
    /\ Slugs \subseteq Nat /\ IsFiniteSet(Slugs) /\ MaxChanges \in Nat /\ MaxFaults \in Nat
    /\ None \notin Metas \union Syncs \union Images \union {"one", "mixed", "raises"}
    /\ None \notin Slugs /\ None \notin Row
    /\ Tasks \intersect Calls = {} /\ "torn" \notin Uploads /\ "raises" \notin Metas

VARIABLES
    \* the image directories
    meta,         \* metadata.json: None (missing or malformed), "raises", or a content
    image,        \* base.qcow2: None or a content
    tmp,          \* base.qcow2.uploading: None, "one" writer since its truncation, or "mixed"
    slug,         \* per upload: the slug while it writes, or None
    file,         \* where the file it writes is now, "tmp", "dest" or "gone"; else "new" or "over"
    \* operating_systems
    row,          \* None or the committed columns
    locked,       \* the sync whose transaction wrote the row, or None
    wrote,        \* what it wrote
    \* the scheduler
    notified,     \* watchdog has events to deliver
    \* per sync
    pc,           \* "idle", "asleep", "scan", "select", "flush", "commit"
    todo,         \* directories or rows still to visit
    found,        \* what the scan found, None for a directory it skipped
    base,         \* the row in hand as it was read
    \* history and bounds
    clashed,      \* slugs that two uploads wrote at once
    unseen,       \* directories changed since they were last scanned
    spoilt,       \* the last syncs overlapped or failed
    changes, faults

disk    == <<meta, image, tmp, slug, file, clashed, changes>>
table   == <<row, locked, wrote>>
locals  == <<pc, todo, found, base>>
vars    == <<disk, table, notified, locals, unseen, spoilt, faults>>

Init ==
    /\ meta \in [Slugs -> Metas \union {None}] /\ image = NoneYet /\ tmp = NoneYet
    /\ slug = [u \in Uploads |-> None] /\ file = [u \in Uploads |-> "new"]
    /\ row = NoneYet /\ locked = NoneYet /\ wrote = NoneYet /\ notified = FALSE
    /\ pc = [p \in Syncs |-> "idle"] /\ todo = [p \in Syncs |-> {}]
    /\ found = [p \in Syncs |-> NoneYet] /\ base = [p \in Syncs |-> None]
    /\ clashed = {} /\ unseen = {s \in Slugs : meta[s] # None} /\ spoilt = TRUE
    /\ changes = 0 /\ faults = 0

-----------------------------------------------------------------------------
(* The directories *)

\* Somebody writes, breaks or removes metadata.json.
metadata_changes(s, m) ==
    /\ m # meta[s] /\ changes < MaxChanges /\ changes' = changes + 1
    /\ meta' = [meta EXCEPT ![s] = m]
    /\ notified' = TRUE /\ unseen' = unseen \union {s}
    /\ UNCHANGED <<image, tmp, slug, file, clashed, table, locals, spoilt, faults>>

Writers(s, place) == {u \in Uploads : slug[u] = s /\ file[u] = place}

\* Mutant: the handler writes to base.qcow2 itself.
upload_opens_dest(u, s) ==
    /\ file[u] = "new" /\ changes < MaxChanges /\ changes' = changes + 1
    /\ slug' = [slug EXCEPT ![u] = s] /\ file' = [file EXCEPT ![u] = "tmp"]
    /\ tmp' = [tmp EXCEPT ![s] = "one"] /\ image' = [image EXCEPT ![s] = "torn"]
    /\ unseen' = unseen \union {s} /\ notified' = TRUE
    /\ UNCHANGED <<meta, clashed, table, locals, spoilt, faults>>

\* open(tmp_path, "wb") truncates the file, under whoever still writes it.
upload_opens(u, s) ==
    /\ file[u] = "new" /\ changes < MaxChanges /\ changes' = changes + 1
    /\ slug' = [slug EXCEPT ![u] = s] /\ file' = [file EXCEPT ![u] = "tmp"]
    /\ tmp' = [tmp EXCEPT ![s] = IF Writers(s, "tmp") = {} THEN "one" ELSE "mixed"]
    /\ clashed' = IF \E v \in Uploads : slug[v] = s THEN clashed \union {s} ELSE clashed
    /\ notified' = TRUE
    /\ UNCHANGED <<meta, image, table, locals, unseen, spoilt, faults>>

\* os.replace: what is at tmp_path by now is the image.  It is the upload's own
\* file, all of it, unless another one truncated, shared or took it.
upload_replaces(u) ==
    /\ slug[u] # None
    /\ LET s == slug[u] IN
          /\ tmp[s] # None
          /\ image' = [image EXCEPT ![s] = IF tmp[s] = "one" /\ Writers(s, "tmp") = {u} THEN u ELSE "torn"]
          /\ file' = [v \in Uploads |-> IF v = u THEN "over" ELSE IF v \in Writers(s, "dest") THEN "gone"
                                        ELSE IF v \in Writers(s, "tmp") THEN "dest" ELSE file[v]]
          /\ tmp' = [tmp EXCEPT ![s] = None]
          /\ unseen' = unseen \union {s}
    /\ slug' = [slug EXCEPT ![u] = None]
    /\ notified' = TRUE
    /\ UNCHANGED <<meta, clashed, changes, table, locals, spoilt, faults>>

\* Too large: os.remove(tmp_path).  Either call raises FileNotFoundError when
\* another upload has moved or removed the file; the request ends all the same.
upload_rejected(u) ==
    /\ slug[u] # None
    /\ LET s == slug[u] IN
          /\ file' = [v \in Uploads |-> IF v = u THEN "over" ELSE IF v \in Writers(s, "tmp") THEN "gone" ELSE file[v]]
          /\ tmp' = [tmp EXCEPT ![s] = None]
    /\ slug' = [slug EXCEPT ![u] = None]
    /\ notified' = TRUE
    /\ UNCHANGED <<meta, image, clashed, changes, table, locals, unseen, spoilt, faults>>

\* The disk is full or the API dies: the file stays where it is, in part.
upload_dies(u) ==
    /\ slug[u] # None /\ faults < MaxFaults /\ faults' = faults + 1
    /\ slug' = [slug EXCEPT ![u] = None] /\ file' = [file EXCEPT ![u] = "over"]
    /\ tmp' = [tmp EXCEPT ![slug[u]] = IF file[u] = "tmp" THEN "mixed" ELSE @]
    /\ UNCHANGED <<meta, image, clashed, changes, table, notified, locals, unseen, spoilt>>

-----------------------------------------------------------------------------
(* The scheduler's debounce *)

\* resync_pending.
Pending == \E t \in Tasks : pc[t] = "asleep"

GoesTo(p, step) == pc' = [pc EXCEPT ![p] = step]

\* Mutant: events are dropped while a resync runs, not only while one waits.
schedule_resync_while_idle(t) ==
    /\ notified /\ notified' = FALSE
    /\ IF \E q \in Tasks : pc[q] # "idle"
       THEN UNCHANGED pc
       ELSE pc[t] = "idle" /\ GoesTo(t, "asleep")
    /\ UNCHANGED <<disk, table, todo, found, base, unseen, spoilt, faults>>

\* on_any_event -> debounced_resync: one task sleeps at a time.
schedule_resync(t) ==
    /\ notified /\ notified' = FALSE
    /\ IF Pending THEN UNCHANGED pc ELSE pc[t] = "idle" /\ GoesTo(t, "asleep")
    /\ UNCHANGED <<disk, table, todo, found, base, unseen, spoilt, faults>>

-----------------------------------------------------------------------------
(* sync_to_database *)

Running(p) == pc[p] \notin {"idle", "asleep"}

\* The task wakes up and resets resync_pending; or the API starts, or /rescan.
sync_begins(p) ==
    /\ pc[p] = IF p \in Tasks THEN "asleep" ELSE "idle"
    /\ GoesTo(p, "scan")
    /\ todo' = [todo EXCEPT ![p] = Slugs]
    /\ spoilt' = (\E q \in Syncs : Running(q))
    /\ UNCHANGED <<disk, table, notified, found, base, unseen, faults>>

\* The syncs of P return, raise or die: what they did not commit is rolled back.
End(P) ==
    /\ pc' = [p \in Syncs |-> IF p \in P THEN "idle" ELSE pc[p]]
    /\ todo' = [p \in Syncs |-> IF p \in P THEN {} ELSE todo[p]]
    /\ found' = [p \in Syncs |-> IF p \in P THEN NoneYet ELSE found[p]]
    /\ base' = [p \in Syncs |-> IF p \in P THEN None ELSE base[p]]
    /\ locked' = [s \in Slugs |-> IF locked[s] \in P THEN None ELSE locked[s]]
    /\ wrote' = [s \in Slugs |-> IF locked[s] \in P THEN None ELSE wrote[s]]

\* Mutant: the order of os.listdir.
listdir(S) == S

\* sorted(os.listdir(...)), and the list of results in the same order.
first(S) == {s \in S : \A t \in S : s <= t}

\* Mutant: a directory without metadata.json is not skipped.
scan_directory_unchecked(s) == [meta |-> meta[s], image |-> image[s]]

\* None for a directory without a valid metadata.json.  An available image
\* without base.qcow2 is validating: the image column says so.
scan_directory(s) == IF meta[s] = None THEN None ELSE [meta |-> meta[s], image |-> image[s]]

\* One round of scan_all.  watchdog may report the files it opens, too.
scan_all(p) ==
    /\ pc[p] = "scan"
    /\ \E s \in first(todo[p]) :
          /\ meta[s] # "raises"
          /\ found' = [found EXCEPT ![p][s] = scan_directory(s)]
          /\ unseen' = unseen \ {s}
          /\ notified' \in {notified, notified \/ meta[s] # None}
          /\ todo' = [todo EXCEPT ![p] = IF @ = {s} THEN {t \in Slugs : found'[p][t] # None}
                                         ELSE @ \ {s}]
          /\ GoesTo(p, IF todo[p] # {s} THEN "scan" ELSE IF todo'[p] = {} THEN "commit" ELSE "select")
    /\ UNCHANGED <<disk, table, base, spoilt, faults>>

\* int(...) or float(...) raises ValueError, which ends the whole sync.
scan_raises(p) ==
    /\ pc[p] = "scan"
    /\ \E s \in first(todo[p]) : meta[s] = "raises"
    /\ End({p}) /\ spoilt' = TRUE
    /\ UNCHANGED <<disk, row, notified, unseen, faults>>

\* The loop of p is done with slug s.
Goes(p, s) ==
    /\ todo' = [todo EXCEPT ![p] = @ \ {s}]
    /\ GoesTo(p, IF todo[p] = {s} THEN "commit" ELSE "select")

\* The SELECT of the next image: the committed row.  A row that is as the scan
\* found it is not written.
sync_select(p) ==
    /\ pc[p] = "select"
    /\ \E s \in first(todo[p]) :
          IF row[s] = found[p][s]
          THEN Goes(p, s) /\ UNCHANGED base
          ELSE GoesTo(p, "flush") /\ base' = [base EXCEPT ![p] = row[s]] /\ UNCHANGED todo
    /\ UNCHANGED <<disk, table, notified, found, unseen, spoilt, faults>>

\* Mutant: the checksum of a known image is not updated.
Columns_no_checksum(new, old, present) ==
    [meta  |-> IF new.meta # old.meta THEN new.meta ELSE present.meta,
     image |-> present.image]

\* The columns an UPDATE sets, on the row as it is by then.
Columns(new, old, present) ==
    [meta  |-> IF new.meta # old.meta THEN new.meta ELSE present.meta,
     image |-> IF new.image # old.image THEN new.image ELSE present.image]

\* The INSERT or UPDATE takes the row's lock, once others have let it go.
sync_flush(p) ==
    /\ pc[p] = "flush"
    /\ \E s \in first(todo[p]) :
          /\ locked[s] = None
          /\ base[p] = None => row[s] = None
          /\ locked' = [locked EXCEPT ![s] = p]
          /\ wrote' = [wrote EXCEPT ![s] =
                          IF base[p] = None THEN found[p][s] ELSE Columns(found[p][s], base[p], row[s])]
          /\ Goes(p, s)
    /\ base' = [base EXCEPT ![p] = None]
    /\ UNCHANGED <<disk, row, notified, found, unseen, spoilt, faults>>

\* Somebody else has inserted the slug: IntegrityError, and all is rolled back.
sync_conflict(p) ==
    /\ pc[p] = "flush" /\ base[p] = None
    /\ \E s \in first(todo[p]) : locked[s] = None /\ row[s] # None
    /\ End({p}) /\ spoilt' = TRUE
    /\ UNCHANGED <<disk, row, notified, unseen, faults>>

sync_commit(p) ==
    /\ pc[p] = "commit"
    /\ row' = [s \in Slugs |-> IF locked[s] = p THEN wrote[s] ELSE row[s]]
    /\ End({p})
    /\ UNCHANGED <<disk, notified, unseen, spoilt, faults>>

sync_step(p) ==
    \/ scan_all(p) \/ scan_raises(p) \/ sync_select(p) \/ sync_flush(p)
    \/ sync_conflict(p) \/ sync_commit(p)

\* The database fails, or the API dies.
sync_interrupted(p) ==
    /\ Running(p) /\ faults < MaxFaults /\ faults' = faults + 1
    /\ End({p}) /\ spoilt' = TRUE
    /\ UNCHANGED <<disk, row, notified, unseen>>

\* The scheduler dies with its tasks and events; the new one does not scan.
scheduler_restarts ==
    /\ faults < MaxFaults /\ faults' = faults + 1
    /\ notified' = FALSE
    /\ End(Tasks) /\ spoilt' = (spoilt \/ \E t \in Tasks : Running(t))
    /\ UNCHANGED <<disk, row, unseen>>

Next ==
    \/ \E s \in Slugs, m \in Metas \union {None, "raises"} : metadata_changes(s, m)
    \/ \E u \in Uploads : \/ \E s \in Slugs : upload_opens(u, s)
                          \/ upload_replaces(u) \/ upload_rejected(u) \/ upload_dies(u)
    \/ \E t \in Tasks : schedule_resync(t)
    \/ \E p \in Syncs : sync_begins(p) \/ sync_step(p) \/ sync_interrupted(p)
    \/ scheduler_restarts

Spec == Init /\ [][Next]_vars

\* The scheduler's loop delivers events and wakes its tasks, and a sync that
\* has begun goes on.  Nobody has to call the API.
FairSpec ==
    /\ Spec
    /\ WF_vars(\E t \in Tasks : schedule_resync(t))
    /\ \A t \in Tasks : WF_vars(sync_begins(t))
    /\ \A p \in Syncs : WF_vars(sync_step(p))

-----------------------------------------------------------------------------
Or(S) == S \union {None}

\* The types of the image directories, of the table and of the syncs' locals.
TypeOK ==
    /\ meta \in [Slugs -> Metas \union {None, "raises"}] /\ image \in [Slugs -> Or(Images)]
    /\ tmp \in [Slugs -> {None, "one", "mixed"}]
    /\ slug \in [Uploads -> Or(Slugs)] /\ file \in [Uploads -> {"new", "tmp", "dest", "gone", "over"}]
    /\ row \in [Slugs -> Or(Row)] /\ locked \in [Slugs -> Or(Syncs)] /\ wrote \in [Slugs -> Or(Row)]
    /\ notified \in BOOLEAN
    /\ pc \in [Syncs -> {"idle", "asleep", "scan", "select", "flush", "commit"}]
    /\ todo \in [Syncs -> SUBSET Slugs]
    /\ found \in [Syncs -> [Slugs -> Or(Row)]] /\ base \in [Syncs -> Or(Row)]
    /\ clashed \in SUBSET Slugs /\ unseen \in SUBSET Slugs /\ spoilt \in BOOLEAN
    /\ changes \in 0 .. MaxChanges /\ faults \in 0 .. MaxFaults

(***************************************************************************)
(* images.py:70, "never expose a partial file to the catalogue scan": so it *)
(* is when uploads of a slug come one after the other, whatever rejected or *)
(* interrupted ones left behind.  All uploads of a slug share one temporary *)
(* name, and two at once may publish each other's half-written file.        *)
(***************************************************************************)
ImagesAreWhole == \A s \in Slugs : image[s] = "torn" => s \in clashed

(***************************************************************************)
(* Syncs lock rows one after the other and keep them to the commit; because *)
(* all go through the slugs in sort order, whenever some wait for locks one *)
(* that holds a lock does not.                                              *)
(***************************************************************************)
Waits(p) == pc[p] = "flush" /\ \E s \in first(todo[p]) : locked[s] # None

SomeLockHolderMoves ==
    (\E p \in Syncs : Waits(p)) => \E q \in Syncs : ~Waits(q) /\ \E s \in Slugs : locked[s] = q

(***************************************************************************)
(* OperatingSystem is "mirrored from a directory": once every change has    *)
(* been scanned and the syncs are done, the last of them alone and without  *)
(* an error, every directory the scan accepts has its row - whatever was    *)
(* changed, debounced or inserted while earlier syncs ran, and whatever     *)
(* they left behind.                                                        *)
(***************************************************************************)
QuietIsCurrent ==
    ~spoilt /\ unseen = {} /\ (\A p \in Syncs : ~Running(p))
        => \A s \in Slugs : scan_directory(s) # None => row[s] = scan_directory(s)

(***************************************************************************)
(* scheduler.py: rapid events are batched "into a single resync".  None is  *)
(* lost by that: once something has changed, every changed directory is     *)
(* scanned after its change, unless a directory whose metadata raises ends  *)
(* the scans, or a process died.                                            *)
(***************************************************************************)
ChangesAreScanned ==
    notified ~> unseen = {} \/ faults > 0 \/ \E t \in Slugs : meta[t] = "raises"
=============================================================================
