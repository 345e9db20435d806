------------------------- MODULE ImageCatalogueProofs -------------------------
(***************************************************************************)
(* Proofs about ImageCatalogue for any directories, uploads and syncs.     *)
(***************************************************************************)
EXTENDS ImageCatalogue, FiniteSetTheorems, WellFoundedInduction, TLAPS

\* An upload that shares its slug with no other has the temporary file to itself.
WriterLedger ==
    /\ ImagesAreWhole
    /\ \A u \in Uploads, s \in Slugs \ clashed : slug[u] = s =>
          /\ file[u] = "tmp" /\ tmp[s] = "one"
          /\ \A v \in Uploads : slug[v] = s => v = u

\* A sync that holds a lock is past its scan, and past the slug it has locked.
LockLedger ==
    \A s \in Slugs : locked[s] # None =>
        /\ wrote[s] \in Row
        /\ pc[locked[s]] \in {"select", "flush", "commit"}
        /\ \A t \in todo[locked[s]] : s < t

\* What is left to do was found by the scan; an UPDATE has a row to update.
SyncLedger ==
    \A p \in Syncs :
        /\ pc[p] \in {"select", "flush"} => \A s \in todo[p] : found[p][s] \in Row
        /\ pc[p] = "flush" /\ base[p] # None => \A s \in first(todo[p]) : row[s] \in Row
        /\ pc[p] = "commit" => todo[p] = {}

\* The row of slug s as it is when p has committed.
Written(p, s) == IF locked[s] = p THEN wrote[s] ELSE row[s]

\* A sync that runs alone: what it found is as the directories are, and what it
\* is done with is as it found it, up to changes it has not seen.
Clean(p) ==
    /\ \A s \in Slugs : pc[p] # "scan" \/ s \notin todo[p] =>
          s \in unseen \/ found[p][s] = scan_directory(s)
    /\ pc[p] # "scan" =>
          \A s \in Slugs \ todo[p] : found[p][s] # None => Written(p, s) = found[p][s]
    /\ pc[p] = "flush" => \A s \in first(todo[p]) : base[p] = row[s]

Current(s) == s \in unseen \/ scan_directory(s) = None \/ row[s] = scan_directory(s)

CleanLedger ==
    ~spoilt =>
        /\ \A p, q \in Syncs : Running(p) /\ Running(q) => p = q
        /\ \A p \in Syncs : Running(p) => Clean(p)
        /\ (\A p \in Syncs : ~Running(p)) => \A s \in Slugs : Current(s)

CatalogueInv == TypeOK /\ WriterLedger /\ LockLedger /\ SyncLedger /\ CleanLedger

(***************************************************************************)
(* A set of numbers has a smallest element.                                *)
(***************************************************************************)
LEMMA SmallestElement ==
    ASSUME NEW S \in SUBSET Nat, S # {}
    PROVE  \E x \in S : \A y \in S : x <= y
<1> DEFINE Less == {ss \in Nat \X Nat : ss[1] < ss[2]}
<1>1. IsWellFoundedOn(Less, Nat)
    BY NatLessThanWellFounded DEF OpToRel
<1>2. PICK x \in S : \A y \in S : ~ (<<y, x>> \in Less)
    BY <1>1, WFMin
<1>3. \A y \in S : ~(y < x)
    BY <1>2
<1> QED BY <1>3

(***************************************************************************)
(* A finite set of numbers has a largest element: otherwise the next larger *)
(* element is an injection of the set into itself that misses the smallest *)
(* one.                                                                    *)
(***************************************************************************)
LEMMA LargestElement ==
    ASSUME NEW S \in SUBSET Nat, IsFiniteSet(S), S # {}
    PROVE  \E m \in S : \A s \in S : s <= m
<1> SUFFICES ASSUME \A m \in S : \E s \in S : s > m PROVE FALSE
    OBVIOUS
<1> DEFINE next[x \in S] == CHOOSE y \in S : y > x /\ \A z \in S : z > x => y <= z
<1>1. ASSUME NEW x \in S
      PROVE  next[x] \in S /\ next[x] > x /\ \A z \in S : z > x => next[x] <= z
    <2> DEFINE T == {s \in S : s > x}
    <2>1. \E y \in T : \A z \in T : y <= z
        BY SmallestElement
    <2>2. \E y \in S : y > x /\ \A z \in S : z > x => y <= z
        BY <2>1
    <2> QED BY <2>2
<1> HIDE DEF next
<1>2. next \in [S -> S]
    BY <1>1 DEF next
<1>3. \A x, y \in S : next[x] = next[y] => x = y
    <2>1. \A x, y \in S : x < y => /\ next[x] <= y /\ y < next[y]
                                   /\ next[x] \in Nat /\ next[y] \in Nat
        BY <1>1
    <2>2. \A x, y \in S : x < y => next[x] # next[y]
        BY <2>1
    <2>3. \A x, y \in S : x # y => x < y \/ y < x
        OBVIOUS
    <2> QED BY <2>2, <2>3
<1>4. next \in Injection(S, S)
    BY <1>2, <1>3 DEF Injection, IsInjective
<1>5. next \in Surjection(S, S)
    BY <1>4, FS_Injection, FS_CardinalityType
<1>6. PICK b \in S : \A y \in S : b <= y
    BY SmallestElement
<1>7. PICK x \in S : next[x] = b
    BY <1>5 DEF Surjection
<1> QED BY <1>1, <1>6, <1>7

(***************************************************************************)
(* first(S) is at most one slug.                                           *)
(***************************************************************************)
LEMMA FirstIsOne ==
    ASSUME NEW S \in SUBSET Slugs, NEW s \in first(S)
    PROVE  s \in S /\ s \in Slugs /\ (\A t \in S : s <= t) /\ first(S) = {s}
<1>1. s \in S /\ s \in Slugs /\ \A t \in S : s <= t
    BY DEF first
<1>2. \A t \in first(S) : t = s
    BY <1>1, CatalogueAssumption DEF first
<1> QED BY <1>1, <1>2

(***************************************************************************)
(* Syncs that end leave locals and locks of the right types.               *)
(***************************************************************************)
LEMMA EndType ==
    ASSUME TypeOK, NEW P, End(P)
    PROVE  /\ pc' \in [Syncs -> {"idle", "asleep", "scan", "select", "flush", "commit"}]
           /\ todo' \in [Syncs -> SUBSET Slugs]
           /\ found' \in [Syncs -> [Slugs -> Or(Row)]] /\ base' \in [Syncs -> Or(Row)]
           /\ locked' \in [Slugs -> Or(Syncs)] /\ wrote' \in [Slugs -> Or(Row)]
<1>1. NoneYet \in [Slugs -> Or(Row)]
    BY DEF NoneYet, Or
<1> QED BY <1>1 DEF End, TypeOK, Or

(***************************************************************************)
(* What a scan finds, and what an UPDATE writes, is a row.                 *)
(***************************************************************************)
LEMMA RowTypes ==
    /\ \A new, old, present \in Row : Columns(new, old, present) \in Row
    /\ TypeOK => \A s \in Slugs : meta[s] # "raises" => scan_directory(s) \in Or(Row)
<1>1. ASSUME NEW new \in Row, NEW old \in Row, NEW present \in Row
      PROVE  Columns(new, old, present) \in Row
    BY DEF Columns, Row
<1>2. ASSUME TypeOK, NEW s \in Slugs, meta[s] # "raises" PROVE scan_directory(s) \in Or(Row)
    <2>1. meta[s] # None => meta[s] \in Metas
        BY <1>2 DEF TypeOK
    <2>2. image[s] \in Images \union {None}
        BY <1>2 DEF TypeOK, Or
    <2> QED BY <2>1, <2>2 DEF scan_directory, Or, Row
<1> QED BY <1>1, <1>2

(***************************************************************************)
(* Every step of an upload, of the scheduler and of a sync keeps the types.*)
(***************************************************************************)
LEMMA NextTypeOK ==
    ASSUME TypeOK, SyncLedger, [Next]_vars
    PROVE  TypeOK'
<1> USE DEF Or
<1>1. ASSUME NEW s \in Slugs, NEW m \in Metas \union {None, "raises"}, metadata_changes(s, m)
      PROVE  TypeOK'
    <2>1. changes' \in 0 .. MaxChanges
        BY <1>1, CatalogueAssumption DEF metadata_changes, TypeOK
    <2>2. meta' \in [Slugs -> Metas \union {None, "raises"}] /\ unseen' \in SUBSET Slugs
        BY <1>1 DEF metadata_changes, TypeOK
    <2> QED BY <1>1, <2>1, <2>2 DEF metadata_changes, TypeOK, table, locals
<1>2. ASSUME NEW u \in Uploads, NEW s \in Slugs, upload_opens(u, s) PROVE TypeOK'
    <2>1. changes' \in 0 .. MaxChanges
        BY <1>2, CatalogueAssumption DEF upload_opens, TypeOK
    <2>2. /\ slug' \in [Uploads -> Or(Slugs)]
          /\ file' \in [Uploads -> {"new", "tmp", "dest", "gone", "over"}]
          /\ tmp' \in [Slugs -> {None, "one", "mixed"}] /\ clashed' \in SUBSET Slugs
        BY <1>2 DEF upload_opens, TypeOK
    <2> QED BY <1>2, <2>1, <2>2 DEF upload_opens, TypeOK, table, locals
<1>3. ASSUME NEW u \in Uploads, upload_replaces(u) PROVE TypeOK'
    <2>1. slug[u] \in Slugs
        BY <1>3 DEF upload_replaces, TypeOK
    <2>2. /\ image' \in [Slugs -> Or(Images)] /\ unseen' \in SUBSET Slugs
          /\ tmp' \in [Slugs -> {None, "one", "mixed"}]
        BY <1>3, <2>1 DEF upload_replaces, TypeOK, Images
    <2>3. /\ slug' \in [Uploads -> Or(Slugs)]
          /\ file' \in [Uploads -> {"new", "tmp", "dest", "gone", "over"}]
        BY <1>3 DEF upload_replaces, TypeOK
    <2> QED BY <1>3, <2>2, <2>3 DEF upload_replaces, TypeOK, table, locals
<1>4. ASSUME NEW u \in Uploads, upload_rejected(u) PROVE TypeOK'
    BY <1>4 DEF upload_rejected, TypeOK, table, locals
<1>5. ASSUME NEW u \in Uploads, upload_dies(u) PROVE TypeOK'
    <2>1. faults' \in 0 .. MaxFaults
        BY <1>5, CatalogueAssumption DEF upload_dies, TypeOK
    <2>2. /\ slug' \in [Uploads -> Or(Slugs)]
          /\ file' \in [Uploads -> {"new", "tmp", "dest", "gone", "over"}]
          /\ tmp' \in [Slugs -> {None, "one", "mixed"}]
        BY <1>5 DEF upload_dies, TypeOK
    <2> QED BY <1>5, <2>1, <2>2 DEF upload_dies, TypeOK, table, locals
<1>6. ASSUME NEW t \in Tasks, schedule_resync(t) PROVE TypeOK'
    <2>1. pc' \in [Syncs -> {"idle", "asleep", "scan", "select", "flush", "commit"}]
        BY <1>6 DEF schedule_resync, GoesTo, TypeOK
    <2> QED BY <1>6, <2>1 DEF schedule_resync, TypeOK, disk, table
<1>7. ASSUME NEW p \in Syncs, sync_begins(p) PROVE TypeOK'
    BY <1>7 DEF sync_begins, GoesTo, TypeOK, disk, table
<1>8. ASSUME NEW p \in Syncs, scan_all(p) PROVE TypeOK'
    <2>1. PICK s \in first(todo[p]) :
              /\ meta[s] # "raises"
              /\ found' = [found EXCEPT ![p][s] = scan_directory(s)]
              /\ unseen' = unseen \ {s}
              /\ notified' \in {notified, notified \/ meta[s] # None}
              /\ todo' = [todo EXCEPT ![p] = IF @ = {s} THEN {t \in Slugs : found'[p][t] # None}
                                             ELSE @ \ {s}]
              /\ GoesTo(p, IF todo[p] # {s} THEN "scan"
                           ELSE IF todo'[p] = {} THEN "commit" ELSE "select")
        BY <1>8 DEF scan_all
    <2>2. s \in Slugs
        BY FirstIsOne DEF TypeOK
    <2>3. scan_directory(s) \in Or(Row)
        BY <2>1, <2>2, RowTypes
    <2>4. found' \in [Syncs -> [Slugs -> Or(Row)]]
        BY <2>1, <2>2, <2>3 DEF TypeOK
    <2>5. unseen' \in SUBSET Slugs /\ notified' \in BOOLEAN
        BY <2>1 DEF TypeOK
    <2>6. todo' \in [Syncs -> SUBSET Slugs]
        BY <2>1 DEF TypeOK
    <2>7. pc' \in [Syncs -> {"idle", "asleep", "scan", "select", "flush", "commit"}]
        BY <2>1 DEF GoesTo, TypeOK
    <2> QED BY <1>8, <2>4, <2>5, <2>6, <2>7 DEF scan_all, TypeOK, disk, table
<1>9. ASSUME NEW p \in Syncs, scan_raises(p) \/ sync_conflict(p) PROVE TypeOK'
    <2>1. End({p}) /\ spoilt' = TRUE /\ UNCHANGED <<disk, row, notified, unseen, faults>>
        BY <1>9 DEF scan_raises, sync_conflict
    <2> QED BY <2>1, EndType DEF TypeOK, disk
<1>10. ASSUME NEW p \in Syncs, sync_select(p) PROVE TypeOK'
    <2>1. PICK s \in first(todo[p]) :
              IF row[s] = found[p][s]
              THEN Goes(p, s) /\ UNCHANGED base
              ELSE GoesTo(p, "flush") /\ base' = [base EXCEPT ![p] = row[s]] /\ UNCHANGED todo
        BY <1>10 DEF sync_select
    <2>2. row[s] \in Or(Row)
        BY FirstIsOne DEF TypeOK
    <2>3. /\ todo' = [todo EXCEPT ![p] = @ \ {s}] \/ todo' = todo
          /\ base' = base \/ base' = [base EXCEPT ![p] = row[s]]
          /\ \E to \in {"flush", "commit", "select"} : GoesTo(p, to)
        BY <2>1 DEF Goes
    <2>4. todo' \in [Syncs -> SUBSET Slugs]
        BY <2>3 DEF TypeOK
    <2>5. base' \in [Syncs -> Or(Row)]
        BY <2>2, <2>3 DEF TypeOK
    <2>6. pc' \in [Syncs -> {"idle", "asleep", "scan", "select", "flush", "commit"}]
        BY <2>3 DEF GoesTo, TypeOK
    <2> QED BY <1>10, <2>4, <2>5, <2>6 DEF sync_select, TypeOK, disk, table
<1>11. ASSUME NEW p \in Syncs, sync_flush(p) PROVE TypeOK'
    <2>1. PICK s \in first(todo[p]) :
              /\ locked' = [locked EXCEPT ![s] = p]
              /\ wrote' = [wrote EXCEPT ![s] =
                    IF base[p] = None THEN found[p][s] ELSE Columns(found[p][s], base[p], row[s])]
              /\ Goes(p, s)
        BY <1>11 DEF sync_flush
    <2>2. s \in todo[p] /\ s \in Slugs
        BY FirstIsOne DEF TypeOK
    <2>3. /\ found[p][s] \in Row /\ base[p] \in Or(Row)
          /\ base[p] # None => row[s] \in Row
        BY <1>11, <2>2 DEF sync_flush, SyncLedger, TypeOK
    <2>4. wrote' \in [Slugs -> Or(Row)]
        BY <2>1, <2>3, RowTypes DEF TypeOK
    <2>5. /\ todo' \in [Syncs -> SUBSET Slugs] /\ locked' \in [Slugs -> Or(Syncs)]
          /\ pc' \in [Syncs -> {"idle", "asleep", "scan", "select", "flush", "commit"}]
        BY <2>1 DEF Goes, GoesTo, TypeOK
    <2>6. base' \in [Syncs -> Or(Row)]
        BY <1>11 DEF sync_flush, TypeOK
    <2> QED BY <1>11, <2>4, <2>5, <2>6 DEF sync_flush, TypeOK, disk
<1>12. ASSUME NEW p \in Syncs, sync_commit(p) PROVE TypeOK'
    <2>1. row' \in [Slugs -> Or(Row)]
        BY <1>12 DEF sync_commit, TypeOK
    <2> QED BY <1>12, <2>1, EndType DEF sync_commit, TypeOK, disk
<1>13. CASE (\E p \in Syncs : sync_interrupted(p)) \/ scheduler_restarts
    <2>1. PICK P : End(P)
        BY <1>13 DEF sync_interrupted, scheduler_restarts
    <2>2. faults' \in 0 .. MaxFaults
        <3>1. faults < MaxFaults /\ faults' = faults + 1
            BY <1>13 DEF sync_interrupted, scheduler_restarts
        <3> QED BY <3>1, CatalogueAssumption DEF TypeOK
    <2>3. notified' \in BOOLEAN /\ spoilt' \in BOOLEAN /\ UNCHANGED <<disk, row, unseen>>
        BY <1>13 DEF sync_interrupted, scheduler_restarts, TypeOK
    <2> QED BY <2>1, <2>2, <2>3, EndType DEF TypeOK, disk
<1>14. CASE UNCHANGED vars
    BY <1>14 DEF vars, disk, table, locals, TypeOK
<1> QED
    BY <1>1, <1>2, <1>3, <1>4, <1>5, <1>6, <1>7, <1>8, <1>9, <1>10, <1>11, <1>12, <1>13, <1>14
    DEF Next, sync_step

(***************************************************************************)
(* Uploads of different slugs do not meet, and of one slug only when       *)
(* another is still writing as one opens the file.                         *)
(***************************************************************************)
LEMMA NextWriters ==
    ASSUME TypeOK, WriterLedger, [Next]_vars
    PROVE  WriterLedger'
<1> USE CatalogueAssumption DEF WriterLedger, ImagesAreWhole
<1>1. ASSUME NEW u \in Uploads, NEW s \in Slugs, upload_opens(u, s) PROVE WriterLedger'
    <2>1. ImagesAreWhole'
        BY <1>1 DEF upload_opens
    <2>2. ASSUME NEW v \in Uploads, NEW t \in Slugs \ clashed', slug'[v] = t
          PROVE  file'[v] = "tmp" /\ tmp'[t] = "one" /\ \A w \in Uploads : slug'[w] = t => w = v
        <3>1. CASE t = s
            <4>1. \A w \in Uploads : slug[w] # s
                BY <1>1, <2>2, <3>1 DEF upload_opens, TypeOK
            <4>2. v = u /\ \A w \in Uploads : slug'[w] = s => w = u
                BY <1>1, <2>2, <3>1, <4>1 DEF upload_opens, TypeOK
            <4>3. Writers(s, "tmp") = {}
                BY <4>1 DEF Writers
            <4> QED BY <1>1, <3>1, <4>2, <4>3 DEF upload_opens, TypeOK
        <3>2. CASE t # s
            <4>1. v # u /\ slug[v] = t /\ t \notin clashed
                BY <1>1, <2>2, <3>2 DEF upload_opens, TypeOK
            <4>2. file[v] = "tmp" /\ tmp[t] = "one" /\ \A w \in Uploads : slug[w] = t => w = v
                BY <4>1
            <4> QED BY <1>1, <3>2, <4>1, <4>2 DEF upload_opens, TypeOK
        <3> QED BY <3>1, <3>2
    <2> QED BY <2>1, <2>2
<1>2. ASSUME NEW u \in Uploads, upload_replaces(u) \/ upload_rejected(u) \/ upload_dies(u)
      PROVE  WriterLedger'
    <2>1. /\ clashed' = clashed /\ slug[u] \in Slugs /\ slug' = [slug EXCEPT ![u] = None]
          /\ \A t \in Slugs : t # slug[u] => tmp'[t] = tmp[t] /\ image'[t] = image[t]
          /\ \A v \in Uploads : v # u /\ slug[v] # slug[u] => file'[v] = file[v]
        BY <1>2 DEF upload_replaces, upload_rejected, upload_dies, TypeOK, Or, Writers
    <2>2. image'[slug[u]] = "torn" => slug[u] \in clashed
        <3>1. CASE upload_replaces(u)
            <4>1. ASSUME slug[u] \notin clashed PROVE image'[slug[u]] = u
                <5>1. /\ file[u] = "tmp" /\ tmp[slug[u]] = "one"
                      /\ \A v \in Uploads : slug[v] = slug[u] => v = u
                    BY <2>1, <4>1
                <5>2. Writers(slug[u], "tmp") = {u}
                    BY <5>1 DEF Writers
                <5> QED BY <2>1, <3>1, <5>1, <5>2 DEF upload_replaces, TypeOK
            <4> QED BY <4>1
        <3>2. CASE upload_rejected(u) \/ upload_dies(u)
            BY <2>1, <3>2 DEF upload_rejected, upload_dies
        <3> QED BY <1>2, <3>1, <3>2
    <2>3. ImagesAreWhole'
        BY <2>1, <2>2
    <2>4. ASSUME NEW v \in Uploads, NEW t \in Slugs \ clashed', slug'[v] = t
          PROVE  file'[v] = "tmp" /\ tmp'[t] = "one" /\ \A w \in Uploads : slug'[w] = t => w = v
        <3>1. v # u /\ slug[v] = t /\ t \notin clashed
            BY <2>1, <2>4 DEF TypeOK
        <3>2. file[v] = "tmp" /\ tmp[t] = "one" /\ \A w \in Uploads : slug[w] = t => w = v
            BY <3>1
        <3>3. t # slug[u]
            BY <3>1, <3>2
        <3> QED BY <2>1, <3>1, <3>2, <3>3 DEF TypeOK
    <2> QED BY <2>3, <2>4
<1>3. CASE UNCHANGED <<image, tmp, slug, file, clashed>>
    BY <1>3
<1> QED
    BY <1>1, <1>2, <1>3
    DEF Next, metadata_changes, schedule_resync, sync_begins, sync_step, scan_all, scan_raises,
        sync_select, sync_flush, sync_conflict, sync_commit, sync_interrupted, scheduler_restarts,
        disk, vars

(***************************************************************************)
(* Syncs that end let their locks go; the others keep theirs.              *)
(***************************************************************************)
LEMMA EndLocks ==
    ASSUME TypeOK, LockLedger, NEW P, End(P)
    PROVE  LockLedger'
<1> SUFFICES ASSUME NEW s \in Slugs, locked'[s] # None
             PROVE  /\ wrote'[s] \in Row
                    /\ pc'[locked'[s]] \in {"select", "flush", "commit"}
                    /\ \A t \in todo'[locked'[s]] : s < t
    BY DEF LockLedger
<1>1. locked'[s] = locked[s] /\ locked[s] \notin P /\ wrote'[s] = wrote[s]
    BY DEF End
<1>2. PICK q \in Syncs : locked[s] = q
    BY <1>1 DEF TypeOK, Or
<1>3. /\ wrote[s] \in Row /\ pc[q] \in {"select", "flush", "commit"}
      /\ \A t \in todo[q] : s < t
    BY <1>1, <1>2 DEF LockLedger
<1>4. pc'[q] = pc[q] /\ todo'[q] = todo[q]
    BY <1>1, <1>2 DEF End
<1> QED BY <1>1, <1>2, <1>3, <1>4

(***************************************************************************)
(* Locks are taken in the order of the slugs and kept to the end: a sync   *)
(* that holds one has only larger slugs ahead of it.                       *)
(***************************************************************************)
LEMMA NextLocks ==
    ASSUME TypeOK, LockLedger, SyncLedger, [Next]_vars
    PROVE  LockLedger'
<1> DEFINE Holding == {"select", "flush", "commit"}
<1>1. ASSUME locked' = locked, wrote' = wrote,
             \A q \in Syncs : pc[q] \in Holding => pc'[q] \in Holding /\ todo'[q] \subseteq todo[q]
      PROVE  LockLedger'
    <2> SUFFICES ASSUME NEW s \in Slugs, locked[s] # None
                 PROVE  /\ wrote[s] \in Row /\ pc'[locked[s]] \in Holding
                        /\ \A t \in todo'[locked[s]] : s < t
        BY <1>1 DEF LockLedger
    <2>1. PICK q \in Syncs : locked[s] = q
        BY DEF TypeOK, Or
    <2>2. wrote[s] \in Row /\ pc[q] \in Holding /\ \A t \in todo[q] : s < t
        BY <2>1 DEF LockLedger
    <2> QED BY <1>1, <2>1, <2>2
<1>2. ASSUME UNCHANGED <<table, pc, todo>> PROVE LockLedger'
    BY <1>1, <1>2 DEF table
<1>3. ASSUME NEW t \in Tasks, schedule_resync(t) PROVE LockLedger'
    <2>1. /\ locked' = locked /\ wrote' = wrote /\ todo' = todo
          /\ pc' = pc \/ (pc[t] = "idle" /\ pc' = [pc EXCEPT ![t] = "asleep"])
        BY <1>3 DEF schedule_resync, GoesTo, table
    <2> QED BY <1>1, <2>1 DEF TypeOK
<1>4. ASSUME NEW p \in Syncs, sync_begins(p) PROVE LockLedger'
    <2>1. /\ locked' = locked /\ wrote' = wrote /\ todo' = [todo EXCEPT ![p] = Slugs]
          /\ pc[p] \in {"idle", "asleep"} /\ pc' = [pc EXCEPT ![p] = "scan"]
        BY <1>4 DEF sync_begins, GoesTo, table
    <2> QED BY <1>1, <2>1 DEF TypeOK
<1>5. ASSUME NEW p \in Syncs, scan_all(p) PROVE LockLedger'
    <2>1. /\ locked' = locked /\ wrote' = wrote /\ pc[p] = "scan"
          /\ \E S : todo' = [todo EXCEPT ![p] = S]
          /\ \E to : pc' = [pc EXCEPT ![p] = to]
        BY <1>5 DEF scan_all, GoesTo, table
    <2> QED BY <1>1, <2>1 DEF TypeOK
<1>6. ASSUME NEW p \in Syncs, sync_select(p) PROVE LockLedger'
    <2>1. /\ locked' = locked /\ wrote' = wrote
          /\ \E S : todo' = [todo EXCEPT ![p] = @ \ S]
          /\ \E to \in Holding : pc' = [pc EXCEPT ![p] = to]
        <3>1. locked' = locked /\ wrote' = wrote
            BY <1>6 DEF sync_select, table
        <3>2. todo' = todo => todo' = [todo EXCEPT ![p] = @ \ {}]
            BY DEF TypeOK
        <3> QED BY <1>6, <3>1, <3>2 DEF sync_select, Goes, GoesTo
    <2> QED BY <1>1, <2>1 DEF TypeOK
<1>7. ASSUME NEW p \in Syncs, sync_flush(p) PROVE LockLedger'
    <2>1. PICK s \in first(todo[p]) :
              /\ locked[s] = None
              /\ locked' = [locked EXCEPT ![s] = p]
              /\ wrote' = [wrote EXCEPT ![s] =
                    IF base[p] = None THEN found[p][s] ELSE Columns(found[p][s], base[p], row[s])]
              /\ Goes(p, s)
        BY <1>7 DEF sync_flush
    <2>2. s \in todo[p] /\ s \in Slugs /\ \A t \in todo[p] \ {s} : s < t
        <3>1. todo[p] \in SUBSET Slugs
            BY DEF TypeOK
        <3>2. s \in todo[p] /\ s \in Slugs /\ \A t \in todo[p] : s <= t
            BY <3>1, FirstIsOne
        <3>3. \A t \in todo[p] \ {s} : s \in Nat /\ t \in Nat /\ s <= t /\ s # t
            BY <3>1, <3>2, CatalogueAssumption
        <3> QED BY <3>2, <3>3
    <2>3. /\ pc[p] = "flush" /\ todo'[p] = todo[p] \ {s} /\ pc'[p] \in Holding
          /\ \A q \in Syncs \ {p} : todo'[q] = todo[q] /\ pc'[q] = pc[q]
        BY <1>7, <2>1 DEF sync_flush, Goes, GoesTo, TypeOK
    <2>4. wrote'[s] \in Row /\ locked'[s] = p
        <3>1. found[p][s] \in Row /\ (base[p] # None => base[p] \in Row /\ row[s] \in Row)
            BY <2>2, <2>3 DEF SyncLedger, TypeOK, Or
        <3> QED BY <2>1, <2>2, <3>1, RowTypes DEF TypeOK
    <2>5. ASSUME NEW t \in Slugs \ {s}, locked'[t] # None
          PROVE  /\ wrote'[t] \in Row /\ pc'[locked'[t]] \in Holding
                 /\ \A x \in todo'[locked'[t]] : t < x
        <3>1. locked'[t] = locked[t] /\ wrote'[t] = wrote[t]
            BY <2>1, <2>5 DEF TypeOK
        <3>2. PICK q \in Syncs : locked[t] = q
            BY <2>5, <3>1 DEF TypeOK, Or
        <3>3. wrote[t] \in Row /\ pc[q] \in Holding /\ \A x \in todo[q] : t < x
            BY <2>5, <3>1, <3>2 DEF LockLedger
        <3> QED BY <2>3, <3>1, <3>2, <3>3
    <2> QED BY <2>2, <2>3, <2>4, <2>5 DEF LockLedger
<1>8. ASSUME NEW p \in Syncs,
             scan_raises(p) \/ sync_conflict(p) \/ sync_commit(p) \/ sync_interrupted(p)
      PROVE  LockLedger'
    <2>1. End({p})
        BY <1>8 DEF scan_raises, sync_conflict, sync_commit, sync_interrupted
    <2> QED BY <2>1, EndLocks
<1>9. CASE scheduler_restarts
    BY <1>9, EndLocks DEF scheduler_restarts
<1>10. CASE \/ \E s \in Slugs, m \in Metas \union {None, "raises"} : metadata_changes(s, m)
            \/ \E u \in Uploads : \/ \E s \in Slugs : upload_opens(u, s)
                                  \/ upload_replaces(u) \/ upload_rejected(u) \/ upload_dies(u)
            \/ UNCHANGED vars
    BY <1>2, <1>10 DEF metadata_changes, upload_opens, upload_replaces, upload_rejected,
                       upload_dies, locals, vars
<1> QED
    BY <1>3, <1>4, <1>5, <1>6, <1>7, <1>8, <1>9, <1>10 DEF Next, sync_step

(***************************************************************************)
(* Only a commit writes rows, and never takes one away.                    *)
(***************************************************************************)
LEMMA RowsStay ==
    ASSUME TypeOK, LockLedger, [Next]_vars, NEW s \in Slugs, row[s] \in Row
    PROVE  row'[s] \in Row
<1>1. ASSUME NEW p \in Syncs, sync_commit(p) PROVE row'[s] \in Row
    <2>1. locked[s] = p => wrote[s] \in Row
        BY CatalogueAssumption DEF LockLedger
    <2> QED BY <1>1, <2>1 DEF sync_commit
<1>2. CASE UNCHANGED row
    BY <1>2
<1> QED
    BY <1>1, <1>2
    DEF Next, metadata_changes, upload_opens, upload_replaces, upload_rejected, upload_dies,
        schedule_resync, sync_begins, sync_step, scan_all, scan_raises, sync_select, sync_flush,
        sync_conflict, sync_interrupted, scheduler_restarts, table, vars

(***************************************************************************)
(* A sync goes through what its scan found, and updates rows that exist.   *)
(***************************************************************************)
LEMMA NextSyncs ==
    ASSUME TypeOK, LockLedger, SyncLedger, [Next]_vars
    PROVE  SyncLedger'
<1> DEFINE Fine(p) ==
        /\ pc[p] \in {"select", "flush"} => \A s \in todo[p] : found[p][s] \in Row
        /\ pc[p] = "flush" /\ base[p] # None => \A s \in first(todo[p]) : row[s] \in Row
        /\ pc[p] = "commit" => todo[p] = {}
<1>1. ASSUME NEW p \in Syncs,
             \/ pc'[p] \in {"idle", "asleep", "scan"}
             \/ pc'[p] = pc[p] /\ todo'[p] = todo[p] /\ found'[p] = found[p] /\ base'[p] = base[p]
      PROVE  Fine(p)'
    <2>1. CASE pc'[p] \in {"idle", "asleep", "scan"}
        BY <2>1
    <2>2. CASE pc'[p] = pc[p] /\ todo'[p] = todo[p] /\ found'[p] = found[p] /\ base'[p] = base[p]
        <3>1. Fine(p)
            BY DEF SyncLedger
        <3>2. \A s \in first(todo[p]) : s \in Slugs
            BY DEF first, TypeOK
        <3>3. \A s \in first(todo[p]) : row[s] \in Row => row'[s] \in Row
            BY <3>2, RowsStay
        <3>4. first(todo'[p]) = first(todo[p])
            BY <2>2
        <3> QED BY <2>2, <3>1, <3>3, <3>4
    <2> QED BY <1>1, <2>1, <2>2
<1>2. ASSUME NEW P, End(P) PROVE SyncLedger'
    <2>1. ASSUME NEW p \in Syncs PROVE Fine(p)'
        BY <1>1, <1>2 DEF End
    <2> QED BY <2>1 DEF SyncLedger
<1>3. ASSUME UNCHANGED locals PROVE SyncLedger'
    <2>1. ASSUME NEW p \in Syncs PROVE Fine(p)'
        BY <1>1, <1>3 DEF locals
    <2> QED BY <2>1 DEF SyncLedger
<1>4. ASSUME NEW t \in Tasks, schedule_resync(t) PROVE SyncLedger'
    <2>1. ASSUME NEW p \in Syncs PROVE Fine(p)'
        <3>1. /\ todo' = todo /\ found' = found /\ base' = base
              /\ pc' = pc \/ pc' = [pc EXCEPT ![t] = "asleep"]
            BY <1>4 DEF schedule_resync, GoesTo
        <3>2. pc'[p] = "asleep" \/ pc'[p] = pc[p]
            BY <3>1 DEF TypeOK
        <3> QED BY <1>1, <3>1, <3>2
    <2> QED BY <2>1 DEF SyncLedger
<1>5. ASSUME NEW q \in Syncs, Fine(q)',
             \A p \in Syncs \ {q} : /\ pc'[p] = pc[p] /\ todo'[p] = todo[p]
                                    /\ found'[p] = found[p] /\ base'[p] = base[p]
      PROVE  SyncLedger'
    <2>1. ASSUME NEW p \in Syncs PROVE Fine(p)'
        BY <1>1, <1>5
    <2> QED BY <2>1 DEF SyncLedger
<1>6. ASSUME NEW q \in Syncs, sync_begins(q) PROVE SyncLedger'
    <2>1. /\ pc'[q] = "scan"
          /\ \A p \in Syncs \ {q} : /\ pc'[p] = pc[p] /\ todo'[p] = todo[p]
                                    /\ found'[p] = found[p] /\ base'[p] = base[p]
        BY <1>6 DEF sync_begins, GoesTo, TypeOK
    <2>2. Fine(q)'
        BY <1>1, <2>1
    <2> QED BY <1>5, <2>1, <2>2
<1>7. ASSUME NEW q \in Syncs, scan_all(q) PROVE SyncLedger'
    <2>1. PICK s \in first(todo[q]) :
              /\ meta[s] # "raises"
              /\ found' = [found EXCEPT ![q][s] = scan_directory(s)]
              /\ todo' = [todo EXCEPT ![q] = IF @ = {s} THEN {t \in Slugs : found'[q][t] # None}
                                             ELSE @ \ {s}]
              /\ GoesTo(q, IF todo[q] # {s} THEN "scan"
                           ELSE IF todo'[q] = {} THEN "commit" ELSE "select")
        BY <1>7 DEF scan_all
    <2>2. s \in Slugs /\ base' = base
        BY <1>7, FirstIsOne DEF scan_all, TypeOK
    <2>3. found'[q] \in [Slugs -> Or(Row)]
        <3>1. scan_directory(s) \in Or(Row)
            BY <2>1, <2>2, RowTypes
        <3> QED BY <2>1, <2>2, <3>1 DEF TypeOK
    <2>4. \A p \in Syncs \ {q} : /\ pc'[p] = pc[p] /\ todo'[p] = todo[p]
                                 /\ found'[p] = found[p] /\ base'[p] = base[p]
        BY <2>1, <2>2 DEF GoesTo, TypeOK
    <2>5. Fine(q)'
        <3>1. CASE todo[q] # {s}
            BY <2>1, <3>1 DEF GoesTo, TypeOK
        <3>2. CASE todo[q] = {s}
            <4>1. todo'[q] = {t \in Slugs : found'[q][t] # None}
                BY <2>1, <3>2 DEF TypeOK
            <4>2. \A t \in todo'[q] : found'[q][t] \in Row
                BY <2>3, <4>1 DEF Or
            <4>3. pc'[q] = IF todo'[q] = {} THEN "commit" ELSE "select"
                BY <2>1, <3>2 DEF GoesTo, TypeOK
            <4> QED BY <4>2, <4>3
        <3> QED BY <3>1, <3>2
    <2> QED BY <1>5, <2>4, <2>5
<1>8. ASSUME NEW q \in Syncs, NEW s \in first(todo[q]), Goes(q, s), pc[q] \in {"select", "flush"},
             found' = found, base' = base \/ base' = [base EXCEPT ![q] = None]
      PROVE  SyncLedger'
    <2>1. /\ todo'[q] = todo[q] \ {s} /\ pc'[q] = IF todo[q] = {s} THEN "commit" ELSE "select"
          /\ \A p \in Syncs \ {q} : /\ pc'[p] = pc[p] /\ todo'[p] = todo[p]
                                    /\ found'[p] = found[p] /\ base'[p] = base[p]
        BY <1>8 DEF Goes, GoesTo, TypeOK
    <2>2. \A t \in todo[q] : found[q][t] \in Row
        BY <1>8 DEF SyncLedger
    <2>3. Fine(q)'
        BY <1>8, <2>1, <2>2
    <2> QED BY <1>5, <2>1, <2>3
<1>9. ASSUME NEW q \in Syncs, sync_select(q) PROVE SyncLedger'
    <2>1. PICK s \in first(todo[q]) :
              IF row[s] = found[q][s]
              THEN Goes(q, s) /\ UNCHANGED base
              ELSE GoesTo(q, "flush") /\ base' = [base EXCEPT ![q] = row[s]] /\ UNCHANGED todo
        BY <1>9 DEF sync_select
    <2>2. pc[q] = "select" /\ found' = found /\ row' = row
        BY <1>9 DEF sync_select, table
    <2>3. CASE row[s] = found[q][s]
        BY <1>8, <2>1, <2>2, <2>3
    <2>4. CASE row[s] # found[q][s]
        <3>1. /\ pc'[q] = "flush" /\ base'[q] = row[s] /\ todo' = todo
              /\ \A p \in Syncs \ {q} : pc'[p] = pc[p] /\ base'[p] = base[p]
            BY <2>1, <2>4 DEF GoesTo, TypeOK
        <3>2. \A t \in todo[q] : found[q][t] \in Row
            BY <2>2 DEF SyncLedger
        <3>3. s \in Slugs /\ first(todo[q]) = {s}
            BY FirstIsOne DEF TypeOK
        <3>4. row[s] # None => row[s] \in Row
            BY <3>3 DEF TypeOK, Or
        <3>5. Fine(q)'
            BY <2>2, <3>1, <3>2, <3>3, <3>4
        <3> QED BY <1>5, <2>2, <3>1, <3>5
    <2> QED BY <2>3, <2>4
<1>10. ASSUME NEW q \in Syncs, sync_flush(q) PROVE SyncLedger'
    <2>1. /\ pc[q] = "flush" /\ found' = found /\ base' = [base EXCEPT ![q] = None]
          /\ \E s \in first(todo[q]) : Goes(q, s)
        BY <1>10 DEF sync_flush
    <2> QED BY <1>8, <2>1
<1>11. ASSUME NEW q \in Syncs,
              scan_raises(q) \/ sync_conflict(q) \/ sync_commit(q) \/ sync_interrupted(q)
       PROVE  SyncLedger'
    BY <1>2, <1>11 DEF scan_raises, sync_conflict, sync_commit, sync_interrupted
<1>12. CASE scheduler_restarts
    BY <1>2, <1>12 DEF scheduler_restarts
<1>13. CASE \/ \E s \in Slugs, m \in Metas \union {None, "raises"} : metadata_changes(s, m)
            \/ \E u \in Uploads : \/ \E s \in Slugs : upload_opens(u, s)
                                  \/ upload_replaces(u) \/ upload_rejected(u) \/ upload_dies(u)
            \/ UNCHANGED vars
    BY <1>3, <1>13 DEF metadata_changes, upload_opens, upload_replaces, upload_rejected,
                       upload_dies, vars
<1> QED
    BY <1>4, <1>6, <1>7, <1>9, <1>10, <1>11, <1>12, <1>13 DEF Next, sync_step

(***************************************************************************)
(* The clean ledger survives a step that leaves the running syncs, the     *)
(* rows and the locks alone and marks the directories it changes.          *)
(***************************************************************************)
LEMMA CleanKept ==
    ASSUME TypeOK, CleanLedger, ~spoilt' => ~spoilt,
           ~spoilt => /\ row' = row /\ locked' = locked /\ wrote' = wrote
                      /\ \A p \in Syncs : /\ Running(p)' <=> Running(p)
                                          /\ Running(p) => /\ pc'[p] = pc[p] /\ todo'[p] = todo[p]
                                                           /\ found'[p] = found[p] /\ base'[p] = base[p],
           \A s \in Slugs : s \in unseen' \/ (s \notin unseen /\ scan_directory(s)' = scan_directory(s))
    PROVE  CleanLedger'
<1> SUFFICES ASSUME ~spoilt'
             PROVE  /\ \A p, q \in Syncs : Running(p)' /\ Running(q)' => p = q
                    /\ \A p \in Syncs : Running(p)' => Clean(p)'
                    /\ (\A p \in Syncs : ~Running(p)') => \A s \in Slugs : Current(s)'
    BY DEF CleanLedger
<1>1. /\ row' = row /\ locked' = locked /\ wrote' = wrote
      /\ \A p \in Syncs : Running(p)' <=> Running(p)
      /\ \A p, q \in Syncs : Running(p) /\ Running(q) => p = q
      /\ \A p \in Syncs : Running(p) => Clean(p)
      /\ (\A p \in Syncs : ~Running(p)) => \A s \in Slugs : Current(s)
    BY DEF CleanLedger
<1>2. ASSUME NEW p \in Syncs, Running(p)' PROVE Clean(p)'
    <2>1. /\ pc'[p] = pc[p] /\ todo'[p] = todo[p] /\ found'[p] = found[p] /\ base'[p] = base[p]
          /\ Clean(p)
        BY <1>1, <1>2
    <2>2. \A s \in Slugs : pc'[p] # "scan" \/ s \notin todo'[p] =>
              s \in unseen' \/ found'[p][s] = scan_directory(s)'
        BY <2>1 DEF Clean
    <2>3. pc'[p] # "scan" =>
              \A s \in Slugs \ todo'[p] : found'[p][s] # None => Written(p, s)' = found'[p][s]
        BY <1>1, <2>1 DEF Clean, Written
    <2>4. pc'[p] = "flush" => \A s \in first(todo[p]) : base'[p] = row'[s]
        BY <1>1, <2>1 DEF Clean
    <2>5. first(todo[p])' = first(todo[p])
        BY <2>1 DEF first
    <2> QED BY <2>2, <2>3, <2>4, <2>5 DEF Clean
<1>3. ASSUME \A p \in Syncs : ~Running(p)', NEW s \in Slugs PROVE Current(s)'
    BY <1>1, <1>3 DEF Current
<1> QED BY <1>1, <1>2, <1>3

(***************************************************************************)
(* The first sync after a quiet time scans every directory and goes on     *)
(* alone; each step of it keeps what it found and did in agreement, and    *)
(* whatever disturbs it spoils it or marks a directory.                    *)
(***************************************************************************)
LEMMA NextClean ==
    ASSUME TypeOK, LockLedger, SyncLedger, CleanLedger, [Next]_vars
    PROVE  CleanLedger'
<1>1. CASE \/ \E s \in Slugs, m \in Metas \union {None, "raises"} : metadata_changes(s, m)
           \/ \E u \in Uploads : \/ \E s \in Slugs : upload_opens(u, s)
                                 \/ upload_replaces(u) \/ upload_rejected(u) \/ upload_dies(u)
           \/ UNCHANGED vars
    <2>1. /\ spoilt' = spoilt /\ row' = row /\ locked' = locked /\ wrote' = wrote
          /\ pc' = pc /\ todo' = todo /\ found' = found /\ base' = base
        BY <1>1 DEF metadata_changes, upload_opens, upload_replaces, upload_rejected, upload_dies,
                    table, locals, vars
    <2>2. ASSUME NEW s \in Slugs
          PROVE  s \in unseen' \/ (s \notin unseen /\ meta'[s] = meta[s] /\ image'[s] = image[s])
        <3>1. ASSUME NEW t \in Slugs, NEW m, metadata_changes(t, m)
              PROVE  s \in unseen' \/ (s \notin unseen /\ meta'[s] = meta[s] /\ image'[s] = image[s])
            BY <3>1 DEF metadata_changes, TypeOK
        <3>2. ASSUME NEW u \in Uploads, upload_replaces(u)
              PROVE  s \in unseen' \/ (s \notin unseen /\ meta'[s] = meta[s] /\ image'[s] = image[s])
            BY <3>2 DEF upload_replaces, TypeOK
        <3>3. CASE meta' = meta /\ image' = image /\ unseen' = unseen
            BY <3>3
        <3> QED BY <1>1, <3>1, <3>2, <3>3 DEF upload_opens, upload_rejected, upload_dies, disk, vars
    <2>3. \A s \in Slugs : s \in unseen' \/ (s \notin unseen /\ scan_directory(s)' = scan_directory(s))
        BY <2>2 DEF scan_directory
    <2> QED BY <2>1, <2>3, CleanKept DEF Running
<1>2. ASSUME meta' = meta, image' = image
      PROVE  \A s : scan_directory(s)' = scan_directory(s)
    BY <1>2 DEF scan_directory
<1>3. ASSUME NEW t \in Tasks, schedule_resync(t) PROVE CleanLedger'
    <2>1. /\ spoilt' = spoilt /\ row' = row /\ locked' = locked /\ wrote' = wrote
          /\ todo' = todo /\ found' = found /\ base' = base /\ unseen' = unseen
          /\ meta' = meta /\ image' = image
          /\ pc' = pc \/ (pc[t] = "idle" /\ pc' = [pc EXCEPT ![t] = "asleep"])
        BY <1>3 DEF schedule_resync, GoesTo, table, disk
    <2>2. \A p \in Syncs : (Running(p)' <=> Running(p)) /\ (Running(p) => pc'[p] = pc[p])
        BY <2>1 DEF Running, TypeOK
    <2> QED BY <1>2, <2>1, <2>2, CleanKept
<1>4. ASSUME NEW p \in Syncs, sync_begins(p) PROVE CleanLedger'
    <2>1. /\ spoilt' = (\E q \in Syncs : Running(q))
          /\ pc' = [pc EXCEPT ![p] = "scan"] /\ todo' = [todo EXCEPT ![p] = Slugs]
        BY <1>4 DEF sync_begins, GoesTo
    <2>2. ASSUME ~spoilt'
          PROVE  /\ \A q \in Syncs : Running(q)' <=> q = p
                 /\ Clean(p)'
        <3>1. \A q \in Syncs : Running(q)' <=> q = p
            BY <2>1, <2>2 DEF Running, TypeOK
        <3>2. pc'[p] = "scan" /\ todo'[p] = Slugs
            BY <2>1 DEF TypeOK
        <3> QED BY <3>1, <3>2 DEF Clean
    <2> QED BY <2>2 DEF CleanLedger
<1>5. ASSUME NEW p \in Syncs, spoilt' = spoilt, Running(p), Running(p)',
             ~spoilt => Clean(p)',
             \A q \in Syncs \ {p} : pc'[q] = pc[q]
      PROVE  CleanLedger'
    <2> SUFFICES ASSUME ~spoilt
                 PROVE  /\ \A q \in Syncs : Running(q)' => q = p
                        /\ Clean(p)' /\ Running(p)'
        BY <1>5 DEF CleanLedger
    <2>1. \A q \in Syncs : Running(q)' => q = p
        BY <1>5 DEF CleanLedger, Running
    <2> QED BY <1>5, <2>1
<1>6. ASSUME NEW p \in Syncs, Running(p), ~spoilt
      PROVE  Clean(p)
    BY <1>6 DEF CleanLedger
<1>7. ASSUME NEW p \in Syncs, scan_all(p) PROVE CleanLedger'
    <2>1. PICK s \in first(todo[p]) :
              /\ found' = [found EXCEPT ![p][s] = scan_directory(s)]
              /\ unseen' = unseen \ {s}
              /\ todo' = [todo EXCEPT ![p] = IF @ = {s} THEN {t \in Slugs : found'[p][t] # None}
                                             ELSE @ \ {s}]
              /\ GoesTo(p, IF todo[p] # {s} THEN "scan"
                           ELSE IF todo'[p] = {} THEN "commit" ELSE "select")
        BY <1>7 DEF scan_all
    <2>2. /\ pc[p] = "scan" /\ spoilt' = spoilt /\ meta' = meta /\ image' = image
          /\ s \in todo[p] /\ s \in Slugs
        BY <1>7, FirstIsOne DEF scan_all, disk, TypeOK
    <2>3. /\ pc'[p] = IF todo[p] # {s} THEN "scan" ELSE IF todo'[p] = {} THEN "commit" ELSE "select"
          /\ \A q \in Syncs \ {p} : pc'[q] = pc[q]
        BY <2>1 DEF GoesTo, TypeOK
    <2>4. ASSUME ~spoilt PROVE Clean(p)'
        <3>1. Clean(p)
            BY <1>6, <2>2, <2>4 DEF Running
        <3>2. found'[p][s] = scan_directory(s) /\ \A t \in Slugs \ {s} : found'[p][t] = found[p][t]
            BY <2>1, <2>2 DEF TypeOK
        <3>3. \A t \in Slugs : t \notin todo[p] \/ t = s =>
                  t \in unseen' \/ found'[p][t] = scan_directory(t)'
            BY <1>2, <2>1, <2>2, <3>1, <3>2 DEF Clean
        <3>4. CASE todo[p] # {s}
            <4>1. todo'[p] = todo[p] \ {s} /\ pc'[p] = "scan"
                BY <2>1, <2>3, <3>4 DEF TypeOK
            <4> QED BY <3>3, <4>1 DEF Clean
        <3>5. CASE todo[p] = {s}
            <4>1. todo'[p] = {t \in Slugs : found'[p][t] # None} /\ pc'[p] \in {"commit", "select"}
                BY <2>1, <2>3, <3>5 DEF TypeOK
            <4>2. \A t \in Slugs : t \in unseen' \/ found'[p][t] = scan_directory(t)'
                BY <3>3, <3>5
            <4> QED BY <4>1, <4>2 DEF Clean
        <3> QED BY <3>4, <3>5
    <2> QED BY <1>5, <2>2, <2>3, <2>4 DEF Running
<1>8. ASSUME NEW p \in Syncs, NEW s \in first(todo[p]), Goes(p, s), pc[p] \in {"select", "flush"},
             found' = found, spoilt' = spoilt, row' = row, unseen' = unseen, meta' = meta, image' = image,
             \A t \in Slugs \ {s} : locked'[t] = locked[t] /\ wrote'[t] = wrote[t],
             ~spoilt => Written(p, s)' = found[p][s]
      PROVE  CleanLedger'
    <2>1. /\ todo'[p] = todo[p] \ {s} /\ pc'[p] \in {"commit", "select"}
          /\ \A q \in Syncs \ {p} : pc'[q] = pc[q]
        BY <1>8 DEF Goes, GoesTo, TypeOK
    <2>2. ASSUME ~spoilt PROVE Clean(p)'
        <3>1. Clean(p)
            BY <1>6, <1>8, <2>2 DEF Running
        <3>2. \A t \in Slugs : t \in unseen' \/ found'[p][t] = scan_directory(t)'
            BY <1>2, <1>8, <3>1 DEF Clean
        <3>3. \A t \in Slugs \ todo[p] : t # s => Written(p, t)' = Written(p, t)
            BY <1>8 DEF Written
        <3>4. s \in todo[p]
            BY FirstIsOne DEF TypeOK
        <3>5. \A t \in Slugs \ todo'[p] : found'[p][t] # None => Written(p, t)' = found'[p][t]
            <4>1. \A t \in Slugs \ todo[p] : found[p][t] # None => Written(p, t) = found[p][t]
                BY <1>8, <3>1 DEF Clean
            <4>2. ASSUME NEW t \in Slugs \ todo'[p], found[p][t] # None
                  PROVE  Written(p, t)' = found[p][t]
                <5>1. CASE t = s
                    BY <1>8, <2>2, <5>1
                <5>2. CASE t # s
                    BY <2>1, <3>3, <4>1, <4>2, <5>2
                <5> QED BY <5>1, <5>2
            <4> QED BY <1>8, <4>2
        <3> QED BY <2>1, <3>2, <3>5 DEF Clean
    <2> QED BY <1>5, <1>8, <2>1, <2>2 DEF Running
<1>9. ASSUME NEW p \in Syncs, sync_select(p) PROVE CleanLedger'
    <2>1. PICK s \in first(todo[p]) :
              IF row[s] = found[p][s]
              THEN Goes(p, s) /\ UNCHANGED base
              ELSE GoesTo(p, "flush") /\ base' = [base EXCEPT ![p] = row[s]] /\ UNCHANGED todo
        BY <1>9 DEF sync_select
    <2>2. /\ pc[p] = "select" /\ found' = found /\ spoilt' = spoilt /\ row' = row
          /\ unseen' = unseen /\ meta' = meta /\ image' = image /\ locked' = locked /\ wrote' = wrote
        BY <1>9 DEF sync_select, table, disk
    <2>3. s \in Slugs /\ s \in todo[p] /\ first(todo[p]) = {s}
        BY FirstIsOne DEF TypeOK
    <2>4. CASE row[s] = found[p][s]
        <3>1. locked[s] # p
            BY <2>3, CatalogueAssumption DEF LockLedger
        <3>2. Written(p, s)' = found[p][s]
            BY <2>2, <2>4, <3>1 DEF Written
        <3> QED BY <1>8, <2>1, <2>2, <2>4, <3>2
    <2>5. CASE row[s] # found[p][s]
        <3>1. /\ pc'[p] = "flush" /\ base'[p] = row[s] /\ todo' = todo
              /\ \A q \in Syncs \ {p} : pc'[q] = pc[q]
            BY <2>1, <2>5 DEF GoesTo, TypeOK
        <3>2. ASSUME ~spoilt PROVE Clean(p)'
            <4>1. Clean(p)
                BY <1>6, <2>2, <3>2 DEF Running
            <4>2. \A t \in Slugs : t \in unseen' \/ found'[p][t] = scan_directory(t)'
                BY <1>2, <2>2, <4>1 DEF Clean
            <4>3. \A t \in Slugs \ todo'[p] : found'[p][t] # None => Written(p, t)' = found'[p][t]
                BY <2>2, <3>1, <4>1 DEF Clean, Written
            <4>4. \A t \in first(todo'[p]) : base'[p] = row'[t]
                BY <2>2, <2>3, <3>1
            <4> QED BY <4>2, <4>3, <4>4 DEF Clean
        <3> QED BY <1>5, <2>2, <3>1, <3>2 DEF Running
    <2> QED BY <2>4, <2>5
<1>10. ASSUME NEW p \in Syncs, sync_flush(p) PROVE CleanLedger'
    <2>1. PICK s \in first(todo[p]) :
              /\ locked' = [locked EXCEPT ![s] = p]
              /\ wrote' = [wrote EXCEPT ![s] =
                    IF base[p] = None THEN found[p][s] ELSE Columns(found[p][s], base[p], row[s])]
              /\ Goes(p, s)
        BY <1>10 DEF sync_flush
    <2>2. /\ pc[p] = "flush" /\ found' = found /\ spoilt' = spoilt /\ row' = row
          /\ unseen' = unseen /\ meta' = meta /\ image' = image
        BY <1>10 DEF sync_flush, disk
    <2>3. s \in Slugs /\ s \in todo[p] /\ first(todo[p]) = {s}
        BY FirstIsOne DEF TypeOK
    <2>4. /\ locked'[s] = p
          /\ wrote'[s] = IF base[p] = None THEN found[p][s] ELSE Columns(found[p][s], base[p], row[s])
          /\ \A t \in Slugs \ {s} : locked'[t] = locked[t] /\ wrote'[t] = wrote[t]
        BY <2>1, <2>3 DEF TypeOK
    <2>5. ASSUME ~spoilt PROVE Written(p, s)' = found[p][s]
        <3>1. base[p] = row[s]
            <4>1. Clean(p)
                BY <1>6, <2>2, <2>5 DEF Running
            <4> QED BY <2>2, <2>3, <4>1 DEF Clean
        <3>2. found[p][s] \in Row
            BY <2>2, <2>3 DEF SyncLedger
        <3>3. row[s] \in Or(Row)
            BY <2>3 DEF TypeOK
        <3>4. base[p] # None => Columns(found[p][s], base[p], row[s]) = found[p][s]
            BY <3>1, <3>2, <3>3 DEF Columns, Row, Or
        <3> QED BY <2>4, <3>4 DEF Written
    <2> QED BY <1>8, <2>1, <2>2, <2>4, <2>5
<1>11. ASSUME NEW p \in Syncs, sync_commit(p) PROVE CleanLedger'
    <2> SUFFICES ASSUME ~spoilt'
                 PROVE  /\ \A q \in Syncs : ~Running(q)'
                        /\ \A s \in Slugs : Current(s)'
        BY DEF CleanLedger
    <2>1. /\ pc[p] = "commit" /\ ~spoilt /\ unseen' = unseen /\ meta' = meta /\ image' = image
          /\ row' = [s \in Slugs |-> Written(p, s)]
          /\ pc' = [q \in Syncs |-> IF q = p THEN "idle" ELSE pc[q]]
        BY <1>11 DEF sync_commit, End, disk, Written
    <2>2. Running(p) /\ todo[p] = {}
        BY <2>1 DEF Running, SyncLedger
    <2>3. \A q \in Syncs : ~Running(q)'
        BY <2>1, <2>2 DEF CleanLedger, Running
    <2>4. ASSUME NEW s \in Slugs PROVE Current(s)'
        <3>1. Clean(p)
            BY <1>6, <2>1, <2>2
        <3>2. s \in unseen \/ found[p][s] = scan_directory(s)
            BY <2>1, <3>1 DEF Clean
        <3>3. found[p][s] # None => Written(p, s) = found[p][s]
            BY <2>1, <2>2, <3>1 DEF Clean
        <3>4. scan_directory(s)' = scan_directory(s) /\ row'[s] = Written(p, s)
            BY <1>2, <2>1
        <3> QED BY <2>1, <3>2, <3>3, <3>4 DEF Current
    <2> QED BY <2>3, <2>4
<1>12. ASSUME NEW p \in Syncs, scan_raises(p) \/ sync_conflict(p) \/ sync_interrupted(p)
       PROVE  CleanLedger'
    BY <1>12 DEF scan_raises, sync_conflict, sync_interrupted, CleanLedger
<1>13. CASE scheduler_restarts
    <2>1. /\ spoilt' = (spoilt \/ \E t \in Tasks : Running(t)) /\ End(Tasks)
          /\ row' = row /\ unseen' = unseen /\ meta' = meta /\ image' = image
        BY <1>13 DEF scheduler_restarts, disk
    <2>2. CASE spoilt'
        BY <2>2 DEF CleanLedger
    <2>3. CASE ~spoilt'
        <3>1. \A t \in Tasks : ~Running(t)
            BY <2>1, <2>3
        <3>2. \A s \in Slugs : locked[s] \notin Tasks
            <4>1. ASSUME NEW s \in Slugs, locked[s] \in Tasks PROVE FALSE
                <5>1. locked[s] # None
                    BY <4>1, CatalogueAssumption DEF Syncs
                <5>2. pc[locked[s]] \in {"select", "flush", "commit"}
                    BY <5>1 DEF LockLedger
                <5> QED BY <3>1, <4>1, <5>2 DEF Running
            <4> QED BY <4>1
        <3>3. locked' = locked /\ wrote' = wrote
            BY <2>1, <3>2 DEF End, TypeOK
        <3>4. \A p \in Syncs : /\ Running(p)' <=> Running(p)
                               /\ Running(p) => /\ pc'[p] = pc[p] /\ todo'[p] = todo[p]
                                                /\ found'[p] = found[p] /\ base'[p] = base[p]
            BY <2>1, <3>1 DEF End, Running
        <3> QED BY <1>2, <2>1, <2>3, <3>3, <3>4, CleanKept
    <2> QED BY <2>2, <2>3
<1> QED
    BY <1>1, <1>3, <1>4, <1>7, <1>9, <1>10, <1>11, <1>12, <1>13 DEF Next, sync_step

(***************************************************************************)
(* At first there is neither image nor row, and no sync runs.              *)
(***************************************************************************)
LEMMA InitCatalogue == Init => CatalogueInv
<1> SUFFICES ASSUME Init PROVE CatalogueInv
    OBVIOUS
<1>1. TypeOK
    <2>1. NoneYet \in [Slugs -> Or(Images)] /\ NoneYet \in [Slugs -> Or(Row)]
          /\ NoneYet \in [Slugs -> Or(Syncs)] /\ NoneYet \in [Slugs -> {None, "one", "mixed"}]
        BY DEF NoneYet, Or
    <2>2. 0 \in 0 .. MaxChanges /\ 0 \in 0 .. MaxFaults
        BY CatalogueAssumption
    <2>3. unseen \in SUBSET Slugs
        BY DEF Init
    <2> QED BY <2>1, <2>2, <2>3 DEF Init, TypeOK, Or
<1>2. WriterLedger
    BY CatalogueAssumption DEF Init, WriterLedger, ImagesAreWhole, NoneYet, Images
<1>3. LockLedger /\ SyncLedger /\ CleanLedger
    BY DEF Init, LockLedger, SyncLedger, CleanLedger, NoneYet
<1> QED BY <1>1, <1>2, <1>3 DEF CatalogueInv

(***************************************************************************)
(* The ledgers of uploads, locks and syncs hold in every reachable state.  *)
(***************************************************************************)
THEOREM CatalogueInvariant == Spec => []CatalogueInv
<1>1. CatalogueInv /\ [Next]_vars => CatalogueInv'
    <2> SUFFICES ASSUME CatalogueInv, [Next]_vars PROVE CatalogueInv'
        OBVIOUS
    <2>1. TypeOK /\ WriterLedger /\ LockLedger /\ SyncLedger /\ CleanLedger
        BY DEF CatalogueInv
    <2> QED BY <2>1, NextTypeOK, NextWriters, NextLocks, NextSyncs, NextClean DEF CatalogueInv
<1> QED BY InitCatalogue, <1>1, PTL DEF Spec

(***************************************************************************)
(* The types of the directories, of the table and of the syncs' locals: an *)
(* UPDATE always has a row to work on.                                     *)
(***************************************************************************)
THEOREM CatalogueTypeOK == Spec => []TypeOK
<1>1. CatalogueInv => TypeOK
    BY DEF CatalogueInv
<1> QED BY CatalogueInvariant, <1>1, PTL

(***************************************************************************)
(* The catalogue never sees part of a file, unless uploads of one slug     *)
(* met.                                                                    *)
(***************************************************************************)
THEOREM CatalogueImagesAreWhole == Spec => []ImagesAreWhole
<1>1. CatalogueInv => ImagesAreWhole
    BY DEF CatalogueInv, WriterLedger
<1> QED BY CatalogueInvariant, <1>1, PTL

(***************************************************************************)
(* Syncs never wait for each other in a circle: of those that wait, the    *)
(* one that waits for the largest slug waits for a holder that does not.   *)
(***************************************************************************)
THEOREM CatalogueNoDeadlock == Spec => []SomeLockHolderMoves
<1>1. CatalogueInv => SomeLockHolderMoves
    <2> SUFFICES ASSUME CatalogueInv, NEW p \in Syncs, Waits(p)
                 PROVE  \E q \in Syncs : ~Waits(q) /\ \E s \in Slugs : locked[s] = q
        BY DEF SomeLockHolderMoves
    <2> DEFINE Wanted == {s \in Slugs : locked[s] # None /\
                              \E q \in Syncs : pc[q] = "flush" /\ s \in first(todo[q])}
    <2>1. Wanted \in SUBSET Nat /\ IsFiniteSet(Wanted)
        BY FS_Subset, CatalogueAssumption
    <2>2. \A q \in Syncs : \A s \in first(todo[q]) : s \in Slugs /\ s \in todo[q]
        BY FirstIsOne DEF CatalogueInv, TypeOK
    <2>3. \A q \in Syncs : Waits(q) => \E s \in Wanted : s \in first(todo[q])
        BY <2>2 DEF Waits
    <2>4. PICK m \in Wanted : \A s \in Wanted : s <= m
        BY <2>1, <2>3, LargestElement
    <2>5. PICK q \in Syncs : locked[m] = q
        BY <2>4 DEF CatalogueInv, TypeOK, Or
    <2>6. \A t \in todo[q] : m < t
        BY <2>4, <2>5 DEF CatalogueInv, LockLedger
    <2>7. ~Waits(q)
        <3>1. ASSUME Waits(q) PROVE FALSE
            <4>1. PICK s \in Wanted : s \in first(todo[q])
                BY <2>3, <3>1
            <4>2. m < s /\ s <= m
                BY <2>2, <2>4, <2>6, <4>1
            <4>3. s \in Nat /\ m \in Nat
                BY <2>1, <4>1
            <4> QED BY <4>2, <4>3
        <3> QED BY <3>1
    <2> QED BY <2>4, <2>5, <2>7
<1> QED BY CatalogueInvariant, <1>1, PTL

(***************************************************************************)
(* When all is scanned and the last sync ran alone to its end, the table   *)
(* mirrors the directories.                                                *)
(***************************************************************************)
THEOREM CatalogueQuietIsCurrent == Spec => []QuietIsCurrent
<1>1. CatalogueInv => QuietIsCurrent
    BY DEF CatalogueInv, CleanLedger, Current, QuietIsCurrent
<1> QED BY CatalogueInvariant, <1>1, PTL
===============================================================================
