----------------------------- MODULE BlobStore -----------------------------
(***************************************************************************)
(* Blob files and the rows about them (internal/store/blobs.go), the       *)
(* pushes that reference them, and the maintenance jobs: garbage           *)
(* collection and repair (internal/integrity) and backup                   *)
(* (internal/backup).                                                      *)
(*                                                                         *)
(* Files are outside the database, so an upload, a removal and a backup    *)
(* are sequences of steps.  A write transaction excludes other database    *)
(* writes (the writer mutex and SQLite's lock) but no file operation.      *)
(* Maintenance is started from the command line with the server stopped,   *)
(* or from the admin pages of a serving process: MaintenanceAlone says     *)
(* which.  Name_Slip is a wrong variant of Name.                           *)
(***************************************************************************)
EXTENDS Integers, FiniteSets

CONSTANTS
  Users,            \* people
  Blobs,            \* blob ids, the hash of a content
  Objects,          \* object ids
  Uploads,          \* uploads in progress at the same time
  OwnerOf,          \* owner of each object's collection (moves keep it)
  Payloads,         \* what an object can reference: [main, extra]
  System,           \* the in-process operator, needs no reference
  NoBlob, NoRow, NoObject, Idle,   \* sentinels
  Jobs,             \* the maintenance jobs of an instance
  MaintenanceAlone  \* TRUE: jobs that delete run with the server stopped

ASSUME OwnerAssumption == OwnerOf \in [Objects -> Users]
ASSUME PayloadAssumption == Payloads \subseteq [main : Blobs \cup {NoBlob}, extra : SUBSET Blobs]
ASSUME SystemAssumption == System \notin Users /\ NoBlob \notin Blobs
ASSUME JobAssumption == Jobs \subseteq {"gc", "repair", "backup"} /\ MaintenanceAlone \in BOOLEAN
ASSUME FiniteAssumption == IsFiniteSet(Objects)

VARIABLES
  file,     \* blobs whose file exists
  rows,     \* reference count of each blob, or NoRow
  refs,     \* <<user, blob>>: the user may reference the blob
  objects,  \* committed objects, or NoObject
  tx,       \* the open push, or Idle
  upload,   \* each upload, or Idle
  job,      \* the collection or repair that runs, or Idle
  backup    \* the backup that runs or last finished, or Idle

vars == <<file, rows, refs, objects, tx, upload, job, backup>>

Object == [main : Blobs \cup {NoBlob}, extra : SUBSET Blobs, live : BOOLEAN]
Gone == [main |-> NoBlob, extra |-> {}, live |-> FALSE]

ASSUME SentinelAssumption == NoRow \notin Nat /\ NoObject \notin Object

Live(o) == objects[o] # NoObject /\ objects[o].live

UsesOf(obj) == ({obj.main} \ {NoBlob}) \cup obj.extra

\* The keys of LiveBlobRefs.
LiveBlobs == UNION {UsesOf(objects[o]) : o \in {p \in Objects : Live(p)}}

\* LiveBlobRefs: an object counts a blob as its content and again as a derivative.
LiveCount(b) ==
  Cardinality({o \in Objects : Live(o) /\ objects[o].main = b})
    + Cardinality({o \in Objects : Live(o) /\ b \in objects[o].extra})

HasRow(b) == rows[b] # NoRow

Init ==
  /\ file = {} /\ refs = {}
  /\ rows = [b \in Blobs |-> NoRow]
  /\ objects = [o \in Objects |-> NoObject]
  /\ tx = Idle /\ job = Idle /\ backup = Idle
  /\ upload = [h \in Uploads |-> Idle]

BackupRunning == backup # Idle /\ ~backup.done

\* No request or deleting job that excludes the other is under way.
Serving == MaintenanceAlone => job = Idle
Stopped ==
  /\ job = Idle
  /\ MaintenanceAlone =>
       tx = Idle /\ (\A h \in Uploads : upload[h] = Idle) /\ ~BackupRunning

-----------------------------------------------------------------------------
(* PutUserBlob: file, row, reference.                                      *)

\* The file is renamed into place, or found there already.
UploadFile(h, u, b) ==
  /\ Serving /\ upload[h] = Idle
  /\ file' = file \cup {b}
  /\ upload' = [upload EXCEPT ![h] = [user |-> u, blob |-> b, at |-> "row"]]
  /\ UNCHANGED <<rows, refs, objects, tx, job, backup>>

EnsureBlobRow(h) ==
  /\ tx = Idle /\ upload[h] # Idle /\ upload[h].at = "row"
  /\ rows' = [rows EXCEPT ![upload[h].blob] = IF @ = NoRow THEN 0 ELSE @]
  /\ upload' = [upload EXCEPT ![h].at = "ref"]
  /\ UNCHANGED <<file, refs, objects, tx, job, backup>>

AddBlobRef(h) ==
  /\ tx = Idle /\ upload[h] # Idle /\ upload[h].at = "ref"
  /\ refs' = IF upload[h].user = System THEN refs
             ELSE refs \cup {<<upload[h].user, upload[h].blob>>}
  /\ upload' = [upload EXCEPT ![h] = Idle]
  /\ UNCHANGED <<file, rows, objects, tx, job, backup>>

\* The client goes away or a statement fails half-way.
LoseUpload(h) ==
  /\ upload[h] # Idle
  /\ upload' = [upload EXCEPT ![h] = Idle]
  /\ UNCHANGED <<file, rows, refs, objects, tx, job, backup>>

\* AddToAlbum: who reads a photo may reference its blobs.
GrantRef(u, o) ==
  /\ Serving /\ tx = Idle /\ Live(o)
  /\ refs' = refs \cup ({u} \X UsesOf(objects[o]))
  /\ UNCHANGED <<file, rows, objects, tx, upload, job, backup>>

-----------------------------------------------------------------------------
(* The part of Push that is about blobs.                                   *)

\* ensureBlob: the row and the file exist and the pusher holds a reference.
Usable(u, b) == HasRow(b) /\ b \in file /\ (u = System \/ <<u, b>> \in refs)

Old(o) == IF objects[o] = NoObject THEN Gone ELSE objects[o]

\* The blobs that must be usable: the content if it changes, and the
\* derivatives the old metadata does not name.
NewBlobs(o, p) ==
  ({p.main} \ {NoBlob, Old(o).main}) \cup (p.extra \ Old(o).extra)

\* The push is admitted and its transaction has written, so that it holds the
\* write lock until it ends; the owner gains the references.
PushBegin(u, o, p) ==
  /\ Serving /\ tx = Idle
  /\ objects[o] = NoObject \/ Live(o)
  /\ \A b \in NewBlobs(o, p) : Usable(u, b)
  /\ tx' = [obj |-> o, main |-> p.main, extra |-> p.extra, live |-> TRUE,
            gains |-> {OwnerOf[o]} \X NewBlobs(o, p)]
  /\ UNCHANGED <<file, rows, refs, objects, upload, job, backup>>

DeleteBegin(o) ==
  /\ Serving /\ tx = Idle
  /\ Live(o)
  /\ tx' = [obj |-> o, main |-> objects[o].main, extra |-> objects[o].extra,
            live |-> FALSE, gains |-> {}]
  /\ UNCHANGED <<file, rows, refs, objects, upload, job, backup>>

Dec(n) == IF n = 0 THEN 0 ELSE n - 1

\* The count n of blob b after the object turns from `old' to `new': first the
\* content, then the derivatives (adjustExtraBlobRefs).
Recount_MainOnly(n, old, new, b) ==
  IF b = old.main /\ b # new.main THEN Dec(n)
  ELSE IF b = new.main /\ b # old.main THEN n + 1 ELSE n
Recount(n, old, new, b) ==
  LET m == IF b = old.main /\ b # new.main THEN Dec(n)
           ELSE IF b = new.main /\ b # old.main THEN n + 1 ELSE n
  IN IF b \in old.extra \ new.extra THEN Dec(m)
     ELSE IF b \in new.extra \ old.extra THEN m + 1 ELSE m

\* What the transaction's object references once it commits.
Target == IF tx.live THEN [main |-> tx.main, extra |-> tx.extra] ELSE Gone

PushCommit ==
  /\ tx # Idle
  /\ objects' = [objects EXCEPT ![tx.obj] = [main |-> tx.main, extra |-> tx.extra, live |-> tx.live]]
  /\ rows' = [b \in Blobs |-> IF HasRow(b) THEN Recount(rows[b], Old(tx.obj), Target, b) ELSE NoRow]
  /\ refs' = refs \cup tx.gains
  /\ tx' = Idle
  /\ UNCHANGED <<file, upload, job, backup>>

\* Refused after the blob checks (charge, quota): the transaction commits with
\* the owner's new references and nothing else.
PushRefused ==
  /\ tx # Idle
  /\ refs' = refs \cup tx.gains
  /\ tx' = Idle
  /\ UNCHANGED <<file, rows, objects, upload, job, backup>>

PushRollback ==
  /\ tx # Idle
  /\ tx' = Idle
  /\ UNCHANGED <<file, rows, refs, objects, upload, job, backup>>

-----------------------------------------------------------------------------
(* Garbage collection: Collect and RemoveBlob.                             *)

Collecting(step) == job # Idle /\ job.kind = "gc" /\ job.at = step

\* The tombstones every device has acknowledged are whichever.
CollectTombstones(tombs) ==
  /\ "gc" \in Jobs /\ Stopped
  /\ tombs \subseteq {o \in Objects : objects[o] # NoObject /\ ~Live(o)}
  /\ job' = [kind |-> "gc", at |-> "live", tombs |-> tombs, blobs |-> {}, blob |-> NoBlob]
  /\ UNCHANGED <<file, rows, refs, objects, tx, upload, backup>>

CollectLive ==
  /\ Collecting("live")
  /\ job' = [job EXCEPT !.at = "rows", !.blobs = LiveBlobs]
  /\ UNCHANGED <<file, rows, refs, objects, tx, upload, backup>>

CollectRows_ByCount ==
  /\ Collecting("rows")
  /\ job' = [job EXCEPT !.at = "remove", !.blobs = {b \in Blobs : HasRow(b) /\ (b \notin job.blobs \/ rows[b] = 0)}]
  /\ UNCHANGED <<file, rows, refs, objects, tx, upload, backup>>

\* The rows whose blob was not live, a moment ago.
CollectRows ==
  /\ Collecting("rows")
  /\ job' = [job EXCEPT !.at = "remove", !.blobs = {b \in Blobs : HasRow(b)} \ job.blobs]
  /\ UNCHANGED <<file, rows, refs, objects, tx, upload, backup>>

RemoveFile(b) ==
  /\ Collecting("remove") /\ b \in job.blobs
  /\ file' = file \ {b}
  /\ job' = [job EXCEPT !.at = "refs", !.blob = b]
  /\ UNCHANGED <<rows, refs, objects, tx, upload, backup>>

RemoveRefs ==
  /\ Collecting("refs") /\ tx = Idle
  /\ refs' = {r \in refs : r[2] # job.blob}
  /\ job' = [job EXCEPT !.at = "row"]
  /\ UNCHANGED <<file, rows, objects, tx, upload, backup>>

RemoveRow ==
  /\ Collecting("row") /\ tx = Idle
  /\ rows' = [rows EXCEPT ![job.blob] = NoRow]
  /\ job' = [job EXCEPT !.at = "remove", !.blobs = @ \ {job.blob}, !.blob = NoBlob]
  /\ UNCHANGED <<file, refs, objects, tx, upload, backup>>

\* deleteTombstones: the listed objects go.
CollectDone ==
  /\ Collecting("remove") /\ job.blobs = {} /\ tx = Idle
  /\ objects' = [o \in Objects |-> IF o \in job.tombs THEN NoObject ELSE objects[o]]
  /\ job' = Idle
  /\ UNCHANGED <<file, rows, refs, tx, upload, backup>>

-----------------------------------------------------------------------------
(* Repair: RepairOrphans, which lists the files before the rows, and then  *)
(* RepairRefcounts.                                                        *)

Repairing(step) == job # Idle /\ job.kind = "repair" /\ job.at = step

RepairList ==
  /\ "repair" \in Jobs /\ Stopped
  /\ job' = [kind |-> "repair", at |-> "rows", files |-> file, counts |-> rows]
  /\ UNCHANGED <<file, rows, refs, objects, tx, upload, backup>>

RepairCompare ==
  /\ Repairing("rows")
  /\ job' = [job EXCEPT !.at = "orphans", !.files = {b \in @ : ~HasRow(b)}]
  /\ UNCHANGED <<file, rows, refs, objects, tx, upload, backup>>

RemoveOrphan(b) ==
  /\ Repairing("orphans") /\ b \in job.files
  /\ file' = file \ {b}
  /\ job' = [job EXCEPT !.files = @ \ {b}]
  /\ UNCHANGED <<rows, refs, objects, tx, upload, backup>>

\* The live counts, and then the rows that differ from them.
RepairLive ==
  /\ Repairing("orphans") /\ job.files = {}
  /\ job' = [job EXCEPT !.at = "differ", !.counts = [b \in Blobs |-> LiveCount(b)]]
  /\ UNCHANGED <<file, rows, refs, objects, tx, upload, backup>>

RepairDiffer_OnlyLive ==
  /\ Repairing("differ")
  /\ job' = [job EXCEPT !.at = "counts",
                        !.files = {b \in Blobs : HasRow(b) /\ job.counts[b] # 0 /\ rows[b] # job.counts[b]}]
  /\ UNCHANGED <<file, rows, refs, objects, tx, upload, backup>>

RepairDiffer ==
  /\ Repairing("differ")
  /\ job' = [job EXCEPT !.at = "counts", !.files = {b \in Blobs : HasRow(b) /\ rows[b] # job.counts[b]}]
  /\ UNCHANGED <<file, rows, refs, objects, tx, upload, backup>>

RepairCount(b) ==
  /\ Repairing("counts") /\ b \in job.files /\ tx = Idle
  /\ rows' = [rows EXCEPT ![b] = IF @ = NoRow THEN @ ELSE job.counts[b]]
  /\ job' = [job EXCEPT !.files = @ \ {b}]
  /\ UNCHANGED <<file, refs, objects, tx, upload, backup>>

RepairDone ==
  /\ Repairing("counts") /\ job.files = {}
  /\ job' = Idle
  /\ UNCHANGED <<file, rows, refs, objects, tx, upload, backup>>

-----------------------------------------------------------------------------
(* Backup: VACUUM INTO takes the rows, then the blob directory is walked.  *)
(* `needs' records what could be read when the snapshot was taken.         *)

BackupSnapshot ==
  /\ "backup" \in Jobs /\ Serving
  /\ backup = Idle
  /\ backup' = [needs |-> LiveBlobs \cap file, seen |-> {}, has |-> {}, done |-> FALSE]
  /\ UNCHANGED <<file, rows, refs, objects, tx, upload, job>>

\* The walk comes to the place of b in the directory.
BackupVisit(b) ==
  /\ BackupRunning /\ b \notin backup.seen
  /\ backup' = [backup EXCEPT !.seen = @ \cup {b}, !.has = IF b \in file THEN @ \cup {b} ELSE @]
  /\ UNCHANGED <<file, rows, refs, objects, tx, upload, job>>

BackupDone_SnapshotLast ==
  /\ BackupRunning /\ backup.seen = Blobs
  /\ backup' = [backup EXCEPT !.done = TRUE, !.needs = LiveBlobs \cap file]
  /\ UNCHANGED <<file, rows, refs, objects, tx, upload, job>>

\* The archive is renamed into place.
BackupDone ==
  /\ BackupRunning /\ backup.seen = Blobs
  /\ backup' = [backup EXCEPT !.done = TRUE]
  /\ UNCHANGED <<file, rows, refs, objects, tx, upload, job>>

\* It fails (a file vanished under it, no space), or a finished one is old.
BackupEnd ==
  /\ backup # Idle
  /\ backup' = Idle
  /\ UNCHANGED <<file, rows, refs, objects, tx, upload, job>>

\* A job or the process dies: files and committed rows stay as they are.
JobFails ==
  /\ job # Idle
  /\ job' = Idle
  /\ UNCHANGED <<file, rows, refs, objects, tx, upload, backup>>

Crash ==
  /\ tx' = Idle /\ job' = Idle
  /\ upload' = [h \in Uploads |-> Idle]
  /\ backup' = IF backup # Idle /\ backup.done THEN backup ELSE Idle
  /\ <<tx, job, upload, backup>> # <<tx', job', upload', backup'>>
  /\ UNCHANGED <<file, rows, refs, objects>>

Next ==
  \/ \E h \in Uploads, u \in Users \cup {System}, b \in Blobs : UploadFile(h, u, b)
  \/ \E h \in Uploads : EnsureBlobRow(h) \/ AddBlobRef(h) \/ LoseUpload(h)
  \/ \E u \in Users, o \in Objects : GrantRef(u, o)
  \/ \E u \in Users \cup {System}, o \in Objects, p \in Payloads : PushBegin(u, o, p)
  \/ \E o \in Objects : DeleteBegin(o)
  \/ PushCommit \/ PushRefused \/ PushRollback
  \/ \E tombs \in SUBSET Objects : CollectTombstones(tombs)
  \/ CollectLive \/ CollectRows \/ RemoveRefs \/ RemoveRow \/ CollectDone
  \/ \E b \in Blobs : RemoveFile(b) \/ RemoveOrphan(b) \/ RepairCount(b) \/ BackupVisit(b)
  \/ RepairList \/ RepairCompare \/ RepairLive \/ RepairDiffer \/ RepairDone
  \/ BackupSnapshot \/ BackupDone \/ BackupEnd
  \/ JobFails \/ Crash

Spec == Init /\ [][Next]_vars

-----------------------------------------------------------------------------
(* Properties.                                                             *)

\* Every variable has its type.
TypeOK ==
  /\ file \subseteq Blobs
  /\ rows \in [Blobs -> Nat \cup {NoRow}]
  /\ refs \subseteq Users \X Blobs
  /\ objects \in [Objects -> Object \cup {NoObject}]
  /\ tx = Idle \/ tx \in [obj : Objects, main : Blobs \cup {NoBlob}, extra : SUBSET Blobs,
                          live : BOOLEAN, gains : SUBSET (Users \X Blobs)]
  /\ upload \in [Uploads -> [user : Users \cup {System}, blob : Blobs, at : {"row", "ref"}] \cup {Idle}]
  /\ \/ job = Idle
     \/ job \in [kind : {"gc"}, at : {"live", "rows", "remove", "refs", "row"},
                 tombs : SUBSET Objects, blobs : SUBSET Blobs, blob : Blobs \cup {NoBlob}]
     \/ job \in [kind : {"repair"}, at : {"rows", "orphans", "differ", "counts"},
                 files : SUBSET Blobs, counts : [Blobs -> Nat \cup {NoRow}]]
  /\ backup = Idle \/ backup \in [needs : SUBSET Blobs, seen : SUBSET Blobs,
                                  has : SUBSET Blobs, done : BOOLEAN]

\* Whatever a live object references has its row and its file, so it can be
\* read (ARCHITECTURE.md, "Metadata must never point at a missing blob after a
\* committed transaction").
NoDanglingReference == \A b \in LiveBlobs : HasRow(b) /\ b \in file

\* The stored counts are the live references.
RefcountsExact == \A b \in Blobs : HasRow(b) => rows[b] = LiveCount(b)

\* Once exact, the stored counts stay exact, whatever pushes, deletions, uploads,
\* collections, repairs and crashes follow (LiveBlobRefs, "blobs.refcount should
\* match"; SYNC.md, verify).
CountsStayExact == [][RefcountsExact => RefcountsExact']_vars

\* The owner of an object may reference each of its blobs, whoever wrote it, so
\* that the owner can write the object again after the writer is gone.
OwnersMayReference ==
  \A o \in Objects : Live(o) => \A b \in UsesOf(objects[o]) : <<OwnerOf[o], b>> \in refs

\* Maintenance that completes has done its work: a collection leaves no row and
\* no reference of an unused blob, a repair no file without a row and no count
\* that differs from the live references, however wrong the counts were before.
JobsFinishTheirWork ==
  /\ Collecting("remove") /\ job.blobs = {} =>
       /\ {b \in Blobs : HasRow(b)} = LiveBlobs
       /\ \A r \in refs : r[2] \in LiveBlobs
  /\ Repairing("differ") => \A b \in file : HasRow(b)
  /\ Repairing("counts") /\ job.files = {} => RefcountsExact

\* A finished backup holds every blob the rows in it reference (SECURITY.md,
\* "Backups contain everything needed to reconstruct user data").
BackupComplete == backup # Idle /\ backup.done => backup.needs \subseteq backup.has

\* References hold: what is referenced can be read, and by its owner referenced.
ReferencesHeld == TypeOK /\ NoDanglingReference /\ OwnersMayReference
=============================================================================
