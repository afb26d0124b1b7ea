-------------------------- MODULE BlobStore_proofs --------------------------
(***************************************************************************)
(* Proofs about BlobStore: where the jobs that delete run alone, nothing   *)
(* that is referenced loses its row or its file, reference counts that are *)
(* exact stay exact, a job that completes has done its work, and a backup  *)
(* is complete; for all users, blobs, objects, uploads and payloads.       *)
(*                                                                         *)
(* Everything but the types rests on MaintenanceAlone: a collection beside *)
(* a serving process removes blobs that a push just referenced.            *)
(***************************************************************************)
EXTENDS BlobStore, FiniteSetTheorems, TLAPS

-----------------------------------------------------------------------------
(* The operators of the model.                                             *)

LEMMA UsesType ==
  ASSUME NEW v, v.main \in Blobs \cup {NoBlob}, v.extra \in SUBSET Blobs
  PROVE  UsesOf(v) \subseteq Blobs
BY DEF UsesOf

LEMMA LiveType ==
  ASSUME TypeOK, NEW o \in Objects, Live(o)
  PROVE  /\ objects[o] \in Object
         /\ UsesOf(objects[o]) \subseteq Blobs
<1>1. objects[o] \in Object
  BY DEF TypeOK, Live
<1> QED BY <1>1, UsesType DEF Object

\* What is live, one object at a time.
LEMMA LiveMember ==
  /\ \A b : b \in LiveBlobs <=> \E o \in Objects : Live(o) /\ b \in UsesOf(objects[o])
  /\ TypeOK => LiveBlobs \subseteq Blobs
<1>1. \A b : b \in LiveBlobs <=> \E o \in Objects : Live(o) /\ b \in UsesOf(objects[o])
  BY DEF LiveBlobs
<1> QED BY <1>1, LiveType

\* The objects decide what is live and how often.
LEMMA LiveSame ==
  ASSUME UNCHANGED objects
  PROVE  /\ \A o : Live(o)' <=> Live(o)
         /\ LiveBlobs' = LiveBlobs
         /\ \A b : LiveCount(b)' = LiveCount(b)
BY DEF Live, LiveBlobs, LiveCount

LEMMA RecountType ==
  ASSUME NEW n \in Nat, NEW old, NEW new, NEW b
  PROVE  Recount(n, old, new, b) \in Nat
BY DEF Recount, Dec

\* The objects that count b: once for their content, once for a derivative.
ByMain(b) == {o \in Objects : Live(o) /\ objects[o].main = b}
ByExtra(b) == {o \in Objects : Live(o) /\ b \in objects[o].extra}

LEMMA CountType ==
  ASSUME NEW b
  PROVE  /\ IsFiniteSet(ByMain(b)) /\ IsFiniteSet(ByExtra(b))
         /\ Cardinality(ByMain(b)) \in Nat /\ Cardinality(ByExtra(b)) \in Nat
         /\ LiveCount(b) = Cardinality(ByMain(b)) + Cardinality(ByExtra(b))
         /\ LiveCount(b) \in Nat
<1>1. IsFiniteSet(ByMain(b)) /\ IsFiniteSet(ByExtra(b))
  BY FiniteAssumption, FS_Subset DEF ByMain, ByExtra
<1>2. Cardinality(ByMain(b)) \in Nat /\ Cardinality(ByExtra(b)) \in Nat
  BY <1>1, FS_CardinalityType
<1> QED BY <1>1, <1>2 DEF LiveCount, ByMain, ByExtra

\* What is not live is counted zero times.
LEMMA CountZero ==
  ASSUME NEW b \in Blobs, b \notin LiveBlobs
  PROVE  LiveCount(b) = 0
<1>1. ByMain(b) = {} /\ ByExtra(b) = {}
  BY LiveMember, SystemAssumption DEF ByMain, ByExtra, UsesOf
<1> QED BY <1>1, CountType, FS_EmptySet

\* Each variable has few writers.
LEMMA WhoWrites ==
  ASSUME [Next]_vars
  PROVE  /\ \/ UNCHANGED objects
            \/ PushCommit \/ CollectDone
         /\ \/ UNCHANGED file
            \/ \E h \in Uploads, u \in Users \cup {System}, b \in Blobs : UploadFile(h, u, b)
            \/ \E b \in Blobs : RemoveFile(b) \/ RemoveOrphan(b)
         /\ \/ UNCHANGED rows
            \/ \E h \in Uploads : EnsureBlobRow(h)
            \/ PushCommit \/ RemoveRow \/ \E b \in Blobs : RepairCount(b)
         /\ \/ UNCHANGED refs
            \/ \E h \in Uploads : AddBlobRef(h)
            \/ \E u \in Users, o \in Objects : GrantRef(u, o)
            \/ PushCommit \/ PushRefused \/ RemoveRefs
         /\ \/ UNCHANGED tx
            \/ \E u \in Users \cup {System}, o \in Objects, p \in Payloads : PushBegin(u, o, p)
            \/ \E o \in Objects : DeleteBegin(o)
            \/ tx' = Idle
         /\ \/ UNCHANGED upload
            \/ \E h \in Uploads, u \in Users \cup {System}, b \in Blobs : UploadFile(h, u, b)
            \/ \E h \in Uploads : EnsureBlobRow(h) \/ AddBlobRef(h) \/ LoseUpload(h)
            \/ Crash
         /\ \/ UNCHANGED job
            \/ \E tombs \in SUBSET Objects : CollectTombstones(tombs)
            \/ CollectLive \/ CollectRows \/ RemoveRefs \/ RemoveRow
            \/ \E b \in Blobs : RemoveFile(b) \/ RemoveOrphan(b) \/ RepairCount(b)
            \/ RepairList \/ RepairCompare \/ RepairLive \/ RepairDiffer
            \/ job' = Idle
         /\ \/ UNCHANGED backup
            \/ BackupSnapshot \/ BackupDone
            \/ \E b \in Blobs : BackupVisit(b)
            \/ backup' = Idle
BY DEF Next, vars, UploadFile, EnsureBlobRow, AddBlobRef, LoseUpload, GrantRef, PushBegin,
       DeleteBegin, PushCommit, PushRefused, PushRollback, CollectTombstones, CollectLive,
       CollectRows, RemoveRefs, RemoveRow, CollectDone, RemoveFile, RemoveOrphan,
       RepairCount, BackupVisit, RepairList, RepairCompare, RepairLive, RepairDiffer,
       RepairDone, BackupSnapshot, BackupDone, BackupEnd, JobFails, Crash

-----------------------------------------------------------------------------
(* Types.                                                                  *)

GcJob == [kind : {"gc"}, at : {"live", "rows", "remove", "refs", "row"},
          tombs : SUBSET Objects, blobs : SUBSET Blobs, blob : Blobs \cup {NoBlob}]
RepairJob == [kind : {"repair"}, at : {"rows", "orphans", "differ", "counts"},
              files : SUBSET Blobs, counts : [Blobs -> Nat \cup {NoRow}]]

LEMMA JobType ==
  /\ TypeOK => job = Idle \/ job \in GcJob \/ job \in RepairJob
  /\ TypeOK /\ job # Idle /\ job.kind = "gc" => job \in GcJob
  /\ TypeOK /\ job # Idle /\ job.kind = "repair" => job \in RepairJob
BY DEF TypeOK, GcJob, RepairJob

LEMMA TypeStep == TypeOK /\ [Next]_vars => TypeOK'
<1> SUFFICES ASSUME TypeOK, [Next]_vars PROVE TypeOK'
  OBVIOUS
<1> DEFINE Push == [obj : Objects, main : Blobs \cup {NoBlob}, extra : SUBSET Blobs,
                    live : BOOLEAN, gains : SUBSET (Users \X Blobs)]
<1>1. file' \subseteq Blobs
  BY WhoWrites, ZenonT(40) DEF TypeOK, UploadFile, RemoveFile, RemoveOrphan
<1>2. rows' \in [Blobs -> Nat \cup {NoRow}]
  <2>1. CASE PushCommit
    BY <2>1, RecountType DEF PushCommit, TypeOK, HasRow
  <2>2. CASE \E b \in Blobs : RepairCount(b)
    BY <2>2, JobType DEF RepairCount, Repairing, TypeOK, RepairJob
  <2> QED BY <2>1, <2>2, WhoWrites DEF TypeOK, EnsureBlobRow, RemoveRow
<1>3. refs' \subseteq Users \X Blobs
  <2>1. ASSUME NEW u \in Users, NEW o \in Objects, GrantRef(u, o) PROVE refs' \subseteq Users \X Blobs
    BY <2>1, LiveType DEF GrantRef, TypeOK
  <2> QED BY <2>1, WhoWrites DEF TypeOK, AddBlobRef, PushCommit, PushRefused, RemoveRefs
<1>4. objects' \in [Objects -> Object \cup {NoObject}]
  <2>1. CASE PushCommit
    <3>1. [main |-> tx.main, extra |-> tx.extra, live |-> tx.live] \in Object
      BY <2>1 DEF PushCommit, TypeOK, Object
    <3> QED BY <2>1, <3>1 DEF PushCommit, TypeOK
  <2> QED BY <2>1, WhoWrites DEF TypeOK, CollectDone
<1>5. tx' = Idle \/ tx' \in Push
  <2>1. ASSUME NEW u \in Users \cup {System}, NEW o \in Objects, NEW p \in Payloads, PushBegin(u, o, p)
        PROVE  tx' \in Push
    <3>1. p.main \in Blobs \cup {NoBlob} /\ p.extra \subseteq Blobs /\ NewBlobs(o, p) \subseteq Blobs
      BY PayloadAssumption DEF NewBlobs
    <3>2. {OwnerOf[o]} \X NewBlobs(o, p) \in SUBSET (Users \X Blobs)
      BY <3>1, OwnerAssumption
    <3> QED BY <2>1, <3>1, <3>2 DEF PushBegin
  <2>2. ASSUME NEW o \in Objects, DeleteBegin(o) PROVE tx' \in Push
    <3>1. objects[o].main \in Blobs \cup {NoBlob} /\ objects[o].extra \in SUBSET Blobs
      BY <2>2, LiveType DEF DeleteBegin, Object
    <3> QED BY <2>2, <3>1 DEF DeleteBegin
  <2> QED BY <2>1, <2>2, WhoWrites DEF TypeOK
<1>6. upload' \in [Uploads -> [user : Users \cup {System}, blob : Blobs, at : {"row", "ref"}] \cup {Idle}]
  BY WhoWrites DEF TypeOK, UploadFile, EnsureBlobRow, AddBlobRef, LoseUpload, Crash
<1>7. job' = Idle \/ job' \in GcJob \/ job' \in RepairJob
  <2>1. CASE CollectLive
    BY <2>1, JobType, LiveMember DEF CollectLive, Collecting, GcJob
  <2>2. CASE RepairLive
    BY <2>2, JobType, CountType DEF RepairLive, Repairing, RepairJob
  <2>3. CASE CollectRows \/ RemoveRefs \/ RemoveRow \/ \E b \in Blobs : RemoveFile(b)
    BY <2>3, JobType, ZenonT(60) DEF CollectRows, RemoveRefs, RemoveRow, RemoveFile, Collecting, GcJob
  <2>4. CASE RepairCompare \/ RepairDiffer
    <3>1. job \in RepairJob
      BY <2>4, JobType DEF RepairCompare, RepairDiffer, Repairing
    <3>2. CASE RepairCompare
      <4>1. {b \in job.files : ~HasRow(b)} \in SUBSET Blobs
        BY <3>1 DEF RepairJob
      <4> QED BY <3>1, <3>2, <4>1 DEF RepairCompare, RepairJob
    <3>3. CASE RepairDiffer
      <4>1. {b \in Blobs : HasRow(b) /\ rows[b] # job.counts[b]} \in SUBSET Blobs
        OBVIOUS
      <4> QED BY <3>1, <3>3, <4>1 DEF RepairDiffer, RepairJob
    <3> QED BY <2>4, <3>2, <3>3
  <2>7. ASSUME NEW b \in Blobs, RemoveOrphan(b) \/ RepairCount(b) PROVE job' \in RepairJob
    <3>1. job \in RepairJob
      BY <2>7, JobType DEF RemoveOrphan, RepairCount, Repairing
    <3> QED BY <2>7, <3>1 DEF RemoveOrphan, RepairCount, RepairJob
  <2>5. ASSUME NEW tombs \in SUBSET Objects, CollectTombstones(tombs) PROVE job' \in GcJob
    BY <2>5 DEF CollectTombstones, GcJob
  <2>6. CASE RepairList
    BY <2>6 DEF RepairList, RepairJob, TypeOK
  <2> QED BY <2>1, <2>2, <2>3, <2>4, <2>5, <2>6, <2>7, WhoWrites, JobType
<1>8. backup' = Idle \/ backup' \in [needs : SUBSET Blobs, seen : SUBSET Blobs,
                                     has : SUBSET Blobs, done : BOOLEAN]
  <2>1. CASE BackupSnapshot
    BY <2>1, LiveMember DEF BackupSnapshot
  <2>2. CASE BackupDone
    BY <2>2 DEF BackupDone, BackupRunning, TypeOK
  <2>3. ASSUME NEW b \in Blobs, BackupVisit(b)
        PROVE  backup' \in [needs : SUBSET Blobs, seen : SUBSET Blobs, has : SUBSET Blobs, done : BOOLEAN]
    BY <2>3 DEF BackupVisit, BackupRunning, TypeOK
  <2> QED BY <2>1, <2>2, <2>3, WhoWrites DEF TypeOK
<1> QED BY <1>1, <1>2, <1>3, <1>4, <1>5, <1>6, <1>7, <1>8 DEF TypeOK, GcJob, RepairJob

-----------------------------------------------------------------------------
(* The inductive invariant.                                                *)

\* Jobs that delete run alone: no push, no upload and no backup beside them.
JobsAlone ==
  job # Idle =>
    tx = Idle /\ (\A h \in Uploads : upload[h] = Idle) /\ ~BackupRunning

\* What the open push will reference is there, and its owner gains what it may
\* not reference yet; the object it changes is not a tombstone.
PushGrounded ==
  tx # Idle =>
    /\ objects[tx.obj] = NoObject \/ Live(tx.obj)
    /\ \A r \in tx.gains : HasRow(r[2])
    /\ tx.live => \A b \in UsesOf(tx) :
         /\ HasRow(b) /\ b \in file
         /\ <<OwnerOf[tx.obj], b>> \in refs \cup tx.gains

\* A reference, held or about to be added, is to a blob with a row.
RefsHaveRows ==
  /\ \A r \in refs : HasRow(r[2])
  /\ \A h \in Uploads : upload[h] # Idle /\ upload[h].at = "ref" => HasRow(upload[h].blob)

\* A collection knows what is live, and removes nothing else and all the rest.
CollectionExact ==
  job # Idle /\ job.kind = "gc" =>
    /\ \A o \in job.tombs : ~Live(o)
    /\ job.at = "rows" => job.blobs = LiveBlobs
    /\ job.at \in {"remove", "refs", "row"} => job.blobs = {b \in Blobs : HasRow(b)} \ LiveBlobs
    /\ job.at \in {"refs", "row"} => job.blob \in job.blobs
    /\ job.at = "row" => \A r \in refs : r[2] # job.blob

\* A repair has on its list every file without a row, and later every row whose
\* count is not the count it took.
RepairExact ==
  job # Idle /\ job.kind = "repair" =>
    /\ job.at = "rows" => job.files = file
    /\ job.at = "orphans" => job.files = {b \in file : ~HasRow(b)}
    /\ job.at \in {"differ", "counts"} =>
         /\ \A b \in file : HasRow(b)
         /\ job.counts = [b \in Blobs |-> LiveCount(b)]
    /\ job.at = "counts" => job.files = {b \in Blobs : HasRow(b) /\ rows[b] # LiveCount(b)}

\* What the snapshot needs is still there when the walk comes to it, and is in
\* the backup once it has passed.
BackupGrounded ==
  backup # Idle =>
    /\ ~backup.done => backup.needs \subseteq file
    /\ backup.needs \cap backup.seen \subseteq backup.has
    /\ backup.done => backup.seen = Blobs

\* All of it.
IInv ==
  /\ ReferencesHeld
  /\ JobsAlone /\ PushGrounded /\ RefsHaveRows
  /\ CollectionExact /\ RepairExact /\ BackupGrounded

LEMMA InitIInv == Init => IInv
BY DEF Init, IInv, ReferencesHeld, TypeOK, NoDanglingReference, OwnersMayReference, JobsAlone,
       PushGrounded, RefsHaveRows, CollectionExact, RepairExact, BackupGrounded,
       LiveBlobs, Live, BackupRunning

-----------------------------------------------------------------------------
(* What is referenced is there.                                            *)

\* A commit makes live what the push had checked, and takes no row away.
LEMMA CommitKeeps ==
  ASSUME TypeOK, PushGrounded, PushCommit
  PROVE  /\ \A b \in Blobs : HasRow(b)' <=> HasRow(b)
         /\ \A o \in Objects : Live(o)' <=> IF o = tx.obj THEN tx.live ELSE Live(o)
         /\ \A o \in Objects : UsesOf(objects'[o]) =
                                 IF o = tx.obj THEN UsesOf(tx) ELSE UsesOf(objects[o])
         /\ \A b \in LiveBlobs' : b \in LiveBlobs \/ (tx.live /\ b \in UsesOf(tx))
<1>1. tx # Idle /\ tx.obj \in Objects /\ tx.main \in Blobs \cup {NoBlob}
      /\ tx.extra \subseteq Blobs /\ tx.live \in BOOLEAN
  BY DEF PushCommit, TypeOK
<1> DEFINE new == [main |-> tx.main, extra |-> tx.extra, live |-> tx.live]
<1>2. new \in Object
  BY <1>1 DEF Object
<1>3. objects' = [objects EXCEPT ![tx.obj] = new]
  BY DEF PushCommit
<1>4. \A b \in Blobs : HasRow(b)' <=> HasRow(b)
  BY RecountType, SentinelAssumption DEF PushCommit, TypeOK, HasRow
<1>5. \A o \in Objects : objects'[o] = IF o = tx.obj THEN new ELSE objects[o]
  BY <1>1, <1>3 DEF TypeOK
<1>6. \A o \in Objects : Live(o)' <=> IF o = tx.obj THEN tx.live ELSE Live(o)
  BY <1>2, <1>5, SentinelAssumption DEF Live
<1>7. \A o \in Objects : UsesOf(objects'[o]) =
                           IF o = tx.obj THEN UsesOf(tx) ELSE UsesOf(objects[o])
  BY <1>5 DEF UsesOf
<1>8. ASSUME NEW b \in LiveBlobs' PROVE b \in LiveBlobs \/ (tx.live /\ b \in UsesOf(tx))
  <2>1. PICK o \in Objects : Live(o)' /\ b \in UsesOf(objects'[o])
    BY DEF LiveBlobs
  <2> QED BY <1>6, <1>7, <2>1, LiveMember
<1> QED BY <1>4, <1>6, <1>7, <1>8

LEMMA NoDanglingStep ==
  ASSUME IInv, TypeOK', MaintenanceAlone, [Next]_vars PROVE NoDanglingReference'
<1> USE DEF IInv, ReferencesHeld, NoDanglingReference
<1>1. CASE PushCommit
  <2>1. ASSUME NEW b \in LiveBlobs' PROVE b \in LiveBlobs \/ (tx # Idle /\ tx.live /\ b \in UsesOf(tx))
    BY <1>1, CommitKeeps DEF PushCommit
  <2>2. tx # Idle => UsesOf(tx) \subseteq Blobs
    BY UsesType DEF TypeOK
  <2>3. ASSUME NEW b \in LiveBlobs' PROVE b \in Blobs /\ HasRow(b) /\ b \in file
    BY <2>1, <2>2, LiveMember DEF PushGrounded
  <2> QED BY <1>1, <2>3, CommitKeeps DEF PushCommit
<1>2. CASE CollectDone
  <2>1. LiveBlobs' \subseteq LiveBlobs
    BY <1>2, LiveMember DEF CollectDone, LiveBlobs, Live
  <2> QED BY <1>2, <2>1 DEF CollectDone, HasRow
<1>3. ASSUME UNCHANGED objects PROVE NoDanglingReference'
  <2> USE LiveSame, LiveMember DEF HasRow, TypeOK
  <2>1. ASSUME NEW h \in Uploads, EnsureBlobRow(h) PROVE NoDanglingReference'
    BY <1>3, <2>1, SentinelAssumption DEF EnsureBlobRow
  <2>2. CASE RemoveRow
    BY <1>3, <2>2, JobType DEF RemoveRow, Collecting, CollectionExact, GcJob
  <2>3. ASSUME NEW b \in Blobs, RemoveFile(b) PROVE NoDanglingReference'
    BY <1>3, <2>3 DEF RemoveFile, Collecting, CollectionExact
  <2>4. ASSUME NEW b \in Blobs, RemoveOrphan(b) PROVE NoDanglingReference'
    BY <1>3, <2>4 DEF RemoveOrphan, Repairing, RepairExact
  <2>5. ASSUME NEW b \in Blobs, RepairCount(b) PROVE NoDanglingReference'
    <3>1. job.counts[b] \in Nat
      BY <2>5, CountType DEF RepairCount, Repairing, RepairExact
    <3> QED BY <1>3, <2>5, <3>1, SentinelAssumption DEF RepairCount
  <2>6. ASSUME NEW h \in Uploads, NEW u \in Users \cup {System}, NEW b \in Blobs, UploadFile(h, u, b)
        PROVE  NoDanglingReference'
    BY <1>3, <2>6 DEF UploadFile
  <2>7. CASE PushCommit
    BY <1>1, <2>7
  <2>8. CASE UNCHANGED <<rows, file>>
    BY <1>3, <2>8
  <2>9. ASSUME UNCHANGED rows PROVE NoDanglingReference'
    BY <2>3, <2>4, <2>6, <2>8, <2>9, WhoWrites
  <2> QED BY <2>1, <2>2, <2>5, <2>7, <2>9, WhoWrites
<1> QED BY <1>1, <1>2, <1>3, WhoWrites

LEMMA OwnersStep ==
  ASSUME IInv, TypeOK', MaintenanceAlone, [Next]_vars PROVE OwnersMayReference'
<1> USE DEF IInv, ReferencesHeld
<1>1. CASE PushCommit
  BY <1>1, CommitKeeps DEF PushCommit, PushGrounded, OwnersMayReference
<1>2. CASE CollectDone
  BY <1>2 DEF CollectDone, OwnersMayReference, Live
<1>3. CASE UNCHANGED objects
  <2>1. CASE RemoveRefs
    <3>1. job.blob \notin LiveBlobs
      BY <2>1 DEF RemoveRefs, Collecting, CollectionExact
    <3> QED BY <1>3, <2>1, <3>1, LiveSame, LiveMember, OwnerAssumption DEF RemoveRefs, OwnersMayReference
  <2>2. ASSUME refs \subseteq refs' PROVE OwnersMayReference'
    BY <1>3, <2>2, LiveSame DEF OwnersMayReference
  <2> QED BY <2>1, <2>2, WhoWrites DEF AddBlobRef, GrantRef, PushCommit, PushRefused
<1> QED BY <1>1, <1>2, <1>3, WhoWrites

LEMMA PushGroundedStep ==
  ASSUME IInv, TypeOK', MaintenanceAlone, [Next]_vars PROVE PushGrounded'
<1> USE DEF IInv, ReferencesHeld
<1>1. ASSUME NEW u \in Users \cup {System}, NEW o \in Objects, NEW p \in Payloads, PushBegin(u, o, p)
      PROVE  PushGrounded'
  <2>1. /\ objects[o] = NoObject \/ Live(o)
        /\ \A b \in NewBlobs(o, p) : HasRow(b) /\ b \in file
        /\ tx' = [obj |-> o, main |-> p.main, extra |-> p.extra, live |-> TRUE,
                  gains |-> {OwnerOf[o]} \X NewBlobs(o, p)]
        /\ UNCHANGED <<file, rows, refs, objects>>
    BY <1>1 DEF PushBegin, Usable
  <2>2. ASSUME NEW b \in UsesOf(p), b \notin NewBlobs(o, p)
        PROVE  HasRow(b) /\ b \in file /\ <<OwnerOf[o], b>> \in refs
    <3>1. Live(o) /\ b \in UsesOf(objects[o])
      BY <2>1, <2>2 DEF NewBlobs, UsesOf, Old, Gone, Live
    <3> QED BY <3>1, LiveMember DEF NoDanglingReference, OwnersMayReference
  <2>3. UsesOf(tx') = UsesOf(p)
    BY <2>1 DEF UsesOf
  <2>4. objects'[tx'.obj] = NoObject \/ Live(o)
    BY <2>1
  <2> QED BY <2>1, <2>2, <2>3, <2>4 DEF PushGrounded, HasRow, Live
<1>2. ASSUME NEW o \in Objects, DeleteBegin(o) PROVE PushGrounded'
  BY <1>2 DEF DeleteBegin, PushGrounded, Live
<1>3. ASSUME UNCHANGED tx, tx # Idle PROVE PushGrounded'
  <2>1. job = Idle
    BY <1>3 DEF JobsAlone
  <2>2. UNCHANGED <<objects, rows, refs>> /\ file \subseteq file'
    BY <1>3, <2>1, WhoWrites DEF PushCommit, CollectDone, Collecting, EnsureBlobRow, RemoveRow,
       RepairCount, Repairing, AddBlobRef, GrantRef, PushRefused, RemoveRefs, UploadFile,
       RemoveFile, RemoveOrphan
  <2> QED BY <1>3, <2>2 DEF PushGrounded, HasRow, Live
<1>4. CASE tx' = Idle
  BY <1>4 DEF PushGrounded
<1> QED BY <1>1, <1>2, <1>3, <1>4, WhoWrites

LEMMA RefsHaveRowsStep ==
  ASSUME IInv, TypeOK', MaintenanceAlone, [Next]_vars PROVE RefsHaveRows'
<1> USE DEF IInv, ReferencesHeld
<1>1. ASSUME NEW b \in Blobs, HasRow(b),
             b \in LiveBlobs \/ (\E r \in refs : r[2] = b) \/ (\E h \in Uploads : upload[h] # Idle)
             \/ tx # Idle
      PROVE  HasRow(b)'
  <2>1. CASE RemoveRow
    BY <1>1, <2>1 DEF RemoveRow, Collecting, CollectionExact, JobsAlone, HasRow, TypeOK
  <2>2. ASSUME NEW c \in Blobs, RepairCount(c) PROVE HasRow(b)'
    <3>1. job.counts[c] \in Nat
      BY <2>2, CountType DEF RepairCount, Repairing, RepairExact
    <3> QED BY <1>1, <2>2, <3>1, SentinelAssumption DEF RepairCount, HasRow, TypeOK
  <2>3. ASSUME NEW h \in Uploads, EnsureBlobRow(h) PROVE HasRow(b)'
    BY <1>1, <2>3, SentinelAssumption DEF EnsureBlobRow, HasRow, TypeOK
  <2>4. CASE PushCommit
    BY <1>1, <2>4, CommitKeeps
  <2>5. CASE UNCHANGED rows
    BY <1>1, <2>5 DEF HasRow
  <2> QED BY <2>1, <2>2, <2>3, <2>4, <2>5, WhoWrites
<1>2. ASSUME NEW r \in refs' PROVE HasRow(r[2])'
  <2>1. r[2] \in Blobs
    BY <1>2 DEF TypeOK
  <2>2. CASE r \in refs
    BY <1>1, <2>1, <2>2 DEF RefsHaveRows
  <2>3. ASSUME NEW h \in Uploads, AddBlobRef(h), r \notin refs PROVE HasRow(r[2])'
    BY <1>1, <1>2, <2>1, <2>3 DEF AddBlobRef, RefsHaveRows
  <2>4. ASSUME NEW u \in Users, NEW o \in Objects, GrantRef(u, o), r \notin refs PROVE HasRow(r[2])'
    <3>1. Live(o) /\ r[2] \in UsesOf(objects[o])
      BY <1>2, <2>4 DEF GrantRef
    <3> QED BY <1>1, <2>1, <3>1, LiveMember DEF NoDanglingReference
  <2>5. CASE tx # Idle /\ r \in tx.gains
    BY <1>1, <2>1, <2>5 DEF PushGrounded
  <2> QED BY <1>2, <2>2, <2>3, <2>4, <2>5, WhoWrites DEF PushCommit, PushRefused, RemoveRefs
<1>3. ASSUME NEW h \in Uploads, upload'[h] # Idle, upload'[h].at = "ref"
      PROVE  rows'[upload'[h].blob] # NoRow
  <2>1. CASE upload'[h] = upload[h]
    <3>1. upload[h].blob \in Blobs /\ HasRow(upload[h].blob)
      BY <1>3, <2>1 DEF RefsHaveRows, TypeOK
    <3> QED BY <1>1, <1>3, <2>1, <3>1 DEF HasRow
  <2>2. ASSUME EnsureBlobRow(h) PROVE rows'[upload'[h].blob] # NoRow
    BY <2>2, SentinelAssumption DEF EnsureBlobRow, HasRow, TypeOK
  <2>3. ASSUME upload'[h] # upload[h] PROVE EnsureBlobRow(h)
    BY <1>3, <2>3, WhoWrites DEF UploadFile, EnsureBlobRow, AddBlobRef, LoseUpload, Crash, TypeOK
  <2> QED BY <2>1, <2>2, <2>3
<1> QED BY <1>2, <1>3 DEF RefsHaveRows, HasRow

LEMMA JobsAloneStep ==
  ASSUME IInv, TypeOK', MaintenanceAlone, [Next]_vars PROVE JobsAlone'
<1> USE DEF JobsAlone
<1>1. CASE job = Idle /\ job' # Idle
  BY <1>1, WhoWrites DEF CollectTombstones, RepairList, Stopped, BackupRunning,
     CollectLive, CollectRows, RemoveRefs, RemoveRow, Collecting, RemoveFile, RemoveOrphan,
     RepairCount, Repairing, RepairCompare, RepairLive, RepairDiffer
<1>2. CASE job # Idle
  <2>1. tx' = Idle
    BY <1>2, WhoWrites DEF IInv, PushBegin, DeleteBegin, Serving
  <2>2. \A h \in Uploads : upload'[h] = Idle
    BY <1>2, WhoWrites DEF IInv, UploadFile, EnsureBlobRow, AddBlobRef, LoseUpload, Crash, Serving
  <2>3. ~BackupRunning'
    BY <1>2, WhoWrites DEF IInv, BackupSnapshot, BackupDone, BackupVisit, BackupRunning, Serving
  <2> QED BY <2>1, <2>2, <2>3
<1> QED BY <1>1, <1>2

LEMMA CollectionStep ==
  ASSUME IInv, TypeOK', MaintenanceAlone, [Next]_vars PROVE CollectionExact'
<1> USE DEF CollectionExact
<1>1. ASSUME NEW tombs \in SUBSET Objects, CollectTombstones(tombs) PROVE CollectionExact'
  BY <1>1 DEF CollectTombstones, Live
<1>2. ASSUME job # Idle, job.kind = "gc", job \in GcJob, UNCHANGED objects PROVE CollectionExact'
  <2> DEFINE Used == {b \in Blobs : HasRow(b)} \ LiveBlobs
  <2>0. /\ LiveBlobs' = LiveBlobs /\ \A o \in Objects : Live(o)' <=> Live(o)
        /\ tx = Idle /\ \A h \in Uploads : upload[h] = Idle
        /\ \A o \in job.tombs : o \in Objects /\ ~Live(o)
    BY <1>2, LiveSame DEF IInv, JobsAlone, GcJob
  <2>1. CASE CollectLive
    BY <1>2, <2>0, <2>1 DEF CollectLive, Collecting, GcJob
  <2>2. CASE CollectRows
    <3>1. job' = [job EXCEPT !.at = "remove", !.blobs = Used]
      BY <1>2, <2>2 DEF CollectRows, Collecting, IInv
    <3>2. Used' = Used
      BY <2>0, <2>2 DEF CollectRows, HasRow
    <3> HIDE DEF Used
    <3>3. /\ job'.at = "remove" /\ job'.blobs = Used /\ job'.tombs = job.tombs
      BY <1>2, <3>1 DEF GcJob
    <3> QED BY <2>0, <3>2, <3>3 DEF Used
  <2>3. ASSUME NEW b \in Blobs, RemoveFile(b) PROVE CollectionExact'
    BY <1>2, <2>0, <2>3 DEF RemoveFile, Collecting, GcJob, HasRow, IInv
  <2>4. CASE RemoveRefs
    BY <1>2, <2>0, <2>4 DEF RemoveRefs, Collecting, GcJob, HasRow, IInv
  <2>5. CASE RemoveRow
    <3>1. job.blob \in job.blobs /\ job.blobs = Used /\ job.blob \in Blobs
      BY <1>2, <2>5 DEF RemoveRow, Collecting, IInv
    <3>2. {b \in Blobs : HasRow(b)}' = {b \in Blobs : HasRow(b)} \ {job.blob}
      BY <2>5, <3>1 DEF RemoveRow, HasRow, IInv, ReferencesHeld, TypeOK
    <3>3. job'.at = "remove" /\ job'.blobs = job.blobs \ {job.blob} /\ job'.tombs = job.tombs
      BY <1>2, <2>5 DEF RemoveRow, GcJob
    <3> QED BY <2>0, <3>1, <3>2, <3>3
  <2>6. CASE UNCHANGED job
    <3>1. UNCHANGED rows /\ refs' \subseteq refs
      BY <1>2, <2>0, <2>6, WhoWrites DEF EnsureBlobRow, AddBlobRef, GrantRef, PushCommit,
         PushRefused, RemoveRow, RemoveRefs, RepairCount, Collecting, Repairing, Serving, GcJob
    <3> QED BY <1>2, <2>0, <2>6, <3>1 DEF HasRow, IInv
  <2>7. CASE job' = Idle
    BY <2>7
  <2> QED BY <1>2, <2>1, <2>2, <2>3, <2>4, <2>5, <2>6, <2>7, WhoWrites DEF CollectTombstones,
         Stopped, RemoveOrphan, RepairCount, RepairList, RepairCompare, RepairLive, RepairDiffer,
         Repairing
<1>3. CASE job # Idle /\ job.kind = "gc"
  <2>1. job \in GcJob
    BY <1>3, JobType DEF IInv, ReferencesHeld
  <2>2. CASE CollectDone \/ PushCommit
    BY <1>3, <2>2 DEF CollectDone, PushCommit, IInv, JobsAlone
  <2> QED BY <1>2, <1>3, <2>1, <2>2, WhoWrites
<1>4. CASE job # Idle /\ job.kind # "gc"
  <2>1. job \in RepairJob
    BY <1>4, JobType DEF IInv, ReferencesHeld, GcJob
  <2>2. job' = Idle \/ job'.kind = "repair"
    BY <1>4, <2>1, WhoWrites DEF CollectTombstones, Stopped, CollectLive, CollectRows, RemoveRefs,
       RemoveRow, RemoveFile, Collecting, RemoveOrphan, RepairCount, RepairList, RepairCompare,
       RepairLive, RepairDiffer, RepairJob
  <2> QED BY <2>2
<1>5. CASE job = Idle
  BY <1>1, <1>5, WhoWrites DEF CollectLive, CollectRows, RemoveRefs, RemoveRow, RemoveFile,
     Collecting, RemoveOrphan, RepairCount, RepairList, RepairCompare, RepairLive, RepairDiffer,
     Repairing
<1> QED BY <1>3, <1>4, <1>5

LEMMA RepairStep ==
  ASSUME IInv, TypeOK', MaintenanceAlone, [Next]_vars PROVE RepairExact'
<1> USE DEF RepairExact
<1>1. CASE RepairList
  BY <1>1 DEF RepairList
<1>2. ASSUME job # Idle, job.kind = "repair", job \in RepairJob, UNCHANGED objects PROVE RepairExact'
  <2> DEFINE counts == [b \in Blobs |-> LiveCount(b)]
  <2>0. /\ tx = Idle /\ \A h \in Uploads : upload[h] = Idle
        /\ \A b : LiveCount(b)' = LiveCount(b)
        /\ counts' = counts
    BY <1>2, LiveSame DEF IInv, JobsAlone
  <2>1. CASE RepairCompare
    BY <1>2, <2>1 DEF RepairCompare, Repairing, RepairJob, HasRow, IInv
  <2>2. ASSUME NEW b \in Blobs, RemoveOrphan(b) PROVE RepairExact'
    BY <1>2, <2>2 DEF RemoveOrphan, Repairing, RepairJob, HasRow, IInv
  <2>3. CASE RepairLive
    BY <1>2, <2>0, <2>3 DEF RepairLive, Repairing, RepairJob, HasRow, IInv
  <2>4. CASE RepairDiffer
    BY <1>2, <2>0, <2>4 DEF RepairDiffer, Repairing, RepairJob, HasRow, IInv
  <2>5. ASSUME NEW b \in Blobs, RepairCount(b) PROVE RepairExact'
    <3>1. /\ job.at = "counts" /\ job.counts = counts
          /\ job.files = {c \in Blobs : HasRow(c) /\ rows[c] # LiveCount(c)}
      BY <2>5 DEF RepairCount, Repairing, IInv
    <3>2. HasRow(b) /\ job.counts[b] = LiveCount(b) /\ LiveCount(b) # NoRow
      BY <2>5, <3>1, CountType, SentinelAssumption DEF RepairCount
    <3>3. rows' = [rows EXCEPT ![b] = LiveCount(b)]
      BY <2>5, <3>2 DEF RepairCount, HasRow
    <3>4. \A c \in Blobs : rows'[c] = IF c = b THEN LiveCount(b) ELSE rows[c]
      BY <3>3 DEF IInv, ReferencesHeld, TypeOK
    <3>5. {c \in Blobs : HasRow(c) /\ rows[c] # LiveCount(c)}' = job.files \ {b}
      BY <2>0, <3>1, <3>2, <3>4 DEF HasRow
    <3>6. /\ job'.at = "counts" /\ job'.counts = counts /\ job'.files = job.files \ {b}
          /\ file' = file
      BY <1>2, <2>5, <3>1 DEF RepairCount, RepairJob
    <3>7. \A c \in file' : HasRow(c)'
      BY <1>2, <3>1, <3>2, <3>4, <3>6 DEF IInv, HasRow, ReferencesHeld, TypeOK
    <3> QED BY <2>0, <3>5, <3>6, <3>7
  <2>6. CASE UNCHANGED job
    <3>1. UNCHANGED <<rows, file>>
      BY <1>2, <2>0, <2>6, WhoWrites DEF EnsureBlobRow, PushCommit, RemoveRow, RemoveFile,
         Collecting, RepairCount, RemoveOrphan, Repairing, RepairJob, UploadFile, Serving
    <3> QED BY <1>2, <2>0, <2>6, <3>1 DEF HasRow, IInv
  <2>7. CASE job' = Idle
    BY <2>7
  <2> QED BY <1>2, <2>1, <2>2, <2>3, <2>4, <2>5, <2>6, <2>7, WhoWrites DEF CollectTombstones,
         Stopped, CollectLive, CollectRows, RemoveRefs, RemoveRow, RemoveFile, Collecting, RepairList
<1>3. CASE job # Idle /\ job.kind = "repair"
  <2>1. job \in RepairJob
    BY <1>3, JobType DEF IInv, ReferencesHeld
  <2>2. CASE CollectDone \/ PushCommit
    BY <1>3, <2>2 DEF CollectDone, Collecting, PushCommit, IInv, JobsAlone
  <2> QED BY <1>2, <1>3, <2>1, <2>2, WhoWrites
<1>4. CASE job # Idle /\ job.kind # "repair"
  BY <1>4, WhoWrites, JobType DEF CollectTombstones, Stopped, CollectLive, CollectRows, RemoveRefs,
     RemoveRow, RemoveFile, Collecting, RemoveOrphan, RepairCount, RepairList, RepairCompare,
     RepairLive, RepairDiffer, Repairing, GcJob, IInv, ReferencesHeld
<1>5. CASE job = Idle
  BY <1>1, <1>5, WhoWrites DEF CollectTombstones, CollectLive, CollectRows, RemoveRefs, RemoveRow,
     RemoveFile, Collecting, RemoveOrphan, RepairCount, RepairCompare, RepairLive, RepairDiffer,
     Repairing
<1> QED BY <1>3, <1>4, <1>5

LEMMA BackupStep ==
  ASSUME IInv, TypeOK', MaintenanceAlone, [Next]_vars PROVE BackupGrounded'
<1> USE DEF BackupGrounded
<1>1. CASE BackupSnapshot
  BY <1>1 DEF BackupSnapshot
<1>2. ASSUME NEW b \in Blobs, BackupVisit(b) PROVE BackupGrounded'
  BY <1>2 DEF BackupVisit, BackupRunning, IInv, ReferencesHeld, TypeOK
<1>3. CASE BackupDone
  BY <1>3 DEF BackupDone, BackupRunning, IInv, ReferencesHeld, TypeOK
<1>4. ASSUME backup # Idle, UNCHANGED backup PROVE BackupGrounded'
  <2>1. ~backup.done => file \subseteq file'
    BY <1>4, WhoWrites DEF IInv, JobsAlone, BackupRunning, UploadFile, RemoveFile, RemoveOrphan,
       Collecting, Repairing
  <2> QED BY <1>4, <2>1 DEF IInv
<1>5. CASE backup' = Idle
  BY <1>5
<1> QED BY <1>1, <1>2, <1>3, <1>4, <1>5, WhoWrites

LEMMA IInvStep == MaintenanceAlone /\ IInv /\ [Next]_vars => IInv'
<1> SUFFICES ASSUME MaintenanceAlone, IInv, [Next]_vars PROVE IInv'
  OBVIOUS
<1>1. TypeOK'
  BY TypeStep DEF IInv, ReferencesHeld
<1>2. NoDanglingReference' /\ OwnersMayReference'
  BY <1>1, NoDanglingStep, OwnersStep
<1>3. JobsAlone' /\ PushGrounded' /\ RefsHaveRows'
  BY <1>1, JobsAloneStep, PushGroundedStep, RefsHaveRowsStep
<1>4. CollectionExact' /\ RepairExact' /\ BackupGrounded'
  BY <1>1, CollectionStep, RepairStep, BackupStep
<1> QED BY <1>1, <1>2, <1>3, <1>4 DEF IInv, ReferencesHeld

-----------------------------------------------------------------------------
(* Counts.                                                                 *)

\* A commit recounts exactly: each of the two sets of objects that count b
\* loses, gains or keeps the object of the push.
LEMMA CommitRecounts ==
  ASSUME IInv, PushCommit, NEW b \in Blobs, NEW n \in Nat, n = LiveCount(b)
  PROVE  Recount(n, Old(tx.obj), Target, b) = LiveCount(b)'
<1> DEFINE o == tx.obj
           old == Old(tx.obj)
           new == Target
<1>0. /\ o \in Objects /\ tx.main \in Blobs \cup {NoBlob} /\ tx.extra \subseteq Blobs
      /\ tx.live \in BOOLEAN
      /\ objects[o] = NoObject \/ Live(o)
  BY DEF PushCommit, IInv, ReferencesHeld, TypeOK, PushGrounded
<1>1. /\ o \in ByMain(b) <=> b = old.main
      /\ o \in ByExtra(b) <=> b \in old.extra
  BY <1>0, SystemAssumption DEF ByMain, ByExtra, Old, Gone, Live
<1>2. PICK c \in Objects : c = o
  BY <1>0
<1>3. \A p \in Objects : objects'[p] = IF p = c
                           THEN [main |-> tx.main, extra |-> tx.extra, live |-> tx.live]
                           ELSE objects[p]
  BY <1>2 DEF PushCommit, IInv, ReferencesHeld, TypeOK
<1>4. objects'[c] # NoObject
  BY <1>0, <1>3, SentinelAssumption DEF Object
<1>5. ByMain(b)' = IF b = new.main THEN ByMain(b) \cup {c} ELSE ByMain(b) \ {c}
  BY <1>0, <1>2, <1>3, <1>4, SystemAssumption DEF ByMain, Live, Target, Gone
<1>6. ByExtra(b)' = IF b \in new.extra THEN ByExtra(b) \cup {c} ELSE ByExtra(b) \ {c}
  BY <1>0, <1>2, <1>3, <1>4 DEF ByExtra, Live, Target, Gone
<1>7. LiveCount(b)' = Cardinality(ByMain(b)') + Cardinality(ByExtra(b)')
  BY DEF LiveCount, ByMain, ByExtra
<1> DEFINE M == Cardinality(ByMain(b))
           E == Cardinality(ByExtra(b))
<1>8. M \in Nat /\ E \in Nat /\ n = M + E
      /\ IsFiniteSet(ByMain(b)) /\ IsFiniteSet(ByExtra(b))
  BY CountType
<1>9. /\ Cardinality(ByMain(b)') = IF b = new.main
           THEN (IF b = old.main THEN M ELSE M + 1) ELSE (IF b = old.main THEN M - 1 ELSE M)
      /\ b = old.main => M > 0
  <2>1. c \in ByMain(b) => M # 0
    BY <1>8, FS_EmptySet
  <2> DEFINE S == ByMain(b)
  <2>2. IsFiniteSet(S)
    BY <1>8
  <2> HIDE DEF S
  <2>3. Cardinality(S \cup {c}) = IF c \in S THEN Cardinality(S) ELSE Cardinality(S) + 1
    BY <2>2, FS_AddElement
  <2>4. Cardinality(S \ {c}) = IF c \in S THEN Cardinality(S) - 1 ELSE Cardinality(S)
    BY <2>2, FS_RemoveElement
  <2> QED BY <1>1, <1>2, <1>5, <1>8, <2>1, <2>3, <2>4 DEF S
<1>10. /\ Cardinality(ByExtra(b)') = IF b \in new.extra
            THEN (IF b \in old.extra THEN E ELSE E + 1) ELSE (IF b \in old.extra THEN E - 1 ELSE E)
       /\ b \in old.extra => E > 0
  <2>1. c \in ByExtra(b) => E # 0
    BY <1>8, FS_EmptySet
  <2> DEFINE S == ByExtra(b)
  <2>2. IsFiniteSet(S)
    BY <1>8
  <2> HIDE DEF S
  <2>3. Cardinality(S \cup {c}) = IF c \in S THEN Cardinality(S) ELSE Cardinality(S) + 1
    BY <2>2, FS_AddElement
  <2>4. Cardinality(S \ {c}) = IF c \in S THEN Cardinality(S) - 1 ELSE Cardinality(S)
    BY <2>2, FS_RemoveElement
  <2> QED BY <1>1, <1>2, <1>6, <1>8, <2>1, <2>3, <2>4 DEF S
<1> HIDE DEF M, E, old, new, o
<1>11. Recount(n, old, new, b) = LiveCount(b)'
  BY <1>7, <1>8, <1>9, <1>10 DEF Recount, Dec
<1> QED BY <1>11 DEF old, new, o

LEMMA CountsStep ==
  ASSUME MaintenanceAlone, IInv, [Next]_vars, RefcountsExact PROVE RefcountsExact'
<1> USE DEF RefcountsExact
<1>1. CASE PushCommit
  <2>1. ASSUME NEW b \in Blobs, HasRow(b)' PROVE rows'[b] = LiveCount(b)'
    <3>1. HasRow(b) /\ rows[b] = LiveCount(b)
      BY <1>1, <2>1 DEF PushCommit, HasRow
    <3>2. rows'[b] = Recount(rows[b], Old(tx.obj), Target, b)
      BY <1>1, <3>1 DEF PushCommit
    <3> QED BY <1>1, <3>1, <3>2, CommitRecounts, CountType
  <2> QED BY <2>1
<1>2. CASE CollectDone
  <2>1. \A o \in job.tombs : ~Live(o)
    BY <1>2 DEF CollectDone, Collecting, IInv, CollectionExact
  <2>2. \A b \in Blobs : ByMain(b)' = ByMain(b) /\ ByExtra(b)' = ByExtra(b)
    BY <1>2, <2>1 DEF CollectDone, ByMain, ByExtra, Live
  <2>3. \A b \in Blobs : LiveCount(b)' = LiveCount(b)
    BY <2>2 DEF LiveCount, ByMain, ByExtra
  <2> QED BY <1>2, <2>3 DEF CollectDone, HasRow
<1>3. CASE UNCHANGED objects
  <2> USE <1>3, LiveSame DEF HasRow, IInv, ReferencesHeld, TypeOK
  <2>1. ASSUME NEW h \in Uploads, EnsureBlobRow(h) PROVE RefcountsExact'
    <3>1. upload[h].blob \in Blobs
      BY <2>1 DEF EnsureBlobRow
    <3>2. rows[upload[h].blob] = NoRow => LiveCount(upload[h].blob) = 0
      BY <3>1, CountZero, LiveMember DEF NoDanglingReference
    <3> QED BY <2>1, <3>1, <3>2 DEF EnsureBlobRow
  <2>2. CASE RemoveRow
    BY <2>2 DEF RemoveRow
  <2>3. ASSUME NEW b \in Blobs, RepairCount(b) PROVE RefcountsExact'
    BY <2>3 DEF RepairCount, Repairing, RepairExact
  <2>4. CASE UNCHANGED rows
    BY <2>4
  <2> QED BY <1>1, <2>1, <2>2, <2>3, <2>4, WhoWrites
<1> QED BY <1>1, <1>2, <1>3, WhoWrites

-----------------------------------------------------------------------------
(* The theorems.                                                           *)

\* Every variable keeps its type, whatever runs beside what.
THEOREM TypeCorrect == Spec => []TypeOK
<1>1. Init => TypeOK
  BY InitIInv DEF IInv, ReferencesHeld
<1> QED BY <1>1, TypeStep, PTL DEF Spec

\* The invariant holds on from any state it holds in, such as one whose counts a
\* repair beside a push has left wrong, and so from an empty store.
LEMMA IInvStays ==
  ASSUME MaintenanceAlone
  PROVE  /\ IInv /\ [][Next]_vars => []IInv
         /\ Spec => []IInv
<1>1. IInv /\ [Next]_vars => IInv'
  BY IInvStep
<1> QED BY <1>1, InitIInv, PTL DEF Spec

\* Where the deleting jobs run alone, what a committed object references has its
\* row and its file and may be referenced by the owner, through every push,
\* deletion, upload, collection, repair, backup and crash.
THEOREM NothingDangles == ASSUME MaintenanceAlone PROVE Spec => []ReferencesHeld
<1>1. IInv => ReferencesHeld
  BY DEF IInv
<1> QED BY <1>1, IInvStays, PTL

\* Where they run alone, a collection or a repair that completes has done all of
\* its work, whatever counts it found.
THEOREM JobsComplete ==
  ASSUME MaintenanceAlone
  PROVE  /\ IInv /\ [][Next]_vars => []JobsFinishTheirWork
         /\ Spec => []JobsFinishTheirWork
<1>1. IInv => JobsFinishTheirWork
  <2> SUFFICES ASSUME IInv PROVE JobsFinishTheirWork
    OBVIOUS
  <2>1. ASSUME Collecting("remove"), job.blobs = {}
        PROVE  {b \in Blobs : HasRow(b)} = LiveBlobs /\ \A r \in refs : r[2] \in LiveBlobs
    <3>1. {b \in Blobs : HasRow(b)} = LiveBlobs
      BY <2>1, LiveMember DEF IInv, Collecting, CollectionExact, ReferencesHeld, NoDanglingReference
    <3>2. \A r \in refs : r[2] \in Blobs /\ HasRow(r[2])
      BY DEF IInv, RefsHaveRows, ReferencesHeld, TypeOK
    <3> QED BY <3>1, <3>2
  <2>2. Repairing("differ") => \A b \in file : HasRow(b)
    BY DEF IInv, RepairExact, Repairing
  <2>3. Repairing("counts") /\ job.files = {} => RefcountsExact
    BY DEF IInv, RepairExact, Repairing, RefcountsExact
  <2> QED BY <2>1, <2>2, <2>3 DEF JobsFinishTheirWork
<1> QED BY <1>1, IInvStays, PTL

\* Where they run alone, a finished backup holds every blob its rows reference.
THEOREM BackupsComplete == ASSUME MaintenanceAlone PROVE Spec => []BackupComplete
<1>1. IInv => BackupComplete
  BY DEF IInv, BackupGrounded, BackupComplete, ReferencesHeld, TypeOK
<1> QED BY <1>1, IInvStays, PTL

\* Where they run alone, counts that are exact stay exact.
THEOREM ExactCountsStay ==
  ASSUME MaintenanceAlone
  PROVE  /\ IInv /\ [][Next]_vars => CountsStayExact
         /\ Spec => CountsStayExact
<1>1. IInv /\ [Next]_vars => (RefcountsExact => RefcountsExact')
  BY CountsStep
<1> QED BY <1>1, IInvStays, PTL DEF CountsStayExact, Spec
=============================================================================
