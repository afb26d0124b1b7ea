------------------------------ MODULE SyncFeed ------------------------------
(***************************************************************************)
(* The read side of the sync engine (GetChanges, Hello, Ack) with devices  *)
(* that follow the journal, and the compaction of tombstones               *)
(* (internal/integrity/gc.go).                                             *)
(*                                                                         *)
(* A commit of the write side is one step here; SyncEngine has its detail. *)
(* The devices are those of internal/agent: they ask for changes after     *)
(* their cursor, apply them one by one, acknowledge, and then save the     *)
(* cursor.  They may stop between any two steps.  A device's copy of an    *)
(* object is the row it was told of and the row whose data it then got.    *)
(* Every commit has a content of its own, so that a row's revision and     *)
(* content hash are its seq.                                               *)
(***************************************************************************)
EXTENDS Integers, FiniteSets

CONSTANTS
  Users,       \* people
  Devices,     \* sync devices
  Objects,     \* object ids
  Collections, \* collection ids
  UserOf,      \* the user of each device
  OwnerOf,     \* the owner of each collection
  Shares,      \* <<user, collection>> shared at the start
  PageSize,    \* rows of one answer
  None, Idle,  \* sentinels
  Doomed,      \* the collections that may be deleted
  Traffic,     \* what happens in an instance besides pushes and pulls
  MaxSeq,      \* bound: journal rows ever inserted
  MaxLosses    \* bound: answers lost and devices stopped

ASSUME FeedAssumption ==
  /\ UserOf \in [Devices -> Users] /\ OwnerOf \in [Collections -> Users]
  /\ Shares \subseteq Users \X Collections
  /\ PageSize \in Nat \ {0} /\ MaxSeq \in Nat /\ MaxLosses \in Nat
  /\ Doomed \subseteq Collections
  /\ Traffic \subseteq {"move", "pair", "gc"}

ObjectRow == [col : Collections, last : Nat \ {0}, deleted : BOOLEAN]

JournalRow ==
  [seq : Nat \ {0}, obj : Objects, col : Collections, op : {"create", "update", "delete"}]

\* A journal row as GetChanges sends it, and what a device keeps of an object.
Change ==
  [seq : Nat \ {0}, obj : Objects, col : Collections, cur : Collections, data : Nat \ {0},
   gone : BOOLEAN]

Copy == [row : Nat \ {0}, data : Nat \ {0}]

ASSUME SentinelAssumption == None \notin ObjectRow \cup Copy

VARIABLES
  objects,  \* of each id, a row or None; last is the journal row of its latest commit
  journal,  \* the journal's rows
  lastSeq,  \* the AUTOINCREMENT counter
  live,     \* collections that are not tombstoned
  readers,  \* <<user, collection>> shared
  acks,     \* the cursor row of each device
  status,   \* of each device: unpaired, paired or revoked
  device,   \* what each device keeps: cursor and copy, and what it is doing
  gc,       \* the compaction that runs, or Idle
  losses    \* losses so far

vars == <<objects, journal, lastSeq, live, readers, acks, status, device, gc, losses>>

server == <<objects, journal, lastSeq, live, readers>>

Readable(u, c) == OwnerOf[c] = u \/ <<u, c>> \in readers

\* The devices that may sync.
Paired == {d \in Devices : status[d] = "paired"}

HeadSeq ==
  IF journal = {} THEN 0
  ELSE CHOOSE n \in {j.seq : j \in journal} : \A j \in journal : j.seq <= n

FreshDevice ==
  [cursor |-> 0, copy |-> [o \in Objects |-> None], at |-> "idle", page |-> {}, next |-> 0]

Init ==
  /\ objects = [o \in Objects |-> None]
  /\ journal = {} /\ lastSeq = 0
  /\ live = Collections
  /\ readers = Shares
  /\ acks = [d \in Devices |-> 0]
  /\ status = [d \in Devices |-> IF "pair" \in Traffic THEN "unpaired" ELSE "paired"]
  /\ device = [d \in Devices |-> FreshDevice]
  /\ gc = Idle
  /\ losses = 0

-----------------------------------------------------------------------------
(* The write side: one committed item each.                                *)

Insert(o, c, op) ==
  /\ lastSeq < MaxSeq
  /\ lastSeq' = lastSeq + 1
  /\ journal' = journal \cup {[seq |-> lastSeq + 1, obj |-> o, col |-> c, op |-> op]}
  /\ UNCHANGED <<live, readers, acks, status, device, gc, losses>>

Create(o, c) ==
  /\ objects[o] = None /\ c \in live
  /\ objects' = [objects EXCEPT ![o] = [col |-> c, last |-> lastSeq + 1, deleted |-> FALSE]]
  /\ Insert(o, c, "create")

Update(o, c) ==
  /\ objects[o] # None /\ ~objects[o].deleted /\ c \in live
  /\ c # objects[o].col => "move" \in Traffic /\ OwnerOf[c] = OwnerOf[objects[o].col]
  /\ objects' = [objects EXCEPT ![o] = [col |-> c, last |-> lastSeq + 1, deleted |-> FALSE]]
  /\ Insert(o, c, "update")

Delete(o) ==
  /\ objects[o] # None /\ ~objects[o].deleted /\ objects[o].col \in live
  /\ objects' = [objects EXCEPT ![o].last = lastSeq + 1, ![o].deleted = TRUE]
  /\ Insert(o, objects[o].col, "delete")

\* TombstoneCollection, after the objects have been deleted: the shares go too.
Tombstone(c) ==
  /\ c \in Doomed \cap live
  /\ \A o \in Objects : objects[o] # None /\ objects[o].col = c => objects[o].deleted
  /\ live' = live \ {c}
  /\ readers' = {r \in readers : r[2] # c}
  /\ UNCHANGED <<objects, journal, lastSeq, acks, status, device, gc, losses>>

-----------------------------------------------------------------------------
(* GetChanges.                                                             *)

\* The journal rows a user may be shown: those of collections they can read.
Shown(u) == {j \in journal : Readable(u, j.col)}

\* A row as it is sent: with the data and the place the object has now.
Sent(j) ==
  [seq |-> j.seq, obj |-> j.obj, col |-> j.col,
   cur |-> objects[j.obj].col, data |-> objects[j.obj].last,
   gone |-> j.op = "delete" \/ objects[j.obj].deleted]

\* What the user may be shown beyond `since', in the order of the journal, as
\* far as one answer goes.
Beyond(u, since) == {j \in Shown(u) : j.seq > since}

Page(u, since) ==
  {Sent(j) : j \in {k \in Beyond(u, since) :
                      Cardinality({r \in Beyond(u, since) : r.seq < k.seq}) < PageSize}}

FirstOf(page) == CHOOSE ch \in page : \A other \in page : ch.seq <= other.seq
LastOf(page) == CHOOSE ch \in page : \A other \in page : other.seq <= ch.seq

Ask_ToHead(d) ==
  /\ d \in Paired /\ device[d].at = "idle"
  /\ LET since == device[d].cursor
         page == Page(UserOf[d], since)
     IN IF since > HeadSeq
        THEN device' = [device EXCEPT ![d].cursor = HeadSeq]
        ELSE /\ page # {}
             /\ device' = [device EXCEPT ![d].at = "asked", ![d].page = page,
                                         ![d].next = HeadSeq]
  /\ UNCHANGED <<server, acks, status, gc, losses>>

\* Ask for changes.  A cursor past the head is answered with the head, and the
\* agent goes on from there; a device with nothing new is done.
Ask(d) ==
  /\ d \in Paired /\ device[d].at = "idle"
  /\ LET since == device[d].cursor
         page == Page(UserOf[d], since)
     IN IF since > HeadSeq
        THEN device' = [device EXCEPT ![d].cursor = HeadSeq]
        ELSE /\ page # {}
             /\ device' = [device EXCEPT ![d].at = "asked", ![d].page = page,
                                         ![d].next = LastOf(page).seq]
  /\ UNCHANGED <<server, acks, status, gc, losses>>

\* A row whose object has moved to a collection the caller cannot read is
\* shown as a deletion.
Masked(d, ch) ==
  IF ch.cur # ch.col /\ ~Readable(UserOf[d], ch.cur)
  THEN [ch EXCEPT !.gone = TRUE, !.cur = ch.col] ELSE ch

\* The server looks the moved objects' collections up after the query.
Answer(d) ==
  /\ device[d].at = "asked"
  /\ device' = [device EXCEPT ![d].at = "apply",
                              ![d].page = {Masked(d, ch) : ch \in @}]
  /\ UNCHANGED <<server, acks, status, gc, losses>>

-----------------------------------------------------------------------------
(* The device: SyncOnce's pull.                                            *)

\* applyChange: what the device has of the object after the change.  The skip
\* compares revision and content hash, which is to say the row.
Applied(old, ch) ==
  IF ch.gone THEN None
  ELSE IF old # None /\ old.row = ch.seq THEN old
  ELSE [row |-> ch.seq, data |-> ch.data]

ApplyChange(d) ==
  /\ device[d].at = "apply" /\ device[d].page # {}
  /\ LET ch == FirstOf(device[d].page) IN
       device' = [device EXCEPT ![d].copy[ch.obj] = Applied(@, ch), ![d].page = @ \ {ch}]
  /\ UNCHANGED <<server, acks, status, gc, losses>>

AckServer_BelowHead(d) ==
  /\ device[d].at = "apply" /\ device[d].page = {}
  /\ device[d].next < HeadSeq
  /\ acks' = [acks EXCEPT ![d] = IF device[d].next < @ THEN @ ELSE device[d].next]
  /\ device' = [device EXCEPT ![d].at = "acked"]
  /\ UNCHANGED <<server, status, gc, losses>>

AckServer_Early(d) ==
  /\ device[d].at = "apply"
  /\ device[d].next <= HeadSeq
  /\ acks' = [acks EXCEPT ![d] = IF device[d].next < @ THEN @ ELSE device[d].next]
  /\ device' = [device EXCEPT ![d].at = IF device[d].page = {} THEN "acked" ELSE @]
  /\ UNCHANGED <<server, status, gc, losses>>

\* Ack: only after every change of the page has been applied.
AckServer(d) ==
  /\ device[d].at = "apply" /\ device[d].page = {}
  /\ device[d].next <= HeadSeq
  /\ acks' = [acks EXCEPT ![d] = IF device[d].next < @ THEN @ ELSE device[d].next]
  /\ device' = [device EXCEPT ![d].at = "acked"]
  /\ UNCHANGED <<server, status, gc, losses>>

\* The journal was compacted below what the device acknowledges.
AckRefused(d) ==
  /\ device[d].at = "apply" /\ device[d].page = {}
  /\ device[d].next > HeadSeq
  /\ device' = [device EXCEPT ![d].at = "idle", ![d].next = 0]
  /\ UNCHANGED <<server, acks, status, gc, losses>>

SaveCursor(d) ==
  /\ device[d].at = "acked"
  /\ device' = [device EXCEPT ![d].at = "idle", ![d].cursor = device[d].next, ![d].next = 0]
  /\ UNCHANGED <<server, acks, status, gc, losses>>

\* An answer is lost or the device stops: what it has saved stays.
Lose(d) ==
  /\ device[d].at # "idle" /\ losses < MaxLosses
  /\ device' = [device EXCEPT ![d].at = "idle", ![d].page = {}, ![d].next = 0]
  /\ losses' = losses + 1
  /\ UNCHANGED <<server, acks, status, gc>>

Pair(d) ==
  /\ status[d] = "unpaired"
  /\ status' = [status EXCEPT ![d] = "paired"]
  /\ UNCHANGED <<server, acks, device, gc, losses>>

\* The requests of a revoked device are refused: it stops where it is.
Revoke(d) ==
  /\ "pair" \in Traffic /\ d \in Paired
  /\ status' = [status EXCEPT ![d] = "revoked"]
  /\ device' = [device EXCEPT ![d].at = "idle", ![d].page = {}, ![d].next = 0]
  /\ UNCHANGED <<server, acks, gc, losses>>

-----------------------------------------------------------------------------
(* Compaction: Collect reads the cursors, then the tombstones they have     *)
(* passed, and deletes those in a transaction.                              *)

\* minSyncAck: the least cursor, or the head when no device syncs.
MinSyncAck ==
  IF Paired = {} THEN HeadSeq
  ELSE CHOOSE n \in {acks[d] : d \in Paired} : \A d \in Paired : n <= acks[d]

GcCursors ==
  /\ "gc" \in Traffic /\ gc = Idle
  /\ gc' = [ack |-> MinSyncAck, tombs |-> {}]
  /\ UNCHANGED <<server, acks, status, device, losses>>

CompactableTombstones(ack) ==
  {o \in Objects :
     /\ objects[o] # None /\ objects[o].deleted
     /\ \A j \in journal : j.obj = o => j.seq <= ack}

GcTombstones ==
  /\ gc # Idle /\ gc.tombs = {}
  /\ LET tombs == CompactableTombstones(gc.ack) IN
       gc' = IF tombs = {} THEN Idle ELSE [ack |-> 0, tombs |-> tombs]
  /\ UNCHANGED <<server, acks, status, device, losses>>

DeleteTombstones ==
  /\ gc # Idle /\ gc.tombs # {}
  /\ journal' = {j \in journal : j.obj \notin gc.tombs}
  /\ objects' = [o \in Objects |-> IF o \in gc.tombs THEN None ELSE objects[o]]
  /\ gc' = Idle
  /\ UNCHANGED <<lastSeq, live, readers, acks, status, device, losses>>

Next ==
  \/ \E o \in Objects, c \in Collections : Create(o, c) \/ Update(o, c)
  \/ \E o \in Objects : Delete(o)
  \/ \E c \in Collections : Tombstone(c)
  \/ \E d \in Devices :
       \/ Ask(d) \/ Answer(d) \/ ApplyChange(d) \/ AckServer(d) \/ AckRefused(d) \/ SaveCursor(d)
       \/ Lose(d) \/ Pair(d) \/ Revoke(d)
  \/ GcCursors \/ GcTombstones \/ DeleteTombstones

Spec == Init /\ [][Next]_vars

\* A device's sync loop runs on a timer, and each step of it returns.
DeviceStep(d) ==
  Ask(d) \/ Answer(d) \/ ApplyChange(d) \/ AckServer(d) \/ AckRefused(d) \/ SaveCursor(d)

FairSpec == Spec /\ \A d \in Devices : WF_vars(DeviceStep(d))

-----------------------------------------------------------------------------
(* Properties.                                                             *)

\* No one is ahead of the sequence counter.
NothingAhead ==
  /\ \A o \in Objects : objects[o] # None => objects[o].last <= lastSeq
  /\ \A j \in journal : j.seq <= lastSeq
  /\ \A d \in Devices :
       /\ acks[d] <= lastSeq /\ device[d].cursor <= lastSeq /\ device[d].next <= lastSeq
       /\ \A ch \in device[d].page : ch.seq <= lastSeq /\ ch.data <= lastSeq
       /\ \A o \in Objects : device[d].copy[o] # None =>
            device[d].copy[o].row <= lastSeq /\ device[d].copy[o].data <= lastSeq
  /\ gc # Idle => gc.ack <= lastSeq

\* Every variable has its type.
TypeOK ==
  /\ objects \in [Objects -> ObjectRow \cup {None}]
  /\ journal \subseteq JournalRow
  /\ lastSeq \in 0..MaxSeq /\ losses \in 0..MaxLosses
  /\ live \subseteq Collections /\ readers \subseteq Users \X Collections
  /\ status \in [Devices -> {"unpaired", "paired", "revoked"}]
  /\ acks \in [Devices -> Nat]
  /\ device \in [Devices ->
       [cursor : Nat, copy : [Objects -> Copy \cup {None}],
        at : {"idle", "asked", "apply", "acked"}, page : SUBSET Change, next : Nat]]
  /\ gc = Idle \/ gc \in [ack : Nat, tombs : SUBSET Objects]
  /\ NothingAhead

\* Nothing is left for the device to fetch.
CaughtUp(d) == device[d].at = "idle" /\ Page(UserOf[d], device[d].cursor) = {}

\* What the device ought to have of an object.
Due(d, o) ==
  IF objects[o] = None \/ objects[o].deleted \/ ~Readable(UserOf[d], objects[o].col) THEN None
  ELSE [row |-> objects[o].last, data |-> objects[o].last]

\* The devices that may read every collection, whoever shares or deletes them.  A
\* guest's device is left with a copy when the collection is deleted under it.
Owners == {d \in Paired : \A c \in Collections : OwnerOf[c] = UserOf[d]}

\* A device with nothing left to fetch has exactly the live objects its user may
\* read, at their latest revision, whatever was compacted, lost or repeated on
\* the way (SYNC.md, "Device cursor" and "Interrupted sync").
CopiesExact ==
  \A d \in Owners : CaughtUp(d) => \A o \in Objects : device[d].copy[o] = Due(d, o)

\* Compaction never forgets an object that a device still holds or is about to
\* apply: its deletion would never reach the device (SYNC.md, "Tombstone").
NothingNeededCompacted ==
  \A d \in Owners, o \in Objects : device[d].copy[o] # None => objects[o] # None

\* No device holds data of a revision that was committed where its user was never
\* allowed to read, even when the object moved between two of its revisions.
NoForeignData ==
  \A d \in Devices, o \in Objects, j \in journal :
    /\ device[d].copy[o] # None
    /\ j.obj = o /\ j.seq = device[d].copy[o].data
    => OwnerOf[j.col] = UserOf[d] \/ <<UserOf[d], j.col>> \in Shares

\* No acknowledged cursor is past the journal's head, compaction included: verify
\* reports one as an inconsistency (verify.go, "cursor past head").
CursorsWithinHead == journal # {} => \A d \in Devices : acks[d] <= HeadSeq

\* Once the pushes stop, every paired device of the owner ends with what it ought to have.
EventuallySynced ==
  <>[](\A d \in Owners : CaughtUp(d) /\ \A o \in Objects : device[d].copy[o] = Due(d, o))

\* The copies of the devices are what they ought to be, and no more.
CopiesSound == TypeOK /\ CopiesExact /\ NoForeignData
=============================================================================
