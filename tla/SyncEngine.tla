---------------------------- MODULE SyncEngine ----------------------------
(***************************************************************************)
(* The write side of the sync engine (internal/syncengine): objects, the   *)
(* change journal, object history, idempotent pushes, acknowledged cursors *)
(* and deletion of collections.                                            *)
(*                                                                         *)
(* A push is a request handled by one of Handlers.  Its idempotency key is *)
(* looked up before the write transaction opens; the transaction applies   *)
(* one item at a time to a working copy of the database and commits, with  *)
(* the results filed under the key, or rolls back.  The store's writer     *)
(* mutex and SQLite serialise the transactions, so `tx' holds at most one. *)
(* Readers and the checks a handler makes outside its transaction see the  *)
(* committed copy, `db'.                                                   *)
(*                                                                         *)
(* Payload and metadata are one abstract value of Contents.  Refusals that *)
(* depend on the data (blob checks, quota, malformed metadata) are a       *)
(* nondeterministic error, Refuse.  Collections form no tree here.         *)
(*                                                                         *)
(* An operator Name_Slip is a wrong variant of the operator Name after it, *)
(* as a plausible slip in the code would make it; the specification uses   *)
(* none of them.  They show that the properties notice such slips.         *)
(***************************************************************************)
EXTENDS Integers, Sequences, FiniteSets

CONSTANTS
  Devices,      \* devices that push, pull and acknowledge
  Users,        \* the people they belong to
  Objects,      \* object ids clients may use
  Collections,  \* collection ids
  Contents,     \* what an object can hold
  Keys,         \* idempotency keys clients choose
  Handlers,     \* requests the server works on at the same time
  UserOf,       \* the user of each device
  OwnerOf,      \* the owner of each collection
  MirrorOf,     \* the one device that may write a mirrored collection, or NoMirror
  SystemDevices,\* in-process operators: full access, no revocation
  NoObject, NoKey, NoMirror, NoResult, Idle,  \* sentinels
  Traffic,      \* the kinds of request the clients of an instance make
  MaxSeq,       \* bound: journal rows ever inserted
  MaxBatch      \* bound: items of one push

ASSUME DirectoryAssumption ==
  /\ UserOf \in [Devices -> Users]
  /\ OwnerOf \in [Collections -> Users]
  /\ MirrorOf \in [Collections -> Devices \cup {NoMirror}]
  /\ SystemDevices \subseteq Devices

ASSUME KeyAssumption == NoKey \notin Keys

ASSUME TrafficAssumption == Traffic \subseteq {"push", "ack", "tree", "share", "revoke"}

ASSUME BoundAssumption == MaxSeq \in Nat /\ MaxBatch \in Nat \ {0}

VARIABLES
  db,          \* committed rows: objects, journal, history and the sequence counter
  tx,          \* the open push transaction, or Idle
  idem,        \* stored result of each (device, key), or NoResult
  cursors,     \* last acknowledged seq of each device, 0 when it has no row
  revoked,     \* devices that have been revoked
  collections, \* "live" or "deleted"
  shares,      \* access of each user to each collection, beyond ownership
  handler      \* what each handler is doing, or Idle

vars == <<db, tx, idem, cursors, revoked, collections, shares, handler>>

Seqs == 1..MaxSeq
Ops == {"create", "update", "delete"}

Object == [col : Collections, rev : Nat \ {0}, content : Contents, deleted : BOOLEAN]

JournalRow ==
  [seq : Nat, obj : Objects, col : Collections, op : Ops, rev : Nat,
   content : Contents, dev : Devices, key : Keys \cup {NoKey}]

HistoryRow == [obj : Objects, rev : Nat, content : Contents]

\* One item of a push.
Item ==
  [op : Ops, obj : Objects, col : Collections, base : Nat, force : BOOLEAN,
   content : Contents]

Result == [obj : Objects, status : {"ok", "conflict", "error"}, rev : Nat, seq : Nat]

Database ==
  [objects : [Objects -> Object \cup {NoObject}],
   journal : SUBSET JournalRow,
   history : SUBSET HistoryRow,
   lastSeq : Nat]

PushRequest == [kind : {"push"}, dev : Devices, key : Keys]
AckRequest  == [kind : {"ack"}, dev : Devices, seq : Nat]
TreeRequest ==
  [kind : {"tree"}, dev : Devices, col : Collections,
   objs : SUBSET (Objects \X Nat), done : SUBSET (Objects \X Nat)]

ShareRequest ==
  [kind : {"share"}, user : Users, col : Collections, level : 1..2]

Request == PushRequest \cup AckRequest \cup TreeRequest \cup ShareRequest

Transaction ==
  [handler : Handlers, dev : Devices, key : Keys, db : Database, results : Seq(Result)]

ASSUME SentinelAssumption ==
  /\ NoObject \notin Object
  /\ NoResult \notin Seq(Result)
  /\ Idle \notin Request \cup Transaction

-----------------------------------------------------------------------------
(* Access: authz.Access as 0 (none), 1 (read), 2 (write), 3 (owner).       *)

Access(d, c) ==
  IF d \in SystemDevices \/ OwnerOf[c] = UserOf[d] THEN 3 ELSE shares[UserOf[d]][c]

MirrorReadOnly(d, c) ==
  d \notin SystemDevices /\ MirrorOf[c] \notin {NoMirror, d}

MayWrite(d, c) == Access(d, c) >= 2 /\ ~MirrorReadOnly(d, c)

\* A write may target c: the collection is live and the device may write to it.
MayTarget(d, c) == collections[c] = "live" /\ MayWrite(d, c)

MayTakeFrom_AnyOwner(d, from, to) ==
  from # to => MayWrite(d, from)
MayTakeFrom_AnySource(d, from, to) ==
  from # to => OwnerOf[from] = OwnerOf[to]

\* An update or delete that names another collection than the object's takes
\* the object out of its own, which needs the same rights there and one owner.
MayTakeFrom(d, from, to) ==
  from # to => MayWrite(d, from) /\ OwnerOf[from] = OwnerOf[to]

HeadSeq(journal) ==
  IF journal = {} THEN 0
  ELSE CHOOSE n \in {j.seq : j \in journal} : \A j \in journal : j.seq <= n

-----------------------------------------------------------------------------
Init ==
  /\ db = [objects |-> [o \in Objects |-> NoObject], journal |-> {},
           history |-> {}, lastSeq |-> 0]
  /\ tx = Idle
  /\ idem = [d \in Devices |-> [k \in Keys |-> NoResult]]
  /\ cursors = [d \in Devices |-> 0]
  /\ revoked = {}
  /\ collections = [c \in Collections |-> "live"]
  /\ shares = [u \in Users |-> [c \in Collections |-> 0]]
  /\ handler = [h \in Handlers |-> Idle]

-----------------------------------------------------------------------------
(* What one applied item does to the rows.                                 *)

\* A row for the next sequence number, and the object, history and result
\* that go with it.
Row(s, it, op, rev, content, d, k) ==
  [seq |-> s.lastSeq + 1, obj |-> it.obj, col |-> it.col, op |-> op, rev |-> rev,
   content |-> content, dev |-> d, key |-> k]

Created(s, it, d, k) ==
  [objects |-> [s.objects EXCEPT ![it.obj] =
                  [col |-> it.col, rev |-> 1, content |-> it.content, deleted |-> FALSE]],
   journal |-> s.journal \cup {Row(s, it, "create", 1, it.content, d, k)},
   history |-> s.history \cup {[obj |-> it.obj, rev |-> 1, content |-> it.content]},
   lastSeq |-> s.lastSeq + 1]

Updated_NoHistory(s, it, d, k) ==
  LET new == s.objects[it.obj].rev + 1 IN
  [objects |-> [s.objects EXCEPT ![it.obj] =
                  [col |-> it.col, rev |-> new, content |-> it.content, deleted |-> FALSE]],
   journal |-> s.journal \cup {Row(s, it, "update", new, it.content, d, k)},
   history |-> s.history,
   lastSeq |-> s.lastSeq + 1]

Updated(s, it, d, k) ==
  LET new == s.objects[it.obj].rev + 1 IN
  [objects |-> [s.objects EXCEPT ![it.obj] =
                  [col |-> it.col, rev |-> new, content |-> it.content, deleted |-> FALSE]],
   journal |-> s.journal \cup {Row(s, it, "update", new, it.content, d, k)},
   history |-> s.history \cup {[obj |-> it.obj, rev |-> new, content |-> it.content]},
   lastSeq |-> s.lastSeq + 1]

\* A delete keeps the object where it was, but journals it under the
\* collection the item names, and writes no history row.
Deleted(s, it, d, k) ==
  LET old == s.objects[it.obj] IN
  [objects |-> [s.objects EXCEPT ![it.obj] =
                  [col |-> old.col, rev |-> old.rev + 1, content |-> old.content, deleted |-> TRUE]],
   journal |-> s.journal \cup {Row(s, it, "delete", old.rev + 1, old.content, d, k)},
   history |-> s.history,
   lastSeq |-> s.lastSeq + 1]

Exists(s, o) == s.objects[o] # NoObject
Live(s, o) == Exists(s, o) /\ ~s.objects[o].deleted

BaseMatches(s, it) == it.force \/ it.base = s.objects[it.obj].rev

\* The checks every item passes before its operation is looked at.
Admitted(s, it, d) ==
  /\ MayTarget(d, it.col)
  /\ it.op # "create" /\ Exists(s, it.obj) => MayTakeFrom(d, s.objects[it.obj].col, it.col)

CanCreate(s, it, d) ==
  it.op = "create" /\ Admitted(s, it, d) /\ ~Exists(s, it.obj)
CanUpdate_Tombstone(s, it, d) ==
  it.op = "update" /\ Admitted(s, it, d) /\ Exists(s, it.obj) /\ BaseMatches(s, it)

CanUpdate(s, it, d) ==
  it.op = "update" /\ Admitted(s, it, d) /\ Live(s, it.obj) /\ BaseMatches(s, it)
CanDelete(s, it, d) ==
  it.op = "delete" /\ Admitted(s, it, d) /\ Live(s, it.obj) /\ BaseMatches(s, it)

\* A create of an id in use is a conflict only to those who may read the object.
Conflicts(s, it, d) ==
  /\ Admitted(s, it, d)
  /\ Exists(s, it.obj)
  /\ CASE it.op = "create" -> Access(d, s.objects[it.obj].col) >= 1
       [] it.op = "update" -> ~Live(s, it.obj) \/ ~BaseMatches(s, it)
       [] it.op = "delete" -> Live(s, it.obj) /\ ~BaseMatches(s, it)

AlreadyDeleted(s, it, d) ==
  it.op = "delete" /\ Admitted(s, it, d) /\ Exists(s, it.obj) /\ ~Live(s, it.obj)

-----------------------------------------------------------------------------
(* Push.                                                                   *)

\* A request of an unrevoked device whose key has no stored result yet.
PushLookup(h, d, k) ==
  /\ "push" \in Traffic
  /\ handler[h] = Idle
  /\ d \notin revoked
  /\ idem[d][k] = NoResult
  /\ handler' = [handler EXCEPT ![h] = [kind |-> "push", dev |-> d, key |-> k]]
  /\ UNCHANGED <<db, tx, idem, cursors, revoked, collections, shares>>

TxBegin(h) ==
  /\ tx = Idle
  /\ handler[h] # Idle
  /\ handler[h].kind = "push"
  /\ tx' = [handler |-> h, dev |-> handler[h].dev, key |-> handler[h].key,
            db |-> db, results |-> <<>>]
  /\ UNCHANGED <<db, idem, cursors, revoked, collections, shares, handler>>

\* The open transaction goes on with rows s and one more result.
Answer(s, it, status, rev, seq) ==
  /\ LET result == [obj |-> it.obj, status |-> status, rev |-> rev, seq |-> seq]
     IN tx' = [handler |-> tx.handler, dev |-> tx.dev, key |-> tx.key,
               db |-> s, results |-> Append(tx.results, result)]
  /\ UNCHANGED <<db, idem, cursors, revoked, collections, shares, handler>>

Applying == tx # Idle /\ Len(tx.results) < MaxBatch

\* Whatever the code refuses: no right to write, no such object or collection,
\* a missing or foreign blob, the owner's quota, malformed data.
Refuse(it) == Applying /\ Answer(tx.db, it, "error", 0, 0)

Conflict(it) ==
  /\ Applying
  /\ Conflicts(tx.db, it, tx.dev)
  /\ Answer(tx.db, it, "conflict", tx.db.objects[it.obj].rev, 0)

Create(it) ==
  /\ Applying /\ tx.db.lastSeq < MaxSeq
  /\ CanCreate(tx.db, it, tx.dev)
  /\ Answer(Created(tx.db, it, tx.dev, tx.key), it, "ok", 1, tx.db.lastSeq + 1)

Update(it) ==
  /\ Applying /\ tx.db.lastSeq < MaxSeq
  /\ CanUpdate(tx.db, it, tx.dev)
  /\ Answer(Updated(tx.db, it, tx.dev, tx.key), it, "ok",
            tx.db.objects[it.obj].rev + 1, tx.db.lastSeq + 1)

Delete(it) ==
  /\ Applying /\ tx.db.lastSeq < MaxSeq
  /\ CanDelete(tx.db, it, tx.dev)
  /\ Answer(Deleted(tx.db, it, tx.dev, tx.key), it, "ok",
            tx.db.objects[it.obj].rev + 1, tx.db.lastSeq + 1)

DeleteAgain(it) ==
  /\ Applying
  /\ AlreadyDeleted(tx.db, it, tx.dev)
  /\ Answer(tx.db, it, "ok", tx.db.objects[it.obj].rev, 0)

ApplyOne(it) ==
  Refuse(it) \/ Conflict(it) \/ Create(it) \/ Update(it) \/ Delete(it) \/ DeleteAgain(it)

TxCommit_Replace ==
  /\ tx # Idle /\ tx.results # <<>>
  /\ db' = tx.db
  /\ idem' = [idem EXCEPT ![tx.dev][tx.key] = tx.results]
  /\ tx' = Idle
  /\ handler' = [handler EXCEPT ![tx.handler] = Idle]
  /\ UNCHANGED <<cursors, revoked, collections, shares>>
TxCommit_KeyAfter ==
  /\ tx # Idle /\ tx.results # <<>>
  /\ idem[tx.dev][tx.key] = NoResult
  /\ db' = tx.db
  /\ tx' = Idle
  /\ handler' = [handler EXCEPT ![tx.handler] = Idle]
  /\ UNCHANGED <<idem, cursors, revoked, collections, shares>>

\* The result row's primary key is (device, key).
TxCommit ==
  /\ tx # Idle /\ tx.results # <<>>
  /\ idem[tx.dev][tx.key] = NoResult
  /\ db' = tx.db
  /\ idem' = [idem EXCEPT ![tx.dev][tx.key] = tx.results]
  /\ tx' = Idle
  /\ handler' = [handler EXCEPT ![tx.handler] = Idle]
  /\ UNCHANGED <<cursors, revoked, collections, shares>>

\* Another request filed its result under the key first: this one rolls back
\* and is answered with that result.
TxDuplicate ==
  /\ tx # Idle /\ tx.results # <<>>
  /\ idem[tx.dev][tx.key] # NoResult
  /\ tx' = Idle
  /\ handler' = [handler EXCEPT ![tx.handler] = Idle]
  /\ UNCHANGED <<db, idem, cursors, revoked, collections, shares>>

\* A failing statement, a cancelled request or a crash inside the transaction.
TxRollback ==
  /\ tx # Idle
  /\ tx' = Idle
  /\ handler' = [handler EXCEPT ![tx.handler] = Idle]
  /\ UNCHANGED <<db, idem, cursors, revoked, collections, shares>>

-----------------------------------------------------------------------------
(* Acknowledgement.  The head is read before the transaction.              *)

AckCheck(h, d, seq) ==
  /\ "ack" \in Traffic
  /\ handler[h] = Idle
  /\ d \notin revoked
  /\ seq <= HeadSeq(db.journal)
  /\ handler' = [handler EXCEPT ![h] = [kind |-> "ack", dev |-> d, seq |-> seq]]
  /\ UNCHANGED <<db, tx, idem, cursors, revoked, collections, shares>>

AckStore_Overwrite(h) ==
  /\ tx = Idle
  /\ handler[h] # Idle
  /\ handler[h].kind = "ack"
  /\ cursors' = [cursors EXCEPT ![handler[h].dev] = handler[h].seq]
  /\ handler' = [handler EXCEPT ![h] = Idle]
  /\ UNCHANGED <<db, tx, idem, revoked, collections, shares>>

AckStore(h) ==
  /\ tx = Idle
  /\ handler[h] # Idle
  /\ handler[h].kind = "ack"
  /\ LET d == handler[h].dev IN
       cursors' = [cursors EXCEPT ![d] = IF handler[h].seq < @ THEN @ ELSE handler[h].seq]
  /\ handler' = [handler EXCEPT ![h] = Idle]
  /\ UNCHANGED <<db, tx, idem, revoked, collections, shares>>

-----------------------------------------------------------------------------
(* Deleting a collection: the live objects are listed, deleted by one      *)
(* forced push each under a fresh key, and the collection is tombstoned.   *)

TreeList(h, d, c) ==
  /\ "tree" \in Traffic
  /\ handler[h] = Idle
  /\ d \notin revoked
  /\ collections[c] = "live"
  /\ Access(d, c) = 3
  /\ handler' = [handler EXCEPT ![h] =
       [kind |-> "tree", dev |-> d, col |-> c,
        objs |-> {<<o, db.objects[o].rev>> :
                   o \in {p \in Objects : Live(db, p) /\ db.objects[p].col = c}},
        done |-> {}]]
  /\ UNCHANGED <<db, tx, idem, cursors, revoked, collections, shares>>

\* The push a tree deletion makes for an object listed at revision rev.
TreeItem(h, o, rev) ==
  [op |-> "delete", obj |-> o, col |-> handler[h].col, base |-> rev, force |-> TRUE]

TreeDelete_SkipRefused(h, o, rev) ==
  /\ tx = Idle
  /\ handler[h] # Idle
  /\ handler[h].kind = "tree"
  /\ <<o, rev>> \in handler[h].objs \ handler[h].done
  /\ LET d == handler[h].dev
         it == TreeItem(h, o, rev)
         deletes == CanDelete(db, it, d)
     IN /\ deletes => db.lastSeq < MaxSeq
        /\ db' = IF deletes THEN Deleted(db, it, d, NoKey) ELSE db
        /\ handler' = [handler EXCEPT ![h].done = @ \cup {<<o, rev>>}]
  /\ UNCHANGED <<tx, idem, cursors, revoked, collections, shares>>

TreeDelete(h, o, rev) ==
  /\ tx = Idle
  /\ handler[h] # Idle
  /\ handler[h].kind = "tree"
  /\ <<o, rev>> \in handler[h].objs \ handler[h].done
  /\ LET d == handler[h].dev
         it == TreeItem(h, o, rev)
         deletes == CanDelete(db, it, d)
         gone == AlreadyDeleted(db, it, d)
     IN /\ deletes => db.lastSeq < MaxSeq
        /\ db' = IF deletes THEN Deleted(db, it, d, NoKey) ELSE db
        /\ handler' = IF deletes \/ gone
                      THEN [handler EXCEPT ![h].done = @ \cup {<<o, rev>>}]
                      ELSE [handler EXCEPT ![h] = Idle]    \* ErrTreeConflict
  /\ UNCHANGED <<tx, idem, cursors, revoked, collections, shares>>

\* TombstoneCollection: the collection goes, and its shares with it.
TreeTombstone(h) ==
  /\ tx = Idle
  /\ handler[h] # Idle
  /\ handler[h].kind = "tree"
  /\ handler[h].done = handler[h].objs
  /\ collections' = [collections EXCEPT ![handler[h].col] = "deleted"]
  /\ shares' = IF collections[handler[h].col] = "live"
               THEN [u \in Users |-> [shares[u] EXCEPT ![handler[h].col] = 0]]
               ELSE shares
  /\ handler' = [handler EXCEPT ![h] = Idle]
  /\ UNCHANGED <<db, tx, idem, cursors, revoked>>

-----------------------------------------------------------------------------
(* Sharing, revocation and lost requests.                                  *)

\* SetShare reads the collection before its transaction.
ShareCheck(h, u, c, level) ==
  /\ "share" \in Traffic
  /\ handler[h] = Idle
  /\ collections[c] = "live"
  /\ u # OwnerOf[c]
  /\ handler' = [handler EXCEPT ![h] =
       [kind |-> "share", user |-> u, col |-> c, level |-> level]]
  /\ UNCHANGED <<db, tx, idem, cursors, revoked, collections, shares>>

ShareStore(h) ==
  /\ tx = Idle
  /\ handler[h] # Idle
  /\ handler[h].kind = "share"
  /\ shares' = [shares EXCEPT ![handler[h].user][handler[h].col] = handler[h].level]
  /\ handler' = [handler EXCEPT ![h] = Idle]
  /\ UNCHANGED <<db, tx, idem, cursors, revoked, collections>>

RemoveShare(u, c) ==
  /\ tx = Idle
  /\ shares[u][c] # 0
  /\ shares' = [shares EXCEPT ![u][c] = 0]
  /\ UNCHANGED <<db, tx, idem, cursors, revoked, collections, handler>>

\* A request already admitted keeps the device as it was when it was read.
Revoke(d) ==
  /\ "revoke" \in Traffic
  /\ d \notin SystemDevices \cup revoked
  /\ tx = Idle
  /\ revoked' = revoked \cup {d}
  /\ UNCHANGED <<db, tx, idem, cursors, collections, shares, handler>>

\* The client hangs up or the process dies between two steps of a request.
Lose(h) ==
  /\ handler[h] # Idle
  /\ tx # Idle => tx.handler # h
  /\ handler' = [handler EXCEPT ![h] = Idle]
  /\ UNCHANGED <<db, tx, idem, cursors, revoked, collections, shares>>

Next ==
  \/ \E h \in Handlers, d \in Devices, k \in Keys : PushLookup(h, d, k)
  \/ \E h \in Handlers : TxBegin(h) \/ AckStore(h) \/ TreeTombstone(h) \/ ShareStore(h) \/ Lose(h)
  \/ \E it \in [op : Ops, obj : Objects, col : Collections, base : 0..MaxSeq,
                force : BOOLEAN, content : Contents] : ApplyOne(it)
  \/ TxCommit \/ TxDuplicate \/ TxRollback
  \/ \E h \in Handlers, d \in Devices, n \in 0..MaxSeq : AckCheck(h, d, n)
  \/ \E h \in Handlers, d \in Devices, c \in Collections : TreeList(h, d, c)
  \/ \E h \in Handlers, o \in Objects, n \in 1..MaxSeq : TreeDelete(h, o, n)
  \/ \E h \in Handlers, u \in Users, c \in Collections, n \in 1..2 : ShareCheck(h, u, c, n)
  \/ \E u \in Users, c \in Collections : RemoveShare(u, c)
  \/ \E d \in Devices : Revoke(d)

Spec == Init /\ [][Next]_vars

-----------------------------------------------------------------------------
(* Properties.                                                             *)

\* Every variable has its type.
TypeOK ==
  /\ db \in Database
  /\ tx = Idle \/ tx \in Transaction
  /\ idem \in [Devices -> [Keys -> Seq(Result) \cup {NoResult}]]
  /\ cursors \in [Devices -> Nat]
  /\ revoked \subseteq Devices
  /\ collections \in [Collections -> {"live", "deleted"}]
  /\ shares \in [Users -> [Collections -> 0..2]]
  /\ handler \in [Handlers -> Request \cup {Idle}]

\* Sequence numbers identify rows and are never beyond the counter.
SeqsUnique(s) ==
  /\ \A j \in s.journal : j.seq \in 1..s.lastSeq
  /\ \A j, k \in s.journal : j.seq = k.seq => j = k

\* The rows of an object are its revisions 1, 2, ... in order, ending with the
\* revision, content and deletion the object shows; it is created once and
\* nothing follows its deletion.
RowsMatchObject(s) ==
  /\ \A j \in s.journal :
       /\ Exists(s, j.obj)
       /\ j.rev \in 1..s.objects[j.obj].rev
       /\ j.op = "create" <=> j.rev = 1
       /\ j.op = "delete" <=> s.objects[j.obj].deleted /\ j.rev = s.objects[j.obj].rev
       /\ j.rev = s.objects[j.obj].rev => j.content = s.objects[j.obj].content
  /\ \A o \in Objects : Exists(s, o) =>
       \A r \in 1..s.objects[o].rev : \E j \in s.journal : j.obj = o /\ j.rev = r
  /\ \A j, k \in s.journal : j.obj = k.obj /\ j.seq < k.seq => j.rev < k.rev

\* The journal is a faithful, gapless account of every object, in committed
\* rows and in the working copy of a half-applied batch alike (SYNC.md,
\* "Journal invariants"; verify's inconsistent_revision).
JournalFaithful ==
  /\ SeqsUnique(db) /\ RowsMatchObject(db)
  /\ tx # Idle => SeqsUnique(tx.db) /\ RowsMatchObject(tx.db)

\* Exactly once: every journal row a push committed is one "ok" answer of the
\* result stored under that push's key, and every stored answer that claims a
\* sequence number has its row.  A retry can neither apply twice nor be told
\* of an application that was rolled back.
ResultsMatchJournal ==
  /\ \A j \in db.journal : j.key # NoKey =>
       /\ idem[j.dev][j.key] # NoResult
       /\ \E i \in DOMAIN idem[j.dev][j.key] :
            idem[j.dev][j.key][i] = [obj |-> j.obj, status |-> "ok", rev |-> j.rev, seq |-> j.seq]
  /\ \A d \in Devices, k \in Keys : idem[d][k] # NoResult =>
       \A i \in DOMAIN idem[d][k] : idem[d][k][i].seq # 0 =>
         \E j \in db.journal :
           /\ j.dev = d /\ j.key = k /\ j.seq = idem[d][k][i].seq
           /\ j.obj = idem[d][k][i].obj /\ j.rev = idem[d][k][i].rev

\* Whatever a create or update ever committed can be recovered from the
\* object's history, so that a forced write loses no data.
HistoryComplete ==
  db.history = {[obj |-> j.obj, rev |-> j.rev, content |-> j.content] :
                  j \in {r \in db.journal : r.op # "delete"}}

\* Every row that commits is written by a device that, at the commit, may
\* write to the live collection it lands in and to the one the object was in.
WritesAuthorized ==
  [][\A j \in db'.journal \ db.journal :
       /\ MayTarget(j.dev, j.col)
       /\ Exists(db, j.obj) => MayWrite(j.dev, db.objects[j.obj].col)]_db

\* No step takes an object back: revisions grow, one journal row for each,
\* a tombstone never changes again, and an object never changes owner.
ObjectsAdvance ==
  [][\A o \in Objects : Exists(db, o) =>
       /\ Exists(db', o)
       /\ {j.rev : j \in {r \in db'.journal \ db.journal : r.obj = o}} =
            db.objects[o].rev + 1 .. db'.objects[o].rev
       /\ db'.objects[o].rev >= db.objects[o].rev
       /\ db'.objects[o].rev = db.objects[o].rev \/ db.objects[o].deleted =>
            db'.objects[o] = db.objects[o]
       /\ OwnerOf[db'.objects[o].col] = OwnerOf[db.objects[o].col]]_db

\* A live object is in a live collection: deleting a collection leaves no
\* object behind (tree.go, "deletes col ... and every object in them").
NoObjectLeftBehind ==
  \A o \in Objects : Live(db, o) => collections[db.objects[o].col] = "live"

\* A collection is tombstoned only after every object its deletion listed has
\* been tombstoned in the journal: a refused delete stops the deletion.
ListedObjectsDeletedFirst ==
  [][\A c \in Collections : collections[c] = "live" /\ collections'[c] = "deleted" =>
       \E h \in Handlers :
         /\ handler[h] # Idle /\ handler[h].kind = "tree" /\ handler[h].col = c
         /\ \A e \in handler[h].objs : ~Live(db, e[1])]_collections

\* An acknowledgement never moves back (SYNC.md, "ACK must not move backwards").
CursorsAdvance == [][\A d \in Devices : cursors'[d] >= cursors[d]]_cursors

-----------------------------------------------------------------------------
(* The engine implements SyncService: a push takes effect at its commit.   *)

\* What clients see of an object.
ValueOf(s, o) ==
  IF Exists(s, o)
  THEN [rev |-> s.objects[o].rev, content |-> s.objects[o].content,
        deleted |-> s.objects[o].deleted]
  ELSE [rev |-> 0, content |-> NoObject, deleted |-> FALSE]

Service == INSTANCE SyncService
             WITH value <- [o \in Objects |-> ValueOf(db, o)], answered <- idem

\* Every behaviour of the engine is one of SyncService: half-applied batches,
\* racing requests with one key, rollbacks and lost requests never show.
ImplementsSyncService == Service!Spec
=============================================================================
