------------------------- MODULE SyncEngine_proofs -------------------------
(***************************************************************************)
(* Proofs about SyncEngine, for all devices, objects, contents, keys,      *)
(* request handlers and bounds: type correctness; that the journal is a    *)
(* faithful account of every object; that each push takes effect once;     *)
(* that history is complete, writes are authorized and objects only        *)
(* advance; that a deleted collection goes last; and that the engine       *)
(* implements SyncService.                                                 *)
(***************************************************************************)
EXTENDS SyncEngine, TLAPS

\* Creating, updating or deleting an object maps a database to a database.
LEMMA WriteType ==
  ASSUME NEW s \in Database, NEW it, it.obj \in Objects, it.col \in Collections,
         NEW d \in Devices, NEW k \in Keys \cup {NoKey}
  PROVE  /\ it.content \in Contents => Created(s, it, d, k) \in Database
         /\ it.content \in Contents /\ Exists(s, it.obj) => Updated(s, it, d, k) \in Database
         /\ Exists(s, it.obj) => Deleted(s, it, d, k) \in Database
<1>1. /\ s.objects \in [Objects -> Object \cup {NoObject}]
      /\ s.journal \in SUBSET JournalRow
      /\ s.history \in SUBSET HistoryRow
      /\ s.lastSeq \in Nat
  BY DEF Database
<1>2. ASSUME it.content \in Contents PROVE Created(s, it, d, k) \in Database
  <2>1. Row(s, it, "create", 1, it.content, d, k) \in JournalRow
    BY <1>1, <1>2 DEF Row, JournalRow, Ops
  <2>2. [obj |-> it.obj, rev |-> 1, content |-> it.content] \in HistoryRow
    BY <1>2 DEF HistoryRow
  <2>3. [col |-> it.col, rev |-> 1, content |-> it.content, deleted |-> FALSE] \in Object
    BY <1>2 DEF Object
  <2> QED BY <1>1, <2>1, <2>2, <2>3 DEF Created, Database
<1>3. ASSUME it.content \in Contents, Exists(s, it.obj)
      PROVE  Updated(s, it, d, k) \in Database
  <2> DEFINE new == s.objects[it.obj].rev + 1
  <2>0. new \in Nat \ {0}
    BY <1>1, <1>3 DEF Exists, Object
  <2> HIDE DEF new
  <2>1. Row(s, it, "update", new, it.content, d, k) \in JournalRow
    BY <1>1, <1>3, <2>0 DEF Row, JournalRow, Ops
  <2>2. [obj |-> it.obj, rev |-> new, content |-> it.content] \in HistoryRow
    BY <1>3, <2>0 DEF HistoryRow
  <2>3. [col |-> it.col, rev |-> new, content |-> it.content, deleted |-> FALSE] \in Object
    BY <1>3, <2>0 DEF Object
  <2>4. Updated(s, it, d, k) =
          [objects |-> [s.objects EXCEPT ![it.obj] =
                [col |-> it.col, rev |-> new, content |-> it.content, deleted |-> FALSE]],
           journal |-> s.journal \cup {Row(s, it, "update", new, it.content, d, k)},
           history |-> s.history \cup {[obj |-> it.obj, rev |-> new, content |-> it.content]},
           lastSeq |-> s.lastSeq + 1]
    BY DEF Updated, new
  <2> QED BY <1>1, <2>1, <2>2, <2>3, <2>4 DEF Database
<1>4. ASSUME Exists(s, it.obj) PROVE Deleted(s, it, d, k) \in Database
  <2> DEFINE old == s.objects[it.obj]
  <2>0. old \in Object
    BY <1>1, <1>4 DEF Exists
  <2>1. Row(s, it, "delete", old.rev + 1, old.content, d, k) \in JournalRow
    BY <1>1, <2>0 DEF Row, JournalRow, Ops, Object
  <2>2. [col |-> old.col, rev |-> old.rev + 1, content |-> old.content, deleted |-> TRUE]
          \in Object
    BY <2>0 DEF Object
  <2> QED BY <1>1, <2>1, <2>2 DEF Deleted, Database
<1> QED BY <1>2, <1>3, <1>4

\* A busy handler holds a request of its kind.
LEMMA RequestKinds ==
  ASSUME TypeOK, NEW h \in Handlers, handler[h] # Idle
  PROVE  /\ handler[h].kind = "push" => handler[h] \in PushRequest
         /\ handler[h].kind = "ack" => handler[h] \in AckRequest
         /\ handler[h].kind = "tree" => handler[h] \in TreeRequest
         /\ handler[h].kind = "share" => handler[h] \in ShareRequest
BY DEF TypeOK, Request, PushRequest, AckRequest, TreeRequest, ShareRequest

\* The initial rows.
LEMMA InitType == Init => TypeOK
<1> SUFFICES ASSUME Init PROVE TypeOK
  OBVIOUS
<1>1. db \in Database
  BY DEF Init, Database
<1> QED BY <1>1 DEF Init, TypeOK

\* What applying an item adds to the open transaction has its type.
LEMMA AnswerType ==
  ASSUME TypeOK, tx # Idle, NEW s \in Database, NEW it, it.obj \in Objects,
         NEW status \in {"ok", "conflict", "error"}, NEW rev \in Nat, NEW seq \in Nat,
         Answer(s, it, status, rev, seq)
  PROVE  TypeOK'
<1>1. tx \in Transaction
  BY DEF TypeOK
<1> DEFINE result == [obj |-> it.obj, status |-> status, rev |-> rev, seq |-> seq]
<1>2. result \in Result
  BY DEF Result
<1> HIDE DEF result
<1>3. Append(tx.results, result) \in Seq(Result)
  BY <1>1, <1>2 DEF Transaction
<1>4. tx' = [handler |-> tx.handler, dev |-> tx.dev, key |-> tx.key,
             db |-> s, results |-> Append(tx.results, result)]
  BY DEF Answer, result
<1>5. tx' \in Transaction
  BY <1>1, <1>3, <1>4 DEF Transaction
<1> QED BY <1>5 DEF TypeOK, Answer

LEMMA ApplyType ==
  ASSUME TypeOK, NEW it \in Item, ApplyOne(it)
  PROVE  TypeOK'
<1>1. tx # Idle /\ tx \in Transaction
  BY DEF TypeOK, ApplyOne, Refuse, Conflict, Create, Update, Delete, DeleteAgain, Applying
<1>2. tx.db \in Database /\ tx.dev \in Devices /\ tx.key \in Keys \cup {NoKey}
  BY <1>1 DEF Transaction
<1>3. /\ tx.db.objects \in [Objects -> Object \cup {NoObject}]
      /\ tx.db.lastSeq \in Nat
  BY <1>2 DEF Database
<1>4. /\ it.obj \in Objects /\ it.col \in Collections /\ it.content \in Contents
  BY DEF Item
<1>5. Exists(tx.db, it.obj) => tx.db.objects[it.obj].rev \in Nat
  BY <1>3, <1>4 DEF Exists, Object
<1>6. CASE Refuse(it)
  BY <1>1, <1>2, <1>4, <1>6, AnswerType DEF Refuse
<1>7. CASE Conflict(it)
  BY <1>1, <1>2, <1>4, <1>5, <1>7, AnswerType DEF Conflict, Conflicts
<1>8. CASE Create(it)
  <2>1. Created(tx.db, it, tx.dev, tx.key) \in Database
    BY <1>2, <1>4, WriteType
  <2> QED BY <1>1, <1>3, <1>4, <1>8, <2>1, AnswerType DEF Create
<1>9. CASE Update(it)
  <2>1. Exists(tx.db, it.obj)
    BY <1>9 DEF Update, CanUpdate, Live
  <2>2. Updated(tx.db, it, tx.dev, tx.key) \in Database
    BY <1>2, <1>4, <2>1, WriteType
  <2> QED BY <1>1, <1>3, <1>4, <1>5, <1>9, <2>1, <2>2, AnswerType DEF Update
<1>10. CASE Delete(it)
  <2>1. Exists(tx.db, it.obj)
    BY <1>10 DEF Delete, CanDelete, Live
  <2>2. Deleted(tx.db, it, tx.dev, tx.key) \in Database
    BY <1>2, <1>4, <2>1, WriteType
  <2> QED BY <1>1, <1>3, <1>4, <1>5, <1>10, <2>1, <2>2, AnswerType DEF Delete
<1>11. CASE DeleteAgain(it)
  BY <1>1, <1>2, <1>4, <1>5, <1>11, AnswerType DEF DeleteAgain, AlreadyDeleted
<1> QED BY <1>6, <1>7, <1>8, <1>9, <1>10, <1>11 DEF ApplyOne

LEMMA TypeStep == TypeOK /\ [Next]_vars => TypeOK'
<1> SUFFICES ASSUME TypeOK, [Next]_vars PROVE TypeOK'
  OBVIOUS
<1> USE DEF TypeOK
<1>1. ASSUME NEW h \in Handlers, NEW d \in Devices, NEW k \in Keys, PushLookup(h, d, k)
      PROVE  TypeOK'
  <2>1. [kind |-> "push", dev |-> d, key |-> k] \in Request
    BY DEF Request, PushRequest
  <2> QED BY <1>1, <2>1 DEF PushLookup
<1>2. ASSUME NEW h \in Handlers, TxBegin(h) PROVE TypeOK'
  <2>1. handler[h] \in PushRequest
    BY <1>2, RequestKinds DEF TxBegin
  <2>2. [handler |-> h, dev |-> handler[h].dev, key |-> handler[h].key,
         db |-> db, results |-> <<>>] \in Transaction
    BY <2>1 DEF Transaction, PushRequest
  <2> QED BY <1>2, <2>2 DEF TxBegin
<1>3. ASSUME NEW h \in Handlers, AckStore(h) PROVE TypeOK'
  <2>1. handler[h] \in AckRequest
    BY <1>3, RequestKinds DEF AckStore
  <2> QED BY <1>3, <2>1 DEF AckStore, AckRequest
<1>4. ASSUME NEW h \in Handlers, TreeTombstone(h) PROVE TypeOK'
  <2>1. handler[h] \in TreeRequest
    BY <1>4, RequestKinds DEF TreeTombstone
  <2>2. collections' \in [Collections -> {"live", "deleted"}]
    BY <1>4, <2>1 DEF TreeTombstone, TreeRequest
  <2>3. shares' \in [Users -> [Collections -> 0..2]]
    BY <1>4, <2>1 DEF TreeTombstone, TreeRequest
  <2> QED BY <1>4, <2>2, <2>3 DEF TreeTombstone
<1>5. ASSUME NEW h \in Handlers, ShareStore(h) PROVE TypeOK'
  <2>1. handler[h] \in ShareRequest
    BY <1>5, RequestKinds DEF ShareStore
  <2>2. shares' \in [Users -> [Collections -> 0..2]]
    BY <1>5, <2>1 DEF ShareStore, ShareRequest
  <2> QED BY <1>5, <2>2 DEF ShareStore
<1>6. ASSUME NEW h \in Handlers, Lose(h) PROVE TypeOK'
  BY <1>6 DEF Lose
<1>7. ASSUME NEW it \in [op : Ops, obj : Objects, col : Collections, base : 0..MaxSeq,
                         force : BOOLEAN, content : Contents], ApplyOne(it)
      PROVE TypeOK'
  <2>1. it \in Item
    BY DEF Item
  <2> QED BY <1>7, <2>1, ApplyType
<1>8. CASE TxCommit
  <2>1. tx \in Transaction
    BY <1>8 DEF TxCommit
  <2>2. tx.db \in Database /\ tx.results \in Seq(Result)
    BY <2>1 DEF Transaction
  <2> QED BY <1>8, <2>2 DEF TxCommit
<1>9. CASE TxDuplicate
  BY <1>9 DEF TxDuplicate
<1>10. CASE TxRollback
  BY <1>10 DEF TxRollback
<1>11. ASSUME NEW h \in Handlers, NEW d \in Devices, NEW n \in 0..MaxSeq, AckCheck(h, d, n)
       PROVE TypeOK'
  <2>1. [kind |-> "ack", dev |-> d, seq |-> n] \in Request
    BY DEF Request, AckRequest
  <2> QED BY <1>11, <2>1 DEF AckCheck
<1>12. ASSUME NEW h \in Handlers, NEW d \in Devices, NEW c \in Collections, TreeList(h, d, c)
       PROVE TypeOK'
  <2> DEFINE listed == {<<o, db.objects[o].rev>> :
                          o \in {p \in Objects : Live(db, p) /\ db.objects[p].col = c}}
  <2>1. listed \subseteq Objects \X Nat
    <3>1. \A p \in Objects : Live(db, p) => db.objects[p].rev \in Nat
      BY DEF Live, Exists, Database, Object
    <3> QED BY <3>1
  <2> HIDE DEF listed
  <2>2. [kind |-> "tree", dev |-> d, col |-> c, objs |-> listed, done |-> {}] \in Request
    BY <2>1 DEF Request, TreeRequest
  <2>3. handler' = [handler EXCEPT ![h] =
          [kind |-> "tree", dev |-> d, col |-> c, objs |-> listed, done |-> {}]]
    BY <1>12 DEF TreeList, listed
  <2> QED BY <1>12, <2>2, <2>3, ZenonT(40) DEF TreeList
<1>13. ASSUME NEW h \in Handlers, NEW o \in Objects, NEW n \in 1..MaxSeq, TreeDelete(h, o, n)
       PROVE TypeOK'
  <2>1. handler[h] \in TreeRequest
    BY <1>13, RequestKinds DEF TreeDelete
  <2> DEFINE it == TreeItem(h, o, n)
  <2>2. it.obj \in Objects /\ it.col \in Collections /\ it.obj = o
    BY <2>1 DEF TreeItem, TreeRequest
  <2>3. handler[h].dev \in Devices
    BY <2>1 DEF TreeRequest
  <2>4. CanDelete(db, it, handler[h].dev) => Exists(db, it.obj)
    BY DEF CanDelete, Live
  <2>5. db' \in Database
    <3> HIDE DEF it
    <3>1. db' = IF CanDelete(db, it, handler[h].dev)
                THEN Deleted(db, it, handler[h].dev, NoKey) ELSE db
      BY <1>13 DEF TreeDelete, it
    <3> QED BY <2>2, <2>3, <2>4, <3>1, WriteType
  <2>6. [handler[h] EXCEPT !.done = @ \cup {<<o, n>>}] \in TreeRequest
    BY <1>13, <2>1 DEF TreeRequest, TreeDelete
  <2>7. handler' \in [Handlers -> Request \cup {Idle}]
    <3> DEFINE next == [handler[h] EXCEPT !.done = @ \cup {<<o, n>>}]
    <3>1. \/ handler' = [handler EXCEPT ![h] = next]
          \/ handler' = [handler EXCEPT ![h] = Idle]
      BY <1>13 DEF TreeDelete
    <3>2. next \in Request
      BY <2>6 DEF Request
    <3> HIDE DEF next
    <3> QED BY <3>1, <3>2
  <2> QED BY <1>13, <2>5, <2>7 DEF TreeDelete
<1>14. ASSUME NEW h \in Handlers, NEW u \in Users, NEW c \in Collections, NEW n \in 1..2,
              ShareCheck(h, u, c, n)
       PROVE TypeOK'
  <2>1. [kind |-> "share", user |-> u, col |-> c, level |-> n] \in Request
    BY DEF Request, ShareRequest
  <2> QED BY <1>14, <2>1 DEF ShareCheck
<1>15. ASSUME NEW u \in Users, NEW c \in Collections, RemoveShare(u, c) PROVE TypeOK'
  BY <1>15 DEF RemoveShare
<1>16. ASSUME NEW d \in Devices, Revoke(d) PROVE TypeOK'
  BY <1>16 DEF Revoke
<1>17. CASE UNCHANGED vars
  BY <1>17 DEF vars
<1> QED
  BY <1>1, <1>2, <1>3, <1>4, <1>5, <1>6, <1>7, <1>8, <1>9, <1>10, <1>11, <1>12, <1>13,
     <1>14, <1>15, <1>16, <1>17 DEF Next

\* Every reachable state is well typed, whatever the instance.
THEOREM TypeCorrect == Spec => []TypeOK
<1>1. Init => TypeOK
  BY InitType
<1>2. TypeOK /\ [Next]_vars => TypeOK'
  BY TypeStep
<1> QED BY <1>1, <1>2, PTL DEF Spec

-----------------------------------------------------------------------------
(* The journal.                                                            *)

Faithful(s) == SeqsUnique(s) /\ RowsMatchObject(s)

\* The revision of an object id, 0 while nothing was created under it.
RevOf(s, o) == IF Exists(s, o) THEN s.objects[o].rev ELSE 0

\* Whatever moves one object to its next revision and journals that revision
\* under the next sequence number keeps the journal faithful, unless the object
\* was a tombstone.
LEMMA NextRevisionFaithful ==
  ASSUME NEW s \in Database, Faithful(s), NEW t \in Database,
         NEW new \in Object, NEW r \in JournalRow,
         s.objects[r.obj] = NoObject \/ ~s.objects[r.obj].deleted,
         new.rev = RevOf(s, r.obj) + 1,
         t.objects = [s.objects EXCEPT ![r.obj] = new],
         t.journal = s.journal \cup {r},
         t.lastSeq = s.lastSeq + 1,
         r.seq = s.lastSeq + 1, r.rev = new.rev, r.content = new.content,
         r.op = "create" <=> new.rev = 1,
         r.op = "delete" <=> new.deleted
  PROVE  Faithful(t)
<1>1. /\ s.objects \in [Objects -> Object \cup {NoObject}]
      /\ s.journal \subseteq JournalRow
      /\ s.lastSeq \in Nat
  BY DEF Database
<1>2. r.obj \in Objects /\ new.rev \in Nat /\ new # NoObject /\ t.objects[r.obj] = new
  BY <1>1, SentinelAssumption DEF JournalRow, Object
<1>3. \A o \in Objects : o # r.obj => t.objects[o] = s.objects[o]
  BY <1>1
<1>4. \A j \in s.journal : j.obj \in Objects /\ j.seq \in Nat /\ j.rev \in Nat
  BY <1>1 DEF JournalRow
<1>5. \A o \in Objects : Exists(s, o) => s.objects[o].rev \in Nat
  BY <1>1 DEF Exists, Object
<1>6. \A j \in s.journal : j.seq <= s.lastSeq
  BY <1>1, <1>4 DEF Faithful, SeqsUnique
<1>7. \A j \in s.journal : j.obj = r.obj =>
        /\ Exists(s, r.obj) /\ j.rev < new.rev /\ j.op # "delete"
        /\ new.rev = s.objects[r.obj].rev + 1
  <2> SUFFICES ASSUME NEW j \in s.journal, j.obj = r.obj
               PROVE  /\ Exists(s, r.obj) /\ j.rev < new.rev /\ j.op # "delete"
                      /\ new.rev = s.objects[r.obj].rev + 1
    OBVIOUS
  <2>1. Exists(s, r.obj) /\ j.rev \in 1..s.objects[r.obj].rev
    BY DEF Faithful, RowsMatchObject
  <2>2. new.rev = s.objects[r.obj].rev + 1
    BY <2>1 DEF RevOf
  <2>3. j.op # "delete"
    BY <2>1 DEF Faithful, RowsMatchObject, Exists
  <2> QED BY <1>2, <1>4, <1>5, <2>1, <2>2, <2>3
<1>8. SeqsUnique(t)
  <2>1. \A j \in t.journal : j.seq \in 1..t.lastSeq
    BY <1>1, <1>4 DEF Faithful, SeqsUnique
  <2>2. ASSUME NEW j \in t.journal, NEW k \in t.journal, j.seq = k.seq PROVE j = k
    BY <1>1, <1>4, <1>6, <2>2 DEF Faithful, SeqsUnique
  <2> QED BY <2>1, <2>2 DEF SeqsUnique
<1>9. ASSUME NEW j \in t.journal
      PROVE /\ Exists(t, j.obj)
            /\ j.rev \in 1..t.objects[j.obj].rev
            /\ j.op = "create" <=> j.rev = 1
            /\ j.op = "delete" <=> t.objects[j.obj].deleted /\ j.rev = t.objects[j.obj].rev
            /\ j.rev = t.objects[j.obj].rev => j.content = t.objects[j.obj].content
  <2>1. CASE j = r
    <3>1. new.rev >= 1
      BY <1>5, <1>2 DEF RevOf
    <3> QED BY <1>2, <2>1, <3>1 DEF Exists
  <2>2. CASE j # r /\ j.obj = r.obj
    <3>1. j \in s.journal
      BY <2>2
    <3>2. j.rev \in 1..s.objects[r.obj].rev /\ (j.op = "create" <=> j.rev = 1)
      BY <2>2, <3>1 DEF Faithful, RowsMatchObject
    <3> QED BY <1>2, <1>4, <1>5, <1>7, <2>2, <3>1, <3>2 DEF Exists
  <2>3. CASE j.obj # r.obj
    <3>1. j \in s.journal /\ t.objects[j.obj] = s.objects[j.obj]
      BY <1>3, <1>4, <2>3
    <3> QED BY <3>1 DEF Faithful, RowsMatchObject, Exists
  <2> QED BY <2>1, <2>2, <2>3
<1>10. ASSUME NEW o \in Objects, Exists(t, o), NEW n \in 1..t.objects[o].rev
       PROVE  \E j \in t.journal : j.obj = o /\ j.rev = n
  <2>1. CASE o # r.obj
    BY <1>3, <1>10, <2>1 DEF Faithful, RowsMatchObject, Exists
  <2>2. CASE o = r.obj /\ n = new.rev
    BY <2>2
  <2>3. CASE o = r.obj /\ n # new.rev
    <3>1. Exists(s, o) /\ n \in 1..s.objects[o].rev
      BY <1>2, <1>5, <1>10, <2>3 DEF RevOf
    <3> QED BY <3>1 DEF Faithful, RowsMatchObject
  <2> QED BY <2>1, <2>2, <2>3
<1>11. ASSUME NEW j \in t.journal, NEW k \in t.journal, j.obj = k.obj, j.seq < k.seq
       PROVE  j.rev < k.rev
  <2>1. CASE j \in s.journal /\ k \in s.journal
    BY <1>11, <2>1 DEF Faithful, RowsMatchObject
  <2>2. CASE k = r /\ j \in s.journal
    BY <1>7, <1>11, <2>2
  <2>3. CASE j = r
    BY <1>1, <1>4, <1>6, <1>11, <2>3
  <2> QED BY <2>1, <2>2, <2>3
<1> QED BY <1>8, <1>9, <1>10, <1>11 DEF Faithful, RowsMatchObject

\* The three writes of applyOne are such moves.
LEMMA WriteFaithful ==
  ASSUME NEW s \in Database, Faithful(s),
         NEW it, it.obj \in Objects, it.col \in Collections,
         NEW d \in Devices, NEW k \in Keys \cup {NoKey}
  PROVE  /\ it.content \in Contents /\ ~Exists(s, it.obj) => Faithful(Created(s, it, d, k))
         /\ it.content \in Contents /\ Live(s, it.obj) => Faithful(Updated(s, it, d, k))
         /\ Live(s, it.obj) => Faithful(Deleted(s, it, d, k))
<1>1. /\ s.objects \in [Objects -> Object \cup {NoObject}]
      /\ s.lastSeq \in Nat
  BY DEF Database
<1>2. ASSUME it.content \in Contents, ~Exists(s, it.obj)
      PROVE  Faithful(Created(s, it, d, k))
  <2> DEFINE t == Created(s, it, d, k)
             r == Row(s, it, "create", 1, it.content, d, k)
             new == [col |-> it.col, rev |-> 1, content |-> it.content, deleted |-> FALSE]
  <2>1. t \in Database
    BY <1>2, WriteType
  <2>2. /\ t.objects = [s.objects EXCEPT ![it.obj] = new]
        /\ t.journal = s.journal \cup {r}
        /\ t.lastSeq = s.lastSeq + 1
    BY DEF Created
  <2>3. new \in Object
    BY <1>2 DEF Object
  <2>4. /\ r.obj = it.obj /\ r.seq = s.lastSeq + 1 /\ r.rev = 1 /\ r.op = "create"
        /\ r.content = it.content
        /\ r \in JournalRow
    BY <1>1, <1>2 DEF Row, JournalRow, Ops
  <2>5. RevOf(s, r.obj) = 0 /\ s.objects[r.obj] = NoObject
    BY <1>2, <2>4 DEF RevOf, Exists
  <2>6. new.rev = 1 /\ new.deleted = FALSE /\ new.content = it.content
    OBVIOUS
  <2> HIDE DEF t, r, new
  <2>7. Faithful(t)
    BY <2>1, <2>2, <2>3, <2>4, <2>5, <2>6, NextRevisionFaithful
  <2> QED BY <2>7 DEF t
<1>3. ASSUME it.content \in Contents, Live(s, it.obj)
      PROVE  Faithful(Updated(s, it, d, k))
  <2> DEFINE t == Updated(s, it, d, k)
             n == s.objects[it.obj].rev + 1
             r == Row(s, it, "update", n, it.content, d, k)
             new == [col |-> it.col, rev |-> n, content |-> it.content, deleted |-> FALSE]
  <2>1. t \in Database
    BY <1>3, WriteType DEF Live
  <2>2. /\ t.objects = [s.objects EXCEPT ![it.obj] = new]
        /\ t.journal = s.journal \cup {r}
        /\ t.lastSeq = s.lastSeq + 1
    BY DEF Updated
  <2>3. n \in Nat /\ n = RevOf(s, it.obj) + 1 /\ n > 1
    <3>1. s.objects[it.obj] \in Object /\ s.objects[it.obj].rev \in Nat
      BY <1>1, <1>3 DEF Live, Exists, Object
    <3>2. s.objects[it.obj].rev >= 1
      BY <3>1 DEF Object
    <3> QED BY <1>3, <3>1, <3>2 DEF RevOf, Live
  <2> HIDE DEF n
  <2>4. new \in Object
    BY <1>3, <2>3 DEF Object
  <2>5. /\ r.obj = it.obj /\ r.seq = s.lastSeq + 1 /\ r.rev = n /\ r.op = "update"
        /\ r.content = it.content
        /\ r \in JournalRow
    BY <1>1, <1>3, <2>3 DEF Row, JournalRow, Ops
  <2>6. new.rev = n /\ new.deleted = FALSE /\ new.content = it.content
    OBVIOUS
  <2> HIDE DEF t, r, new
  <2>7. Faithful(t)
    BY <1>3, <2>1, <2>2, <2>3, <2>4, <2>5, <2>6, NextRevisionFaithful DEF Live
  <2> QED BY <2>7 DEF t
<1>4. ASSUME Live(s, it.obj) PROVE Faithful(Deleted(s, it, d, k))
  <2> DEFINE t == Deleted(s, it, d, k)
             old == s.objects[it.obj]
             n == old.rev + 1
             r == Row(s, it, "delete", n, old.content, d, k)
             new == [col |-> old.col, rev |-> n, content |-> old.content, deleted |-> TRUE]
  <2>1. t \in Database
    BY <1>4, WriteType DEF Live
  <2>2. /\ t.objects = [s.objects EXCEPT ![it.obj] = new]
        /\ t.journal = s.journal \cup {r}
        /\ t.lastSeq = s.lastSeq + 1
    BY DEF Deleted
  <2>3. old \in Object /\ old.rev \in Nat
    BY <1>1, <1>4 DEF Live, Exists, Object
  <2>4. n \in Nat /\ n = RevOf(s, it.obj) + 1 /\ n > 1
    <3>1. old.rev >= 1
      BY <2>3 DEF Object
    <3> QED BY <1>4, <2>3, <3>1 DEF RevOf, Live
  <2>5. new \in Object
    BY <2>3, <2>4 DEF Object
  <2>6. /\ r.obj = it.obj /\ r.seq = s.lastSeq + 1 /\ r.rev = n /\ r.op = "delete"
        /\ r.content = old.content
        /\ r \in JournalRow
    BY <1>1, <2>3, <2>4 DEF Row, JournalRow, Ops, Object
  <2>7. new.rev = n /\ new.deleted = TRUE /\ new.content = old.content
    OBVIOUS
  <2> HIDE DEF t, r, new, n
  <2>8. Faithful(t)
    BY <1>4, <2>1, <2>2, <2>4, <2>5, <2>6, <2>7, NextRevisionFaithful DEF Live
  <2> QED BY <2>8 DEF t
<1> QED BY <1>2, <1>3, <1>4

LEMMA InitFaithful == Init => JournalFaithful
BY DEF Init, JournalFaithful, SeqsUnique, RowsMatchObject, Exists

\* Applying an item keeps the working copy faithful and leaves the committed
\* rows alone.
LEMMA ApplyFaithful ==
  ASSUME TypeOK, JournalFaithful, NEW it \in Item, ApplyOne(it)
  PROVE  JournalFaithful'
<1>1. tx # Idle /\ tx \in Transaction
  BY DEF TypeOK, ApplyOne, Refuse, Conflict, Create, Update, Delete, DeleteAgain, Applying
<1>2. tx.db \in Database /\ tx.dev \in Devices /\ tx.key \in Keys \cup {NoKey}
  BY <1>1 DEF Transaction
<1>3. /\ it.obj \in Objects /\ it.col \in Collections /\ it.content \in Contents
  BY DEF Item
<1>4. Faithful(tx.db) /\ Faithful(db)
  BY <1>1 DEF JournalFaithful, Faithful
<1>5. ASSUME NEW s \in Database, Faithful(s), NEW status, NEW rev, NEW seq,
             Answer(s, it, status, rev, seq)
      PROVE  JournalFaithful'
  <2>1. db' = db /\ tx'.db = s
    BY <1>5 DEF Answer
  <2>2. SeqsUnique(db)' /\ RowsMatchObject(db)'
    BY <1>4, <2>1 DEF Faithful, SeqsUnique, RowsMatchObject, Exists
  <2>3. SeqsUnique(tx.db)' /\ RowsMatchObject(tx.db)'
    BY <1>5, <2>1 DEF Faithful, SeqsUnique, RowsMatchObject, Exists
  <2> QED BY <2>2, <2>3 DEF JournalFaithful
<1>6. CASE Refuse(it)
  BY <1>2, <1>4, <1>5, <1>6 DEF Refuse
<1>7. CASE Conflict(it)
  BY <1>2, <1>4, <1>5, <1>7 DEF Conflict
<1>8. CASE Create(it)
  <2>1. ~Exists(tx.db, it.obj)
    BY <1>8 DEF Create, CanCreate
  <2>2. /\ Created(tx.db, it, tx.dev, tx.key) \in Database
        /\ Faithful(Created(tx.db, it, tx.dev, tx.key))
    BY <1>2, <1>3, <1>4, <2>1, WriteType, WriteFaithful
  <2> QED BY <1>5, <1>8, <2>2 DEF Create
<1>9. CASE Update(it)
  <2>1. Live(tx.db, it.obj) /\ Exists(tx.db, it.obj)
    BY <1>9 DEF Update, CanUpdate, Live
  <2>2. /\ Updated(tx.db, it, tx.dev, tx.key) \in Database
        /\ Faithful(Updated(tx.db, it, tx.dev, tx.key))
    BY <1>2, <1>3, <1>4, <2>1, WriteType, WriteFaithful
  <2> QED BY <1>5, <1>9, <2>2 DEF Update
<1>10. CASE Delete(it)
  <2>1. Live(tx.db, it.obj) /\ Exists(tx.db, it.obj)
    BY <1>10 DEF Delete, CanDelete, Live
  <2>2. /\ Deleted(tx.db, it, tx.dev, tx.key) \in Database
        /\ Faithful(Deleted(tx.db, it, tx.dev, tx.key))
    BY <1>2, <1>3, <1>4, <2>1, WriteType, WriteFaithful
  <2> QED BY <1>5, <1>10, <2>2 DEF Delete
<1>11. CASE DeleteAgain(it)
  BY <1>2, <1>4, <1>5, <1>11 DEF DeleteAgain
<1> QED BY <1>6, <1>7, <1>8, <1>9, <1>10, <1>11 DEF ApplyOne

\* A collection deletion commits one forced delete at a time.
LEMMA TreeDeleteFaithful ==
  ASSUME TypeOK, JournalFaithful, NEW h \in Handlers, NEW o \in Objects, NEW n \in 1..MaxSeq,
         TreeDelete(h, o, n)
  PROVE  JournalFaithful'
<1> DEFINE it == TreeItem(h, o, n)
<1>1. handler[h] \in TreeRequest
  BY RequestKinds DEF TreeDelete
<1>2. it.obj \in Objects /\ it.col \in Collections /\ handler[h].dev \in Devices
  BY <1>1 DEF TreeItem, TreeRequest
<1>3. CanDelete(db, it, handler[h].dev) => Live(db, it.obj)
  BY DEF CanDelete
<1>4. db' = IF CanDelete(db, it, handler[h].dev)
            THEN Deleted(db, it, handler[h].dev, NoKey) ELSE db
  BY DEF TreeDelete
<1>5. tx = Idle /\ tx' = tx
  BY DEF TreeDelete
<1> HIDE DEF it
<1>6. db \in Database /\ Faithful(db)
  BY DEF TypeOK, JournalFaithful, Faithful
<1>7. Faithful(IF CanDelete(db, it, handler[h].dev)
               THEN Deleted(db, it, handler[h].dev, NoKey) ELSE db)
  BY <1>2, <1>3, <1>6, WriteFaithful
<1>8. SeqsUnique(db)' /\ RowsMatchObject(db)'
  BY <1>4, <1>7 DEF Faithful, SeqsUnique, RowsMatchObject, Exists
<1> QED BY <1>5, <1>8 DEF JournalFaithful

LEMMA FaithfulStep == TypeOK /\ JournalFaithful /\ [Next]_vars => JournalFaithful'
<1> SUFFICES ASSUME TypeOK, JournalFaithful, [Next]_vars PROVE JournalFaithful'
  OBVIOUS
<1>1. ASSUME db' = db, tx' = tx PROVE JournalFaithful'
  BY <1>1 DEF JournalFaithful, SeqsUnique, RowsMatchObject, Exists
<1>2. ASSUME db' = db, tx' = Idle PROVE JournalFaithful'
  BY <1>2 DEF JournalFaithful, SeqsUnique, RowsMatchObject, Exists
<1>3. ASSUME NEW h \in Handlers, TxBegin(h) PROVE JournalFaithful'
  <2>1. db' = db /\ tx'.db = db
    BY <1>3 DEF TxBegin
  <2> QED BY <2>1 DEF JournalFaithful, SeqsUnique, RowsMatchObject, Exists
<1>4. ASSUME NEW it \in [op : Ops, obj : Objects, col : Collections, base : 0..MaxSeq,
                         force : BOOLEAN, content : Contents], ApplyOne(it)
      PROVE JournalFaithful'
  <2>1. it \in Item
    BY DEF Item
  <2> QED BY <1>4, <2>1, ApplyFaithful
<1>5. CASE TxCommit
  <2>1. tx # Idle /\ db' = tx.db /\ tx' = Idle
    BY <1>5 DEF TxCommit
  <2> QED BY <2>1 DEF JournalFaithful, SeqsUnique, RowsMatchObject, Exists
<1>6. CASE TxDuplicate \/ TxRollback
  BY <1>2, <1>6 DEF TxDuplicate, TxRollback
<1>7. ASSUME NEW h \in Handlers, NEW o \in Objects, NEW n \in 1..MaxSeq, TreeDelete(h, o, n)
      PROVE JournalFaithful'
  BY <1>7, TreeDeleteFaithful
<1>8. ASSUME NEW h \in Handlers, \/ AckStore(h) \/ TreeTombstone(h) \/ ShareStore(h) \/ Lose(h)
      PROVE JournalFaithful'
  BY <1>1, <1>8 DEF AckStore, TreeTombstone, ShareStore, Lose
<1>9. ASSUME NEW h \in Handlers, NEW d \in Devices,
             \/ \E k \in Keys : PushLookup(h, d, k)
             \/ \E n \in 0..MaxSeq : AckCheck(h, d, n)
             \/ \E c \in Collections : TreeList(h, d, c)
      PROVE JournalFaithful'
  BY <1>1, <1>9 DEF PushLookup, AckCheck, TreeList
<1>10. ASSUME NEW u \in Users, NEW c \in Collections,
              \/ \E h \in Handlers, n \in 1..2 : ShareCheck(h, u, c, n)
              \/ RemoveShare(u, c)
       PROVE JournalFaithful'
  BY <1>1, <1>10 DEF ShareCheck, RemoveShare
<1>11. ASSUME NEW d \in Devices, Revoke(d) PROVE JournalFaithful'
  BY <1>1, <1>11 DEF Revoke
<1>12. CASE UNCHANGED vars
  BY <1>1, <1>12 DEF vars
<1> QED
  BY <1>3, <1>4, <1>5, <1>6, <1>7, <1>8, <1>9, <1>10, <1>11, <1>12 DEF Next

\* The journal is always a faithful, gapless account of every object: its rows
\* are the object's revisions in order, it is created once, nothing follows its
\* deletion, and sequence numbers are never shared.
THEOREM JournalIsFaithful == Spec => []JournalFaithful
<1>1. Init => TypeOK /\ JournalFaithful
  BY InitType, InitFaithful
<1>2. TypeOK /\ JournalFaithful /\ [Next]_vars => (TypeOK /\ JournalFaithful)'
  BY TypeStep, FaithfulStep
<1> QED BY <1>1, <1>2, PTL DEF Spec

-----------------------------------------------------------------------------
(* Exactly once.                                                           *)

\* Every answer of a result list that claims a sequence number has its row.
Backed(journal, d, k, results) ==
  \A i \in DOMAIN results : results[i].seq # 0 =>
    \E j \in journal :
      /\ j.dev = d /\ j.key = k /\ j.seq = results[i].seq
      /\ j.obj = results[i].obj /\ j.rev = results[i].rev

\* Row j is one "ok" answer of a result list.
Answered(j, results) ==
  \E i \in DOMAIN results :
    results[i] = [obj |-> j.obj, status |-> "ok", rev |-> j.rev, seq |-> j.seq]

\* What the open transaction has written so far and what it will answer agree.
\* It is what makes ResultsMatchJournal inductive: the commit files exactly
\* these results with exactly these rows.
TransactionAccounts ==
  tx # Idle =>
    /\ db.journal \subseteq tx.db.journal
    /\ \A j \in tx.db.journal \ db.journal :
         j.dev = tx.dev /\ j.key = tx.key /\ Answered(j, tx.results)
    /\ Backed(tx.db.journal, tx.dev, tx.key, tx.results)

OnceInv == ResultsMatchJournal /\ TransactionAccounts

\* ResultsMatchJournal in terms of Answered and Backed.
LEMMA ResultsMatchJournalDef ==
  ResultsMatchJournal <=>
    /\ \A j \in db.journal : j.key # NoKey =>
         idem[j.dev][j.key] # NoResult /\ Answered(j, idem[j.dev][j.key])
    /\ \A d \in Devices, k \in Keys : idem[d][k] # NoResult =>
         Backed(db.journal, d, k, idem[d][k])
BY DEF ResultsMatchJournal, Answered, Backed

\* Appending an answer keeps the earlier ones; the list stays backed if the new
\* answer is.
LEMMA AppendAccounts ==
  ASSUME NEW results \in Seq(Result), NEW r \in Result, NEW journal, NEW more,
         journal \subseteq more, NEW d, NEW k,
         Backed(journal, d, k, results),
         r.seq # 0 => \E j \in more : /\ j.dev = d /\ j.key = k /\ j.seq = r.seq
                                      /\ j.obj = r.obj /\ j.rev = r.rev
  PROVE  /\ Backed(more, d, k, Append(results, r))
         /\ \A j : Answered(j, results) => Answered(j, Append(results, r))
<1> DEFINE longer == Append(results, r)
<1>1. /\ DOMAIN longer = 1..Len(results) + 1
      /\ DOMAIN results = 1..Len(results)
      /\ \A i \in 1..Len(results) : longer[i] = results[i]
      /\ longer[Len(results) + 1] = r
      /\ Len(results) \in Nat
  OBVIOUS
<1> HIDE DEF longer
<1>2. Backed(more, d, k, longer)
  <2> SUFFICES ASSUME NEW i \in DOMAIN longer, longer[i].seq # 0
               PROVE  \E j \in more : /\ j.dev = d /\ j.key = k /\ j.seq = longer[i].seq
                                      /\ j.obj = longer[i].obj /\ j.rev = longer[i].rev
    BY DEF Backed
  <2>1. CASE i \in 1..Len(results)
    BY <1>1, <2>1 DEF Backed
  <2>2. CASE i = Len(results) + 1
    BY <1>1, <2>2
  <2> QED BY <1>1, <2>1, <2>2
<1>3. ASSUME NEW j, Answered(j, results) PROVE Answered(j, longer)
  BY <1>1, <1>3 DEF Answered
<1> QED BY <1>2, <1>3 DEF longer

\* The last answer of a list is in the list.
LEMMA AppendAnswers ==
  ASSUME NEW results \in Seq(Result), NEW j,
         NEW r \in Result, r = [obj |-> j.obj, status |-> "ok", rev |-> j.rev, seq |-> j.seq]
  PROVE  Answered(j, Append(results, r))
<1>1. Len(results) + 1 \in DOMAIN Append(results, r)
  OBVIOUS
<1>2. Append(results, r)[Len(results) + 1] = r
  OBVIOUS
<1> QED BY <1>1, <1>2 DEF Answered

\* ResultsMatchJournal looks only at the committed journal and the results.
LEMMA CommittedOnly ==
  ASSUME ResultsMatchJournal, db'.journal = db.journal, idem' = idem
  PROVE  ResultsMatchJournal'
BY DEF ResultsMatchJournal

\* Applying an item preserves the accounts if the rows it adds are the ones its
\* answer claims.
LEMMA AnswerOnce ==
  ASSUME TypeOK, OnceInv, tx # Idle, NEW s \in Database,
         NEW it, it.obj \in Objects, NEW status \in {"ok", "conflict", "error"},
         NEW rev \in Nat, NEW seq \in Nat,
         Answer(s, it, status, rev, seq),
         tx.db.journal \subseteq s.journal,
         \A j \in s.journal \ tx.db.journal :
           /\ j.dev = tx.dev /\ j.key = tx.key
           /\ [obj |-> it.obj, status |-> status, rev |-> rev, seq |-> seq] =
                [obj |-> j.obj, status |-> "ok", rev |-> j.rev, seq |-> j.seq],
         seq # 0 => \E j \in s.journal : /\ j.dev = tx.dev /\ j.key = tx.key /\ j.seq = seq
                                         /\ j.obj = it.obj /\ j.rev = rev
  PROVE  OnceInv'
<1> DEFINE r == [obj |-> it.obj, status |-> status, rev |-> rev, seq |-> seq]
<1>1. r \in Result /\ r.seq = seq /\ r.obj = it.obj /\ r.rev = rev
  BY DEF Result
<1>2. \A j \in s.journal \ tx.db.journal :
        r = [obj |-> j.obj, status |-> "ok", rev |-> j.rev, seq |-> j.seq]
  OBVIOUS
<1>3. /\ tx' = [handler |-> tx.handler, dev |-> tx.dev, key |-> tx.key,
                db |-> s, results |-> Append(tx.results, r)]
      /\ db' = db /\ idem' = idem
  BY DEF Answer
<1> HIDE DEF r
<1>4. /\ tx'.db = s /\ tx'.dev = tx.dev /\ tx'.key = tx.key
      /\ tx'.results = Append(tx.results, r)
  BY <1>3
<1>5. tx.results \in Seq(Result)
  BY DEF TypeOK, Transaction
<1>6. ResultsMatchJournal'
  BY <1>3, CommittedOnly DEF OnceInv
<1>7. db.journal \subseteq s.journal
  BY DEF OnceInv, TransactionAccounts
<1>8. /\ Backed(s.journal, tx.dev, tx.key, Append(tx.results, r))
      /\ \A j : Answered(j, tx.results) => Answered(j, Append(tx.results, r))
  BY <1>1, <1>5, AppendAccounts DEF OnceInv, TransactionAccounts
<1>9. ASSUME NEW j \in s.journal \ db.journal
      PROVE  j.dev = tx.dev /\ j.key = tx.key /\ Answered(j, Append(tx.results, r))
  <2>1. CASE j \in tx.db.journal
    BY <1>8, <1>9, <2>1 DEF OnceInv, TransactionAccounts
  <2>2. CASE j \notin tx.db.journal
    BY <1>1, <1>2, <1>5, <1>9, <2>2, AppendAnswers
  <2> QED BY <2>1, <2>2
<1>10. TransactionAccounts'
  BY <1>3, <1>4, <1>7, <1>8, <1>9 DEF TransactionAccounts, Backed, Answered
<1> QED BY <1>6, <1>10 DEF OnceInv

LEMMA ApplyOnce ==
  ASSUME TypeOK, OnceInv, NEW it \in Item, ApplyOne(it)
  PROVE  OnceInv'
<1>1. tx # Idle /\ tx \in Transaction
  BY DEF TypeOK, ApplyOne, Refuse, Conflict, Create, Update, Delete, DeleteAgain, Applying
<1>2. tx.db \in Database /\ tx.dev \in Devices /\ tx.key \in Keys \cup {NoKey}
  BY <1>1 DEF Transaction
<1>3. /\ tx.db.objects \in [Objects -> Object \cup {NoObject}]
      /\ tx.db.lastSeq \in Nat
  BY <1>2 DEF Database
<1>4. /\ it.obj \in Objects /\ it.col \in Collections /\ it.content \in Contents
  BY DEF Item
<1>5. Exists(tx.db, it.obj) => tx.db.objects[it.obj].rev \in Nat
  BY <1>3, <1>4 DEF Exists, Object
<1>6. CASE Refuse(it)
  BY <1>1, <1>2, <1>4, <1>6, AnswerOnce DEF Refuse
<1>7. CASE Conflict(it)
  BY <1>1, <1>2, <1>4, <1>5, <1>7, AnswerOnce DEF Conflict, Conflicts
<1>8. CASE DeleteAgain(it)
  BY <1>1, <1>2, <1>4, <1>5, <1>8, AnswerOnce DEF DeleteAgain, AlreadyDeleted
<1>9. ASSUME NEW s \in Database, NEW rev \in Nat, NEW op, NEW content,
             s.journal = tx.db.journal \cup {Row(tx.db, it, op, rev, content, tx.dev, tx.key)},
             Answer(s, it, "ok", rev, tx.db.lastSeq + 1)
      PROVE  OnceInv'
  <2> DEFINE j == Row(tx.db, it, op, rev, content, tx.dev, tx.key)
  <2>1. /\ j.dev = tx.dev /\ j.key = tx.key /\ j.seq = tx.db.lastSeq + 1
        /\ j.obj = it.obj /\ j.rev = rev
    BY DEF Row
  <2>2. tx.db.lastSeq + 1 \in Nat
    BY <1>3
  <2>3. s.journal = tx.db.journal \cup {j}
    BY <1>9
  <2> HIDE DEF j
  <2> QED BY <1>1, <1>4, <1>9, <2>1, <2>2, <2>3, AnswerOnce
<1>10. CASE Create(it)
  <2>1. Created(tx.db, it, tx.dev, tx.key) \in Database
    BY <1>2, <1>4, WriteType
  <2>2. Created(tx.db, it, tx.dev, tx.key).journal =
          tx.db.journal \cup {Row(tx.db, it, "create", 1, it.content, tx.dev, tx.key)}
    BY DEF Created
  <2> QED BY <1>9, <1>10, <2>1, <2>2 DEF Create
<1>11. CASE Update(it)
  <2>1. Exists(tx.db, it.obj)
    BY <1>11 DEF Update, CanUpdate, Live
  <2>2. Updated(tx.db, it, tx.dev, tx.key) \in Database
    BY <1>2, <1>4, <2>1, WriteType
  <2>3. Updated(tx.db, it, tx.dev, tx.key).journal =
          tx.db.journal \cup {Row(tx.db, it, "update", tx.db.objects[it.obj].rev + 1,
                                  it.content, tx.dev, tx.key)}
    BY DEF Updated
  <2>4. tx.db.objects[it.obj].rev + 1 \in Nat
    BY <1>5, <2>1
  <2> QED BY <1>9, <1>11, <2>2, <2>3, <2>4 DEF Update
<1>12. CASE Delete(it)
  <2>1. Exists(tx.db, it.obj)
    BY <1>12 DEF Delete, CanDelete, Live
  <2>2. Deleted(tx.db, it, tx.dev, tx.key) \in Database
    BY <1>2, <1>4, <2>1, WriteType
  <2>3. Deleted(tx.db, it, tx.dev, tx.key).journal =
          tx.db.journal \cup {Row(tx.db, it, "delete", tx.db.objects[it.obj].rev + 1,
                                  tx.db.objects[it.obj].content, tx.dev, tx.key)}
    BY DEF Deleted
  <2>4. tx.db.objects[it.obj].rev + 1 \in Nat
    BY <1>5, <2>1
  <2> QED BY <1>9, <1>12, <2>2, <2>3, <2>4 DEF Delete
<1> QED BY <1>6, <1>7, <1>8, <1>10, <1>11, <1>12 DEF ApplyOne

\* The commit: no earlier row carries the key, because no result is stored
\* under it, so filing the results accounts for exactly the new rows.
LEMMA CommitOnce ==
  ASSUME TypeOK, OnceInv, TxCommit
  PROVE  OnceInv'
<1>1. /\ tx # Idle /\ tx' = Idle /\ db' = tx.db
      /\ idem[tx.dev][tx.key] = NoResult
      /\ idem' = [idem EXCEPT ![tx.dev][tx.key] = tx.results]
  BY DEF TxCommit
<1>2. tx \in Transaction /\ tx.dev \in Devices /\ tx.key \in Keys /\ tx.results \in Seq(Result)
  BY <1>1 DEF TypeOK, Transaction
<1>3. /\ idem \in [Devices -> [Keys -> Seq(Result) \cup {NoResult}]]
      /\ db.journal \subseteq JournalRow /\ tx.db.journal \subseteq JournalRow
  BY <1>2 DEF TypeOK, Database, Transaction
<1>4. /\ idem'[tx.dev][tx.key] = tx.results
      /\ \A d \in Devices, k \in Keys :
           d # tx.dev \/ k # tx.key => idem'[d][k] = idem[d][k]
  BY <1>1, <1>2, <1>3
<1>5. tx.results # NoResult
  BY <1>2, SentinelAssumption
<1>6. ASSUME NEW j \in tx.db.journal, j.key # NoKey
      PROVE  idem'[j.dev][j.key] # NoResult /\ Answered(j, idem'[j.dev][j.key])
  <2>1. j.dev \in Devices /\ j.key \in Keys
    BY <1>3, <1>6 DEF JournalRow
  <2>2. CASE j \in db.journal
    <3>1. idem[j.dev][j.key] # NoResult /\ Answered(j, idem[j.dev][j.key])
      BY <1>6, <2>2, ResultsMatchJournalDef DEF OnceInv
    <3>2. idem'[j.dev][j.key] = idem[j.dev][j.key]
      BY <1>1, <1>4, <2>1, <3>1
    <3> QED BY <3>1, <3>2
  <2>3. CASE j \notin db.journal
    <3>1. j.dev = tx.dev /\ j.key = tx.key /\ Answered(j, tx.results)
      BY <1>1, <1>6, <2>3 DEF OnceInv, TransactionAccounts
    <3> QED BY <1>4, <1>5, <3>1
  <2> QED BY <2>2, <2>3
<1>7. ASSUME NEW d \in Devices, NEW k \in Keys, idem'[d][k] # NoResult
      PROVE  Backed(tx.db.journal, d, k, idem'[d][k])
  <2>1. CASE d = tx.dev /\ k = tx.key
    BY <1>1, <1>4, <2>1 DEF OnceInv, TransactionAccounts
  <2>2. CASE d # tx.dev \/ k # tx.key
    <3>1. Backed(db.journal, d, k, idem[d][k])
      BY <1>4, <1>7, <2>2, ResultsMatchJournalDef DEF OnceInv
    <3>2. db.journal \subseteq tx.db.journal
      BY <1>1 DEF OnceInv, TransactionAccounts
    <3> QED BY <1>4, <2>2, <3>1, <3>2 DEF Backed
  <2> QED BY <2>1, <2>2
<1>8. ResultsMatchJournal'
  BY <1>1, <1>6, <1>7, SMTT(30) DEF ResultsMatchJournal, Answered, Backed
<1>9. TransactionAccounts'
  BY <1>1 DEF TransactionAccounts
<1> QED BY <1>8, <1>9 DEF OnceInv

\* Deletes of a collection deletion carry no client key, so no result accounts
\* for them, and they take no row away.
LEMMA TreeDeleteOnce ==
  ASSUME TypeOK, OnceInv, NEW h \in Handlers, NEW o \in Objects, NEW n \in 1..MaxSeq,
         TreeDelete(h, o, n)
  PROVE  OnceInv'
<1> DEFINE it == TreeItem(h, o, n)
           d == handler[h].dev
<1>1. tx = Idle /\ tx' = tx /\ idem' = idem
  BY DEF TreeDelete
<1>2. db' = IF CanDelete(db, it, d) THEN Deleted(db, it, d, NoKey) ELSE db
  BY DEF TreeDelete
<1> HIDE DEF it, d
<1>3. CASE ~CanDelete(db, it, d)
  BY <1>1, <1>2, <1>3, CommittedOnly DEF OnceInv, TransactionAccounts
<1>4. CASE CanDelete(db, it, d)
  <2>1. PICK r : r.key = NoKey /\ db'.journal = db.journal \cup {r}
    BY <1>2, <1>4 DEF Deleted, Row
  <2>2. ASSUME NEW j \in db'.journal, j.key # NoKey
        PROVE  idem[j.dev][j.key] # NoResult /\ Answered(j, idem[j.dev][j.key])
    BY <2>1, <2>2, ResultsMatchJournalDef DEF OnceInv
  <2>3. ASSUME NEW e \in Devices, NEW k \in Keys, idem[e][k] # NoResult
        PROVE  Backed(db'.journal, e, k, idem[e][k])
    <3>1. Backed(db.journal, e, k, idem[e][k])
      BY <2>3, ResultsMatchJournalDef DEF OnceInv
    <3> QED BY <2>1, <3>1 DEF Backed
  <2>4. ResultsMatchJournal'
    BY <1>1, <2>2, <2>3 DEF ResultsMatchJournal, Answered, Backed
  <2> QED BY <1>1, <2>4 DEF OnceInv, TransactionAccounts
<1> QED BY <1>3, <1>4

LEMMA OnceStep == TypeOK /\ OnceInv /\ [Next]_vars => OnceInv'
<1> SUFFICES ASSUME TypeOK, OnceInv, [Next]_vars PROVE OnceInv'
  OBVIOUS
<1>1. ASSUME db' = db, idem' = idem, tx' = tx \/ tx' = Idle PROVE OnceInv'
  BY <1>1, CommittedOnly DEF OnceInv, TransactionAccounts, Backed, Answered
<1>2. ASSUME NEW h \in Handlers, TxBegin(h) PROVE OnceInv'
  <2>1. /\ db' = db /\ idem' = idem
        /\ tx'.db = db /\ tx'.results = <<>>
    BY <1>2 DEF TxBegin
  <2> QED BY <2>1, CommittedOnly DEF OnceInv, TransactionAccounts, Backed
<1>3. ASSUME NEW it \in [op : Ops, obj : Objects, col : Collections, base : 0..MaxSeq,
                         force : BOOLEAN, content : Contents], ApplyOne(it)
      PROVE OnceInv'
  <2>1. it \in Item
    BY DEF Item
  <2> QED BY <1>3, <2>1, ApplyOnce
<1>4. CASE TxCommit
  BY <1>4, CommitOnce
<1>5. CASE TxDuplicate \/ TxRollback
  BY <1>1, <1>5 DEF TxDuplicate, TxRollback
<1>6. ASSUME NEW h \in Handlers, NEW o \in Objects, NEW n \in 1..MaxSeq, TreeDelete(h, o, n)
      PROVE OnceInv'
  BY <1>6, TreeDeleteOnce
<1>7. ASSUME NEW h \in Handlers, \/ AckStore(h) \/ TreeTombstone(h) \/ ShareStore(h) \/ Lose(h)
      PROVE OnceInv'
  BY <1>1, <1>7 DEF AckStore, TreeTombstone, ShareStore, Lose
<1>8. ASSUME NEW h \in Handlers, NEW d \in Devices,
             \/ \E k \in Keys : PushLookup(h, d, k)
             \/ \E n \in 0..MaxSeq : AckCheck(h, d, n)
             \/ \E c \in Collections : TreeList(h, d, c)
      PROVE OnceInv'
  BY <1>1, <1>8 DEF PushLookup, AckCheck, TreeList
<1>9. ASSUME NEW u \in Users, NEW c \in Collections,
             \/ \E h \in Handlers, n \in 1..2 : ShareCheck(h, u, c, n)
             \/ RemoveShare(u, c)
      PROVE OnceInv'
  BY <1>1, <1>9 DEF ShareCheck, RemoveShare
<1>10. ASSUME NEW d \in Devices, Revoke(d) PROVE OnceInv'
  BY <1>1, <1>10 DEF Revoke
<1>11. CASE UNCHANGED vars
  BY <1>1, <1>11 DEF vars
<1> QED
  BY <1>2, <1>3, <1>4, <1>5, <1>6, <1>7, <1>8, <1>9, <1>10, <1>11 DEF Next

\* Every keyed push takes effect exactly once: its committed journal rows and
\* the result stored under its key account for each other, whatever requests
\* raced, rolled back or were retried.
THEOREM PushesTakeEffectOnce == Spec => []ResultsMatchJournal
<1>1. Init => TypeOK /\ OnceInv
  <2>1. Init => OnceInv
    BY DEF Init, OnceInv, ResultsMatchJournal, TransactionAccounts
  <2> QED BY <2>1, InitType
<1>2. TypeOK /\ OnceInv /\ [Next]_vars => (TypeOK /\ OnceInv)'
  BY TypeStep, OnceStep
<1>3. OnceInv => ResultsMatchJournal
  BY DEF OnceInv
<1> QED BY <1>1, <1>2, <1>3, PTL DEF Spec

\* No acknowledged cursor ever moves back.
THEOREM CursorsNeverRetreat == Spec => CursorsAdvance
<1>1. TypeOK /\ [Next]_vars => [\A d \in Devices : cursors'[d] >= cursors[d]]_cursors
  <2> SUFFICES ASSUME TypeOK, [Next]_vars, cursors' # cursors
               PROVE  \A d \in Devices : cursors'[d] >= cursors[d]
    OBVIOUS
  <2>1. PICK h \in Handlers : AckStore(h)
    BY DEF Next, vars, PushLookup, TxBegin, TreeTombstone, ShareStore, Lose, ApplyOne, Refuse,
           Conflict, Create, Update, Delete, DeleteAgain, Answer, TxCommit, TxDuplicate,
           TxRollback, AckCheck, TreeList, TreeDelete, ShareCheck, RemoveShare, Revoke
  <2>2. handler[h] \in AckRequest
    BY <2>1, RequestKinds DEF AckStore
  <2> QED BY <2>1, <2>2 DEF AckStore, AckRequest, TypeOK
<1> QED BY <1>1, TypeCorrect, PTL DEF Spec, CursorsAdvance

-----------------------------------------------------------------------------
(* What a transaction, and so a commit, does to the objects.               *)

\* The rows of object o that database t has beyond database s, by revision.
Beyond(s, t, o) == {j.rev : j \in {r \in t.journal \ s.journal : r.obj = o}}

\* From database s to database t object o goes from revision to revision, each
\* journaled, under one owner, and not at all from a tombstone.
Moves(s, t, o) ==
  /\ Beyond(s, t, o) = RevOf(s, o) + 1 .. RevOf(t, o)
  /\ RevOf(t, o) >= RevOf(s, o)
  /\ Exists(s, o) => Exists(t, o) /\ OwnerOf[t.objects[o].col] = OwnerOf[s.objects[o].col]
  /\ RevOf(t, o) = RevOf(s, o) \/ (Exists(s, o) /\ s.objects[o].deleted) =>
       t.objects[o] = s.objects[o]

\* Device d may write the row j as long as the rows are those of s: to the
\* collection it lands in, and to the one the object was in.
MayCommit(s, d, j) ==
  /\ MayTarget(d, j.col)
  /\ Exists(s, j.obj) => MayWrite(d, s.objects[j.obj].col)

\* The history holds every content that was ever written.
Complete(s) ==
  s.history = {[obj |-> j.obj, rev |-> j.rev, content |-> j.content] :
                 j \in {r \in s.journal : r.op # "delete"}}

\* The open transaction goes on from the committed rows, with rights that no one
\* takes away meanwhile, and answers what it does.
TxMoves ==
  /\ Complete(db)
  /\ tx # Idle =>
       /\ Complete(tx.db)
       /\ db.journal \subseteq tx.db.journal
       /\ \A j \in tx.db.journal \ db.journal : j.dev = tx.dev /\ MayCommit(db, tx.dev, j)
       /\ \A o \in Objects :
            /\ Moves(db, tx.db, o)
            /\ Service!Made(tx.results, o) = RevOf(db, o) + 1 .. RevOf(tx.db, o)

\* The revision of an object is a number, and 0 only where there is none.
LEMMA RevType ==
  ASSUME NEW s \in Database, NEW o \in Objects
  PROVE  /\ RevOf(s, o) \in Nat
         /\ RevOf(s, o) = 0 <=> s.objects[o] = NoObject
         /\ Exists(s, o) => s.objects[o] \in Object /\ s.objects[o].rev = RevOf(s, o)
<1>1. s.objects[o] \in Object \cup {NoObject}
  BY DEF Database
<1> QED BY <1>1 DEF RevOf, Exists, Object

\* Nothing happened yet.
LEMMA MovesNot ==
  ASSUME NEW s \in Database, NEW o \in Objects
  PROVE  Moves(s, s, o)
<1>1. Beyond(s, s, o) = {}
  BY DEF Beyond
<1>2. RevOf(s, o) + 1 .. RevOf(s, o) = {} /\ RevOf(s, o) \in Nat
  BY RevType
<1> QED BY <1>1, <1>2 DEF Moves

\* One more revision of one object, journaled under the next sequence number.
LEMMA NextRevisionMoves ==
  ASSUME NEW s \in Database, NEW t \in Database, NEW u \in Database, NEW o \in Objects,
         Moves(s, t, o), SeqsUnique(t), s.journal \subseteq t.journal,
         NEW new \in Object, NEW r \in JournalRow,
         t.objects[r.obj] = NoObject \/ ~t.objects[r.obj].deleted,
         t.objects[r.obj] # NoObject => OwnerOf[new.col] = OwnerOf[t.objects[r.obj].col],
         new.rev = RevOf(t, r.obj) + 1, r.rev = new.rev,
         u.objects = [t.objects EXCEPT ![r.obj] = new],
         u.journal = t.journal \cup {r},
         r.seq = t.lastSeq + 1
  PROVE  Moves(s, u, o)
<1>1. r.obj \in Objects /\ new # NoObject /\ new.rev \in Nat
  BY SentinelAssumption DEF JournalRow, Object
<1>2. t.objects \in [Objects -> Object \cup {NoObject}] /\ t.lastSeq \in Nat
      /\ t.journal \subseteq JournalRow
  BY DEF Database
<1>3. r \notin t.journal /\ r \notin s.journal
  BY <1>2 DEF SeqsUnique
<1>4. RevOf(s, o) \in Nat /\ RevOf(t, o) \in Nat
  BY RevType
<1>5. CASE o # r.obj
  <2>1. u.objects[o] = t.objects[o]
    BY <1>2, <1>5
  <2>2. RevOf(u, o) = RevOf(t, o) /\ (Exists(u, o) <=> Exists(t, o))
    BY <2>1 DEF RevOf, Exists
  <2>3. Beyond(s, u, o) = Beyond(s, t, o)
    BY <1>5 DEF Beyond
  <2> QED BY <2>1, <2>2, <2>3 DEF Moves
<1>6. CASE o = r.obj
  <2>1. u.objects[o] = new
    BY <1>1, <1>2, <1>6
  <2>2. RevOf(u, o) = RevOf(t, o) + 1 /\ Exists(u, o)
    BY <1>1, <1>6, <2>1 DEF RevOf, Exists
  <2>3. Beyond(s, u, o) = Beyond(s, t, o) \cup {r.rev}
    BY <1>3, <1>6 DEF Beyond
  <2>4. Beyond(s, u, o) = RevOf(s, o) + 1 .. RevOf(u, o)
    BY <1>4, <1>6, <2>2, <2>3 DEF Moves
  <2>5. Exists(s, o) => OwnerOf[u.objects[o].col] = OwnerOf[s.objects[o].col]
    BY <1>6, <2>1 DEF Moves, Exists
  <2>6. ~(Exists(s, o) /\ s.objects[o].deleted)
    BY <1>6 DEF Moves, Exists
  <2> QED BY <1>4, <2>2, <2>4, <2>5, <2>6 DEF Moves
<1> QED BY <1>5, <1>6

\* The shape of the three writes of applyOne.
WritesRow(t, u, it, d, k, new, r) ==
  /\ r.obj = it.obj /\ r.col = it.col /\ r.dev = d /\ r.key = k
  /\ r.rev = new.rev /\ r.seq = t.lastSeq + 1
  /\ new.rev = RevOf(t, it.obj) + 1
  /\ t.objects[it.obj] # NoObject => OwnerOf[new.col] = OwnerOf[t.objects[it.obj].col]
  /\ u.objects = [t.objects EXCEPT ![it.obj] = new]
  /\ u.journal = t.journal \cup {r}
  /\ u.history = IF r.op = "delete" THEN t.history
                 ELSE t.history \cup {[obj |-> r.obj, rev |-> r.rev, content |-> r.content]}

Writes(t, u, it, d, k) ==
  \E new \in Object, r \in JournalRow : WritesRow(t, u, it, d, k, new, r)

\* Created, Updated and Deleted have this shape.
LEMMA WritesShape ==
  ASSUME NEW t \in Database, NEW it, it.obj \in Objects, it.col \in Collections,
         NEW d \in Devices, NEW k \in Keys \cup {NoKey}
  PROVE  /\ it.content \in Contents /\ ~Exists(t, it.obj) =>
              Writes(t, Created(t, it, d, k), it, d, k)
         /\ it.content \in Contents /\ CanUpdate(t, it, d) =>
              Writes(t, Updated(t, it, d, k), it, d, k)
         /\ CanDelete(t, it, d) => Writes(t, Deleted(t, it, d, k), it, d, k)
<1>0. t.lastSeq \in Nat /\ t.objects[it.obj] \in Object \cup {NoObject}
  BY DEF Database
<1>1. ASSUME it.content \in Contents, ~Exists(t, it.obj)
      PROVE  Writes(t, Created(t, it, d, k), it, d, k)
  <2> DEFINE r == Row(t, it, "create", 1, it.content, d, k)
             new == [col |-> it.col, rev |-> 1, content |-> it.content, deleted |-> FALSE]
  <2>1. r \in JournalRow
    BY <1>0, <1>1 DEF Row, JournalRow, Ops
  <2>2. /\ r.obj = it.obj /\ r.col = it.col /\ r.dev = d /\ r.key = k /\ r.op = "create"
        /\ r.rev = 1 /\ r.seq = t.lastSeq + 1 /\ r.content = it.content
    BY DEF Row
  <2>3. new \in Object /\ new.rev = 1 /\ RevOf(t, it.obj) = 0
    BY <1>1 DEF Object, RevOf
  <2>4. /\ Created(t, it, d, k).objects = [t.objects EXCEPT ![it.obj] = new]
        /\ Created(t, it, d, k).journal = t.journal \cup {r}
        /\ Created(t, it, d, k).history =
             t.history \cup {[obj |-> r.obj, rev |-> r.rev, content |-> r.content]}
    BY <2>2 DEF Created
  <2> HIDE DEF r, new
  <2>5. WritesRow(t, Created(t, it, d, k), it, d, k, new, r)
    BY <1>1, <2>2, <2>3, <2>4 DEF WritesRow, Exists
  <2> QED BY <2>1, <2>3, <2>5 DEF Writes
<1>2. ASSUME it.content \in Contents, CanUpdate(t, it, d)
      PROVE  Writes(t, Updated(t, it, d, k), it, d, k)
  <2> DEFINE n == t.objects[it.obj].rev + 1
             r == Row(t, it, "update", n, it.content, d, k)
             new == [col |-> it.col, rev |-> n, content |-> it.content, deleted |-> FALSE]
  <2>1. Exists(t, it.obj) /\ n \in Nat \ {0} /\ n = RevOf(t, it.obj) + 1
    BY <1>0, <1>2 DEF CanUpdate, Live, Exists, Object, RevOf
  <2>2. OwnerOf[it.col] = OwnerOf[t.objects[it.obj].col]
    BY <1>2, <2>1 DEF CanUpdate, Admitted, MayTakeFrom
  <2>3. /\ Updated(t, it, d, k).objects = [t.objects EXCEPT ![it.obj] = new]
        /\ Updated(t, it, d, k).journal = t.journal \cup {r}
        /\ Updated(t, it, d, k).history =
             t.history \cup {[obj |-> it.obj, rev |-> n, content |-> it.content]}
    BY DEF Updated
  <2> HIDE DEF n
  <2>4. r \in JournalRow /\ new \in Object
    BY <1>0, <1>2, <2>1 DEF Row, JournalRow, Ops, Object
  <2>5. /\ r.obj = it.obj /\ r.col = it.col /\ r.dev = d /\ r.key = k /\ r.op = "update"
        /\ r.rev = n /\ r.seq = t.lastSeq + 1 /\ r.content = it.content
        /\ new.rev = n /\ new.col = it.col
    BY DEF Row
  <2> HIDE DEF r, new
  <2>6. WritesRow(t, Updated(t, it, d, k), it, d, k, new, r)
    BY <2>1, <2>2, <2>3, <2>5 DEF WritesRow
  <2> QED BY <2>4, <2>6 DEF Writes
<1>3. ASSUME CanDelete(t, it, d) PROVE Writes(t, Deleted(t, it, d, k), it, d, k)
  <2> DEFINE old == t.objects[it.obj]
             n == old.rev + 1
             r == Row(t, it, "delete", n, old.content, d, k)
             new == [col |-> old.col, rev |-> n, content |-> old.content, deleted |-> TRUE]
  <2>1. Exists(t, it.obj) /\ old \in Object /\ n \in Nat \ {0} /\ n = RevOf(t, it.obj) + 1
    BY <1>0, <1>3 DEF CanDelete, Live, Exists, Object, RevOf
  <2>3. /\ Deleted(t, it, d, k).objects = [t.objects EXCEPT ![it.obj] = new]
        /\ Deleted(t, it, d, k).journal = t.journal \cup {r}
        /\ Deleted(t, it, d, k).history = t.history
    BY DEF Deleted
  <2> HIDE DEF n
  <2>4. r \in JournalRow /\ new \in Object
    BY <1>0, <2>1 DEF Row, JournalRow, Ops, Object
  <2>5. /\ r.obj = it.obj /\ r.col = it.col /\ r.dev = d /\ r.key = k /\ r.op = "delete"
        /\ r.rev = n /\ r.seq = t.lastSeq + 1 /\ new.rev = n /\ new.col = old.col
    BY DEF Row
  <2> HIDE DEF r, new
  <2>6. WritesRow(t, Deleted(t, it, d, k), it, d, k, new, r)
    BY <2>1, <2>3, <2>5 DEF WritesRow
  <2> QED BY <2>4, <2>6 DEF Writes
<1> QED BY <1>1, <1>2, <1>3

\* What a list of answers claims to have made, when one more is appended.
LEMMA MadeAppend ==
  ASSUME NEW results \in Seq(Result), NEW r \in Result, NEW o
  PROVE  Service!Made(Append(results, r), o) =
           IF r.obj = o /\ r.seq # 0 THEN Service!Made(results, o) \cup {r.rev}
           ELSE Service!Made(results, o)
<1> DEFINE longer == Append(results, r)
<1>1. /\ DOMAIN longer = 1..Len(results) + 1
      /\ DOMAIN results = 1..Len(results)
      /\ \A i \in 1..Len(results) : longer[i] = results[i]
      /\ longer[Len(results) + 1] = r
      /\ Len(results) \in Nat
  OBVIOUS
<1> HIDE DEF longer
<1>2. DOMAIN longer = DOMAIN results \cup {Len(results) + 1} /\ Len(results) + 1 \notin DOMAIN results
  BY <1>1
<1>3. {longer[i].rev : i \in {n \in DOMAIN longer : longer[n].obj = o /\ longer[n].seq # 0}} =
        {results[i].rev : i \in {n \in DOMAIN results : results[n].obj = o /\ results[n].seq # 0}}
          \cup (IF r.obj = o /\ r.seq # 0 THEN {r.rev} ELSE {})
  BY <1>1, <1>2
<1> QED BY <1>3 DEF Service!Made, longer

\* Applying an item leaves the working copy as it is, or moves one object.
LEMMA AnswerMoves ==
  ASSUME TypeOK, JournalFaithful, TxMoves, tx # Idle,
         NEW it, it.obj \in Objects, it.col \in Collections, NEW u \in Database,
         NEW status \in {"ok", "conflict", "error"}, NEW rev \in Nat, NEW seq \in Nat,
         Answer(u, it, status, rev, seq),
         \/ u = tx.db /\ seq = 0
         \/ /\ Writes(tx.db, u, it, tx.dev, tx.key)
            /\ Admitted(tx.db, it, tx.dev) /\ (Exists(tx.db, it.obj) => it.op # "create")
            /\ ~Exists(tx.db, it.obj) \/ Live(tx.db, it.obj)
            /\ rev = RevOf(tx.db, it.obj) + 1 /\ seq # 0
  PROVE  TxMoves'
<1> DEFINE t == tx.db
           d == tx.dev
           result == [obj |-> it.obj, status |-> status, rev |-> rev, seq |-> seq]
<1>1. /\ t \in Database /\ d \in Devices /\ tx.results \in Seq(Result) /\ db \in Database
      /\ tx.key \in Keys
  BY DEF TypeOK, Transaction
<1>2. result \in Result /\ result.obj = it.obj /\ result.seq = seq /\ result.rev = rev
  BY DEF Result
<1>3. /\ tx'.db = u /\ tx'.dev = d /\ tx'.results = Append(tx.results, result)
      /\ db' = db /\ collections' = collections /\ shares' = shares
  BY DEF Answer
<1> HIDE DEF result
<1>4. \A j : MayCommit(db, d, j)' <=> MayCommit(db, d, j)
  BY <1>3 DEF MayCommit, MayTarget, MayWrite, Access, MirrorReadOnly, Exists
<1>5. \A o \in Objects : Service!Made(tx'.results, o) =
        IF it.obj = o /\ seq # 0 THEN Service!Made(tx.results, o) \cup {rev}
        ELSE Service!Made(tx.results, o)
  BY <1>1, <1>2, <1>3, MadeAppend
<1>6. ASSUME /\ Complete(u) /\ db.journal \subseteq u.journal
             /\ \A j \in u.journal \ db.journal : j.dev = d /\ MayCommit(db, d, j)
             /\ \A o \in Objects : /\ Moves(db, u, o)
                                   /\ Service!Made(tx'.results, o) = RevOf(db, o) + 1 .. RevOf(u, o)
      PROVE  TxMoves'
  <2>1. Complete(db)'
    BY <1>3 DEF Complete, TxMoves
  <2>2. Complete(tx.db)' /\ (db.journal \subseteq tx.db.journal)'
    BY <1>3, <1>6 DEF Complete
  <2>3. \A j \in (tx.db.journal \ db.journal)' : j.dev = tx'.dev /\ MayCommit(db, tx.dev, j)'
    BY <1>3, <1>4, <1>6
  <2>4. \A o \in Objects : /\ Moves(db, tx.db, o)'
                           /\ Service!Made(tx'.results, o) = RevOf(db, o)' + 1 .. RevOf(tx.db, o)'
    BY <1>3, <1>6 DEF Moves, Beyond, RevOf, Exists
  <2> QED BY <2>1, <2>2, <2>3, <2>4 DEF TxMoves
<1>7. CASE u = t /\ seq = 0
  BY <1>5, <1>6, <1>7 DEF TxMoves
<1>8. CASE /\ Writes(t, u, it, d, tx.key)
           /\ Admitted(t, it, d) /\ (Exists(t, it.obj) => it.op # "create")
           /\ ~Exists(t, it.obj) \/ Live(t, it.obj)
           /\ rev = RevOf(t, it.obj) + 1 /\ seq # 0
  <2>1. PICK new \in Object, r \in JournalRow : WritesRow(t, u, it, d, tx.key, new, r)
    BY <1>8 DEF Writes
  <2>2. /\ r.obj = it.obj /\ r.col = it.col /\ r.dev = d /\ r.rev = new.rev
        /\ r.seq = t.lastSeq + 1 /\ new.rev = RevOf(t, it.obj) + 1 /\ u.journal = t.journal \cup {r}
        /\ u.objects = [t.objects EXCEPT ![it.obj] = new]
        /\ t.objects[it.obj] # NoObject => OwnerOf[new.col] = OwnerOf[t.objects[it.obj].col]
        /\ u.history = IF r.op = "delete" THEN t.history
                       ELSE t.history \cup {[obj |-> r.obj, rev |-> r.rev, content |-> r.content]}
    BY <2>1 DEF WritesRow
  <2>3. t.objects[it.obj] = NoObject \/ ~t.objects[it.obj].deleted
    BY <1>8 DEF Exists, Live
  <2>4. SeqsUnique(t) /\ db.journal \subseteq t.journal
    BY DEF JournalFaithful, TxMoves
  <2>5. \A o \in Objects : Moves(db, u, o)
    BY <1>1, <2>2, <2>3, <2>4, NextRevisionMoves, SMTT(30) DEF TxMoves
  <2>6. Complete(u)
    BY <2>2 DEF TxMoves, Complete
  <2>7. MayCommit(db, d, r)
    <3>1. MayTarget(d, r.col)
      BY <1>8, <2>2 DEF Admitted
    <3>2. ASSUME Exists(db, it.obj) PROVE MayWrite(d, db.objects[it.obj].col)
      <4>0. Moves(db, t, it.obj)
        BY DEF TxMoves
      <4>1. CASE RevOf(t, it.obj) = RevOf(db, it.obj)
        <5>1. t.objects[it.obj] = db.objects[it.obj] /\ Exists(t, it.obj)
          BY <3>2, <4>0, <4>1 DEF Moves
        <5>2. MayTakeFrom(d, db.objects[it.obj].col, it.col)
          BY <1>8, <5>1 DEF Admitted
        <5> QED BY <3>1, <5>2, <2>2 DEF MayTakeFrom, MayTarget
      <4>2. CASE RevOf(t, it.obj) # RevOf(db, it.obj)
        <5>1. RevOf(t, it.obj) \in RevOf(db, it.obj) + 1 .. RevOf(t, it.obj)
          BY <1>1, <4>0, <4>2, RevType DEF Moves
        <5>2. PICK j \in t.journal \ db.journal : j.obj = it.obj
          BY <4>0, <5>1 DEF Moves, Beyond
        <5> QED BY <3>2, <5>2 DEF TxMoves, MayCommit
      <4> QED BY <4>1, <4>2
    <3> QED BY <2>2, <3>1, <3>2 DEF MayCommit
  <2>8. \A j \in u.journal \ db.journal : j.dev = d /\ MayCommit(db, d, j)
    BY <2>2, <2>7 DEF TxMoves
  <2>9. ASSUME NEW o \in Objects
        PROVE  Service!Made(tx'.results, o) = RevOf(db, o) + 1 .. RevOf(u, o)
    <3>1. RevOf(u, o) = IF o = it.obj THEN RevOf(t, o) + 1 ELSE RevOf(t, o)
      BY <1>1, <2>2, SentinelAssumption, SMTT(30) DEF RevOf, Exists, Database
    <3>2. Service!Made(tx.results, o) = RevOf(db, o) + 1 .. RevOf(t, o) /\ RevOf(t, o) >= RevOf(db, o)
      BY DEF TxMoves, Moves
    <3>3. RevOf(db, o) \in Nat /\ RevOf(t, o) \in Nat
      BY <1>1, RevType
    <3>4. CASE o = it.obj
      <4>1. Service!Made(tx'.results, o) = (RevOf(db, o) + 1 .. RevOf(t, o)) \cup {RevOf(t, o) + 1}
        BY <1>5, <1>8, <3>2, <3>4
      <4>2. \A a, n \in Nat : n >= a => (a + 1 .. n) \cup {n + 1} = a + 1 .. n + 1
        OBVIOUS
      <4> QED BY <3>1, <3>2, <3>3, <3>4, <4>1, <4>2
    <3>5. CASE o # it.obj
      BY <1>5, <3>1, <3>2, <3>5
    <3> QED BY <3>4, <3>5
  <2> QED BY <1>6, <2>2, <2>4, <2>5, <2>6, <2>8, <2>9
<1> QED BY <1>7, <1>8

\* So whatever item is applied, the working copy stays one that moves on.
LEMMA ApplyMoves ==
  ASSUME TypeOK, JournalFaithful, TxMoves, NEW it \in Item, ApplyOne(it)
  PROVE  TxMoves'
<1>1. tx # Idle /\ tx \in Transaction
  BY DEF TypeOK, ApplyOne, Refuse, Conflict, Create, Update, Delete, DeleteAgain, Applying
<1>2. tx.db \in Database /\ tx.dev \in Devices /\ tx.key \in Keys \cup {NoKey}
  BY <1>1 DEF Transaction
<1>3. tx.db.lastSeq \in Nat /\ tx.db.objects[it.obj] \in Object \cup {NoObject}
  BY <1>2 DEF Database, Item
<1>4. it.obj \in Objects /\ it.col \in Collections /\ it.content \in Contents
  BY DEF Item
<1>5. Exists(tx.db, it.obj) =>
        tx.db.objects[it.obj].rev \in Nat /\ RevOf(tx.db, it.obj) = tx.db.objects[it.obj].rev
  BY <1>3 DEF Exists, Object, RevOf
<1>6. CASE Refuse(it)
  BY <1>1, <1>2, <1>4, <1>6, AnswerMoves DEF Refuse
<1>7. CASE Conflict(it)
  <2>1. Exists(tx.db, it.obj)
    BY <1>7 DEF Conflict, Conflicts
  <2> QED BY <1>1, <1>2, <1>4, <1>5, <1>7, <2>1, AnswerMoves DEF Conflict
<1>8. CASE Create(it)
  <2> DEFINE u == Created(tx.db, it, tx.dev, tx.key)
  <2>1. ~Exists(tx.db, it.obj) /\ Admitted(tx.db, it, tx.dev) /\ RevOf(tx.db, it.obj) = 0
    BY <1>8 DEF Create, CanCreate, RevOf
  <2>2. u \in Database /\ Writes(tx.db, u, it, tx.dev, tx.key)
    BY <1>2, <1>4, <2>1, WriteType, WritesShape
  <2>3. Answer(u, it, "ok", 1, tx.db.lastSeq + 1)
    BY <1>8 DEF Create
  <2> HIDE DEF u
  <2>4. tx.db.lastSeq + 1 \in Nat /\ tx.db.lastSeq + 1 # 0
    BY <1>3
  <2> QED BY <1>1, <1>4, <2>1, <2>2, <2>3, <2>4, AnswerMoves
<1>9. CASE Update(it)
  <2> DEFINE u == Updated(tx.db, it, tx.dev, tx.key)
             n == tx.db.objects[it.obj].rev + 1
  <2>1. /\ Live(tx.db, it.obj) /\ Exists(tx.db, it.obj) /\ CanUpdate(tx.db, it, tx.dev)
        /\ Admitted(tx.db, it, tx.dev) /\ it.op # "create"
    BY <1>9 DEF Update, CanUpdate, Live
  <2>2. u \in Database /\ Writes(tx.db, u, it, tx.dev, tx.key)
    BY <1>2, <1>4, <2>1, WriteType, WritesShape
  <2>3. Answer(u, it, "ok", n, tx.db.lastSeq + 1)
    BY <1>9 DEF Update
  <2>4. tx.db.lastSeq + 1 \in Nat /\ tx.db.lastSeq + 1 # 0
    BY <1>3
  <2>5. n \in Nat /\ n = RevOf(tx.db, it.obj) + 1
    BY <1>5, <2>1
  <2> HIDE DEF u, n
  <2> QED BY <1>1, <1>4, <2>1, <2>2, <2>3, <2>4, <2>5, AnswerMoves
<1>10. CASE Delete(it)
  <2> DEFINE u == Deleted(tx.db, it, tx.dev, tx.key)
             n == tx.db.objects[it.obj].rev + 1
  <2>1. /\ Live(tx.db, it.obj) /\ Exists(tx.db, it.obj) /\ CanDelete(tx.db, it, tx.dev)
        /\ Admitted(tx.db, it, tx.dev) /\ it.op # "create"
    BY <1>10 DEF Delete, CanDelete, Live
  <2>2. u \in Database /\ Writes(tx.db, u, it, tx.dev, tx.key)
    BY <1>2, <1>4, <2>1, WriteType, WritesShape
  <2>3. Answer(u, it, "ok", n, tx.db.lastSeq + 1)
    BY <1>10 DEF Delete
  <2>4. tx.db.lastSeq + 1 \in Nat /\ tx.db.lastSeq + 1 # 0
    BY <1>3
  <2>5. n \in Nat /\ n = RevOf(tx.db, it.obj) + 1
    BY <1>5, <2>1
  <2> HIDE DEF u, n
  <2> QED BY <1>1, <1>4, <2>1, <2>2, <2>3, <2>4, <2>5, AnswerMoves
<1>11. CASE DeleteAgain(it)
  <2>1. Exists(tx.db, it.obj)
    BY <1>11 DEF DeleteAgain, AlreadyDeleted
  <2> QED BY <1>1, <1>2, <1>4, <1>5, <1>11, <2>1, AnswerMoves DEF DeleteAgain
<1> QED BY <1>6, <1>7, <1>8, <1>9, <1>10, <1>11 DEF ApplyOne

\* A deletion by the tree handler writes the row of one object, or nothing.
LEMMA TreeDeleteWrites ==
  ASSUME TypeOK, NEW h \in Handlers, NEW o \in Objects, NEW n, TreeDelete(h, o, n)
  PROVE  \/ db' = db
         \/ /\ Writes(db, db', TreeItem(h, o, n), handler[h].dev, NoKey)
            /\ Deleted(db, TreeItem(h, o, n), handler[h].dev, NoKey) = db'
            /\ CanDelete(db, TreeItem(h, o, n), handler[h].dev)
            /\ db' \in Database
<1> DEFINE it == TreeItem(h, o, n)
           d == handler[h].dev
<1>1. handler[h] \in TreeRequest
  BY RequestKinds DEF TreeDelete
<1>2. it.obj \in Objects /\ it.col \in Collections /\ d \in Devices
  BY <1>1 DEF TreeItem, TreeRequest
<1>3. db' = IF CanDelete(db, it, d) THEN Deleted(db, it, d, NoKey) ELSE db
  BY DEF TreeDelete
<1>4. CanDelete(db, it, d) => Exists(db, it.obj)
  BY DEF CanDelete, Live
<1>5. db \in Database
  BY DEF TypeOK
<1> HIDE DEF it, d
<1>6. CanDelete(db, it, d) =>
        Writes(db, Deleted(db, it, d, NoKey), it, d, NoKey) /\ Deleted(db, it, d, NoKey) \in Database
  BY <1>2, <1>4, <1>5, WritesShape, WriteType
<1> QED BY <1>3, <1>6 DEF it, d

\* A write keeps the history complete.
LEMMA WritesComplete ==
  ASSUME NEW t, NEW u, NEW it, NEW d, NEW k, Writes(t, u, it, d, k), Complete(t)
  PROVE  Complete(u)
<1>1. PICK new \in Object, r \in JournalRow : WritesRow(t, u, it, d, k, new, r)
  BY DEF Writes
<1>2. /\ u.journal = t.journal \cup {r}
      /\ u.history = IF r.op = "delete" THEN t.history
                     ELSE t.history \cup {[obj |-> r.obj, rev |-> r.rev, content |-> r.content]}
  BY <1>1 DEF WritesRow
<1> QED BY <1>2 DEF Complete

\* The conditions of TxMoves hold of the empty engine, and every step keeps them.
LEMMA InitMoves == Init => TxMoves
  BY DEF Init, TxMoves, Complete

LEMMA MovesStep == TypeOK /\ JournalFaithful /\ TxMoves /\ [Next]_vars => TxMoves'
<1> SUFFICES ASSUME TypeOK, JournalFaithful, TxMoves, [Next]_vars PROVE TxMoves'
  OBVIOUS
<1>1. ASSUME NEW it \in [op : Ops, obj : Objects, col : Collections, base : 0..MaxSeq,
                         force : BOOLEAN, content : Contents], ApplyOne(it)
      PROVE TxMoves'
  <2>1. it \in Item
    BY DEF Item
  <2> QED BY <1>1, <2>1, ApplyMoves
<1>2. ASSUME NEW h \in Handlers, TxBegin(h) PROVE TxMoves'
  <2>1. handler[h] \in PushRequest
    BY <1>2, RequestKinds DEF TxBegin
  <2>2. tx' = [handler |-> h, dev |-> handler[h].dev, key |-> handler[h].key,
               db |-> db, results |-> <<>>] /\ db' = db
    BY <1>2 DEF TxBegin
  <2>3. db \in Database /\ Complete(db)
    BY DEF TypeOK, TxMoves
  <2>4. \A o \in Objects : Moves(db, db, o) /\ RevOf(db, o) + 1 .. RevOf(db, o) = {}
    <3>1. \A n \in Nat : n + 1 .. n = {}
      OBVIOUS
    <3> QED BY <2>3, <3>1, MovesNot, RevType
  <2>5. \A o : Service!Made(<<>>, o) = {}
    BY DEF Service!Made
  <2>6. tx'.db = db /\ tx'.results = <<>>
    BY <2>2
  <2>7. Complete(db)' /\ Complete(tx.db)'
    BY <2>2, <2>3, <2>6 DEF Complete
  <2>8. \A o \in Objects : /\ Moves(db, tx.db, o)'
                           /\ Service!Made(tx'.results, o) = RevOf(db, o)' + 1 .. RevOf(tx.db, o)'
    BY <2>2, <2>4, <2>5, <2>6 DEF Moves, Beyond, RevOf, Exists
  <2>9. (tx.db.journal \ db.journal)' = {} /\ (db.journal \subseteq tx.db.journal)'
    BY <2>2, <2>6
  <2> QED BY <2>7, <2>8, <2>9 DEF TxMoves
<1>3. CASE TxCommit
  <2>1. db' = tx.db /\ tx' = Idle /\ Complete(tx.db)
    BY <1>3 DEF TxCommit, TxMoves
  <2> QED BY <2>1 DEF TxMoves, Complete
<1>4. ASSUME NEW h \in Handlers, NEW o \in Objects, NEW n \in 1..MaxSeq, TreeDelete(h, o, n)
      PROVE TxMoves'
  <2>1. tx' = Idle /\ Complete(db)
    BY <1>4 DEF TreeDelete, TxMoves
  <2>2. Complete(db)'
    <3>1. CASE db' = db
      BY <2>1, <3>1 DEF Complete
    <3>2. CASE Writes(db, db', TreeItem(h, o, n), handler[h].dev, NoKey)
      <4>1. \A u : u = db' /\ Writes(db, u, TreeItem(h, o, n), handler[h].dev, NoKey) => Complete(u)
        BY <2>1, WritesComplete
      <4>2. \A u : u = db' /\ Complete(u) => Complete(db)'
        BY DEF Complete
      <4> QED BY <3>2, <4>1, <4>2
    <3> QED BY <1>4, <3>1, <3>2, TreeDeleteWrites
  <2> QED BY <2>1, <2>2 DEF TxMoves
<1>5. CASE \/ TxDuplicate \/ TxRollback
  <2>1. tx' = Idle /\ db' = db
    BY <1>5 DEF TxDuplicate, TxRollback
  <2> QED BY <2>1 DEF TxMoves, Complete
<1>6. CASE \/ \E h \in Handlers, d \in Devices, k \in Keys : PushLookup(h, d, k)
           \/ \E h \in Handlers : AckStore(h) \/ TreeTombstone(h) \/ ShareStore(h) \/ Lose(h)
           \/ \E h \in Handlers, d \in Devices, n \in 0..MaxSeq : AckCheck(h, d, n)
           \/ \E h \in Handlers, d \in Devices, c \in Collections : TreeList(h, d, c)
           \/ \E h \in Handlers, u \in Users, c \in Collections, n \in 1..2 : ShareCheck(h, u, c, n)
           \/ \E u \in Users, c \in Collections : RemoveShare(u, c)
           \/ \E d \in Devices : Revoke(d)
           \/ UNCHANGED vars
  <2>1. db' = db /\ tx' = tx
    BY <1>6 DEF PushLookup, AckStore, TreeTombstone, ShareStore, Lose, AckCheck, TreeList,
                ShareCheck, RemoveShare, Revoke, vars
  <2>2. tx # Idle => collections' = collections /\ shares' = shares
    BY <1>6 DEF PushLookup, AckStore, TreeTombstone, ShareStore, Lose, AckCheck, TreeList,
                ShareCheck, RemoveShare, Revoke, vars
  <2>3. CASE tx = Idle
    BY <2>1, <2>3 DEF TxMoves, Complete
  <2>4. CASE tx # Idle
    <3>1. collections' = collections /\ shares' = shares
      BY <2>2, <2>4
    <3> QED BY <2>1, <3>1 DEF TxMoves, Complete, Moves, Beyond, RevOf, Exists, MayCommit, MayTarget,
                              MayWrite, Access, MirrorReadOnly
  <2> QED BY <2>3, <2>4
<1> QED BY <1>1, <1>2, <1>3, <1>4, <1>5, <1>6 DEF Next

\* So they always hold.
LEMMA MovesAlways == Spec => [](TypeOK /\ JournalFaithful /\ TxMoves)
<1>1. Init => TypeOK /\ JournalFaithful /\ TxMoves
  BY InitType, InitFaithful, InitMoves
<1>2. TypeOK /\ JournalFaithful /\ TxMoves /\ [Next]_vars => (TypeOK /\ JournalFaithful /\ TxMoves)'
  BY TypeStep, FaithfulStep, MovesStep
<1> QED BY <1>1, <1>2, PTL DEF Spec

\* Every content a create or update ever committed is in the object's history,
\* also when a forced write replaced it (writeHistoryTx beside every write).
THEOREM HistoryIsKept == Spec => []HistoryComplete
<1>1. TxMoves => HistoryComplete
  BY DEF TxMoves, Complete, HistoryComplete
<1> QED BY <1>1, MovesAlways, PTL

-----------------------------------------------------------------------------
(* What every step does to the committed rows.                             *)

\* Only a commit, and a deletion by the tree handler, change committed rows;
\* only a commit files a result, and none files the absence of one.
LEMMA WhoWrites ==
  ASSUME [Next]_vars
  PROVE  \/ TxCommit
         \/ (\E h \in Handlers, o \in Objects, n \in 1..MaxSeq : TreeDelete(h, o, n)) /\ idem' = idem
         \/ db' = db /\ idem' = idem
BY ZenonT(40) DEF Next, PushLookup, TxBegin, AckStore, TreeTombstone, ShareStore, Lose, ApplyOne, Refuse,
       Conflict, Create, Update, Delete, DeleteAgain, Answer, TxDuplicate, TxRollback, AckCheck,
       TreeList, TreeDelete, ShareCheck, RemoveShare, Revoke, vars

\* A deletion by the tree handler moves one object, which is live, on to its
\* tombstone, and its device may write where the object is.
LEMMA TreeDeleteMoves ==
  ASSUME TypeOK, JournalFaithful, NEW h \in Handlers, NEW o \in Objects, NEW n, TreeDelete(h, o, n)
  PROVE  \/ db' = db
         \/ /\ db' \in Database
            /\ \A j \in db'.journal \ db.journal : MayCommit(db, j.dev, j)
            /\ \A p \in Objects : Moves(db, db', p)
            /\ Live(db, o) /\ db'.objects[o].deleted /\ db'.objects[o].rev = db.objects[o].rev + 1
            /\ db'.objects = [db.objects EXCEPT ![o] = db'.objects[o]]
<1> DEFINE it == TreeItem(h, o, n)
           d == handler[h].dev
<1>1. handler[h] \in TreeRequest
  BY RequestKinds DEF TreeDelete
<1>2. it.obj = o /\ it.col \in Collections /\ d \in Devices
  BY <1>1 DEF TreeItem, TreeRequest
<1>3. db \in Database /\ SeqsUnique(db)
  BY DEF TypeOK, JournalFaithful
<1>4. ASSUME NEW u \in Database, Writes(db, u, it, d, NoKey), CanDelete(db, it, d),
             u = Deleted(db, it, d, NoKey)
      PROVE  /\ \A j \in u.journal \ db.journal : MayCommit(db, j.dev, j)
             /\ \A p \in Objects : Moves(db, u, p)
             /\ Live(db, o) /\ u.objects[o].deleted /\ u.objects[o].rev = db.objects[o].rev + 1
             /\ u.objects = [db.objects EXCEPT ![o] = u.objects[o]]
  <2>1. PICK new \in Object, r \in JournalRow : WritesRow(db, u, it, d, NoKey, new, r)
    BY <1>4 DEF Writes
  <2> HIDE DEF it, d
  <2>2. /\ r.obj = o /\ r.col = it.col /\ r.dev = d /\ r.rev = new.rev
        /\ r.seq = db.lastSeq + 1 /\ new.rev = RevOf(db, o) + 1 /\ u.journal = db.journal \cup {r}
        /\ u.objects = [db.objects EXCEPT ![o] = new]
        /\ db.objects[o] # NoObject => OwnerOf[new.col] = OwnerOf[db.objects[o].col]
    BY <1>2, <2>1 DEF WritesRow
  <2>3. Live(db, o) /\ Exists(db, o) /\ ~db.objects[o].deleted /\ Admitted(db, it, d)
        /\ it.op = "delete"
    BY <1>2, <1>4 DEF CanDelete, Live
  <2>4. \A p \in Objects : Moves(db, u, p)
    BY <1>3, <2>2, <2>3, MovesNot, NextRevisionMoves
  <2>5. MayCommit(db, d, r)
    BY <1>2, <2>2, <2>3 DEF MayCommit, Admitted, MayTakeFrom, MayTarget
  <2>6. \A j \in u.journal \ db.journal : j = r
    BY <2>2
  <2>7. db.objects \in [Objects -> Object \cup {NoObject}]
    BY <1>3 DEF Database
  <2>8. u.objects[o] = new /\ new.rev = db.objects[o].rev + 1
    BY <2>2, <2>3, <2>7 DEF RevOf
  <2>9. u.objects[o].deleted
    <3>1. u.objects = [db.objects EXCEPT ![it.obj] =
            [col |-> db.objects[it.obj].col, rev |-> db.objects[it.obj].rev + 1,
             content |-> db.objects[it.obj].content, deleted |-> TRUE]]
      BY <1>4 DEF Deleted
    <3> QED BY <1>2, <2>7, <3>1
  <2> QED BY <2>2, <2>3, <2>4, <2>5, <2>6, <2>8, <2>9
<1> HIDE DEF it, d
<1>5. \/ db' = db
      \/ /\ Writes(db, db', it, d, NoKey) /\ CanDelete(db, it, d)
         /\ Deleted(db, it, d, NoKey) = db' /\ db' \in Database
  BY TreeDeleteWrites DEF it, d
<1> QED BY <1>4, <1>5

\* From one state to the next the committed rows are moved on.
LEMMA CommitsMove ==
  ASSUME TypeOK, JournalFaithful, TxMoves, [Next]_vars
  PROVE  /\ \A o \in Objects : Moves(db, db', o)
         /\ \A j \in db'.journal \ db.journal : MayCommit(db, j.dev, j)
<1>1. CASE TxCommit
  BY <1>1 DEF TxCommit, TxMoves
<1>2. CASE db' = db
  <2>1. db \in Database
    BY DEF TypeOK
  <2> QED BY <1>2, <2>1, MovesNot
<1>3. CASE \E h \in Handlers, o \in Objects, n \in 1..MaxSeq : TreeDelete(h, o, n)
  BY <1>2, <1>3, TreeDeleteMoves
<1> QED BY <1>1, <1>2, <1>3, WhoWrites

\* No row commits unless its device may, at that commit, write to the live
\* collection it lands in and to the one the object was in (applyOne's checks,
\* made item by item inside the transaction).
THEOREM WritesAreAuthorized == Spec => WritesAuthorized
<1>1. (TypeOK /\ JournalFaithful /\ TxMoves) /\ [Next]_vars =>
        [\A j \in db'.journal \ db.journal :
           /\ MayTarget(j.dev, j.col)
           /\ Exists(db, j.obj) => MayWrite(j.dev, db.objects[j.obj].col)]_db
  BY CommitsMove DEF MayCommit
<1> QED BY <1>1, MovesAlways, PTL DEF Spec, WritesAuthorized

\* No step takes an object back: one journal row for each revision, tombstones
\* are final and an object keeps its owner (applyOne, DeleteTree's pushes).
THEOREM ObjectsOnlyAdvance == Spec => ObjectsAdvance
<1>1. (TypeOK /\ JournalFaithful /\ TxMoves) /\ [Next]_vars =>
        [\A o \in Objects : Exists(db, o) =>
           /\ Exists(db', o)
           /\ {j.rev : j \in {r \in db'.journal \ db.journal : r.obj = o}} =
                db.objects[o].rev + 1 .. db'.objects[o].rev
           /\ db'.objects[o].rev >= db.objects[o].rev
           /\ db'.objects[o].rev = db.objects[o].rev \/ db.objects[o].deleted =>
                db'.objects[o] = db.objects[o]
           /\ OwnerOf[db'.objects[o].col] = OwnerOf[db.objects[o].col]]_db
  <2> SUFFICES ASSUME TypeOK, JournalFaithful, TxMoves, [Next]_vars, NEW o \in Objects, Exists(db, o)
               PROVE  /\ Exists(db', o)
                      /\ {j.rev : j \in {r \in db'.journal \ db.journal : r.obj = o}} =
                           db.objects[o].rev + 1 .. db'.objects[o].rev
                      /\ db'.objects[o].rev >= db.objects[o].rev
                      /\ db'.objects[o].rev = db.objects[o].rev \/ db.objects[o].deleted =>
                           db'.objects[o] = db.objects[o]
                      /\ OwnerOf[db'.objects[o].col] = OwnerOf[db.objects[o].col]
    OBVIOUS
  <2>1. Moves(db, db', o)
    BY CommitsMove
  <2>2. Exists(db', o) /\ RevOf(db, o) = db.objects[o].rev /\ RevOf(db', o) = db'.objects[o].rev
    BY <2>1 DEF Moves, RevOf
  <2> QED BY <2>1, <2>2 DEF Moves, Beyond
<1> QED BY <1>1, MovesAlways, PTL DEF Spec, ObjectsAdvance

-----------------------------------------------------------------------------
(* Deleting a collection.                                                  *)

\* What a tree deletion has ticked off is a tombstone, and stays one.
TreesDone ==
  \A h \in Handlers : handler[h] # Idle /\ handler[h].kind = "tree" =>
    \A e \in handler[h].done : e[1] \in Objects /\ Exists(db, e[1]) /\ db.objects[e[1]].deleted

\* Every step keeps the ticked-off objects tombstones.
LEMMA TreesStep ==
  TypeOK /\ JournalFaithful /\ TxMoves /\ TreesDone /\ [Next]_vars => TreesDone'
<1> SUFFICES ASSUME TypeOK, JournalFaithful, TxMoves, TreesDone, [Next]_vars,
                    NEW h \in Handlers, handler'[h] # Idle, handler'[h].kind = "tree",
                    NEW e \in handler'[h].done
             PROVE  e[1] \in Objects /\ Exists(db', e[1]) /\ db'.objects[e[1]].deleted
  BY DEF TreesDone, Exists
<1>1. \A o \in Objects : Exists(db, o) /\ db.objects[o].deleted =>
                           Exists(db', o) /\ db'.objects[o].deleted
  <2>1. \A o \in Objects : Moves(db, db', o)
    BY CommitsMove
  <2> QED BY <2>1 DEF Moves
<1>2. CASE handler'[h] = handler[h]
  BY <1>1, <1>2 DEF TreesDone
<1>3. CASE \E d \in Devices, c \in Collections : TreeList(h, d, c)
  BY <1>3 DEF TreeList, TypeOK
<1>4. ASSUME NEW o \in Objects, NEW n \in 1..MaxSeq, TreeDelete(h, o, n)
      PROVE  e[1] \in Objects /\ Exists(db', e[1]) /\ db'.objects[e[1]].deleted
  <2> DEFINE it == TreeItem(h, o, n)
             d == handler[h].dev
  <2>1. handler[h] \in TreeRequest
    BY <1>4, RequestKinds DEF TreeDelete
  <2>2. handler[h] # Idle /\ handler[h].kind = "tree"
    BY <1>4 DEF TreeDelete
  <2>3. /\ CanDelete(db, it, d) \/ AlreadyDeleted(db, it, d)
        /\ handler' = [handler EXCEPT ![h].done = @ \cup {<<o, n>>}]
    BY <1>4 DEF TreeDelete, TypeOK
  <2>4. handler'[h].done = handler[h].done \cup {<<o, n>>}
    BY <2>1, <2>3 DEF TypeOK, TreeRequest
  <2>5. CASE e \in handler[h].done
    BY <1>1, <2>2, <2>5 DEF TreesDone
  <2>6. CASE e = <<o, n>>
    <3>1. it.obj = o /\ e[1] = o
      BY <2>6 DEF TreeItem
    <3>2. CASE AlreadyDeleted(db, it, d)
      BY <1>1, <3>1, <3>2 DEF AlreadyDeleted, Live
    <3>3. CASE CanDelete(db, it, d)
      <4>1. db' = Deleted(db, it, d, NoKey)
        BY <1>4, <3>3 DEF TreeDelete
      <4>2. db'.objects[o].deleted
        BY <3>1, <4>1 DEF Deleted, TypeOK, Database
      <4>3. Exists(db, o)
        BY <3>1, <3>3 DEF CanDelete, Live
      <4>4. Moves(db, db', o)
        BY CommitsMove
      <4> QED BY <3>1, <4>2, <4>3, <4>4 DEF Moves
    <3> QED BY <2>3, <3>2, <3>3
  <2> QED BY <2>4, <2>5, <2>6
<1>5. \/ handler'[h] = handler[h]
      \/ \E d \in Devices, c \in Collections : TreeList(h, d, c)
      \/ \E o \in Objects, n \in 1..MaxSeq : TreeDelete(h, o, n)
  <2> USE DEF TypeOK
  <2>1. ASSUME NEW g \in Handlers, NEW d \in Devices, NEW k \in Keys, PushLookup(g, d, k)
        PROVE  handler'[h] = handler[h]
    BY <2>1 DEF PushLookup
  <2>2. ASSUME NEW g \in Handlers,
               TxBegin(g) \/ AckStore(g) \/ TreeTombstone(g) \/ ShareStore(g) \/ Lose(g)
        PROVE  handler'[h] = handler[h]
    BY <2>2 DEF TxBegin, AckStore, TreeTombstone, ShareStore, Lose
  <2>3. CASE TxCommit \/ TxDuplicate \/ TxRollback
    BY <2>3 DEF TxCommit, TxDuplicate, TxRollback, Transaction
  <2>4. ASSUME NEW g \in Handlers, NEW d \in Devices, NEW n \in 0..MaxSeq, AckCheck(g, d, n)
        PROVE  handler'[h] = handler[h]
    BY <2>4 DEF AckCheck
  <2>5. ASSUME NEW g \in Handlers, NEW d \in Devices, NEW c \in Collections, TreeList(g, d, c), g # h
        PROVE  handler'[h] = handler[h]
    BY <2>5 DEF TreeList
  <2>6. ASSUME NEW g \in Handlers, NEW o \in Objects, NEW n \in 1..MaxSeq, TreeDelete(g, o, n), g # h
        PROVE  handler'[h] = handler[h]
    BY <2>6 DEF TreeDelete
  <2>7. ASSUME NEW g \in Handlers, NEW u \in Users, NEW c \in Collections, NEW n \in 1..2,
               ShareCheck(g, u, c, n)
        PROVE  handler'[h] = handler[h]
    BY <2>7 DEF ShareCheck
  <2>8. ASSUME handler' = handler PROVE handler'[h] = handler[h]
    BY <2>8
  <2>9. ASSUME NEW it, ApplyOne(it) PROVE handler' = handler
    BY <2>9 DEF ApplyOne, Refuse, Conflict, Create, Update, Delete, DeleteAgain, Answer
  <2>10. \A u, c : RemoveShare(u, c) => handler' = handler
    BY DEF RemoveShare
  <2>11. \A d : Revoke(d) => handler' = handler
    BY DEF Revoke
  <2>12. UNCHANGED vars => handler' = handler
    BY DEF vars
  <2> HIDE DEF TypeOK
  <2> QED BY <2>1, <2>2, <2>3, <2>4, <2>5, <2>6, <2>7, <2>8, <2>9, <2>10, <2>11, <2>12 DEF Next
<1> QED BY <1>2, <1>3, <1>4, <1>5

\* A collection is tombstoned only when every object its deletion listed is a
\* tombstone already (DeleteTree stops at the first refused delete).
THEOREM CollectionsGoLast == Spec => ListedObjectsDeletedFirst
<1>1. Init => TreesDone
  BY DEF Init, TreesDone
<1>2. TypeOK /\ TreesDone /\ [Next]_vars =>
        [\A c \in Collections : collections[c] = "live" /\ collections'[c] = "deleted" =>
           \E h \in Handlers :
             /\ handler[h] # Idle /\ handler[h].kind = "tree" /\ handler[h].col = c
             /\ \A e \in handler[h].objs : ~Live(db, e[1])]_collections
  <2> SUFFICES ASSUME TypeOK, TreesDone, [Next]_vars, NEW c \in Collections,
                      collections[c] = "live", collections'[c] = "deleted"
               PROVE  \E h \in Handlers :
                        /\ handler[h] # Idle /\ handler[h].kind = "tree" /\ handler[h].col = c
                        /\ \A e \in handler[h].objs : ~Live(db, e[1])
    OBVIOUS
  <2>1. PICK h \in Handlers : TreeTombstone(h)
    BY ZenonT(40) DEF Next, PushLookup, TxBegin, AckStore, ShareStore, Lose, ApplyOne, Refuse,
         Conflict, Create, Update, Delete, DeleteAgain, Answer, TxCommit, TxDuplicate, TxRollback,
         AckCheck, TreeList, TreeDelete, ShareCheck, RemoveShare, Revoke, vars
  <2>2. handler[h] \in TreeRequest
    BY <2>1, RequestKinds DEF TreeTombstone
  <2>3. handler[h].col = c
    BY <2>1, <2>2 DEF TreeTombstone, TypeOK, TreeRequest
  <2> QED BY <2>1, <2>3 DEF TreeTombstone, TreesDone, Live
<1>3. Spec => []TreesDone
  BY <1>1, TreesStep, MovesAlways, PTL DEF Spec
<1> QED BY <1>2, <1>3, MovesAlways, PTL DEF Spec, ListedObjectsDeletedFirst

-----------------------------------------------------------------------------
(* The engine implements SyncService.                                      *)

\* The empty engine is a service that never served.
LEMMA ImplementsInit == Init => Service!Init
  BY DEF Init, Service!Init, ValueOf, Exists

\* An object that moves on in the rows advances for its clients.
LEMMA MovesAdvance ==
  ASSUME NEW s \in Database, NEW t \in Database, NEW o \in Objects, Moves(s, t, o)
  PROVE  Service!Advances(ValueOf(s, o), ValueOf(t, o), RevOf(s, o) + 1 .. RevOf(t, o))
<1>1. ValueOf(s, o).rev = RevOf(s, o) /\ ValueOf(t, o).rev = RevOf(t, o)
  BY DEF ValueOf, RevOf
<1>2. RevOf(t, o) >= RevOf(s, o)
  BY DEF Moves
<1>3. ValueOf(s, o).deleted => Exists(s, o) /\ s.objects[o].deleted
  BY DEF ValueOf
<1>4. ValueOf(t, o).rev = ValueOf(s, o).rev \/ ValueOf(s, o).deleted => t.objects[o] = s.objects[o]
  BY <1>1, <1>3 DEF Moves
<1>5. t.objects[o] = s.objects[o] => ValueOf(t, o) = ValueOf(s, o)
  BY DEF ValueOf, Exists
<1> QED BY <1>1, <1>2, <1>4, <1>5 DEF Service!Advances

\* A commit is one push served whole, a tree deletion's push is a deletion by
\* the server, and every other step leaves what clients see alone.
LEMMA ImplementsStep ==
  TypeOK /\ JournalFaithful /\ TxMoves /\ [Next]_vars =>
    [Service!Next]_(Service!svars)
<1> SUFFICES ASSUME TypeOK, JournalFaithful, TxMoves, [Next]_vars
             PROVE  \/ Service!Next
                    \/ UNCHANGED Service!svars
  BY DEF Service!Next
<1>1. CASE TxCommit
  <2> DEFINE d == tx.dev
             k == tx.key
  <2>1. /\ d \in Devices /\ k \in Keys /\ tx.results \in Seq(Result) /\ tx.db \in Database
        /\ db \in Database
    BY <1>1 DEF TxCommit, TypeOK, Transaction
  <2>2. /\ idem[d][k] = NoResult /\ idem' = [idem EXCEPT ![d][k] = tx.results]
        /\ db' = tx.db /\ tx # Idle
    BY <1>1 DEF TxCommit
  <2>3. /\ idem'[d][k] = tx.results
        /\ \A e \in Devices, l \in Keys : e # d \/ l # k => idem'[e][l] = idem[e][l]
    BY <2>1, <2>2 DEF TypeOK
  <2>4. idem'[d][k] # NoResult
    BY <2>1, <2>3, SentinelAssumption
  <2>5. ASSUME NEW o \in Objects
        PROVE  Service!Advances(ValueOf(db, o), ValueOf(tx.db, o), Service!Made(tx.results, o))
    <3>1. Moves(db, tx.db, o) /\ Service!Made(tx.results, o) = RevOf(db, o) + 1 .. RevOf(tx.db, o)
      BY <2>2 DEF TxMoves
    <3> QED BY <2>1, <3>1, MovesAdvance
  <2>6. \A o \in Objects : ValueOf(db, o)' = ValueOf(tx.db, o)
    BY <2>2 DEF ValueOf, Exists
  <2> HIDE DEF d, k
  <2>7. Service!Serve(d, k)
    BY <2>2, <2>3, <2>4, <2>5, <2>6 DEF Service!Serve
  <2> QED BY <2>1, <2>7 DEF Service!Next
<1>2. ASSUME NEW h \in Handlers, NEW o \in Objects, NEW n \in 1..MaxSeq, TreeDelete(h, o, n),
             idem' = idem, db' # db
      PROVE  Service!Next
  <2>1. /\ db' \in Database /\ Live(db, o) /\ db'.objects[o].deleted
        /\ db'.objects[o].rev = db.objects[o].rev + 1
        /\ db'.objects = [db.objects EXCEPT ![o] = db'.objects[o]]
        /\ Moves(db, db', o)
    BY <1>2, TreeDeleteMoves
  <2>2. db.objects[o] \in Object /\ Exists(db, o) /\ Exists(db', o)
    BY <2>1 DEF TypeOK, Database, Live, Exists, Moves
  <2>3. /\ ValueOf(db, o).rev > 0 /\ ~ValueOf(db, o).deleted
        /\ ValueOf(db, o)'.deleted /\ ValueOf(db, o)'.rev = ValueOf(db, o).rev + 1
    BY <2>1, <2>2 DEF ValueOf, Exists, Live, Object
  <2>4. \A p \in Objects \ {o} : ValueOf(db, p)' = ValueOf(db, p)
    BY <2>1 DEF ValueOf, Exists, TypeOK, Database
  <2>5. Service!ServerDelete(o)
    BY <1>2, <2>3, <2>4 DEF Service!ServerDelete
  <2> QED BY <2>5 DEF Service!Next
<1>3. CASE db' = db /\ idem' = idem
  BY <1>3 DEF Service!svars, ValueOf, Exists
<1> QED BY <1>1, <1>2, <1>3, WhoWrites

\* Every behaviour of the engine is one of SyncService: half-applied batches,
\* racing requests, rollbacks and lost requests never show.
THEOREM EngineImplementsService == Spec => ImplementsSyncService
<1> QED BY ImplementsInit, ImplementsStep, MovesAlways, PTL DEF Spec, ImplementsSyncService, Service!Spec
==============================================================================
