------------------------- MODULE SyncFeed_proofs -------------------------
(***************************************************************************)
(* Proofs about SyncFeed, for all people, devices, objects, collections,   *)
(* page sizes and bounds: the copies that devices keep are what they ought *)
(* to be, and compaction forgets nothing that an owner's device needs.     *)
(***************************************************************************)
EXTENDS SyncFeed, FiniteSetTheorems, WellFoundedInduction, TLAPS

-----------------------------------------------------------------------------
(* The invariant.                                                          *)

\* The rows of an object are there while the object is, the last one says where
\* it is and whether it is deleted, and no two rows have one sequence number.
JournalRows ==
  /\ IsFiniteSet(journal)
  /\ \A j, k \in journal : j.seq = k.seq => j = k
  /\ \A j \in journal : objects[j.obj] # None /\ j.seq <= objects[j.obj].last
  /\ \A o \in Objects : objects[o] # None =>
       \E j \in journal : /\ j.obj = o /\ j.seq = objects[o].last /\ j.col = objects[o].col
                          /\ j.op = "delete" <=> objects[o].deleted

\* A device reads a page at a time, acknowledges before it saves its cursor, and
\* does nothing before it is paired or once it is revoked.
DeviceInOrder ==
  \A d \in Devices :
    /\ device[d].at \in {"idle", "acked"} => device[d].page = {}
    /\ device[d].at = "idle" => device[d].next = 0
    /\ device[d].at = "acked" => device[d].next <= acks[d]
    /\ device[d].cursor <= acks[d]
    /\ d \notin Paired => device[d].at = "idle"
    /\ status[d] = "unpaired" => device[d] = FreshDevice
    /\ \A a, b \in device[d].page : a.seq = b.seq => a = b

\* The user of d may read c, or might at the start.
MayRead(d, c) == OwnerOf[c] = UserOf[d] \/ <<UserOf[d], c>> \in Shares

\* The data of copies and of changes on their way is that of a row at or after
\* the one they are about, committed where the user might read it.
DataAllowed ==
  /\ readers \subseteq Shares
  /\ \A d \in Devices, o \in Objects : device[d].copy[o] # None =>
       /\ device[d].copy[o].row <= device[d].copy[o].data
       /\ objects[o] # None => device[d].copy[o].data <= objects[o].last
       /\ \A j \in journal : j.obj = o /\ j.seq = device[d].copy[o].data => MayRead(d, j.col)
  /\ \A d \in Devices : \A ch \in device[d].page :
       /\ ch.seq <= ch.data /\ MayRead(d, ch.col)
       /\ objects[ch.obj] # None => ch.data <= objects[ch.obj].last
       /\ ~ch.gone =>
            /\ \A j \in journal : j.obj = ch.obj /\ j.seq = ch.data => j.col = ch.cur
            /\ device[d].at = "apply" => MayRead(d, ch.cur)

\* Object o was last written, or tombstoned, no later than row n.
Alive(o, n) == objects[o] # None /\ ~objects[o].deleted /\ objects[o].last <= n
Dead(o, n) == objects[o] # None /\ objects[o].deleted /\ objects[o].last <= n

InPage(d, o) == \E ch \in device[d].page : ch.obj = o
AllGone(d, o) == \A ch \in device[d].page : ch.obj = o => ch.gone

\* Device d has nothing of object o, nor will it from what is on its way.
Without(d, o) == device[d].copy[o] = None /\ AllGone(d, o)

\* Device d has object o as it is.
HasLatest(d, o) ==
  device[d].copy[o] = [row |-> objects[o].last, data |-> objects[o].last]

\* An owner's device has nothing of what is gone and of the tombstones up to what
\* it acknowledged, and has what was written up to its cursor; when it has applied
\* its page, the same is true up to the end of the page.
OwnersFollow ==
  \A d \in Owners, o \in Objects :
    /\ objects[o] = None \/ Dead(o, acks[d]) => Without(d, o)
    /\ Dead(o, device[d].next) => AllGone(d, o) /\ (device[d].copy[o] = None \/ InPage(d, o))
    /\ Alive(o, device[d].cursor) => HasLatest(d, o) /\ ~InPage(d, o)
    /\ Alive(o, device[d].next) =>
         \/ HasLatest(d, o) /\ ~InPage(d, o)
         \/ \E ch \in device[d].page : /\ ch.obj = o /\ ~ch.gone
                                       /\ ch.seq = objects[o].last /\ ch.data = objects[o].last

\* No owner's device has what the compaction is about to forget.
GcSound == gc # Idle =>
  /\ gc.tombs = {} => \A d \in Owners, o \in Objects : Dead(o, gc.ack) => Without(d, o)
  /\ \A o \in gc.tombs : /\ objects[o] # None /\ objects[o].deleted
                         /\ \A d \in Owners : Without(d, o)

IInv == TypeOK /\ JournalRows /\ DeviceInOrder /\ DataAllowed /\ OwnersFollow /\ GcSound

-----------------------------------------------------------------------------
(* Numbers, and the first and last of a page.                              *)

\* A nonempty set of numbers has a least one.
LEMMA LeastNat ==
  ASSUME NEW S \in SUBSET Nat, S # {}
  PROVE  \E m \in S : \A k \in S : m <= k
<1> DEFINE R == OpToRel(<, Nat)
<1>1. IsWellFoundedOn(R, Nat)
  BY NatLessThanWellFounded
<1>2. \A a, b \in Nat : <<a, b>> \in R <=> a < b
  BY DEF OpToRel
<1> HIDE DEF R
<1>3. PICK m \in S : \A k \in S : <<k, m>> \notin R
  BY <1>1, WFMin
<1>4. ASSUME NEW k \in S PROVE m <= k
  <2>1. ~(k < m)
    BY <1>2, <1>3
  <2> QED BY <2>1
<1> QED BY <1>4

\* A nonempty set of numbers with a bound has a greatest one.
LEMMA GreatestNat ==
  ASSUME NEW S \in SUBSET Nat, S # {}, NEW n \in Nat, \A k \in S : k <= n
  PROVE  \E m \in S : \A k \in S : k <= m
<1> DEFINE T == {n - k : k \in S}
<1>1. T \in SUBSET Nat /\ T # {}
  <2>1. \A k \in S : n - k \in Nat
    OBVIOUS
  <2> QED BY <2>1
<1>2. PICK m \in T : \A k \in T : m <= k
  BY <1>1, LeastNat
<1>3. PICK g \in S : m = n - g
  BY <1>2
<1>4. ASSUME NEW k \in S PROVE k <= g
  <2>1. n - k \in T
    OBVIOUS
  <2>2. n - g <= n - k
    BY <1>2, <1>3, <2>1
  <2> QED BY <2>2
<1> QED BY <1>4

\* FirstOf and LastOf are the ends of a page.
LEMMA FirstAndLast ==
  ASSUME NEW page \in SUBSET Change, page # {}, NEW n \in Nat, \A ch \in page : ch.seq <= n
  PROVE  /\ FirstOf(page) \in page /\ \A other \in page : FirstOf(page).seq <= other.seq
         /\ LastOf(page) \in page /\ \A other \in page : other.seq <= LastOf(page).seq
<1> DEFINE S == {ch.seq : ch \in page}
<1>1. S \in SUBSET Nat /\ S # {} /\ \A k \in S : k <= n
  BY DEF Change
<1>2. PICK a \in S : \A k \in S : a <= k
  BY <1>1, LeastNat
<1>3. PICK b \in S : \A k \in S : k <= b
  BY <1>1, GreatestNat
<1>4. \E ch \in page : \A other \in page : ch.seq <= other.seq
  BY <1>2
<1>5. \E ch \in page : \A other \in page : other.seq <= ch.seq
  BY <1>3
<1> QED BY <1>4, <1>5 DEF FirstOf, LastOf

\* The head of the journal is not ahead of the counter.
LEMMA HeadIs == TypeOK => HeadSeq \in Nat /\ HeadSeq <= lastSeq
<1> SUFFICES ASSUME TypeOK, journal # {} PROVE HeadSeq \in Nat /\ HeadSeq <= lastSeq
  BY DEF HeadSeq, TypeOK
<1> DEFINE S == {j.seq : j \in journal}
<1>1. S \in SUBSET Nat /\ S # {} /\ lastSeq \in Nat /\ \A k \in S : k <= lastSeq
  BY FeedAssumption DEF TypeOK, NothingAhead, JournalRow
<1>2. PICK b \in S : \A k \in S : k <= b
  BY <1>1, GreatestNat
<1>3. \E n \in S : \A j \in journal : j.seq <= n
  BY <1>2
<1>4. HeadSeq = CHOOSE n \in S : \A j \in journal : j.seq <= n
  BY DEF HeadSeq
<1> HIDE DEF S
<1>5. HeadSeq \in S
  BY <1>3, <1>4
<1> QED BY <1>1, <1>5

\* An answer holds the first rows beyond the cursor, as they are now.
LEMMA PageIs ==
  ASSUME TypeOK, JournalRows, NEW u, NEW since \in Nat
  PROVE  /\ Page(u, since) \in SUBSET Change
         /\ \A ch \in Page(u, since) : \E j \in Beyond(u, since) : ch = Sent(j)
         /\ \A a, b \in Page(u, since) : a.seq = b.seq => a = b
         /\ \A ch \in Page(u, since), j \in Beyond(u, since) : j.seq <= ch.seq => Sent(j) \in Page(u, since)
         /\ Page(u, since) = {} => Beyond(u, since) = {}
<1> DEFINE B == Beyond(u, since)
           Before(k) == {r \in B : r.seq < k.seq}
<1>1. B \in SUBSET journal /\ IsFiniteSet(B) /\ \A j \in B : j.seq \in Nat
  <2>1. B \in SUBSET journal /\ IsFiniteSet(journal)
    BY DEF Beyond, Shown, JournalRows
  <2> QED BY <2>1, FS_Subset DEF TypeOK, JournalRow
<1>2. Page(u, since) = {Sent(j) : j \in {k \in B : Cardinality(Before(k)) < PageSize}}
  BY DEF Page
<1>3. \A k : Before(k) \in SUBSET B /\ IsFiniteSet(Before(k)) /\ Cardinality(Before(k)) \in Nat
  BY <1>1, FS_Subset, FS_CardinalityType
<1>4. \A j \in journal : Sent(j) \in Change /\ Sent(j).seq = j.seq
  BY DEF TypeOK, JournalRows, JournalRow, ObjectRow, Sent, Change
<1>5. \A ch \in Page(u, since) :
        \E j \in B : Cardinality(Before(j)) < PageSize /\ ch = Sent(j) /\ ch.seq = j.seq
  BY <1>1, <1>2, <1>4
<1>6. Page(u, since) \in SUBSET Change
  BY <1>1, <1>4, <1>5
<1>7. \A a, b \in Page(u, since) : a.seq = b.seq => a = b
  <2> SUFFICES ASSUME NEW a \in Page(u, since), NEW b \in Page(u, since), a.seq = b.seq PROVE a = b
    OBVIOUS
  <2>1. PICK j \in B : a = Sent(j) /\ a.seq = j.seq
    BY <1>5
  <2>2. PICK k \in B : b = Sent(k) /\ b.seq = k.seq
    BY <1>5
  <2>3. j = k
    BY <1>1, <2>1, <2>2 DEF JournalRows
  <2> QED BY <2>1, <2>2, <2>3
<1>8. ASSUME NEW ch \in Page(u, since), NEW j \in B, j.seq <= ch.seq PROVE Sent(j) \in Page(u, since)
  <2>1. PICK k \in B : Cardinality(Before(k)) < PageSize /\ ch.seq = k.seq
    BY <1>5
  <2>2. Before(j) \in SUBSET Before(k)
    BY <1>1, <1>8, <2>1
  <2>3. Cardinality(Before(j)) <= Cardinality(Before(k))
    BY <1>3, <2>2, FS_Subset
  <2>4. Cardinality(Before(j)) < PageSize
    <3>1. Cardinality(Before(j)) \in Nat /\ Cardinality(Before(k)) \in Nat
      BY <1>3
    <3>2. PageSize \in Nat /\ Cardinality(Before(k)) < PageSize
      BY <2>1, FeedAssumption
    <3> HIDE DEF Before, B
    <3> QED BY <2>3, <3>1, <3>2
  <2> QED BY <1>2, <2>4
<1>9. ASSUME B # {} PROVE Page(u, since) # {}
  <2> DEFINE S == {j.seq : j \in B}
  <2>1. S \in SUBSET Nat /\ S # {}
    BY <1>1, <1>9
  <2>2. PICK a \in S : \A k \in S : a <= k
    BY <2>1, LeastNat
  <2>3. PICK j \in B : \A k \in B : j.seq <= k.seq
    BY <2>2
  <2>4. Before(j) = {}
    BY <1>1, <2>3
  <2>5. Cardinality(Before(j)) = 0
    BY <2>4, FS_EmptySet
  <2>6. Cardinality(Before(j)) < PageSize
    BY <2>5, FeedAssumption
  <2> QED BY <1>2, <2>6
<1> QED BY <1>5, <1>6, <1>7, <1>8, <1>9

-----------------------------------------------------------------------------
(* What the steps do.                                                      *)

\* A write moves object o to its next row, unless it is a tombstone.
Writes(o, new, op) ==
  /\ new \in ObjectRow /\ new.last = lastSeq + 1 /\ lastSeq < MaxSeq
  /\ op \in {"create", "update", "delete"} /\ (op = "delete" <=> new.deleted)
  /\ objects[o] = None \/ ~objects[o].deleted
  /\ objects' = [objects EXCEPT ![o] = new]
  /\ journal' = journal \cup {[seq |-> lastSeq + 1, obj |-> o, col |-> new.col, op |-> op]}
  /\ lastSeq' = lastSeq + 1
  /\ UNCHANGED <<live, readers, acks, status, device, gc, losses>>

\* Create, Update and Delete are writes.
LEMMA WriteShape ==
  ASSUME TypeOK, NEW o \in Objects, NEW c \in Collections, Create(o, c) \/ Update(o, c) \/ Delete(o)
  PROVE  \E new \in ObjectRow, op \in {"create", "update", "delete"} : Writes(o, new, op)
<1>1. /\ lastSeq \in Nat /\ objects \in [Objects -> ObjectRow \cup {None}]
      /\ objects[o] # None => objects[o] \in ObjectRow
  BY FeedAssumption DEF TypeOK
<1>2. CASE Create(o, c)
  <2> DEFINE new == [col |-> c, last |-> lastSeq + 1, deleted |-> FALSE]
  <2>1. new \in ObjectRow /\ new.last = lastSeq + 1 /\ ~new.deleted /\ new.col = c
    BY <1>1 DEF ObjectRow
  <2>2. objects' = [objects EXCEPT ![o] = new] /\ objects[o] = None /\ Insert(o, c, "create")
    BY <1>2 DEF Create
  <2> HIDE DEF new
  <2>3. Writes(o, new, "create")
    BY <2>1, <2>2 DEF Writes, Insert
  <2> QED BY <2>1, <2>3
<1>3. CASE Update(o, c)
  <2> DEFINE new == [col |-> c, last |-> lastSeq + 1, deleted |-> FALSE]
  <2>1. new \in ObjectRow /\ new.last = lastSeq + 1 /\ ~new.deleted /\ new.col = c
    BY <1>1 DEF ObjectRow
  <2>2. objects' = [objects EXCEPT ![o] = new] /\ ~objects[o].deleted /\ Insert(o, c, "update")
    BY <1>3 DEF Update
  <2> HIDE DEF new
  <2>3. Writes(o, new, "update")
    BY <2>1, <2>2 DEF Writes, Insert
  <2> QED BY <2>1, <2>3
<1>4. CASE Delete(o)
  <2> DEFINE new == [col |-> objects[o].col, last |-> lastSeq + 1, deleted |-> TRUE]
  <2>1. objects[o] \in ObjectRow
    BY <1>1, <1>4 DEF Delete
  <2>2. new \in ObjectRow /\ new.last = lastSeq + 1 /\ new.deleted /\ new.col = objects[o].col
    BY <1>1, <2>1 DEF ObjectRow
  <2>3. objects' = [objects EXCEPT ![o] = new]
    BY <1>1, <1>4, <2>1 DEF Delete, ObjectRow
  <2>4. ~objects[o].deleted /\ Insert(o, objects[o].col, "delete")
    BY <1>4 DEF Delete
  <2> HIDE DEF new
  <2>5. Writes(o, new, "delete")
    BY <2>2, <2>3, <2>4 DEF Writes, Insert
  <2> QED BY <2>2, <2>5
<1> QED BY <1>2, <1>3, <1>4

\* A step of device d changes what that device keeps.
Becomes(d, cursor, copy, at, page, next) ==
  device' = [device EXCEPT ![d] =
    [cursor |-> cursor, copy |-> copy, at |-> at, page |-> page, next |-> next]]

\* What each step of a device makes of it.
LEMMA DeviceShape ==
  ASSUME TypeOK, NEW d \in Devices
  PROVE  LET c == device[d] IN
         /\ Ask(d) =>
              /\ d \in Paired /\ c.at = "idle"
              /\ \/ HeadSeq < c.cursor /\ Becomes(d, HeadSeq, c.copy, c.at, c.page, c.next)
                 \/ LET page == Page(UserOf[d], c.cursor) IN
                      page # {} /\ Becomes(d, c.cursor, c.copy, "asked", page, LastOf(page).seq)
         /\ Answer(d) => Becomes(d, c.cursor, c.copy, "apply", {Masked(d, ch) : ch \in c.page}, c.next)
         /\ ApplyChange(d) =>
              LET ch == FirstOf(c.page) IN
              Becomes(d, c.cursor, [c.copy EXCEPT ![ch.obj] = Applied(@, ch)], c.at,
                      c.page \ {ch}, c.next)
         /\ AckServer(d) => Becomes(d, c.cursor, c.copy, "acked", c.page, c.next)
         /\ AckRefused(d) => Becomes(d, c.cursor, c.copy, "idle", c.page, 0)
         /\ SaveCursor(d) => Becomes(d, c.next, c.copy, "idle", c.page, 0)
         /\ Lose(d) \/ Revoke(d) => Becomes(d, c.cursor, c.copy, "idle", {}, 0)
<1> DEFINE c == device[d]
<1>1. /\ device \in [Devices ->
          [cursor : Nat, copy : [Objects -> Copy \cup {None}],
           at : {"idle", "asked", "apply", "acked"}, page : SUBSET Change, next : Nat]]
  BY DEF TypeOK
<1>2. c = [cursor |-> c.cursor, copy |-> c.copy, at |-> c.at, page |-> c.page, next |-> c.next]
  BY <1>1
<1>3. HeadSeq \in Nat /\ c.cursor \in Nat
  BY <1>1, HeadIs
<1>4. Ask(d) =>
        /\ d \in Paired /\ c.at = "idle"
        /\ \/ HeadSeq < c.cursor /\ Becomes(d, HeadSeq, c.copy, c.at, c.page, c.next)
           \/ LET page == Page(UserOf[d], c.cursor) IN
                page # {} /\ Becomes(d, c.cursor, c.copy, "asked", page, LastOf(page).seq)
  BY <1>1, <1>3 DEF Ask, Becomes
<1>5. Answer(d) => Becomes(d, c.cursor, c.copy, "apply", {Masked(d, ch) : ch \in c.page}, c.next)
  BY <1>1 DEF Answer, Becomes
<1>6. ApplyChange(d) =>
        LET ch == FirstOf(c.page) IN
        Becomes(d, c.cursor, [c.copy EXCEPT ![ch.obj] = Applied(@, ch)], c.at, c.page \ {ch}, c.next)
  BY <1>1 DEF ApplyChange, Becomes
<1>7. /\ AckServer(d) => Becomes(d, c.cursor, c.copy, "acked", c.page, c.next)
      /\ AckRefused(d) => Becomes(d, c.cursor, c.copy, "idle", c.page, 0)
      /\ SaveCursor(d) => Becomes(d, c.next, c.copy, "idle", c.page, 0)
  BY <1>1 DEF AckServer, AckRefused, SaveCursor, Becomes
<1>8. Lose(d) \/ Revoke(d) => Becomes(d, c.cursor, c.copy, "idle", {}, 0)
  BY <1>1 DEF Lose, Revoke, Becomes
<1> QED BY <1>4, <1>5, <1>6, <1>7, <1>8

\* The device of a step after it, and the others.
LEMMA Became ==
  ASSUME TypeOK, NEW d \in Devices, NEW cursor, NEW copy, NEW at, NEW page, NEW next,
         Becomes(d, cursor, copy, at, page, next)
  PROVE  /\ device'[d].cursor = cursor /\ device'[d].copy = copy /\ device'[d].at = at
         /\ device'[d].page = page /\ device'[d].next = next
         /\ \A e \in Devices : e # d => device'[e] = device[e]
BY DEF TypeOK, Becomes

-----------------------------------------------------------------------------
(* Types.                                                                  *)

\* A step of a device that keeps every type.
LEMMA BecomesType ==
  ASSUME TypeOK, NEW d \in Devices, NEW cursor \in Nat, NEW copy \in [Objects -> Copy \cup {None}],
         NEW at \in {"idle", "asked", "apply", "acked"}, NEW page \in SUBSET Change, NEW next \in Nat,
         Becomes(d, cursor, copy, at, page, next), cursor <= lastSeq, next <= lastSeq,
         \A ch \in page : ch.seq <= lastSeq /\ ch.data <= lastSeq,
         \A o \in Objects : copy[o] # None => copy[o].row <= lastSeq /\ copy[o].data <= lastSeq,
         acks' = acks \/ acks' = [acks EXCEPT ![d] = next],
         losses' \in 0..MaxLosses, status' \in [Devices -> {"unpaired", "paired", "revoked"}],
         UNCHANGED <<server, gc>>
  PROVE  TypeOK'
<1>1. device' \in [Devices ->
          [cursor : Nat, copy : [Objects -> Copy \cup {None}],
           at : {"idle", "asked", "apply", "acked"}, page : SUBSET Change, next : Nat]]
  BY DEF TypeOK, Becomes
<1>2. acks' \in [Devices -> Nat] /\ \A e \in Devices : acks'[e] <= lastSeq
  BY ZenonT(60) DEF TypeOK, NothingAhead
<1>3. \A e \in Devices :
        /\ device'[e].cursor <= lastSeq /\ device'[e].next <= lastSeq
        /\ \A ch \in device'[e].page : ch.seq <= lastSeq /\ ch.data <= lastSeq
        /\ \A o \in Objects : device'[e].copy[o] # None =>
             device'[e].copy[o].row <= lastSeq /\ device'[e].copy[o].data <= lastSeq
  <2> SUFFICES ASSUME NEW e \in Devices
               PROVE  /\ device'[e].cursor <= lastSeq /\ device'[e].next <= lastSeq
                      /\ \A ch \in device'[e].page : ch.seq <= lastSeq /\ ch.data <= lastSeq
                      /\ \A o \in Objects : device'[e].copy[o] # None =>
                           device'[e].copy[o].row <= lastSeq /\ device'[e].copy[o].data <= lastSeq
    OBVIOUS
  <2>1. CASE e = d
    BY <2>1, Became
  <2>2. CASE e # d
    BY <2>2, Became DEF TypeOK, NothingAhead
  <2> QED BY <2>1, <2>2
<1>4. /\ objects' = objects /\ journal' = journal /\ lastSeq' = lastSeq /\ live' = live
      /\ readers' = readers /\ gc' = gc
  BY DEF server
<1>5. NothingAhead'
  BY <1>2, <1>3, <1>4 DEF NothingAhead, TypeOK
<1> QED BY <1>1, <1>2, <1>4, <1>5 DEF TypeOK

\* A write keeps every type.
LEMMA WritesType ==
  ASSUME TypeOK, NEW o \in Objects, NEW new, NEW op, Writes(o, new, op)
  PROVE  TypeOK'
<1>1. /\ new \in ObjectRow /\ new.last = lastSeq + 1 /\ lastSeq < MaxSeq
      /\ op \in {"create", "update", "delete"}
      /\ objects' = [objects EXCEPT ![o] = new]
      /\ journal' = journal \cup {[seq |-> lastSeq + 1, obj |-> o, col |-> new.col, op |-> op]}
      /\ lastSeq' = lastSeq + 1
      /\ UNCHANGED <<live, readers, acks, status, device, gc, losses>>
  BY DEF Writes
<1>2. /\ objects \in [Objects -> ObjectRow \cup {None}] /\ journal \subseteq JournalRow
      /\ lastSeq \in 0..MaxSeq /\ NothingAhead /\ MaxSeq \in Nat
  BY FeedAssumption DEF TypeOK
<1>3. [seq |-> lastSeq + 1, obj |-> o, col |-> new.col, op |-> op] \in JournalRow
  BY <1>1, <1>2 DEF JournalRow, ObjectRow
<1>4. /\ objects' \in [Objects -> ObjectRow \cup {None}] /\ journal' \subseteq JournalRow
      /\ lastSeq' \in 0..MaxSeq
  BY <1>1, <1>2, <1>3
<1>5. \A n \in Nat : n <= lastSeq => n <= lastSeq'
  BY <1>1, <1>2
<1>6. NothingAhead'
  <2>1. \A p \in Objects : objects'[p] # None => objects'[p].last <= lastSeq'
    <3>1. ASSUME NEW p \in Objects, p # o, objects'[p] # None PROVE objects'[p].last <= lastSeq'
      BY <1>1, <1>2, <1>5, <3>1 DEF NothingAhead, ObjectRow
    <3>2. objects'[o] = new
      BY <1>1, <1>2
    <3> QED BY <1>1, <1>2, <3>1, <3>2
  <2>2. \A j \in journal' : j.seq <= lastSeq'
    BY <1>1, <1>2, <1>5 DEF NothingAhead, JournalRow
  <2>3. \A d \in Devices :
       /\ acks'[d] <= lastSeq' /\ device'[d].cursor <= lastSeq' /\ device'[d].next <= lastSeq'
       /\ \A ch \in device'[d].page : ch.seq <= lastSeq' /\ ch.data <= lastSeq'
       /\ \A p \in Objects : device'[d].copy[p] # None =>
            device'[d].copy[p].row <= lastSeq' /\ device'[d].copy[p].data <= lastSeq'
    BY <1>1, <1>5 DEF TypeOK, NothingAhead, Change, Copy
  <2>4. gc' # Idle => gc'.ack <= lastSeq'
    BY <1>1, <1>5 DEF TypeOK, NothingAhead
  <2> QED BY <2>1, <2>2, <2>3, <2>4 DEF NothingAhead
<1> QED BY <1>1, <1>4, <1>6 DEF TypeOK

\* The compaction goes no further than any paired device has acknowledged.
LEMMA MinAckIs ==
  ASSUME TypeOK
  PROVE  /\ MinSyncAck \in Nat /\ MinSyncAck <= lastSeq
         /\ \A d \in Paired : MinSyncAck <= acks[d]
<1>1. CASE Paired = {}
  BY <1>1, HeadIs DEF MinSyncAck
<1>2. CASE Paired # {}
  <2> DEFINE S == {acks[d] : d \in Paired}
  <2>1. S \in SUBSET Nat /\ S # {} /\ \A n \in S : n <= lastSeq
    <3>1. \A d \in Paired : d \in Devices /\ acks[d] \in Nat /\ acks[d] <= lastSeq
      BY DEF Paired, TypeOK, NothingAhead
    <3> QED BY <1>2, <3>1
  <2>2. PICK a \in S : \A k \in S : a <= k
    BY <2>1, LeastNat
  <2>3. \E n \in S : \A d \in Paired : n <= acks[d]
    BY <2>2
  <2>4. MinSyncAck = CHOOSE n \in S : \A d \in Paired : n <= acks[d]
    BY <1>2 DEF MinSyncAck
  <2> HIDE DEF S
  <2>5. MinSyncAck \in S /\ \A d \in Paired : MinSyncAck <= acks[d]
    BY <2>3, <2>4
  <2> QED BY <2>1, <2>5
<1> QED BY <1>1, <1>2

\* Masking a change can only make it a deletion, and does nothing to what may be read.
LEMMA MaskedIs ==
  ASSUME NEW d \in Devices, NEW ch \in Change
  PROVE  /\ Masked(d, ch) \in Change
         /\ Masked(d, ch).seq = ch.seq /\ Masked(d, ch).obj = ch.obj /\ Masked(d, ch).col = ch.col
         /\ Masked(d, ch).data = ch.data /\ (ch.gone => Masked(d, ch).gone)
         /\ ~Masked(d, ch).gone => Masked(d, ch) = ch /\ (ch.cur = ch.col \/ Readable(UserOf[d], ch.cur))
         /\ Readable(UserOf[d], ch.cur) => Masked(d, ch) = ch
BY DEF Masked, Change

\* A device that applies a change has nothing, what it had, or what it was told.
LEMMA AppliedIs ==
  ASSUME NEW old \in Copy \cup {None}, NEW ch \in Change
  PROVE  /\ Applied(old, ch) \in Copy \cup {None}
         /\ ch.gone => Applied(old, ch) = None
         /\ ~ch.gone => \/ Applied(old, ch) = old /\ old # None /\ old.row = ch.seq
                        \/ Applied(old, ch) = [row |-> ch.seq, data |-> ch.data]
BY DEF Applied, Change, Copy

\* Every step keeps every type.
LEMMA TypeStep == TypeOK /\ JournalRows /\ DeviceInOrder /\ [Next]_vars => TypeOK'
<1> SUFFICES ASSUME TypeOK, JournalRows, DeviceInOrder, [Next]_vars PROVE TypeOK'
  OBVIOUS
<1>0. /\ objects \in [Objects -> ObjectRow \cup {None}] /\ journal \subseteq JournalRow
      /\ lastSeq \in Nat /\ losses \in 0..MaxLosses /\ NothingAhead
      /\ acks \in [Devices -> Nat] /\ status \in [Devices -> {"unpaired", "paired", "revoked"}]
  BY FeedAssumption DEF TypeOK
<1>d. \A d \in Devices :
        /\ device[d].cursor \in Nat /\ device[d].copy \in [Objects -> Copy \cup {None}]
        /\ device[d].at \in {"idle", "asked", "apply", "acked"} /\ device[d].page \in SUBSET Change
        /\ device[d].next \in Nat
        /\ device[d].cursor <= lastSeq /\ device[d].next <= lastSeq
        /\ \A ch \in device[d].page : ch.seq <= lastSeq /\ ch.data <= lastSeq
        /\ \A o \in Objects : device[d].copy[o] # None =>
             device[d].copy[o].row <= lastSeq /\ device[d].copy[o].data <= lastSeq
  BY DEF TypeOK, NothingAhead
<1>1. ASSUME NEW o \in Objects, NEW c \in Collections, Create(o, c) \/ Update(o, c) PROVE TypeOK'
  BY <1>1, WriteShape, WritesType
<1>2. ASSUME NEW o \in Objects, Delete(o) PROVE TypeOK'
  <2>1. PICK c \in Collections : TRUE
    BY <1>0, <1>2 DEF Delete, ObjectRow
  <2> QED BY <1>2, <2>1, WriteShape, WritesType
<1>3. ASSUME NEW c \in Collections, Tombstone(c) PROVE TypeOK'
  BY <1>3 DEF Tombstone, TypeOK, NothingAhead
<1>4. ASSUME NEW d \in Devices, Ask(d) PROVE TypeOK'
  <2> DEFINE k == device[d]
  <2>0. /\ k.cursor \in Nat /\ k.copy \in [Objects -> Copy \cup {None}]
        /\ k.at \in {"idle", "asked", "apply", "acked"} /\ k.page \in SUBSET Change
        /\ k.next \in Nat /\ k.cursor <= lastSeq /\ k.next <= lastSeq
        /\ \A ch \in k.page : ch.seq <= lastSeq /\ ch.data <= lastSeq
        /\ \A o \in Objects : k.copy[o] # None =>
             k.copy[o].row <= lastSeq /\ k.copy[o].data <= lastSeq
    BY <1>d
  <2>1. /\ UNCHANGED <<server, gc>> /\ acks' = acks /\ losses' \in 0..MaxLosses
        /\ status' \in [Devices -> {"unpaired", "paired", "revoked"}]
    BY <1>0, <1>4 DEF Ask
  <2>2. CASE Becomes(d, HeadSeq, k.copy, k.at, k.page, k.next)
    <3>1. HeadSeq \in Nat /\ HeadSeq <= lastSeq
      BY HeadIs
    <3> HIDE DEF k
    <3> QED BY <2>0, <2>1, <2>2, <3>1, BecomesType
  <2>3. ASSUME NEW page, page = Page(UserOf[d], k.cursor), page # {},
               Becomes(d, k.cursor, k.copy, "asked", page, LastOf(page).seq)
        PROVE  TypeOK'
    <3>1. page \in SUBSET Change
      BY <1>d, <2>3, PageIs
    <3>2. \A ch \in page : ch.seq <= lastSeq /\ ch.data <= lastSeq
      <4> SUFFICES ASSUME NEW ch \in page PROVE ch.seq <= lastSeq /\ ch.data <= lastSeq
        OBVIOUS
      <4>1. PICK j \in Beyond(UserOf[d], k.cursor) : ch = Sent(j)
        BY <1>d, <2>3, PageIs
      <4>2. j \in journal /\ ch.seq = j.seq /\ ch.data = objects[j.obj].last
        BY <4>1 DEF Beyond, Shown, Sent
      <4>3. j.obj \in Objects /\ objects[j.obj] # None
        BY <1>0, <4>2 DEF JournalRow, JournalRows
      <4> QED BY <1>0, <4>2, <4>3 DEF NothingAhead
    <3>3. LastOf(page) \in page
      BY <1>0, <2>3, <3>1, <3>2, FirstAndLast
    <3>4. LastOf(page).seq \in Nat /\ LastOf(page).seq <= lastSeq
      BY <3>1, <3>2, <3>3 DEF Change
    <3> HIDE DEF k
    <3> QED BY <2>0, <2>1, <2>3, <3>1, <3>2, <3>4, BecomesType
  <2> QED BY <1>4, <2>2, <2>3, DeviceShape
<1>5. ASSUME NEW d \in Devices, Answer(d) PROVE TypeOK'
  <2> DEFINE k == device[d]
             page == {Masked(d, ch) : ch \in k.page}
  <2>1. UNCHANGED <<server, acks, status, gc, losses>>
    BY <1>5 DEF Answer
  <2>2. page \in SUBSET Change /\ \A ch \in page : ch.seq <= lastSeq /\ ch.data <= lastSeq
    BY <1>d, MaskedIs
  <2>3. Becomes(d, k.cursor, k.copy, "apply", page, k.next)
    BY <1>5, DeviceShape
  <2> HIDE DEF page
  <2> QED BY <1>0, <1>d, <2>1, <2>2, <2>3, BecomesType
<1>6. ASSUME NEW d \in Devices, ApplyChange(d) PROVE TypeOK'
  <2> DEFINE k == device[d]
             ch == FirstOf(k.page)
             copy == [k.copy EXCEPT ![ch.obj] = Applied(@, ch)]
  <2>0. /\ k.cursor \in Nat /\ k.copy \in [Objects -> Copy \cup {None}]
        /\ k.at \in {"idle", "asked", "apply", "acked"} /\ k.page \in SUBSET Change
        /\ k.next \in Nat /\ k.cursor <= lastSeq /\ k.next <= lastSeq
        /\ \A c \in k.page : c.seq <= lastSeq /\ c.data <= lastSeq
        /\ \A o \in Objects : k.copy[o] # None =>
             k.copy[o].row <= lastSeq /\ k.copy[o].data <= lastSeq
    BY <1>d
  <2>1. /\ UNCHANGED <<server, gc>> /\ acks' = acks /\ losses' \in 0..MaxLosses
        /\ status' \in [Devices -> {"unpaired", "paired", "revoked"}]
    BY <1>0, <1>6 DEF ApplyChange
  <2>p. k.page # {}
    BY <1>6 DEF ApplyChange
  <2>2. ch \in k.page /\ ch \in Change /\ ch.obj \in Objects /\ ch.seq \in Nat /\ ch.data \in Nat
    BY <1>0, <1>d, <2>p, FirstAndLast DEF Change
  <2>3. Becomes(d, k.cursor, copy, k.at, k.page \ {ch}, k.next)
    BY <1>6, DeviceShape
  <2> HIDE DEF ch
  <2>4. copy \in [Objects -> Copy \cup {None}]
    BY <1>d, <2>2, AppliedIs
  <2>5. \A o \in Objects : copy[o] # None => copy[o].row <= lastSeq /\ copy[o].data <= lastSeq
    <3> SUFFICES ASSUME NEW o \in Objects, copy[o] # None
                 PROVE  copy[o].row <= lastSeq /\ copy[o].data <= lastSeq
      OBVIOUS
    <3>1. CASE o # ch.obj
      BY <1>d, <3>1
    <3>2. CASE o = ch.obj
      <4>1. copy[o] = Applied(k.copy[o], ch)
        BY <1>d, <2>2, <3>2
      <4>2. \/ copy[o] = k.copy[o]
            \/ copy[o] = [row |-> ch.seq, data |-> ch.data]
        BY <1>d, <2>2, <4>1, AppliedIs
      <4> QED BY <1>d, <2>2, <4>2
    <3> QED BY <3>1, <3>2
  <2>6. k.page \ {ch} \in SUBSET Change /\ \A x \in k.page \ {ch} : x.seq <= lastSeq /\ x.data <= lastSeq
    BY <1>d
  <2> HIDE DEF copy, k
  <2> QED BY <2>0, <2>1, <2>3, <2>4, <2>5, <2>6, BecomesType
<1>7. ASSUME NEW d \in Devices, AckServer(d) PROVE TypeOK'
  <2> DEFINE k == device[d]
  <2>0. /\ k.cursor \in Nat /\ k.copy \in [Objects -> Copy \cup {None}]
        /\ k.at \in {"idle", "asked", "apply", "acked"} /\ k.page \in SUBSET Change
        /\ k.next \in Nat /\ k.cursor <= lastSeq /\ k.next <= lastSeq
        /\ \A ch \in k.page : ch.seq <= lastSeq /\ ch.data <= lastSeq
        /\ \A o \in Objects : k.copy[o] # None =>
             k.copy[o].row <= lastSeq /\ k.copy[o].data <= lastSeq
    BY <1>d
  <2>1. /\ UNCHANGED <<server, gc>> /\ losses' \in 0..MaxLosses
        /\ status' \in [Devices -> {"unpaired", "paired", "revoked"}]
        /\ acks' = acks \/ acks' = [acks EXCEPT ![d] = k.next]
    BY <1>0, <1>7 DEF AckServer
  <2>2. Becomes(d, k.cursor, k.copy, "acked", k.page, k.next)
    BY <1>7, DeviceShape
  <2> HIDE DEF k
  <2> QED BY <2>0, <2>1, <2>2, BecomesType
<1>8. ASSUME NEW d \in Devices, AckRefused(d) \/ SaveCursor(d) PROVE TypeOK'
  <2> DEFINE k == device[d]
  <2>1. UNCHANGED <<server, acks, status, gc, losses>>
    BY <1>8 DEF AckRefused, SaveCursor
  <2>2. \/ Becomes(d, k.cursor, k.copy, "idle", k.page, 0)
        \/ Becomes(d, k.next, k.copy, "idle", k.page, 0)
    BY <1>8, DeviceShape
  <2>3. 0 \in Nat /\ 0 <= lastSeq
    BY <1>0
  <2> QED BY <1>0, <1>d, <2>1, <2>2, <2>3, BecomesType, ZenonT(40)
<1>9. ASSUME NEW d \in Devices, Lose(d) \/ Revoke(d) PROVE TypeOK'
  <2>1. UNCHANGED <<server, acks, gc>>
    BY <1>9 DEF Lose, Revoke
  <2>2. losses' \in 0..MaxLosses /\ status' \in [Devices -> {"unpaired", "paired", "revoked"}]
    BY <1>0, <1>9, FeedAssumption DEF Lose, Revoke
  <2>3. Becomes(d, device[d].cursor, device[d].copy, "idle", {}, 0)
    BY <1>9, DeviceShape
  <2>4. 0 \in Nat /\ 0 <= lastSeq /\ {} \in SUBSET Change
    BY <1>0
  <2> QED BY <1>d, <2>1, <2>2, <2>3, <2>4, BecomesType
<1>10. ASSUME NEW d \in Devices, Pair(d) PROVE TypeOK'
  BY <1>10 DEF Pair, server, TypeOK, NothingAhead
<1>11. CASE GcCursors
  BY <1>11, MinAckIs DEF GcCursors, server, TypeOK, NothingAhead
<1>12. CASE GcTombstones
  BY <1>0, <1>12 DEF GcTombstones, server, TypeOK, NothingAhead, CompactableTombstones
<1>13. CASE DeleteTombstones
  <2>1. objects' \in [Objects -> ObjectRow \cup {None}] /\ journal' \subseteq journal /\ gc' = Idle
        /\ \A o \in Objects : objects'[o] # None => objects'[o] = objects[o]
    BY <1>0, <1>13 DEF DeleteTombstones
  <2> QED BY <1>13, <2>1 DEF DeleteTombstones, TypeOK, NothingAhead
<1>14. CASE UNCHANGED vars
  BY <1>14 DEF vars, TypeOK, NothingAhead
<1> QED
  BY <1>1, <1>2, <1>3, <1>4, <1>5, <1>6, <1>7, <1>8, <1>9, <1>10, <1>11, <1>12, <1>13, <1>14
  DEF Next

-----------------------------------------------------------------------------
(* The journal and the order of a device's steps.                          *)

\* Only writes and the last step of a compaction change objects and rows.
LEMMA WhoWrites ==
  ASSUME TypeOK, [Next]_vars
  PROVE  \/ \E o \in Objects, new \in ObjectRow, op \in {"create", "update", "delete"} : Writes(o, new, op)
         \/ DeleteTombstones
         \/ UNCHANGED <<objects, journal, lastSeq>>
<1>1. ASSUME NEW o \in Objects, Delete(o)
      PROVE  \E new \in ObjectRow, op \in {"create", "update", "delete"} : Writes(o, new, op)
  <2>1. PICK c \in Collections : TRUE
    BY <1>1 DEF Delete, TypeOK, ObjectRow
  <2> QED BY <1>1, <2>1, WriteShape
<1> QED
  BY <1>1, WriteShape, ZenonT(40)
  DEF Next, Tombstone, Ask, Answer, ApplyChange, AckServer, AckRefused, SaveCursor, Lose, Pair,
      Revoke, GcCursors, GcTombstones, server, vars

\* What a write does to each object.
LEMMA WritesObjects ==
  ASSUME TypeOK, NEW o \in Objects, NEW new \in ObjectRow, NEW op, Writes(o, new, op)
  PROVE  /\ objects'[o] = new /\ new # None /\ new.last = lastSeq + 1
         /\ objects[o] = None \/ ~objects[o].deleted
         /\ \A p \in Objects : p # o => objects'[p] = objects[p]
         /\ lastSeq \in Nat
BY FeedAssumption, SentinelAssumption DEF Writes, TypeOK

\* Every step keeps the journal in agreement with the objects.
LEMMA RowsStep == TypeOK /\ JournalRows /\ [Next]_vars => JournalRows'
<1> SUFFICES ASSUME TypeOK, JournalRows, [Next]_vars PROVE JournalRows'
  OBVIOUS
<1>0. /\ objects \in [Objects -> ObjectRow \cup {None}] /\ journal \subseteq JournalRow
      /\ \A j \in journal : j.seq <= lastSeq /\ j.seq \in Nat /\ j.obj \in Objects
      /\ \A o \in Objects : objects[o] # None => objects[o] \in ObjectRow /\ objects[o].last <= lastSeq
  BY DEF TypeOK, NothingAhead, JournalRow
<1>r. /\ IsFiniteSet(journal)
      /\ \A j, k \in journal : j.seq = k.seq => j = k
      /\ \A j \in journal : objects[j.obj] # None /\ j.seq <= objects[j.obj].last
      /\ \A o \in Objects : objects[o] # None =>
           \E j \in journal : /\ j.obj = o /\ j.seq = objects[o].last /\ j.col = objects[o].col
                              /\ j.op = "delete" <=> objects[o].deleted
  BY DEF JournalRows
<1>1. ASSUME NEW o \in Objects, NEW new \in ObjectRow, NEW op, Writes(o, new, op) PROVE JournalRows'
  <2> DEFINE row == [seq |-> lastSeq + 1, obj |-> o, col |-> new.col, op |-> op]
  <2>1. journal' = journal \cup {row} /\ (op = "delete" <=> new.deleted)
    BY <1>1 DEF Writes
  <2>2. /\ objects'[o] = new /\ new # None /\ new.last = lastSeq + 1 /\ lastSeq \in Nat
        /\ \A p \in Objects : p # o => objects'[p] = objects[p]
    BY <1>1, WritesObjects
  <2>3. /\ row.seq = lastSeq + 1 /\ row.obj = o /\ row.col = new.col /\ row.op = op
    OBVIOUS
  <2> HIDE DEF row
  <2>4. IsFiniteSet(journal')
    BY <1>r, <2>1, FS_AddElement
  <2>5. \A j, k \in journal' : j.seq = k.seq => j = k
    BY <1>0, <1>r, <2>1, <2>2, <2>3
  <2>6. ASSUME NEW j \in journal' PROVE objects'[j.obj] # None /\ j.seq <= objects'[j.obj].last
    <3>1. CASE j = row
      BY <2>2, <2>3, <3>1
    <3>2. CASE j \in journal /\ j.obj = o
      BY <1>0, <2>2, <3>2
    <3>3. CASE j \in journal /\ j.obj # o
      BY <1>0, <1>r, <2>2, <3>3
    <3> QED BY <2>1, <3>1, <3>2, <3>3
  <2>7. \A p \in Objects : objects'[p] # None =>
           \E j \in journal' : /\ j.obj = p /\ j.seq = objects'[p].last /\ j.col = objects'[p].col
                               /\ j.op = "delete" <=> objects'[p].deleted
    BY <1>r, <2>1, <2>2, <2>3
  <2> QED BY <2>4, <2>5, <2>6, <2>7 DEF JournalRows
<1>2. CASE DeleteTombstones
  <2>1. /\ journal' = {j \in journal : j.obj \notin gc.tombs}
        /\ objects' = [o \in Objects |-> IF o \in gc.tombs THEN None ELSE objects[o]]
    BY <1>2 DEF DeleteTombstones
  <2>2. journal' \in SUBSET journal
    BY <2>1
  <2>3. IsFiniteSet(journal')
    BY <1>r, <2>2, FS_Subset
  <2>4. \A j \in journal' : objects'[j.obj] # None /\ j.seq <= objects'[j.obj].last
    BY <1>0, <1>r, <2>1
  <2>5. \A p \in Objects : objects'[p] # None =>
           \E j \in journal' : /\ j.obj = p /\ j.seq = objects'[p].last /\ j.col = objects'[p].col
                               /\ j.op = "delete" <=> objects'[p].deleted
    BY <1>r, <2>1
  <2> QED BY <1>r, <2>2, <2>3, <2>4, <2>5 DEF JournalRows
<1>3. CASE UNCHANGED <<objects, journal, lastSeq>>
  BY <1>3 DEF JournalRows
<1> QED BY <1>1, <1>2, <1>3, WhoWrites


\* DeviceInOrder of one device, cursor row and status.
InOrder(k, a, s) ==
  /\ k.at \in {"idle", "acked"} => k.page = {}
  /\ k.at = "idle" => k.next = 0
  /\ k.at = "acked" => k.next <= a
  /\ k.cursor <= a
  /\ s # "paired" => k.at = "idle"
  /\ s = "unpaired" => k = FreshDevice
  /\ \A x, y \in k.page : x.seq = y.seq => x = y

\* DeviceInOrder, device by device.
LEMMA InOrderIs ==
  /\ DeviceInOrder => \A d \in Devices : InOrder(device[d], acks[d], status[d])
  /\ (\A d \in Devices : InOrder(device'[d], acks'[d], status'[d])) => DeviceInOrder'
<1>1. DeviceInOrder => \A d \in Devices : InOrder(device[d], acks[d], status[d])
  BY DEF DeviceInOrder, InOrder, Paired
<1>2. ASSUME \A d \in Devices : InOrder(device'[d], acks'[d], status'[d]) PROVE DeviceInOrder'
  <2>1. \A d \in Devices : d \notin Paired' => status'[d] # "paired"
    BY DEF Paired
  <2> QED BY <1>2, <2>1 DEF DeviceInOrder, InOrder, FreshDevice
<1> QED BY <1>1, <1>2

\* A step of a paired device that keeps it in order.
LEMMA BecomesOrder ==
  ASSUME TypeOK, DeviceInOrder, NEW d \in Devices, d \in Paired,
         NEW cursor, NEW copy, NEW at, NEW page, NEW next,
         Becomes(d, cursor, copy, at, page, next),
         acks' = acks \/ acks' = [acks EXCEPT ![d] = next],
         cursor <= acks'[d],
         at \in {"idle", "acked"} => page = {},
         at = "idle" => next = 0,
         at = "acked" => next <= acks'[d],
         status' = status \/ (status' = [status EXCEPT ![d] = "revoked"] /\ at = "idle"),
         \A x, y \in page : x.seq = y.seq => x = y
  PROVE  DeviceInOrder'
<1>0. /\ acks \in [Devices -> Nat] /\ status \in [Devices -> {"unpaired", "paired", "revoked"}]
      /\ status[d] = "paired"
  BY DEF TypeOK, Paired
<1>1. status'[d] = "paired" \/ (status'[d] = "revoked" /\ at = "idle")
  <2>1. CASE status' = status
    BY <1>0, <2>1
  <2>2. CASE status' = [status EXCEPT ![d] = "revoked"] /\ at = "idle"
    BY <1>0, <2>2
  <2> QED BY <2>1, <2>2
<1>2. InOrder(device'[d], acks'[d], status'[d])
  <2>1. /\ device'[d].cursor = cursor /\ device'[d].at = at /\ device'[d].page = page
        /\ device'[d].next = next
    BY Became
  <2> QED BY <1>1, <2>1 DEF InOrder
<1>3. \A e \in Devices : e # d => device'[e] = device[e] /\ acks'[e] = acks[e] /\ status'[e] = status[e]
  BY <1>0, Became
<1>4. \A e \in Devices : InOrder(device'[e], acks'[e], status'[e])
  BY <1>2, <1>3, InOrderIs
<1> QED BY <1>4, InOrderIs

\* Every step keeps every device in order.
LEMMA OrderStep == TypeOK /\ JournalRows /\ DeviceInOrder /\ [Next]_vars => DeviceInOrder'
<1> SUFFICES ASSUME TypeOK, JournalRows, DeviceInOrder, [Next]_vars PROVE DeviceInOrder'
  OBVIOUS
<1>0. \A d \in Devices :
        /\ device[d].cursor \in Nat /\ acks[d] \in Nat /\ device[d].next \in Nat
        /\ device[d].page \in SUBSET Change /\ device[d].cursor <= acks[d]
        /\ device[d].at # "idle" => d \in Paired
        /\ device[d].at \in {"idle", "acked"} => device[d].page = {}
        /\ device[d].at = "idle" => device[d].next = 0
        /\ device[d].at = "acked" => device[d].next <= acks[d]
        /\ \A x, y \in device[d].page : x.seq = y.seq => x = y
  BY DEF DeviceInOrder, TypeOK
<1>1. /\ acks \in [Devices -> Nat] /\ status \in [Devices -> {"unpaired", "paired", "revoked"}]
      /\ 0 \in Nat
  BY DEF TypeOK
<1>4. CASE UNCHANGED <<device, acks, status>>
  BY <1>4, InOrderIs
<1>6. ASSUME NEW d \in Devices, Ask(d) PROVE DeviceInOrder'
  <2> DEFINE k == device[d]
  <2>1. d \in Paired /\ k.at = "idle" /\ acks' = acks /\ status' = status
    BY <1>6 DEF Ask
  <2>2. k.page = {} /\ k.next = 0 /\ k.cursor <= acks[d] /\ k.cursor \in Nat /\ acks[d] \in Nat
    BY <1>0, <2>1
  <2>3. CASE HeadSeq < k.cursor /\ Becomes(d, HeadSeq, k.copy, k.at, k.page, k.next)
    <3>1. HeadSeq \in Nat
      BY HeadIs
    <3>2. HeadSeq <= acks'[d]
      BY <2>1, <2>2, <2>3, <3>1
    <3>3. /\ k.at \in {"idle", "acked"} => k.page = {}
          /\ k.at = "idle" => k.next = 0
          /\ k.at = "acked" => k.next <= acks'[d]
          /\ \A x, y \in k.page : x.seq = y.seq => x = y
      BY <2>1, <2>2
    <3> HIDE DEF k
    <3> QED BY <2>1, <2>3, <3>2, <3>3, BecomesOrder
  <2>4. ASSUME NEW page, page = Page(UserOf[d], k.cursor),
               Becomes(d, k.cursor, k.copy, "asked", page, LastOf(page).seq)
        PROVE  DeviceInOrder'
    <3>1. \A x, y \in page : x.seq = y.seq => x = y
      BY <2>2, <2>4, PageIs
    <3>2. k.cursor <= acks'[d]
      BY <2>1, <2>2
    <3> HIDE DEF k
    <3> QED BY <2>1, <2>4, <3>1, <3>2, BecomesOrder
  <2> QED BY <1>6, <2>3, <2>4, DeviceShape
<1>7. ASSUME NEW d \in Devices, Answer(d) PROVE DeviceInOrder'
  <2> DEFINE k == device[d]
             page == {Masked(d, ch) : ch \in k.page}
  <2>1. k.at = "asked" /\ acks' = acks /\ status' = status
    BY <1>7 DEF Answer
  <2>2. d \in Paired /\ k.cursor <= acks'[d]
    BY <1>0, <2>1
  <2>3. \A x, y \in page : x.seq = y.seq => x = y
    BY <1>0, MaskedIs
  <2>4. Becomes(d, k.cursor, k.copy, "apply", page, k.next)
    BY <1>7, DeviceShape
  <2> HIDE DEF k, page
  <2> QED BY <2>1, <2>2, <2>3, <2>4, BecomesOrder
<1>8. ASSUME NEW d \in Devices, ApplyChange(d) PROVE DeviceInOrder'
  <2> DEFINE k == device[d]
             ch == FirstOf(k.page)
             copy == [k.copy EXCEPT ![ch.obj] = Applied(@, ch)]
  <2>1. k.at = "apply" /\ acks' = acks /\ status' = status
    BY <1>8 DEF ApplyChange
  <2>2. d \in Paired /\ k.cursor <= acks'[d]
    BY <1>0, <2>1
  <2>3. \A x, y \in k.page \ {ch} : x.seq = y.seq => x = y
    BY <1>0
  <2>4. Becomes(d, k.cursor, copy, k.at, k.page \ {ch}, k.next)
    BY <1>8, DeviceShape
  <2>5. /\ k.at \in {"idle", "acked"} => k.page \ {ch} = {}
        /\ k.at = "idle" => k.next = 0
        /\ k.at = "acked" => k.next <= acks'[d]
    BY <2>1
  <2> HIDE DEF k, ch, copy
  <2> QED BY <2>1, <2>2, <2>3, <2>4, <2>5, BecomesOrder
<1>9. ASSUME NEW d \in Devices, AckServer(d) PROVE DeviceInOrder'
  <2> DEFINE k == device[d]
  <2>1. /\ k.at = "apply" /\ k.page = {} /\ status' = status
        /\ acks' = [acks EXCEPT ![d] = IF k.next < @ THEN @ ELSE k.next]
    BY <1>9 DEF AckServer
  <2>2. d \in Paired /\ k.cursor <= acks[d] /\ k.cursor \in Nat /\ acks[d] \in Nat /\ k.next \in Nat
    BY <1>0, <2>1
  <2>3. /\ acks' = acks \/ acks' = [acks EXCEPT ![d] = k.next]
        /\ k.cursor <= acks'[d] /\ k.next <= acks'[d]
    <3>1. CASE k.next < acks[d]
      <4>1. acks' = acks
        BY <1>1, <2>1, <3>1
      <4> QED BY <2>2, <3>1, <4>1
    <3>2. CASE ~(k.next < acks[d])
      <4>1. acks' = [acks EXCEPT ![d] = k.next] /\ acks'[d] = k.next
        BY <1>1, <2>1, <3>2
      <4> QED BY <2>2, <3>2, <4>1
    <3> QED BY <3>1, <3>2
  <2>4. Becomes(d, k.cursor, k.copy, "acked", k.page, k.next)
    BY <1>9, DeviceShape
  <2>5. /\ \A x, y \in k.page : x.seq = y.seq => x = y
        /\ "acked" = "idle" => k.next = 0
        /\ "acked" \in {"idle", "acked"} => k.page = {}
    BY <2>1
  <2> HIDE DEF k
  <2> QED BY <2>1, <2>2, <2>3, <2>4, <2>5, BecomesOrder, ZenonT(40)
<1>10. ASSUME NEW d \in Devices, AckRefused(d) \/ SaveCursor(d) PROVE DeviceInOrder'
  <2> DEFINE k == device[d]
  <2>1. acks' = acks /\ status' = status /\ k.page = {} /\ d \in Paired
    BY <1>0, <1>10 DEF AckRefused, SaveCursor
  <2>2. PICK cursor : Becomes(d, cursor, k.copy, "idle", k.page, 0) /\ cursor <= acks'[d]
    <3>1. CASE AckRefused(d)
      BY <1>0, <2>1, <3>1, DeviceShape
    <3>2. CASE SaveCursor(d)
      <4>1. k.next <= acks[d]
        BY <1>0, <3>2 DEF SaveCursor
      <4> QED BY <2>1, <3>2, <4>1, DeviceShape
    <3> QED BY <1>10, <3>1, <3>2
  <2>3. \A x, y \in k.page : x.seq = y.seq => x = y
    BY <2>1
  <2> HIDE DEF k
  <2> QED BY <2>1, <2>2, <2>3, BecomesOrder
<1>11. ASSUME NEW d \in Devices, Lose(d) \/ Revoke(d) PROVE DeviceInOrder'
  <2> DEFINE k == device[d]
  <2>1. acks' = acks /\ d \in Paired
        /\ (status' = status \/ status' = [status EXCEPT ![d] = "revoked"])
    BY <1>0, <1>11 DEF Lose, Revoke
  <2>2. k.cursor <= acks'[d]
    BY <1>0, <2>1
  <2>3. Becomes(d, k.cursor, k.copy, "idle", {}, 0)
    BY <1>11, DeviceShape
  <2>4. /\ status' = status \/ (status' = [status EXCEPT ![d] = "revoked"] /\ "idle" = "idle")
        /\ \A x, y \in {} : x.seq = y.seq => x = y
    BY <2>1
  <2> HIDE DEF k
  <2> QED BY <2>1, <2>2, <2>3, <2>4, BecomesOrder
<1>12. ASSUME NEW d \in Devices, Pair(d) PROVE DeviceInOrder'
  <2>1. /\ status[d] = "unpaired" /\ status' = [status EXCEPT ![d] = "paired"]
        /\ acks' = acks /\ device' = device
    BY <1>12 DEF Pair
  <2>2. \A e \in Devices : InOrder(device'[e], acks'[e], status'[e])
    BY <1>1, <2>1, InOrderIs DEF InOrder
  <2> QED BY <2>2, InOrderIs
<1> QED
  BY <1>4, <1>6, <1>7, <1>8, <1>9, <1>10, <1>11, <1>12
  DEF Next, Create, Update, Delete, Insert, Tombstone, GcCursors, GcTombstones, DeleteTombstones, vars

-----------------------------------------------------------------------------
(* The data of copies and changes.                                         *)

\* DataAllowed of a copy, and of a page, of device d.
CopyData(d, copy) ==
  \A o \in Objects : copy[o] # None =>
    /\ copy[o].row <= copy[o].data
    /\ objects[o] # None => copy[o].data <= objects[o].last
    /\ \A j \in journal : j.obj = o /\ j.seq = copy[o].data => MayRead(d, j.col)

PageData(d, page, at) ==
  \A ch \in page :
    /\ ch.seq <= ch.data /\ MayRead(d, ch.col)
    /\ objects[ch.obj] # None => ch.data <= objects[ch.obj].last
    /\ ~ch.gone =>
         /\ \A j \in journal : j.obj = ch.obj /\ j.seq = ch.data => j.col = ch.cur
         /\ at = "apply" => MayRead(d, ch.cur)

\* DataAllowed, device by device.
LEMMA DataIs ==
  DataAllowed => /\ readers \subseteq Shares
                 /\ \A d \in Devices : /\ CopyData(d, device[d].copy)
                                       /\ PageData(d, device[d].page, device[d].at)
BY DEF DataAllowed, CopyData, PageData

\* A step of a device that leaves it with allowed data.
LEMMA BecomesData ==
  ASSUME TypeOK, DataAllowed, NEW d \in Devices, NEW cursor, NEW copy, NEW at, NEW page, NEW next,
         Becomes(d, cursor, copy, at, page, next), UNCHANGED <<objects, journal, readers>>,
         CopyData(d, copy), PageData(d, page, at)
  PROVE  DataAllowed'
<1>1. /\ device'[d].copy = copy /\ device'[d].page = page /\ device'[d].at = at
      /\ \A e \in Devices : e # d => device'[e] = device[e]
  BY Became
<1>2. \A e \in Devices : CopyData(e, device'[e].copy) /\ PageData(e, device'[e].page, device'[e].at)
  BY <1>1, DataIs
<1> QED BY <1>2, DataIs DEF DataAllowed, CopyData, PageData, MayRead

\* What the user of d can read is what they might read.
LEMMA ReadableIs ==
  ASSUME DataAllowed, NEW d, NEW c, Readable(UserOf[d], c)
  PROVE  MayRead(d, c)
BY DEF DataAllowed, Readable, MayRead

\* Every step keeps the data on devices to what is allowed.
LEMMA DataStep == TypeOK /\ JournalRows /\ DeviceInOrder /\ DataAllowed /\ [Next]_vars => DataAllowed'
<1> SUFFICES ASSUME TypeOK, JournalRows, DeviceInOrder, DataAllowed, [Next]_vars PROVE DataAllowed'
  OBVIOUS
<1>0. /\ objects \in [Objects -> ObjectRow \cup {None}] /\ lastSeq \in Nat
      /\ \A o \in Objects : objects[o] # None => objects[o] \in ObjectRow
      /\ \A j \in journal : j.seq <= lastSeq /\ j.seq \in Nat /\ j.obj \in Objects
      /\ \A d \in Devices :
           /\ device[d].cursor \in Nat /\ device[d].page \in SUBSET Change
           /\ device[d].copy \in [Objects -> Copy \cup {None}]
           /\ \A ch \in device[d].page : ch.obj \in Objects /\ ch.data \in Nat /\ ch.data <= lastSeq
           /\ \A o \in Objects : device[d].copy[o] # None =>
                device[d].copy[o].data \in Nat /\ device[d].copy[o].data <= lastSeq
  BY FeedAssumption DEF TypeOK, NothingAhead, Change, Copy, JournalRow
<1>1. ASSUME NEW o \in Objects, NEW new \in ObjectRow, NEW op, Writes(o, new, op) PROVE DataAllowed'
  <2> DEFINE row == [seq |-> lastSeq + 1, obj |-> o, col |-> new.col, op |-> op]
  <2>1. journal' = journal \cup {row} /\ readers' = readers /\ device' = device
    BY <1>1 DEF Writes
  <2>2. /\ objects'[o] = new /\ new.last = lastSeq + 1
        /\ \A p \in Objects : p # o => objects'[p] = objects[p]
    BY <1>1, WritesObjects
  <2>3. row.seq = lastSeq + 1
    OBVIOUS
  <2> HIDE DEF row
  <2>4. \A n \in Nat, p \in Objects : n <= lastSeq =>
          /\ (objects[p] # None => n <= objects[p].last) => (objects'[p] # None => n <= objects'[p].last)
          /\ \A j \in journal' : j.seq = n => j \in journal
    BY <1>0, <2>1, <2>2, <2>3
  <2>5. ASSUME NEW d \in Devices, NEW p \in Objects, device[d].copy[p] # None
        PROVE  /\ device[d].copy[p].row <= device[d].copy[p].data
               /\ objects'[p] # None => device[d].copy[p].data <= objects'[p].last
               /\ \A j \in journal' : j.obj = p /\ j.seq = device[d].copy[p].data => MayRead(d, j.col)
    BY <1>0, <2>4, <2>5 DEF DataAllowed
  <2>6. ASSUME NEW d \in Devices, NEW ch \in device[d].page
        PROVE  /\ ch.seq <= ch.data /\ MayRead(d, ch.col)
               /\ objects'[ch.obj] # None => ch.data <= objects'[ch.obj].last
               /\ ~ch.gone =>
                    /\ \A j \in journal' : j.obj = ch.obj /\ j.seq = ch.data => j.col = ch.cur
                    /\ device[d].at = "apply" => MayRead(d, ch.cur)
    BY <1>0, <2>4 DEF DataAllowed
  <2> QED BY <2>1, <2>5, <2>6 DEF DataAllowed, MayRead
<1>2. CASE DeleteTombstones
  <2>1. /\ journal' \subseteq journal /\ readers' = readers /\ device' = device
        /\ \A o \in Objects : objects'[o] # None => objects'[o] = objects[o]
    BY <1>0, <1>2 DEF DeleteTombstones
  <2> QED BY <1>0, <2>1 DEF DataAllowed, MayRead
<1>3. ASSUME NEW c \in Collections, Tombstone(c) PROVE DataAllowed'
  <2>1. UNCHANGED <<objects, journal, device>> /\ readers' \subseteq readers
    BY <1>3 DEF Tombstone
  <2> QED BY <2>1 DEF DataAllowed, MayRead
<1>4. CASE UNCHANGED <<objects, journal, readers, device>>
  BY <1>4 DEF DataAllowed, MayRead
<1>5. ASSUME NEW d \in Devices PROVE CopyData(d, device[d].copy) /\ PageData(d, device[d].page, device[d].at)
  BY DataIs
<1>6. ASSUME NEW d \in Devices, Ask(d) PROVE DataAllowed'
  <2>1. UNCHANGED <<objects, journal, readers>>
    BY <1>6 DEF Ask, server
  <2>2. CASE Becomes(d, HeadSeq, device[d].copy, device[d].at, device[d].page, device[d].next)
    BY <1>5, <2>1, <2>2, BecomesData
  <2>3. ASSUME NEW page, page = Page(UserOf[d], device[d].cursor),
               Becomes(d, device[d].cursor, device[d].copy, "asked", page, LastOf(page).seq)
        PROVE  DataAllowed'
    <3>1. ASSUME NEW ch \in page
          PROVE  /\ ch.seq <= ch.data /\ MayRead(d, ch.col)
                 /\ objects[ch.obj] # None => ch.data <= objects[ch.obj].last
                 /\ \A j \in journal : j.obj = ch.obj /\ j.seq = ch.data => j.col = ch.cur
      <4>1. PICK j \in Beyond(UserOf[d], device[d].cursor) : ch = Sent(j)
        BY <1>0, <2>3, PageIs
      <4>2. j \in journal /\ Readable(UserOf[d], j.col)
        BY <4>1 DEF Beyond, Shown
      <4>3. /\ ch.seq = j.seq /\ ch.obj = j.obj /\ ch.col = j.col
            /\ ch.cur = objects[j.obj].col /\ ch.data = objects[j.obj].last
        BY <4>1 DEF Sent
      <4>4. j.obj \in Objects /\ objects[j.obj] \in ObjectRow /\ j.seq <= objects[j.obj].last
        BY <1>0, <4>2 DEF JournalRows
      <4>5. MayRead(d, j.col)
        BY <4>2, ReadableIs
      <4>6. \A k \in journal : k.obj = j.obj /\ k.seq = objects[j.obj].last => k.col = objects[j.obj].col
        BY <4>2, <4>4 DEF JournalRows
      <4>7. objects[j.obj].last <= objects[j.obj].last
        BY <4>4 DEF ObjectRow
      <4> QED BY <4>3, <4>4, <4>5, <4>6, <4>7
    <3>2. PageData(d, page, "asked")
      BY <3>1 DEF PageData
    <3> QED BY <1>5, <2>1, <2>3, <3>2, BecomesData
  <2> QED BY <1>6, <2>2, <2>3, DeviceShape
<1>7. ASSUME NEW d \in Devices, Answer(d) PROVE DataAllowed'
  <2> DEFINE page == {Masked(d, ch) : ch \in device[d].page}
  <2>1. UNCHANGED <<objects, journal, readers>>
    BY <1>7 DEF Answer, server
  <2>2. Becomes(d, device[d].cursor, device[d].copy, "apply", page, device[d].next)
    BY <1>7, DeviceShape
  <2>3. ASSUME NEW ch \in device[d].page
        PROVE  LET m == Masked(d, ch) IN
               /\ m.seq <= m.data /\ MayRead(d, m.col)
               /\ objects[m.obj] # None => m.data <= objects[m.obj].last
               /\ ~m.gone =>
                    /\ \A j \in journal : j.obj = m.obj /\ j.seq = m.data => j.col = m.cur
                    /\ MayRead(d, m.cur)
    <3> DEFINE m == Masked(d, ch)
    <3>1. /\ m.seq = ch.seq /\ m.obj = ch.obj /\ m.col = ch.col /\ m.data = ch.data
          /\ ~m.gone => ~ch.gone /\ m = ch /\ (ch.cur = ch.col \/ Readable(UserOf[d], ch.cur))
      BY <1>0, <2>3, MaskedIs
    <3> HIDE DEF m
    <3>2. /\ ch.seq <= ch.data /\ MayRead(d, ch.col)
          /\ objects[ch.obj] # None => ch.data <= objects[ch.obj].last
          /\ ~ch.gone => \A j \in journal : j.obj = ch.obj /\ j.seq = ch.data => j.col = ch.cur
      BY <2>3, <1>5 DEF PageData
    <3>3. ~m.gone => MayRead(d, ch.cur)
      BY <3>1, <3>2, ReadableIs
    <3>4. /\ m.seq <= m.data /\ MayRead(d, m.col)
          /\ objects[m.obj] # None => m.data <= objects[m.obj].last
      BY <3>1, <3>2
    <3>5. ~m.gone => /\ \A j \in journal : j.obj = m.obj /\ j.seq = m.data => j.col = m.cur
                     /\ MayRead(d, m.cur)
      BY <3>1, <3>2, <3>3
    <3> QED BY <3>4, <3>5 DEF m
  <2>4. PageData(d, page, "apply")
    BY <2>3 DEF PageData
  <2> HIDE DEF page
  <2> QED BY <1>5, <2>1, <2>2, <2>4, BecomesData
<1>8. ASSUME NEW d \in Devices, ApplyChange(d) PROVE DataAllowed'
  <2> DEFINE k == device[d]
             ch == FirstOf(k.page)
             copy == [k.copy EXCEPT ![ch.obj] = Applied(@, ch)]
  <2>1. UNCHANGED <<objects, journal, readers>> /\ k.at = "apply" /\ k.page # {}
    BY <1>8 DEF ApplyChange, server
  <2>2. Becomes(d, k.cursor, copy, k.at, k.page \ {ch}, k.next)
    BY <1>8, DeviceShape
  <2>3. ch \in k.page /\ ch \in Change /\ ch.obj \in Objects
    <3>1. k.page \in SUBSET Change /\ lastSeq \in Nat /\ \A x \in k.page : x.seq <= lastSeq
      BY <1>0 DEF TypeOK, NothingAhead
    <3> QED BY <1>0, <2>1, <3>1, FirstAndLast
  <2>4. /\ k.copy \in [Objects -> Copy \cup {None}]
        /\ CopyData(d, k.copy) /\ PageData(d, k.page, "apply") /\ PageData(d, k.page, k.at)
    BY <1>0, <1>5, <2>1
  <2> HIDE DEF k, ch
  <2>5. PageData(d, k.page \ {ch}, k.at)
    BY <2>4 DEF PageData
  <2>6. CopyData(d, copy)
    <3>1. /\ copy[ch.obj] = Applied(k.copy[ch.obj], ch)
          /\ \A o \in Objects : o # ch.obj => copy[o] = k.copy[o]
      BY <2>3, <2>4
    <3>2. /\ ch.gone => copy[ch.obj] = None
          /\ ~ch.gone => \/ copy[ch.obj] = k.copy[ch.obj]
                         \/ copy[ch.obj] = [row |-> ch.seq, data |-> ch.data]
      BY <2>3, <2>4, <3>1, AppliedIs
    <3>3. ~ch.gone => /\ ch.seq <= ch.data /\ MayRead(d, ch.cur)
                      /\ objects[ch.obj] # None => ch.data <= objects[ch.obj].last
                      /\ \A j \in journal : j.obj = ch.obj /\ j.seq = ch.data => j.col = ch.cur
      BY <2>3, <2>4 DEF PageData
    <3> HIDE DEF copy
    <3>4. ASSUME NEW o \in Objects, copy[o] # None, copy[o] = k.copy[o]
          PROVE  /\ copy[o].row <= copy[o].data
                 /\ objects[o] # None => copy[o].data <= objects[o].last
                 /\ \A j \in journal : j.obj = o /\ j.seq = copy[o].data => MayRead(d, j.col)
      BY <2>4, <3>4 DEF CopyData
    <3>5. ASSUME copy[ch.obj] = [row |-> ch.seq, data |-> ch.data], ~ch.gone
          PROVE  /\ copy[ch.obj].row <= copy[ch.obj].data
                 /\ objects[ch.obj] # None => copy[ch.obj].data <= objects[ch.obj].last
                 /\ \A j \in journal : j.obj = ch.obj /\ j.seq = copy[ch.obj].data => MayRead(d, j.col)
      BY <3>3, <3>5
    <3> QED BY <3>1, <3>2, <3>4, <3>5 DEF CopyData
  <2> HIDE DEF copy
  <2> QED BY <2>1, <2>2, <2>5, <2>6, BecomesData
<1>9. ASSUME NEW d \in Devices, AckServer(d) \/ AckRefused(d) \/ SaveCursor(d) \/ Lose(d) \/ Revoke(d)
      PROVE  DataAllowed'
  <2>1. UNCHANGED <<objects, journal, readers>>
    BY <1>9 DEF AckServer, AckRefused, SaveCursor, Lose, Revoke, server
  <2>2. PICK cursor, at, next : Becomes(d, cursor, device[d].copy, at, {}, next)
    <3>1. AckServer(d) \/ AckRefused(d) \/ SaveCursor(d) => device[d].page = {}
      BY DEF AckServer, AckRefused, SaveCursor, DeviceInOrder
    <3> QED BY <1>9, <3>1, DeviceShape
  <2>3. PageData(d, {}, at)
    BY DEF PageData
  <2> QED BY <1>5, <2>1, <2>2, <2>3, BecomesData
<1> QED
  <2>1. ASSUME NEW d \in Devices, Pair(d) PROVE DataAllowed'
    BY <1>4, <2>1 DEF Pair, server
  <2>2. CASE GcCursors \/ GcTombstones \/ UNCHANGED vars
    BY <1>4, <2>2 DEF GcCursors, GcTombstones, server, vars
  <2>3. CASE \E o \in Objects, c \in Collections : Create(o, c) \/ Update(o, c)
    BY <1>1, <2>3, WriteShape
  <2>4. ASSUME NEW o \in Objects, Delete(o) PROVE DataAllowed'
    <3>1. PICK c \in Collections : TRUE
      BY <1>0, <2>4 DEF Delete, ObjectRow
    <3> QED BY <1>1, <2>4, <3>1, WriteShape
  <2> QED BY <1>2, <1>3, <1>6, <1>7, <1>8, <1>9, <2>1, <2>2, <2>3, <2>4 DEF Next

-----------------------------------------------------------------------------
(* The devices of the owner follow the journal.                            *)

\* OwnersFollow of one object, cursor row and device.
Follows(o, a, cursor, copy, page, next) ==
  /\ objects[o] = None \/ Dead(o, a) => copy[o] = None /\ \A ch \in page : ch.obj = o => ch.gone
  /\ Dead(o, next) => /\ \A ch \in page : ch.obj = o => ch.gone
                      /\ copy[o] = None \/ \E ch \in page : ch.obj = o
  /\ Alive(o, cursor) =>
       /\ copy[o] = [row |-> objects[o].last, data |-> objects[o].last]
       /\ \A ch \in page : ch.obj # o
  /\ Alive(o, next) =>
       \/ /\ copy[o] = [row |-> objects[o].last, data |-> objects[o].last]
          /\ \A ch \in page : ch.obj # o
       \/ \E ch \in page : /\ ch.obj = o /\ ~ch.gone
                           /\ ch.seq = objects[o].last /\ ch.data = objects[o].last

\* OwnersFollow, object by object.
LEMMA FollowsIs ==
  OwnersFollow <=> \A d \in Owners, o \in Objects :
    Follows(o, acks[d], device[d].cursor, device[d].copy, device[d].page, device[d].next)
BY DEF OwnersFollow, Follows, Without, AllGone, InPage, HasLatest

\* A device that follows after the step of one.
LEMMA BecomesFollows ==
  ASSUME TypeOK, OwnersFollow, NEW d \in Devices, NEW cursor, NEW copy, NEW at, NEW page, NEW next,
         Becomes(d, cursor, copy, at, page, next), objects' = objects,
         \A e \in Devices : e # d => acks'[e] = acks[e],
         Owners' \subseteq Owners,
         d \in Owners => \A o \in Objects : Follows(o, acks'[d], cursor, copy, page, next)
  PROVE  OwnersFollow'
<1>1. /\ device'[d].cursor = cursor /\ device'[d].copy = copy
      /\ device'[d].page = page /\ device'[d].next = next
      /\ \A e \in Devices : e # d => device'[e] = device[e]
  BY Became
<1>2. ASSUME NEW e \in Owners', NEW o \in Objects
      PROVE  Follows(o, acks'[e], device'[e].cursor, device'[e].copy, device'[e].page, device'[e].next)
  <2>1. e \in Owners /\ e \in Devices
    BY <1>2 DEF Owners, Paired
  <2>2. CASE e = d
    BY <1>1, <2>1, <2>2
  <2>3. CASE e # d
    BY <1>1, <2>1, <2>3, FollowsIs
  <2> QED BY <2>2, <2>3
<1> QED
  BY <1>2 DEF OwnersFollow, Follows, Without, AllGone, InPage, HasLatest, Alive, Dead

\* What the owner's device asks for is all there is beyond its cursor, in order.
LEMMA OwnersBeyond ==
  ASSUME TypeOK, NEW d \in Owners, NEW since
  PROVE  Beyond(UserOf[d], since) = {j \in journal : j.seq > since}
BY DEF Beyond, Shown, Readable, Owners, TypeOK, JournalRow

\* An owner's device that takes an answer follows the journal up to its end.
LEMMA AskFollows ==
  ASSUME TypeOK, JournalRows, DeviceInOrder, OwnersFollow, NEW d \in Owners, NEW page,
         device[d].at = "idle", page = Page(UserOf[d], device[d].cursor), page # {}, NEW o \in Objects
  PROVE  Follows(o, acks[d], device[d].cursor, device[d].copy, page, LastOf(page).seq)
<1> DEFINE k == device[d]
           last == LastOf(page).seq
<1>1. /\ d \in Devices /\ k.cursor \in Nat /\ lastSeq \in Nat /\ acks[d] \in Nat
      /\ objects[o] # None => objects[o] \in ObjectRow
      /\ k.page = {} /\ k.cursor <= acks[d]
      /\ \A j \in journal : j.seq \in Nat /\ j.seq <= lastSeq
  BY FeedAssumption DEF Owners, Paired, TypeOK, DeviceInOrder, NothingAhead, JournalRow
<1>2. Follows(o, acks[d], k.cursor, k.copy, k.page, k.next)
  BY FollowsIs
<1>3. /\ page \in SUBSET Change
      /\ \A ch \in page : \E j \in Beyond(UserOf[d], k.cursor) : ch = Sent(j)
      /\ \A ch \in page, j \in Beyond(UserOf[d], k.cursor) : j.seq <= ch.seq => Sent(j) \in page
  BY <1>1, PageIs
<1>4. ASSUME NEW ch \in page
      PROVE  \E j \in journal : /\ j.seq > k.cursor /\ ch.obj = j.obj /\ ch.seq = j.seq
                                /\ ch.gone = (j.op = "delete" \/ objects[j.obj].deleted)
                                /\ objects[j.obj] # None /\ j.seq <= objects[j.obj].last
  <2>1. PICK j \in Beyond(UserOf[d], k.cursor) : ch = Sent(j)
    BY <1>3
  <2>2. j \in journal /\ j.seq > k.cursor
    BY <2>1 DEF Beyond, Shown
  <2> QED BY <2>1, <2>2 DEF Sent, JournalRows
<1>5. last \in Nat /\ LastOf(page) \in page /\ \A ch \in page : ch.seq <= last
  <2>1. \A ch \in page : ch.seq <= lastSeq
    BY <1>1, <1>4
  <2> QED BY <1>1, <1>3, <2>1, FirstAndLast DEF Change
<1>6. ASSUME objects[o] # None, objects[o].last <= last, ~(objects[o].last <= k.cursor)
      PROVE  \E ch \in page : /\ ch.obj = o /\ ch.seq = objects[o].last /\ ch.data = objects[o].last
                              /\ ch.gone <=> objects[o].deleted
  <2>1. PICK j \in journal : /\ j.obj = o /\ j.seq = objects[o].last
                             /\ j.op = "delete" <=> objects[o].deleted
    BY <1>6 DEF JournalRows
  <2>2. j \in Beyond(UserOf[d], k.cursor)
    BY <1>1, <1>6, <2>1, OwnersBeyond
  <2>3. Sent(j) \in page
    BY <1>3, <1>5, <1>6, <2>1, <2>2
  <2> QED BY <2>1, <2>3 DEF Sent
<1> HIDE DEF k, last
<1>7. ASSUME objects[o] = None \/ objects[o].deleted, NEW ch \in page, ch.obj = o PROVE ch.gone
  BY <1>4, <1>7
<1>8. objects[o] = None \/ Dead(o, acks[d]) => k.copy[o] = None
  BY <1>2 DEF Follows
<1>9. ASSUME Dead(o, last), k.copy[o] # None PROVE \E ch \in page : ch.obj = o
  <2>1. objects[o] # None /\ objects[o].deleted /\ objects[o].last <= last /\ objects[o].last \in Nat
    BY <1>1, <1>9 DEF Dead, ObjectRow
  <2>2. ~(objects[o].last <= k.cursor)
    BY <1>1, <1>8, <1>9, <2>1 DEF Dead
  <2> QED BY <1>6, <2>1, <2>2
<1>10. Alive(o, k.cursor) =>
         /\ k.copy[o] = [row |-> objects[o].last, data |-> objects[o].last]
         /\ \A ch \in page : ch.obj # o
  <2>1. ASSUME Alive(o, k.cursor), NEW ch \in page, ch.obj = o PROVE FALSE
    <3>1. objects[o].last \in Nat /\ objects[o].last <= k.cursor
      BY <1>1, <2>1 DEF Alive, ObjectRow
    <3> QED BY <1>1, <1>4, <2>1, <3>1
  <2> QED BY <1>2, <2>1 DEF Follows
<1>11. ASSUME Alive(o, last)
       PROVE  \/ /\ k.copy[o] = [row |-> objects[o].last, data |-> objects[o].last]
                 /\ \A ch \in page : ch.obj # o
              \/ \E ch \in page : /\ ch.obj = o /\ ~ch.gone
                                  /\ ch.seq = objects[o].last /\ ch.data = objects[o].last
  BY <1>6, <1>10, <1>11 DEF Alive
<1>12. Follows(o, acks[d], k.cursor, k.copy, page, last)
  BY <1>7, <1>8, <1>9, <1>10, <1>11 DEF Follows, Dead
<1> QED BY <1>12 DEF k, last

\* An owner's device that applies a change follows the journal as before.
LEMMA ApplyFollows ==
  ASSUME TypeOK, DeviceInOrder, DataAllowed, OwnersFollow, NEW d \in Owners, NEW ch, NEW copy,
         device[d].page # {}, ch = FirstOf(device[d].page),
         copy = [device[d].copy EXCEPT ![ch.obj] = Applied(@, ch)], NEW o \in Objects
  PROVE  Follows(o, acks[d], device[d].cursor, copy, device[d].page \ {ch}, device[d].next)
<1> DEFINE k == device[d]
<1>1. /\ d \in Devices /\ k.page \in SUBSET Change /\ k.copy \in [Objects -> Copy \cup {None}]
      /\ lastSeq \in Nat /\ \A x \in k.page : x.seq <= lastSeq
      /\ objects[o] # None => objects[o] \in ObjectRow
      /\ \A x, y \in k.page : x.seq = y.seq => x = y
  BY FeedAssumption DEF Owners, Paired, TypeOK, DeviceInOrder, NothingAhead
<1>2. Follows(o, acks[d], k.cursor, k.copy, k.page, k.next)
  BY FollowsIs
<1>3. ch \in k.page /\ ch \in Change /\ ch.obj \in Objects /\ \A x \in k.page : ch.seq <= x.seq
  <2>1. ch \in k.page /\ \A x \in k.page : ch.seq <= x.seq
    BY <1>1, FirstAndLast
  <2> QED BY <1>1, <2>1 DEF Change
<1>4. CASE o # ch.obj
  <2>1. copy[o] = k.copy[o] /\ \A x \in k.page : x.obj = o => x \in k.page \ {ch}
    BY <1>1, <1>3, <1>4
  <2> DEFINE rest == k.page \ {ch}
  <2>2. rest \subseteq k.page /\ \A x \in k.page : x.obj = o => x \in rest
    BY <2>1
  <2> HIDE DEF k, rest
  <2>3. Follows(o, acks[d], k.cursor, copy, rest, k.next)
    BY <1>2, <2>1, <2>2 DEF Follows
  <2> QED BY <2>3 DEF k, rest
<1>5. CASE o = ch.obj
  <2>1. copy[o] = Applied(k.copy[o], ch) /\ k.copy[o] \in Copy \cup {None}
    BY <1>1, <1>3, <1>5
  <2>2. /\ ch.gone => copy[o] = None
        /\ ~ch.gone => \/ copy[o] = k.copy[o] /\ k.copy[o] # None /\ k.copy[o].row = ch.seq
                       \/ copy[o] = [row |-> ch.seq, data |-> ch.data]
    BY <1>3, <2>1, AppliedIs
  <2>3. ASSUME objects[o] # None, ~ch.gone, ch.seq = objects[o].last, ch.data = objects[o].last
        PROVE  /\ copy[o] = [row |-> objects[o].last, data |-> objects[o].last]
               /\ \A x \in k.page \ {ch} : x.obj # o
    <3>3. ASSUME NEW x \in k.page \ {ch}, x.obj = o PROVE FALSE
      <4>1. x.seq <= x.data /\ x.data <= objects[o].last
        BY <1>1, <2>3, <3>3 DEF DataAllowed
      <4>2. ch.seq <= x.seq /\ x \in Change /\ objects[o].last \in Nat
        BY <1>1, <1>3, <2>3 DEF ObjectRow
      <4>3. x.seq = ch.seq
        BY <2>3, <4>1, <4>2 DEF Change
      <4> QED BY <1>1, <1>3, <3>3, <4>3
    <3>1. CASE copy[o] = k.copy[o] /\ k.copy[o] # None /\ k.copy[o].row = ch.seq
      <4>1. k.copy[o].row <= k.copy[o].data /\ k.copy[o].data <= objects[o].last
        BY <1>1, <2>3, <3>1 DEF DataAllowed
      <4>2. k.copy[o] \in Copy /\ objects[o].last \in Nat
        BY <1>1, <2>1, <2>3, <3>1 DEF ObjectRow
      <4>3. k.copy[o].data = objects[o].last
        BY <2>3, <3>1, <4>1, <4>2 DEF Copy
      <4>4. k.copy[o] = [row |-> k.copy[o].row, data |-> k.copy[o].data]
        BY <4>2 DEF Copy
      <4>5. copy[o] = [row |-> objects[o].last, data |-> objects[o].last]
        BY <2>3, <3>1, <4>3, <4>4
      <4> QED BY <3>3, <4>5
    <3>2. CASE copy[o] = [row |-> ch.seq, data |-> ch.data]
      BY <2>3, <3>2, <3>3
    <3> QED BY <2>2, <2>3, <3>1, <3>2, <3>3
  <2>4. Alive(o, k.cursor) => FALSE
    BY <1>2, <1>3, <1>5 DEF Follows
  <2>5. objects[o] = None \/ Dead(o, acks[d]) \/ Dead(o, k.next) =>
          copy[o] = None /\ \A x \in k.page \ {ch} : x.obj = o => x.gone
    BY <1>2, <1>3, <1>5, <2>2 DEF Follows
  <2>6. ASSUME Alive(o, k.next)
        PROVE  \/ /\ copy[o] = [row |-> objects[o].last, data |-> objects[o].last]
                  /\ \A x \in k.page \ {ch} : x.obj # o
               \/ \E x \in k.page \ {ch} : /\ x.obj = o /\ ~x.gone
                                           /\ x.seq = objects[o].last /\ x.data = objects[o].last
    <3>1. PICK x \in k.page : /\ x.obj = o /\ ~x.gone
                              /\ x.seq = objects[o].last /\ x.data = objects[o].last
      BY <1>2, <1>3, <1>5, <2>6 DEF Follows
    <3>2. objects[o] # None
      BY <2>6 DEF Alive
    <3> QED BY <2>3, <3>1, <3>2
  <2> HIDE DEF k
  <2>7. Follows(o, acks[d], k.cursor, copy, k.page \ {ch}, k.next)
    BY <2>4, <2>5, <2>6 DEF Follows
  <2> QED BY <2>7 DEF k
<1> QED BY <1>4, <1>5

\* Every step keeps every owner's device behind the journal.
LEMMA FollowStep ==
  ASSUME TypeOK, JournalRows, DeviceInOrder, DataAllowed, OwnersFollow, GcSound, [Next]_vars
  PROVE  OwnersFollow'
<1>0. /\ objects \in [Objects -> ObjectRow \cup {None}] /\ lastSeq \in Nat
      /\ \A o \in Objects : objects[o] # None => objects[o] \in ObjectRow /\ objects[o].last \in Nat \ {0}
      /\ acks \in [Devices -> Nat]
      /\ \A d \in Devices :
           /\ device[d].cursor \in Nat /\ device[d].page \in SUBSET Change /\ device[d].next \in Nat
           /\ device[d].cursor <= lastSeq /\ device[d].next <= lastSeq
           /\ acks[d] \in Nat /\ acks[d] <= lastSeq
      /\ \A d \in Owners : d \in Devices
  BY FeedAssumption DEF TypeOK, NothingAhead, ObjectRow, Owners, Paired
<1>1. ASSUME NEW o \in Objects, NEW new \in ObjectRow, NEW op, Writes(o, new, op) PROVE OwnersFollow'
  <2>1. /\ acks' = acks /\ device' = device /\ Owners' = Owners
    BY <1>1 DEF Writes, Owners, Paired
  <2>2. /\ objects'[o] = new /\ new # None /\ new.last = lastSeq + 1
        /\ \A p \in Objects : p # o => objects'[p] = objects[p]
    BY <1>1, WritesObjects
  <2>3. \A n \in Nat : n <= lastSeq => ~(objects'[o].last <= n)
    BY <1>0, <2>2
  <2>4. ASSUME NEW d \in Owners
        PROVE  /\ ~(objects'[o].last <= acks[d]) /\ ~(objects'[o].last <= device[d].cursor)
               /\ ~(objects'[o].last <= device[d].next)
    BY <1>0, <2>3
  <2>5. ASSUME NEW d \in Owners, NEW p \in Objects, p # o
        PROVE  Follows(p, acks[d], device[d].cursor, device[d].copy, device[d].page, device[d].next)
    BY FollowsIs
  <2> QED
    BY <2>1, <2>2, <2>4, <2>5
    DEF OwnersFollow, Follows, Without, AllGone, InPage, HasLatest, Alive, Dead
<1>2. CASE DeleteTombstones
  <2>1. /\ acks' = acks /\ device' = device /\ Owners' = Owners
        /\ objects' = [o \in Objects |-> IF o \in gc.tombs THEN None ELSE objects[o]]
    BY <1>2 DEF DeleteTombstones, Owners, Paired
  <2>2. \A d \in Owners, o \in Objects : o \in gc.tombs => Without(d, o)
    BY <1>2 DEF DeleteTombstones, GcSound
  <2>3. ASSUME NEW d \in Owners, NEW o \in Objects
        PROVE  Follows(o, acks[d], device[d].cursor, device[d].copy, device[d].page, device[d].next)
    BY FollowsIs
  <2> QED
    BY <1>0, <2>1, <2>2, <2>3
    DEF OwnersFollow, Follows, Without, AllGone, InPage, HasLatest, Alive, Dead
<1>3. CASE UNCHANGED <<objects, acks, status, device>>
  BY <1>3 DEF OwnersFollow, Without, AllGone, InPage, HasLatest, Alive, Dead, Owners, Paired
<1>4. \A d \in Owners, o \in Objects :
        Follows(o, acks[d], device[d].cursor, device[d].copy, device[d].page, device[d].next)
  BY FollowsIs
<1>5. ASSUME NEW d \in Devices, Ask(d) PROVE OwnersFollow'
  <2> DEFINE k == device[d]
  <2>1. /\ objects' = objects /\ acks' = acks /\ Owners' = Owners /\ k.at = "idle"
    BY <1>5 DEF Ask, server, Owners, Paired
  <2>2. CASE HeadSeq < k.cursor /\ Becomes(d, HeadSeq, k.copy, k.at, k.page, k.next)
    <3>1. HeadSeq \in Nat /\ k.cursor \in Nat
      BY <1>0, HeadIs
    <3>2. \A o \in Objects : Alive(o, HeadSeq) => Alive(o, k.cursor)
      BY <1>0, <2>2, <3>1 DEF Alive
    <3>3. d \in Owners =>
            \A o \in Objects : Follows(o, acks'[d], k.cursor, k.copy, k.page, k.next)
      BY <1>4, <2>1
    <3> HIDE DEF k
    <3>4. d \in Owners =>
            \A o \in Objects : Follows(o, acks'[d], HeadSeq, k.copy, k.page, k.next)
      BY <3>2, <3>3 DEF Follows
    <3> QED BY <2>1, <2>2, <3>4, BecomesFollows
  <2>3. ASSUME NEW page, page = Page(UserOf[d], k.cursor), page # {},
               Becomes(d, k.cursor, k.copy, "asked", page, LastOf(page).seq)
        PROVE  OwnersFollow'
    <3>1. d \in Owners =>
            \A o \in Objects : Follows(o, acks'[d], k.cursor, k.copy, page, LastOf(page).seq)
      BY <2>1, <2>3, AskFollows
    <3> HIDE DEF k
    <3> QED BY <2>1, <2>3, <3>1, BecomesFollows
  <2> QED BY <1>5, <2>2, <2>3, DeviceShape
<1>6. ASSUME NEW d \in Devices, Answer(d) PROVE OwnersFollow'
  <2> DEFINE k == device[d]
             page == {Masked(d, ch) : ch \in k.page}
  <2>1. objects' = objects /\ acks' = acks /\ Owners' = Owners
    BY <1>6 DEF Answer, server, Owners, Paired
  <2>2. Becomes(d, k.cursor, k.copy, "apply", page, k.next)
    BY <1>6, DeviceShape
  <2>3. ASSUME d \in Owners PROVE page = k.page
    <3>1. \A ch \in k.page : ch \in Change /\ Readable(UserOf[d], ch.cur)
      BY <1>0, <2>3 DEF Owners, Readable, Change
    <3>2. \A ch \in k.page : Masked(d, ch) = ch
      BY <3>1, MaskedIs
    <3> QED BY <3>2
  <2>4. d \in Owners => \A o \in Objects : Follows(o, acks'[d], k.cursor, k.copy, page, k.next)
    <3> HIDE DEF page
    <3> QED BY <1>4, <2>1, <2>3
  <2> HIDE DEF k, page
  <2> QED BY <2>1, <2>2, <2>4, BecomesFollows
<1>7. ASSUME NEW d \in Devices, ApplyChange(d) PROVE OwnersFollow'
  <2> DEFINE k == device[d]
             ch == FirstOf(k.page)
             copy == [k.copy EXCEPT ![ch.obj] = Applied(@, ch)]
  <2>1. objects' = objects /\ acks' = acks /\ Owners' = Owners /\ k.page # {}
    BY <1>7 DEF ApplyChange, server, Owners, Paired
  <2>2. Becomes(d, k.cursor, copy, k.at, k.page \ {ch}, k.next)
    BY <1>7, DeviceShape
  <2>3. d \in Owners =>
          \A o \in Objects : Follows(o, acks'[d], k.cursor, copy, k.page \ {ch}, k.next)
    BY <2>1, ApplyFollows
  <2> HIDE DEF k, ch, copy
  <2> QED BY <2>1, <2>2, <2>3, BecomesFollows
<1>8. ASSUME NEW d \in Devices, AckServer(d) PROVE OwnersFollow'
  <2> DEFINE k == device[d]
  <2>1. /\ objects' = objects /\ Owners' = Owners /\ k.page = {}
        /\ acks' = [acks EXCEPT ![d] = IF k.next < @ THEN @ ELSE k.next]
    BY <1>8 DEF AckServer, server, Owners, Paired
  <2>2. Becomes(d, k.cursor, k.copy, "acked", k.page, k.next)
    BY <1>8, DeviceShape
  <2>3. acks'[d] = acks[d] \/ acks'[d] = k.next
    BY <1>0, <2>1
  <2>4. \A e \in Devices : e # d => acks'[e] = acks[e]
    BY <1>0, <2>1
  <2>5. ASSUME d \in Owners, NEW o \in Objects
        PROVE  Follows(o, acks'[d], k.cursor, k.copy, k.page, k.next)
    <3>1. Follows(o, acks[d], k.cursor, k.copy, k.page, k.next)
      BY <1>4, <2>5
    <3>2. CASE acks'[d] = acks[d]
      <4> HIDE DEF k
      <4> QED BY <3>1, <3>2
    <3>3. CASE acks'[d] = k.next
      <4> HIDE DEF k
      <4> QED BY <2>1, <3>1, <3>3 DEF Follows
    <3> QED BY <2>3, <3>2, <3>3
  <2> HIDE DEF k
  <2> QED BY <2>1, <2>2, <2>4, <2>5, BecomesFollows
<1>9. \A o \in Objects : ~Dead(o, 0) /\ ~Alive(o, 0)
  BY <1>0 DEF Dead, Alive
<1>10. ASSUME NEW d \in Devices, AckRefused(d) \/ Lose(d) \/ Revoke(d) PROVE OwnersFollow'
  <2> DEFINE k == device[d]
  <2>1. objects' = objects /\ acks' = acks /\ Owners' \subseteq Owners
    <3>1. status' = status \/ status' = [status EXCEPT ![d] = "revoked"]
      BY <1>10 DEF AckRefused, Lose, Revoke
    <3>2. Owners' \subseteq Owners
      BY <3>1 DEF Owners, Paired, TypeOK
    <3> QED BY <1>10, <3>2 DEF AckRefused, Lose, Revoke, server
  <2>2. Becomes(d, k.cursor, k.copy, "idle", {}, 0)
    <3>1. AckRefused(d) => k.page = {}
      BY DEF AckRefused
    <3> QED BY <1>10, <3>1, DeviceShape
  <2>3. ASSUME d \in Owners, NEW o \in Objects PROVE Follows(o, acks[d], k.cursor, k.copy, k.page, k.next)
    BY <1>4, <2>3
  <2> HIDE DEF k
  <2>4. ASSUME d \in Owners, NEW o \in Objects PROVE Follows(o, acks'[d], k.cursor, k.copy, {}, 0)
    BY <1>9, <2>1, <2>3, <2>4 DEF Follows
  <2> QED BY <2>1, <2>2, <2>4, BecomesFollows
<1>11. ASSUME NEW d \in Devices, SaveCursor(d) PROVE OwnersFollow'
  <2> DEFINE k == device[d]
  <2>1. objects' = objects /\ acks' = acks /\ Owners' = Owners /\ k.at = "acked"
    BY <1>11 DEF SaveCursor, server, Owners, Paired
  <2>2. k.page = {}
    BY <2>1 DEF DeviceInOrder
  <2>3. Becomes(d, k.next, k.copy, "idle", {}, 0)
    BY <1>11, <2>2, DeviceShape
  <2>4. ASSUME d \in Owners, NEW o \in Objects PROVE Follows(o, acks[d], k.cursor, k.copy, {}, k.next)
    BY <1>4, <2>2, <2>4
  <2> HIDE DEF k
  <2>5. ASSUME d \in Owners, NEW o \in Objects PROVE Follows(o, acks'[d], k.next, k.copy, {}, 0)
    BY <1>9, <2>1, <2>4, <2>5 DEF Follows
  <2> QED BY <2>1, <2>3, <2>5, BecomesFollows
<1>12. ASSUME NEW d \in Devices, Pair(d) PROVE OwnersFollow'
  <2>1. /\ objects' = objects /\ acks' = acks /\ device' = device /\ status[d] = "unpaired"
        /\ Owners' \subseteq Owners \cup {d}
    BY <1>12 DEF Pair, server, Owners, Paired, TypeOK
  <2>2. device[d] = FreshDevice
    BY <2>1 DEF DeviceInOrder
  <2>3. /\ device[d].cursor = 0 /\ device[d].page = {} /\ device[d].next = 0
        /\ \A o \in Objects : device[d].copy[o] = None
    BY <2>2 DEF FreshDevice
  <2>4. ASSUME NEW e \in Owners', NEW o \in Objects
        PROVE  Follows(o, acks[e], device[e].cursor, device[e].copy, device[e].page, device[e].next)
    <3>1. CASE e = d
      BY <1>9, <2>3, <3>1 DEF Follows
    <3> QED BY <1>4, <2>1, <3>1
  <2> QED
    BY <2>1, <2>4 DEF OwnersFollow, Follows, Without, AllGone, InPage, HasLatest, Alive, Dead
<1> QED
  <2>1. CASE \E o \in Objects, c \in Collections : Create(o, c) \/ Update(o, c)
    BY <1>1, <2>1, WriteShape
  <2>2. ASSUME NEW o \in Objects, Delete(o) PROVE OwnersFollow'
    <3>1. PICK c \in Collections : TRUE
      BY <1>0, <2>2 DEF Delete, ObjectRow
    <3> QED BY <1>1, <2>2, <3>1, WriteShape
  <2>3. CASE (\E c \in Collections : Tombstone(c)) \/ GcCursors \/ GcTombstones \/ UNCHANGED vars
    BY <1>3, <2>3 DEF Tombstone, GcCursors, GcTombstones, server, vars
  <2> QED
    BY <1>2, <1>5, <1>6, <1>7, <1>8, <1>10, <1>11, <1>12, <2>1, <2>2, <2>3 DEF Next

-----------------------------------------------------------------------------
(* Compaction.                                                             *)

\* A device that has nothing of a deleted object gets nothing of it.
LEMMA WithoutStays ==
  ASSUME TypeOK, JournalRows, DeviceInOrder, [Next]_vars, NEW d \in Devices, NEW o \in Objects,
         objects[o] # None, objects[o].deleted, Without(d, o)
  PROVE  device'[d].copy[o] = None /\ \A ch \in device'[d].page : ch.obj = o => ch.gone
<1>0. device[d].copy[o] = None /\ \A ch \in device[d].page : ch.obj = o => ch.gone
  BY DEF Without, AllGone
<1>1. /\ device[d].cursor \in Nat /\ device[d].page \in SUBSET Change
      /\ device[d].copy \in [Objects -> Copy \cup {None}]
      /\ lastSeq \in Nat /\ \A x \in device[d].page : x.seq <= lastSeq
  BY FeedAssumption DEF TypeOK, NothingAhead
<1>2. ASSUME NEW e \in Devices, e # d,
             \/ Ask(e) \/ Answer(e) \/ ApplyChange(e) \/ AckServer(e) \/ AckRefused(e)
             \/ SaveCursor(e) \/ Lose(e) \/ Revoke(e)
      PROVE  device'[d] = device[d]
  <2>1. \E cursor, copy, at, page, next : Becomes(e, cursor, copy, at, page, next)
    BY <1>2, DeviceShape
  <2> QED BY <1>2, <2>1, Became
<1>3. ASSUME NEW cursor, NEW copy, NEW at, NEW page, NEW next,
             Becomes(d, cursor, copy, at, page, next),
             copy[o] = None, \A ch \in page : ch.obj = o => ch.gone
      PROVE  device'[d].copy[o] = None /\ \A ch \in device'[d].page : ch.obj = o => ch.gone
  BY <1>3, Became
<1>4. CASE Ask(d)
  <2>1. ASSUME NEW page, page = Page(UserOf[d], device[d].cursor), NEW ch \in page, ch.obj = o
        PROVE  ch.gone
    <3>1. PICK j \in Beyond(UserOf[d], device[d].cursor) : ch = Sent(j)
      BY <1>1, <2>1, PageIs
    <3>2. ch.obj = j.obj /\ (ch.gone <=> j.op = "delete" \/ objects[j.obj].deleted)
      BY <3>1 DEF Sent
    <3> QED BY <2>1, <3>2
  <2>2. PICK cursor, at, page, next :
          /\ Becomes(d, cursor, device[d].copy, at, page, next)
          /\ page = device[d].page \/ page = Page(UserOf[d], device[d].cursor)
    BY <1>4, DeviceShape
  <2>3. \A ch \in page : ch.obj = o => ch.gone
    BY <1>0, <2>1, <2>2
  <2> QED BY <1>0, <1>3, <2>2, <2>3
<1>5. CASE Answer(d)
  <2> DEFINE page == {Masked(d, ch) : ch \in device[d].page}
  <2>1. \A ch \in page : ch.obj = o => ch.gone
    BY <1>0, <1>1, MaskedIs
  <2>2. Becomes(d, device[d].cursor, device[d].copy, "apply", page, device[d].next)
    BY <1>5, DeviceShape
  <2> HIDE DEF page
  <2> QED BY <1>0, <1>3, <2>1, <2>2
<1>6. CASE ApplyChange(d)
  <2> DEFINE k == device[d]
             ch == FirstOf(k.page)
             copy == [k.copy EXCEPT ![ch.obj] = Applied(@, ch)]
  <2>1. Becomes(d, k.cursor, copy, k.at, k.page \ {ch}, k.next)
    BY <1>6, DeviceShape
  <2>2. ch \in k.page /\ ch \in Change
    <3>1. k.page # {}
      BY <1>6 DEF ApplyChange
    <3> QED BY <1>1, <3>1, FirstAndLast
  <2>3. k.copy[ch.obj] \in Copy \cup {None}
    BY <1>1, <2>2 DEF Change
  <2>4. copy[o] = None
    <3>1. CASE o # ch.obj
      BY <1>0, <1>1, <3>1
    <3>2. CASE o = ch.obj
      <4>1. ch.gone
        BY <1>0, <2>2, <3>2
      <4>2. copy[o] = Applied(k.copy[o], ch)
        BY <1>1, <3>2
      <4> HIDE DEF ch, copy
      <4> QED BY <2>2, <2>3, <3>2, <4>1, <4>2, AppliedIs
    <3> QED BY <3>1, <3>2
  <2>5. \A x \in k.page \ {ch} : x.obj = o => x.gone
    BY <1>0
  <2> HIDE DEF k, ch, copy
  <2> QED BY <1>3, <2>1, <2>4, <2>5
<1>7. CASE AckServer(d) \/ AckRefused(d) \/ SaveCursor(d) \/ Lose(d) \/ Revoke(d)
  <2>1. PICK cursor, at, page, next :
          /\ Becomes(d, cursor, device[d].copy, at, page, next)
          /\ page = device[d].page \/ page = {}
    BY <1>7, DeviceShape
  <2>2. \A ch \in page : ch.obj = o => ch.gone
    BY <1>0, <2>1
  <2> QED BY <1>0, <1>3, <2>1, <2>2
<1>8. CASE device' = device
  BY <1>0, <1>8
<1> QED
  BY <1>0, <1>2, <1>4, <1>5, <1>6, <1>7, <1>8
  DEF Next, Create, Update, Delete, Insert, Tombstone, Pair, GcCursors, GcTombstones,
      DeleteTombstones, vars

\* Every step keeps the compaction sound.
LEMMA GcStep ==
  ASSUME TypeOK, JournalRows, DeviceInOrder, OwnersFollow, GcSound, [Next]_vars
  PROVE  GcSound'
<1>0. /\ objects \in [Objects -> ObjectRow \cup {None}] /\ lastSeq \in Nat
      /\ \A o \in Objects : objects[o] # None => objects[o] \in ObjectRow /\ objects[o].last \in Nat
      /\ gc # Idle => gc \in [ack : Nat, tombs : SUBSET Objects] /\ gc.ack \in Nat /\ gc.ack <= lastSeq
      /\ \A d \in Owners : d \in Devices
  BY FeedAssumption DEF TypeOK, NothingAhead, ObjectRow, Owners, Paired
<1>1. ASSUME NEW o \in Objects, NEW new \in ObjectRow, NEW op, Writes(o, new, op) PROVE GcSound'
  <2>1. /\ gc' = gc /\ device' = device /\ Owners' = Owners
    BY <1>1 DEF Writes, Owners, Paired
  <2>2. /\ objects'[o] = new /\ new # None /\ new.last = lastSeq + 1
        /\ \A p \in Objects : p # o => objects'[p] = objects[p]
        /\ objects[o] = None \/ ~objects[o].deleted
    BY <1>1, WritesObjects
  <2>3. gc # Idle => ~(objects'[o].last <= gc.ack) /\ o \notin gc.tombs /\ gc.tombs \subseteq Objects
    BY <1>0, <2>2 DEF GcSound
  <2> QED BY <2>1, <2>2, <2>3 DEF GcSound, Dead, Without, AllGone
<1>2. CASE DeleteTombstones
  BY <1>2 DEF DeleteTombstones, GcSound
<1>3. ASSUME gc' = gc, objects' = objects, Owners' \subseteq Owners PROVE GcSound'
  <2>1. ASSUME NEW d \in Owners', NEW o \in Objects, objects[o] # None, objects[o].deleted, Without(d, o)
        PROVE  device'[d].copy[o] = None /\ \A ch \in device'[d].page : ch.obj = o => ch.gone
    BY <1>0, <1>3, <2>1, WithoutStays
  <2>2. gc # Idle => gc.tombs \subseteq Objects
    BY <1>0
  <2> QED BY <1>3, <2>1, <2>2 DEF GcSound, Dead, Without, AllGone
<1>4. ASSUME NEW d \in Devices, Pair(d) PROVE GcSound'
  <2>1. /\ objects' = objects /\ gc' = gc /\ device' = device /\ status[d] = "unpaired"
        /\ Owners' \subseteq Owners \cup {d}
    BY <1>4 DEF Pair, server, Owners, Paired, TypeOK
  <2>2. device[d] = FreshDevice
    BY <2>1 DEF DeviceInOrder
  <2>3. \A o \in Objects : Without(d, o)
    BY <2>2 DEF FreshDevice, Without, AllGone
  <2>4. gc # Idle => gc.tombs \subseteq Objects
    BY <1>0
  <2> QED BY <2>1, <2>3, <2>4 DEF GcSound, Dead, Without, AllGone
<1>5. CASE GcCursors
  <2>1. /\ gc' = [ack |-> MinSyncAck, tombs |-> {}] /\ objects' = objects /\ device' = device
        /\ Owners' = Owners
    BY <1>5 DEF GcCursors, server, Owners, Paired
  <2>2. ASSUME NEW d \in Owners, NEW o \in Objects, Dead(o, MinSyncAck) PROVE Without(d, o)
    <3>1. /\ MinSyncAck <= acks[d] /\ MinSyncAck \in Nat /\ acks[d] \in Nat
      BY <1>0, MinAckIs DEF Owners, TypeOK
    <3>2. Dead(o, acks[d])
      BY <1>0, <2>2, <3>1 DEF Dead
    <3> QED BY <3>2 DEF OwnersFollow
  <2>3. gc'.ack = MinSyncAck /\ gc'.tombs = {}
    BY <2>1
  <2> QED BY <2>1, <2>2, <2>3 DEF GcSound, Dead, Without, AllGone
<1>6. CASE GcTombstones
  <2>1. /\ objects' = objects /\ device' = device /\ Owners' = Owners /\ gc # Idle /\ gc.tombs = {}
        /\ gc' = Idle \/ gc' = [ack |-> 0, tombs |-> CompactableTombstones(gc.ack)]
    BY <1>6 DEF GcTombstones, server, Owners, Paired
  <2>2. ASSUME NEW o \in CompactableTombstones(gc.ack)
        PROVE  /\ o \in Objects /\ objects[o] # None /\ objects[o].deleted
               /\ \A d \in Owners : Without(d, o)
    <3>1. /\ o \in Objects /\ objects[o] # None /\ objects[o].deleted
          /\ \A j \in journal : j.obj = o => j.seq <= gc.ack
      BY <2>2 DEF CompactableTombstones
    <3>2. Dead(o, gc.ack)
      BY <3>1 DEF Dead, JournalRows
    <3> QED BY <2>1, <3>1, <3>2 DEF GcSound
  <2>3. CASE gc' = Idle
    BY <2>3 DEF GcSound
  <2>4. CASE gc' = [ack |-> 0, tombs |-> CompactableTombstones(gc.ack)]
    <3> DEFINE T == CompactableTombstones(gc.ack)
    <3>1. gc'.tombs = T /\ gc'.ack = 0
      BY <2>4
    <3>2. \A o \in T : objects[o] # None /\ objects[o].deleted /\ \A d \in Owners : Without(d, o)
      BY <2>2
    <3>3. \A o \in Objects : Dead(o, gc.ack) => \A d \in Owners : Without(d, o)
      BY <2>1 DEF GcSound
    <3>4. T = {} => \A o \in Objects : ~Dead(o, 0) \/ \A d \in Owners : Without(d, o)
      BY <1>0, <2>1, <3>3 DEF Dead
    <3> HIDE DEF T
    <3> QED BY <2>1, <3>1, <3>2, <3>4 DEF GcSound, Dead, Without, AllGone
  <2> QED BY <2>1, <2>3, <2>4
<1> QED
  <2>1. CASE \E o \in Objects, c \in Collections : Create(o, c) \/ Update(o, c)
    BY <1>1, <2>1, WriteShape
  <2>2. ASSUME NEW o \in Objects, Delete(o) PROVE GcSound'
    <3>1. PICK c \in Collections : TRUE
      BY <1>0, <2>2 DEF Delete, ObjectRow
    <3> QED BY <1>1, <2>2, <3>1, WriteShape
  <2>3. ASSUME NEW d \in Devices,
               \/ Ask(d) \/ Answer(d) \/ ApplyChange(d) \/ AckServer(d) \/ AckRefused(d)
               \/ SaveCursor(d) \/ Lose(d) \/ Revoke(d)
        PROVE  GcSound'
    <3>1. gc' = gc /\ objects' = objects
      BY <2>3 DEF Ask, Answer, ApplyChange, AckServer, AckRefused, SaveCursor, Lose, Revoke, server
    <3>2. status' = status \/ status' = [status EXCEPT ![d] = "revoked"]
      BY <2>3 DEF Ask, Answer, ApplyChange, AckServer, AckRefused, SaveCursor, Lose, Revoke
    <3>3. Owners' \subseteq Owners
      BY <3>2 DEF Owners, Paired, TypeOK
    <3> QED BY <1>3, <3>1, <3>3
  <2>4. CASE (\E c \in Collections : Tombstone(c)) \/ UNCHANGED vars
    <3>1. gc' = gc /\ objects' = objects /\ status' = status
      BY <2>4 DEF Tombstone, vars
    <3> QED BY <1>3, <3>1 DEF Owners, Paired
  <2> QED BY <1>2, <1>4, <1>5, <1>6, <2>1, <2>2, <2>3, <2>4 DEF Next

-----------------------------------------------------------------------------
(* Theorems.                                                               *)

\* The invariant holds at first,
LEMMA InitInv == Init => IInv
<1> SUFFICES ASSUME Init PROVE IInv
  OBVIOUS
<1>1. FreshDevice \in [cursor : Nat, copy : [Objects -> Copy \cup {None}],
        at : {"idle", "asked", "apply", "acked"}, page : SUBSET Change, next : Nat]
  BY DEF FreshDevice
<1>2. /\ FreshDevice.cursor = 0 /\ FreshDevice.at = "idle" /\ FreshDevice.page = {}
      /\ FreshDevice.next = 0 /\ \A o \in Objects : FreshDevice.copy[o] = None
  BY DEF FreshDevice
<1>3. /\ objects = [o \in Objects |-> None] /\ journal = {} /\ lastSeq = 0 /\ live = Collections
      /\ readers = Shares /\ acks = [d \in Devices |-> 0] /\ gc = Idle /\ losses = 0
      /\ device = [d \in Devices |-> FreshDevice]
      /\ status \in [Devices -> {"unpaired", "paired"}]
  BY DEF Init
<1>4. \A d \in Devices : device[d] = FreshDevice
  BY <1>3
<1>5. TypeOK
  <2>1. NothingAhead
    BY <1>2, <1>3, <1>4 DEF NothingAhead
  <2> QED BY <1>1, <1>3, <2>1, FeedAssumption DEF TypeOK
<1>6. JournalRows
  BY <1>3, FS_EmptySet DEF JournalRows
<1>7. DeviceInOrder
  BY <1>2, <1>3, <1>4 DEF DeviceInOrder
<1>8. DataAllowed
  BY <1>2, <1>3, <1>4 DEF DataAllowed
<1>9. OwnersFollow
  <2>1. \A d \in Owners : d \in Devices
    BY DEF Owners, Paired
  <2>2. \A o \in Objects : objects[o] = None
    BY <1>3
  <2> QED BY <1>2, <1>4, <2>1, <2>2 DEF OwnersFollow, Dead, Alive, Without, AllGone
<1>10. GcSound
  BY <1>3 DEF GcSound
<1> QED BY <1>5, <1>6, <1>7, <1>8, <1>9, <1>10 DEF IInv

\* is kept by every step,
LEMMA StepInv == IInv /\ [Next]_vars => IInv'
BY TypeStep, RowsStep, OrderStep, DataStep, FollowStep, GcStep DEF IInv

\* and so always holds.
LEMMA InvHolds == Spec => []IInv
BY InitInv, StepInv, PTL DEF Spec

\* A device with nothing left to fetch has no row beyond its cursor.
LEMMA ExactIs == IInv => CopiesExact
<1> SUFFICES ASSUME IInv, NEW d \in Owners, CaughtUp(d), NEW o \in Objects
             PROVE  device[d].copy[o] = Due(d, o)
  BY DEF CopiesExact
<1>1. TypeOK /\ JournalRows /\ DeviceInOrder /\ OwnersFollow
  BY DEF IInv
<1>2. /\ d \in Devices /\ device[d].cursor \in Nat /\ acks[d] \in Nat
      /\ device[d].cursor <= acks[d]
      /\ objects[o] # None => objects[o] \in ObjectRow
      /\ \A j \in journal : j.seq \in Nat
  BY <1>1 DEF Owners, Paired, TypeOK, DeviceInOrder, JournalRow
<1>3. \A j \in journal : j.seq <= device[d].cursor
  <2>1. Beyond(UserOf[d], device[d].cursor) = {}
    BY <1>1, <1>2, PageIs DEF CaughtUp
  <2>2. {j \in journal : j.seq > device[d].cursor} = {}
    BY <1>1, <2>1, OwnersBeyond
  <2> QED BY <1>2, <2>2
<1>4. objects[o] # None => objects[o].last <= device[d].cursor
  BY <1>1, <1>3 DEF JournalRows
<1>5. Follows(o, acks[d], device[d].cursor, device[d].copy, device[d].page, device[d].next)
  BY <1>1, FollowsIs
<1>6. CASE objects[o] = None
  BY <1>5, <1>6 DEF Follows, Due
<1>7. CASE objects[o] # None /\ objects[o].deleted
  <2>1. Dead(o, acks[d])
    BY <1>2, <1>4, <1>7 DEF Dead, ObjectRow
  <2> QED BY <1>5, <1>7, <2>1 DEF Follows, Due
<1>8. CASE objects[o] # None /\ ~objects[o].deleted
  <2>1. Alive(o, device[d].cursor)
    BY <1>4, <1>8 DEF Alive
  <2>2. Readable(UserOf[d], objects[o].col)
    BY <1>2, <1>8 DEF Owners, Readable, ObjectRow
  <2> QED BY <1>5, <1>8, <2>1, <2>2 DEF Follows, Due
<1> QED BY <1>6, <1>7, <1>8

\* TypeOK: every variable keeps its type, and no cursor, row or copy is ahead of
\* the journal's counter.
THEOREM FeedTypeCorrect == Spec => []TypeOK
<1>1. IInv => TypeOK
  BY DEF IInv
<1> QED BY <1>1, InvHolds, PTL

\* CopiesSound: an owner's device with nothing left to fetch has exactly the live
\* objects, as they are, and no device has data its user was never allowed to read.
THEOREM CopiesStaySound == Spec => []CopiesSound
<1>1. IInv => NoForeignData
  BY DEF IInv, DataAllowed, NoForeignData, MayRead
<1>2. IInv => CopiesSound
  BY <1>1, ExactIs DEF IInv, CopiesSound
<1> QED BY <1>2, InvHolds, PTL

\* NothingNeededCompacted: an object that the compaction has forgotten is on no
\* device of the owner.
THEOREM NothingNeededIsCompacted == Spec => []NothingNeededCompacted
<1>1. IInv => NothingNeededCompacted
  BY DEF IInv, OwnersFollow, NothingNeededCompacted, Without
<1> QED BY <1>1, InvHolds, PTL
=============================================================================
