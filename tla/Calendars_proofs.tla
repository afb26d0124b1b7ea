-------------------------- MODULE Calendars_proofs --------------------------
(***************************************************************************)
(* Proofs about Calendars, for all collections, items, devices, words and  *)
(* numbers of requests: a calendar program finds what there is, a mirror   *)
(* has one writer, and what requests lose or double of each other's writes *)
(* are writes that overlapped.                                             *)
(***************************************************************************)
EXTENDS Calendars, TLAPS

-----------------------------------------------------------------------------
(* The invariant: what requests and the program's copies know of the rows. *)
(* H stands for the rows of collections, I for those of items.             *)

HomeRows == [Homes -> HomeRow \cup {None}]
ItemRows == [Items -> ItemRow \cup {None}]
PrefRows == [People -> [Homes -> Colors \cup {None}]]

ItemsAt(I, c) == {i \in Items : I[i] # None /\ I[i].live /\ I[i].home = c}
ListAt(I, c) == {I[i] : i \in ItemsAt(I, c)}
SegOf(H, c) == IF H[c].slug # None THEN H[c].slug ELSE c

\* No collection is forgotten, nor changes its owner, kind or slug.
HomesGrow(H, G) ==
  \A c \in Homes : H[c] # None =>
    /\ G[c] # None /\ G[c].kind = H[c].kind /\ G[c].owner = H[c].owner
    /\ G[c].slug = H[c].slug /\ H[c].seq <= G[c].seq

\* No item is forgotten, nor leaves its collection.
ItemsGrow(I, J) == \A i \in Items : I[i] # None => J[i] # None /\ J[i].home = I[i].home

\* What is in a collection changes only with a new row of the journal.
Told(H, I, G, J) ==
  \A c \in Homes : H[c] # None => ListAt(J, c) = ListAt(I, c) \/ H[c].seq < G[c].seq

OwnWriter(u, writer) == writer \in Devices /\ Owner[writer] = u
WritersIn(H) ==
  \A c \in Homes : H[c] # None /\ H[c].mirror => OwnWriter(H[c].owner, H[c].writer)

Document ==
  [slug : Words \cup {None}, color : Colors \cup {None}, mirror : BOOLEAN,
   writer : Devices \cup {None}]
PatchesOf(u) ==
  [color : Colors] \cup [mirror : {TRUE}, writer : {d \in Devices : Owner[d] = u}]
    \cup [mirror : {FALSE}]

CreateCall ==
  [kind : {"create"}, phase : {"insert"}, of : {"calendar", "addressbook"}, dev : Devices,
   name : Titles, slug : Words \cup {None}, seen : SUBSET Homes]
PutCall ==
  [kind : {"put"}, phase : {"name", "push"}, dev : Devices, home : Homes, name : Words,
   uid : Words, content : Payloads, match : Payloads \cup {None, Fresh},
   other : Items \cup {None}, target : Items \cup {None, Fresh}, base : Nat, seen : SUBSET Items]
DeleteCall ==
  [kind : {"delete"}, phase : {"push"}, dev : Devices \cup {Operator}, home : Homes,
   todo : SUBSET Items, whole : BOOLEAN]
PatchCall(u) ==
  [kind : {"patch"}, phase : {"read", "write"}, dev : Devices, home : Homes,
   patch : PatchesOf(u), base : Document \cup {None}]

\* What a request of each kind knows between its steps.
SoundCreate(H, r) ==
  /\ r \in CreateCall
  /\ \A b \in r.seen :
       /\ H[b] # None
       /\ r.slug # None /\ H[b].kind = r.of /\ H[b].owner = Owner[r.dev] =>
            SegOf(H, b) # r.slug
SoundPut(H, I, r) ==
  /\ r \in PutCall /\ H[r.home] # None
  /\ r.other = None => r.seen = {}
  /\ r.target \in Items => I[r.target] # None /\ I[r.target].home = r.home
  /\ r.phase = "push" => r.target # None /\ r.other \in {None, r.target}
SoundDelete(H, I, r) ==
  /\ r \in DeleteCall /\ H[r.home] # None
  /\ r.dev = Operator => r.whole
  /\ \A i \in r.todo : I[i] # None /\ I[i].home = r.home
SoundPatch(H, r) ==
  /\ r.home \in Homes /\ H[r.home] # None /\ r \in PatchCall(H[r.home].owner)
  /\ r.phase = "write" =>
       /\ r.base \in Document /\ r.base.slug = H[r.home].slug
       /\ r.base.mirror => OwnWriter(H[r.home].owner, r.base.writer)
SoundPoll(H, r) ==
  /\ r.home \in Homes /\ H[r.home] # None /\ r.early \in BOOLEAN
  /\ ~r.early => r.tag \in Nat \X Nat /\ r.tag[1] <= H[r.home].seq

Sound(H, I, r) ==
  /\ r.kind = "create" => SoundCreate(H, r)
  /\ r.kind = "put" => SoundPut(H, I, r)
  /\ r.kind = "delete" => SoundDelete(H, I, r)
  /\ r.kind = "patch" => SoundPatch(H, r)
  /\ r.kind = "poll" => SoundPoll(H, r)

\* The program's copy p of collection c: it has what the collection has, as long
\* as the journal has no row since the tag.
CopyOK(H, I, c, p) ==
  /\ H[c] # None
  /\ ~p.early =>
       /\ p.tag \in Nat \X Nat /\ p.tag[1] <= H[c].seq
       /\ p.tag[1] = H[c].seq => p.items = ListAt(I, c)

CInv ==
  /\ home \in HomeRows /\ item \in ItemRows /\ pref \in PrefRows
  /\ WritersIn(home)
  /\ copy = [c \in Homes |-> copy[c]]
  /\ \A c \in Homes : copy[c] # None => CopyOK(home, item, c, copy[c])
  /\ call = [k \in Calls |-> call[k]]
  /\ \A k \in Calls : call[k] # None => Sound(home, item, call[k])

-----------------------------------------------------------------------------
(* What requests and copies know stays so.                                 *)

LEMMA SoundStays ==
  ASSUME NEW H \in HomeRows, NEW G \in HomeRows, NEW I \in ItemRows, NEW J \in ItemRows,
         HomesGrow(H, G), ItemsGrow(I, J), NEW r, Sound(H, I, r)
  PROVE  Sound(G, J, r)
<1>1. ASSUME SoundCreate(H, r) PROVE SoundCreate(G, r)
  <2>1. \A b \in r.seen : b \in Homes /\ H[b] # None
    BY <1>1 DEF SoundCreate, CreateCall
  <2>2. \A b \in r.seen : /\ G[b] # None /\ G[b].kind = H[b].kind /\ G[b].owner = H[b].owner
                          /\ SegOf(G, b) = SegOf(H, b)
    BY <2>1 DEF HomesGrow, SegOf
  <2> QED BY <1>1, <2>1, <2>2 DEF SoundCreate
<1>2. ASSUME SoundPut(H, I, r) PROVE SoundPut(G, J, r)
  <2>1. r.home \in Homes
    BY <1>2 DEF SoundPut, PutCall
  <2> QED BY <1>2, <2>1 DEF SoundPut, HomesGrow, ItemsGrow
<1>3. ASSUME SoundDelete(H, I, r) PROVE SoundDelete(G, J, r)
  <2>1. r.home \in Homes /\ r.todo \subseteq Items
    BY <1>3 DEF SoundDelete, DeleteCall
  <2> QED BY <1>3, <2>1 DEF SoundDelete, HomesGrow, ItemsGrow
<1>4. ASSUME SoundPatch(H, r) PROVE SoundPatch(G, r)
  <2>1. r.home \in Homes /\ G[r.home] # None /\ G[r.home].owner = H[r.home].owner
        /\ G[r.home].slug = H[r.home].slug
    BY <1>4 DEF SoundPatch, HomesGrow
  <2> QED BY <1>4, <2>1 DEF SoundPatch
<1>5. ASSUME SoundPoll(H, r) PROVE SoundPoll(G, r)
  <2>1. r.home \in Homes /\ H[r.home] # None /\ G[r.home] # None /\ H[r.home].seq <= G[r.home].seq
    BY <1>5 DEF SoundPoll, HomesGrow
  <2>2. H[r.home].seq \in Nat /\ G[r.home].seq \in Nat
    BY <2>1 DEF HomeRows, HomeRow
  <2>3. r.tag \in Nat \X Nat => r.tag[1] \in Nat
    OBVIOUS
  <2> QED BY <1>5, <2>1, <2>2, <2>3 DEF SoundPoll
<1> QED BY <1>1, <1>2, <1>3, <1>4, <1>5 DEF Sound

LEMMA CopyStays ==
  ASSUME NEW H \in HomeRows, NEW G \in HomeRows, NEW I, NEW J,
         HomesGrow(H, G), Told(H, I, G, J), NEW c \in Homes, NEW p, CopyOK(H, I, c, p)
  PROVE  CopyOK(G, J, c, p)
<1>1. H[c] # None /\ G[c] # None /\ H[c].seq <= G[c].seq
  BY DEF CopyOK, HomesGrow
<1>2. H[c].seq \in Nat /\ G[c].seq \in Nat
  BY <1>1 DEF HomeRows, HomeRow
<1>3. p.tag \in Nat \X Nat => p.tag[1] \in Nat
  OBVIOUS
<1>4. ListAt(J, c) = ListAt(I, c) \/ H[c].seq < G[c].seq
  BY <1>1 DEF Told
<1> QED BY <1>1, <1>2, <1>3, <1>4 DEF CopyOK

-----------------------------------------------------------------------------
(* What every step does, and the action properties as one formula.         *)

RowsStep ==
  /\ home' \in HomeRows /\ item' \in ItemRows /\ pref' \in PrefRows
  /\ HomesGrow(home, home') /\ ItemsGrow(item, item') /\ Told(home, item, home', item')
  /\ WritersIn(home')

CallStep ==
  /\ call' = [k \in Calls |-> call'[k]]
  /\ \A k \in Calls : call'[k] # call[k] /\ call'[k] # None => Sound(home', item', call'[k])

UIDsSafe(k) ==
  \A i, j \in Items :
    /\ call[k] # None /\ call'[k] = None /\ call[k].kind = "put"
    /\ item'[i] # item[i] /\ item'[i].live /\ i # j
    /\ j \in WithUID(call[k].home, item'[i].uid)
    => j \notin call[k].seen \/ call[k].other = i
KeysSafe(k) ==
  \A c \in Homes :
    /\ call[k] # None /\ call'[k] = None /\ call[k].kind = "patch" /\ home' # home
    /\ call[k].home = c /\ call[k].base = Metadata(c)
    => \A f \in DOMAIN Metadata(c) \ DOMAIN call[k].patch : home'[c][f] = home[c][f]
PathsSafe(k) ==
  \A b, c \in Homes :
    /\ call[k] # None /\ call'[k] = None /\ call[k].kind = "create"
    /\ home[c] = None /\ home'[c] # None
    /\ LiveHome(b) /\ home[b].kind = home'[c].kind /\ home[b].owner = home'[c].owner
    /\ Seg(b) = home'[c].slug
    => b \notin call[k].seen
MirrorSafe(c) ==
  LiveHome(c) /\ home[c].mirror /\ ItemsAt(item', c) # ItemsAt(item, c) =>
    \E k \in Calls :
      /\ call[k] # None /\ call'[k] # call[k] /\ call[k].home = c
      /\ \/ call[k].dev = home[c].writer
         \/ call[k].kind = "delete" /\ call[k].whole

Safe ==
  /\ \A k \in Calls : UIDsSafe(k) /\ KeysSafe(k) /\ PathsSafe(k)
  /\ \A c \in Homes : MirrorSafe(c)

LEMMA QuietRows ==
  ASSUME CInv, UNCHANGED tables
  PROVE  RowsStep
BY DEF CInv, tables, RowsStep, HomesGrow, ItemsGrow, Told, HomeRows, HomeRow

LEMMA QuietSafe ==
  ASSUME UNCHANGED tables
  PROVE  Safe
BY DEF tables, Safe, UIDsSafe, KeysSafe, PathsSafe, MirrorSafe

LEMMA TypesOfHome ==
  ASSUME CInv, NEW c \in Homes, home[c] # None
  PROVE  home[c] \in HomeRow /\ home[c].seq \in Nat /\ home[c].stamp \in Nat
BY DEF CInv, HomeRows, HomeRow

LEMMA TypesOfItem ==
  ASSUME CInv, NEW i \in Items, item[i] # None
  PROVE  item[i] \in ItemRow
BY DEF CInv, ItemRows

\* A committed push of one item, into the collection that the item is in.
LEMMA PushedRows ==
  ASSUME CInv, NEW i \in Items, NEW row \in ItemRow, Pushed(i, row),
         home[row.home] # None, item[i] # None => item[i].home = row.home
  PROVE  RowsStep
<1> DEFINE c == row.home
<1>1. c \in Homes /\ row # None
  BY CalendarsAssumption DEF ItemRow
<1>2. home' = [home EXCEPT ![c].seq = @ + 1] /\ item' = [item EXCEPT ![i] = row] /\ pref' = pref
  BY DEF Pushed
<1>3. home \in HomeRows /\ item \in ItemRows /\ pref \in PrefRows /\ WritersIn(home)
  BY DEF CInv
<1>4. home[c] \in HomeRow /\ home[c].seq \in Nat
  BY <1>1, TypesOfHome
<1> HIDE DEF c
<1>5. [home[c] EXCEPT !.seq = @ + 1] \in HomeRow
  BY <1>4 DEF HomeRow
<1>6. home' \in HomeRows /\ item' \in ItemRows /\ pref' \in PrefRows
  BY <1>2, <1>3, <1>5 DEF HomeRows, ItemRows
<1>7. /\ home'[c].seq = home[c].seq + 1 /\ home'[c].kind = home[c].kind
      /\ home'[c].owner = home[c].owner /\ home'[c].slug = home[c].slug
      /\ home'[c].mirror = home[c].mirror /\ home'[c].writer = home[c].writer
      /\ home'[c] \in HomeRow
      /\ \A b \in Homes : b # c => home'[b] = home[b]
  BY <1>1, <1>2, <1>3, <1>4, <1>5 DEF HomeRows, HomeRow
<1>8. home'[c] # None
  BY <1>7, CalendarsAssumption
<1>9. \A b \in Homes : home[b] # None => home[b].seq \in Nat
  BY TypesOfHome
<1>10. HomesGrow(home, home')
  BY <1>4, <1>7, <1>8, <1>9 DEF HomesGrow
<1>11. item'[i] = row /\ \A j \in Items : j # i => item'[j] = item[j]
  BY <1>2, <1>3 DEF ItemRows
<1>12. ItemsGrow(item, item')
  BY <1>1, <1>11 DEF ItemsGrow, c
<1>13. \A b \in Homes : b # c => ItemsAt(item', b) = ItemsAt(item, b)
  BY <1>1, <1>11 DEF ItemsAt, c
<1>14. \A b \in Homes : b # c => ListAt(item', b) = ListAt(item, b)
  <2>1. SUFFICES ASSUME NEW b \in Homes, b # c PROVE ListAt(item', b) = ListAt(item, b)
    OBVIOUS
  <2>2. ItemsAt(item', b) = ItemsAt(item, b) /\ i \notin ItemsAt(item', b)
    BY <1>11, <1>13, <2>1 DEF ItemsAt, c
  <2>3. \A j \in ItemsAt(item, b) : item'[j] = item[j]
    BY <1>11, <2>2 DEF ItemsAt
  <2> QED BY <2>2, <2>3 DEF ListAt
<1>15. Told(home, item, home', item')
  BY <1>4, <1>7, <1>14 DEF Told
<1>16. WritersIn(home')
  BY <1>3, <1>7, home[c] # None DEF WritersIn, c
<1> QED BY <1>6, <1>10, <1>12, <1>15, <1>16 DEF RowsStep

\* A row of one collection is made, or written with its owner, kind and slug.
LEMMA HomeRowsStep ==
  ASSUME CInv, NEW c \in Homes, NEW row \in HomeRow,
         home' = [home EXCEPT ![c] = row], UNCHANGED <<item, pref>>,
         home[c] # None => /\ row.kind = home[c].kind /\ row.owner = home[c].owner
                           /\ row.slug = home[c].slug /\ home[c].seq <= row.seq,
         row.mirror => OwnWriter(row.owner, row.writer)
  PROVE  RowsStep
<1>1. home \in HomeRows /\ item \in ItemRows /\ pref \in PrefRows /\ WritersIn(home)
  BY DEF CInv
<1>2. home' \in HomeRows /\ item' \in ItemRows /\ pref' \in PrefRows
  BY <1>1 DEF HomeRows
<1>3. home'[c] = row /\ row # None /\ \A b \in Homes : b # c => home'[b] = home[b]
  BY <1>1, CalendarsAssumption DEF HomeRows
<1>4. \A b \in Homes : home[b] # None => home[b].seq \in Nat
  BY TypesOfHome
<1>5. HomesGrow(home, home')
  BY <1>3, <1>4 DEF HomesGrow
<1>6. ItemsGrow(item, item') /\ Told(home, item, home', item')
  BY DEF ItemsGrow, Told
<1>7. WritersIn(home')
  BY <1>1, <1>3 DEF WritersIn
<1> QED BY <1>2, <1>5, <1>6, <1>7 DEF RowsStep

\* Steps of this kind keep the invariant.
LEMMA InvStep ==
  ASSUME CInv, RowsStep, CallStep,
         copy' = copy \/ /\ copy' = [c \in Homes |-> copy'[c]]
                         /\ \A c \in Homes : copy'[c] # copy[c] /\ copy'[c] # None =>
                              CopyOK(home', item', c, copy'[c])
  PROVE  CInv'
<1>1. /\ home \in HomeRows /\ item \in ItemRows /\ home' \in HomeRows /\ item' \in ItemRows
      /\ HomesGrow(home, home') /\ ItemsGrow(item, item') /\ Told(home, item, home', item')
  BY DEF CInv, RowsStep
<1>2. ASSUME NEW k \in Calls, call'[k] # None PROVE Sound(home', item', call'[k])
  <2>1. CASE call'[k] = call[k]
    <3>1. Sound(home, item, call[k])
      BY <1>2, <2>1 DEF CInv
    <3> QED BY <1>1, <2>1, <3>1, SoundStays
  <2>2. CASE call'[k] # call[k]
    BY <1>2, <2>2 DEF CallStep
  <2> QED BY <2>1, <2>2
<1>3. ASSUME NEW c \in Homes, copy'[c] # None PROVE CopyOK(home', item', c, copy'[c])
  <2>1. CASE copy'[c] = copy[c]
    <3>1. CopyOK(home, item, c, copy[c])
      BY <1>3, <2>1 DEF CInv
    <3> QED BY <1>1, <2>1, <3>1, CopyStays
  <2>2. CASE copy'[c] # copy[c]
    BY <1>3, <2>2
  <2> QED BY <2>1, <2>2
<1>4. copy' = [c \in Homes |-> copy'[c]]
  BY DEF CInv
<1> QED BY <1>2, <1>3, <1>4 DEF CInv, RowsStep, CallStep

-----------------------------------------------------------------------------
(* Requests begin.                                                         *)

LEMMA CallGoes ==
  ASSUME CInv, NEW k \in Calls, NEW r, call' = [call EXCEPT ![k] = r],
         r # None => Sound(home', item', r)
  PROVE  CallStep /\ call'[k] = r /\ \A j \in Calls : j # k => call'[j] = call[j]
<1>1. call = [j \in Calls |-> call[j]]
  BY DEF CInv
<1>2. call' = [j \in Calls |-> IF j = k THEN r ELSE call[j]]
  BY <1>1
<1> QED BY <1>2 DEF CallStep

LEMMA Begins ==
  ASSUME CInv, NEW k \in Calls, NEW r, Takes(k, r), Sound(home, item, r)
  PROVE  CInv' /\ Safe
<1>1. UNCHANGED tables /\ copy' = copy /\ call' = [call EXCEPT ![k] = r]
  BY DEF Takes
<1>2. Sound(home', item', r)
  BY <1>1 DEF tables
<1>3. CallStep
  BY <1>1, <1>2, CallGoes
<1> QED BY <1>1, <1>3, QuietRows, QuietSafe, InvStep

\* A request that only reads, or ends without a write.
LEMMA Quiet ==
  ASSUME CInv, NEW k \in Calls, NEW r, Goes(k, r), UNCHANGED tables,
         r # None => Sound(home, item, r)
  PROVE  CInv' /\ Safe
<1>1. copy' = copy /\ call' = [call EXCEPT ![k] = r]
  BY DEF Goes
<1>2. r # None => Sound(home', item', r)
  BY DEF tables
<1>3. CallStep
  BY <1>1, <1>2, CallGoes
<1> QED BY <1>1, <1>3, QuietRows, QuietSafe, InvStep

LEMMA Failing ==
  ASSUME CInv, NEW k \in Calls, Fails(k)
  PROVE  CInv' /\ Safe
BY Quiet DEF Fails, Ends

LEMMA OwnersLevel ==
  ASSUME NEW u \in People, NEW c \in Homes, Level(u, c) = 3
  PROVE  home[c].owner = u
BY CalendarsAssumption DEF Level

LEMMA CreateStep ==
  ASSUME CInv, NEW k \in Calls, NEW d \in Devices, NEW seg \in Words,
         NEW name \in Titles,
         CreateCalendar(k, d, seg, name) \/ CreateAddressBook(k, d, seg, name)
  PROVE  CInv' /\ Safe
<1>1. PICK kind \in {"calendar", "addressbook"} : CreateHome(k, d, kind, seg, name)
  BY DEF CreateCalendar, CreateAddressBook
<1> DEFINE u == Owner[d]
           own == {c \in HomeOf(u, kind) : home[c].owner = u}
           r == [kind |-> "create", phase |-> "insert", of |-> kind, dev |-> d, name |-> name,
                 slug |-> IF seg = name THEN None ELSE seg, seen |-> {c \in Homes : LiveHome(c)}]
<1>2. FindHome(u, kind, seg) = {} /\ Takes(k, r)
  BY <1>1 DEF CreateHome
<1>3. {c \in own : Seg(c) = seg} = {}
  BY <1>2 DEF FindHome
<1>4. \A b \in Homes : LiveHome(b) /\ home[b].kind = kind /\ home[b].owner = u => b \in own
  BY DEF HomeOf, Level
<1>5. \A b \in Homes : LiveHome(b) /\ home[b].kind = kind /\ home[b].owner = u => Seg(b) # seg
  BY <1>3, <1>4
<1>6. r \in CreateCall
  BY DEF CreateCall
<1>7. /\ r.of = kind /\ r.dev = d /\ r.seen = {c \in Homes : LiveHome(c)} /\ r.kind = "create"
      /\ r.slug # None => r.slug = seg
  OBVIOUS
<1> HIDE DEF r
<1>8. SoundCreate(home, r)
  BY <1>5, <1>6, <1>7 DEF SoundCreate, LiveHome, SegOf, Seg
<1>9. Sound(home, item, r)
  BY <1>7, <1>8 DEF Sound
<1> QED BY <1>2, <1>9, Begins

LEMMA PutStep ==
  ASSUME CInv, NEW k \in Calls, NEW d \in Devices, NEW c \in Homes,
         NEW name \in Words, NEW uid \in Words, NEW content \in Payloads,
         NEW match \in Payloads \cup {None, Fresh},
         \/ PutCalendarObject(k, d, c, name, uid, content, match)
         \/ PutAddressObject(k, d, c, name, uid, content, match)
  PROVE  CInv' /\ Safe
<1>1. PICK kind \in {"calendar", "addressbook"} : PutItem(k, d, kind, c, name, uid, content, match)
  BY DEF PutCalendarObject, PutAddressObject
<1> DEFINE R(other) ==
       [kind |-> "put", phase |-> "name", dev |-> d, home |-> c, name |-> name,
        uid |-> uid, content |-> content, match |-> match,
        other |-> other, target |-> None, base |-> 0, seen |-> WithUID(c, uid)]
<1>2. PICK other \in IF WithUID(c, uid) = {} THEN {None} ELSE WithUID(c, uid) : Takes(k, R(other))
  BY <1>1 DEF PutItem
<1>3. WithUID(c, uid) \subseteq Items
  BY DEF WithUID, ItemsIn
<1> DEFINE r == R(other)
<1>4. r \in PutCall
  BY <1>2, <1>3 DEF PutCall
<1>5. /\ r.kind = "put" /\ r.home = c /\ r.phase = "name" /\ r.target = None
      /\ r.other = other /\ r.seen = WithUID(c, uid)
  OBVIOUS
<1>6. Takes(k, r)
  BY <1>2
<1> HIDE DEF r
<1>7. other = None => WithUID(c, uid) = {}
  BY <1>2, <1>3, CalendarsAssumption
<1>8. SoundPut(home, item, r)
  BY <1>1, <1>4, <1>5, <1>7, CalendarsAssumption DEF SoundPut, PutItem, LiveHome
<1>9. Sound(home, item, r)
  BY <1>5, <1>8 DEF Sound
<1> QED BY <1>6, <1>9, Begins

LEMMA DeleteStep ==
  ASSUME CInv, NEW k \in Calls, NEW d \in Devices \cup {Operator},
         NEW c \in Homes, home[c] # None, NEW todo \in SUBSET ItemsIn(c), NEW whole \in BOOLEAN,
         d = Operator => whole, Takes(k, Begun(d, c, todo, whole))
  PROVE  CInv' /\ Safe
<1> DEFINE r == Begun(d, c, todo, whole)
<1>1. todo \subseteq Items /\ \A i \in todo : item[i] # None /\ item[i].home = c
  BY DEF ItemsIn
<1>2. r \in DeleteCall
  BY <1>1 DEF DeleteCall, Begun
<1>3. r.kind = "delete" /\ r.home = c /\ r.dev = d /\ r.todo = todo /\ r.whole = whole
  BY DEF Begun
<1> HIDE DEF r
<1>4. SoundDelete(home, item, r)
  BY <1>1, <1>2, <1>3 DEF SoundDelete
<1>5. Sound(home, item, r)
  BY <1>3, <1>4 DEF Sound
<1>6. Takes(k, r)
  BY DEF r
<1> QED BY <1>5, <1>6, Begins

LEMMA DeleteItemStep ==
  ASSUME CInv, NEW k \in Calls, NEW d \in Devices, NEW i \in Items,
         DeleteItem(k, d, i)
  PROVE  CInv' /\ Safe
<1>1. item[i] # None /\ item[i].live /\ home[item[i].home] # None
  BY DEF DeleteItem, LiveHome
<1>2. item[i].home \in Homes
  BY <1>1, TypesOfItem DEF ItemRow
<1>3. {i} \in SUBSET ItemsIn(item[i].home)
  BY <1>1 DEF ItemsIn
<1>4. Takes(k, Begun(d, item[i].home, {i}, FALSE)) /\ d # Operator
  BY CalendarsAssumption DEF DeleteItem
<1> QED BY <1>1, <1>2, <1>3, <1>4, DeleteStep

LEMMA DeleteHomeStep ==
  ASSUME CInv, NEW k \in Calls, NEW d \in Devices, NEW c \in Homes,
         DeleteCalendar(k, d, c) \/ DeleteAddressBook(k, d, c)
  PROVE  CInv' /\ Safe
<1>1. home[c] # None /\ \E e \in {d, Operator} : Takes(k, Begun(e, c, ItemsIn(c), TRUE))
  BY DEF DeleteCalendar, DeleteAddressBook, LiveHome
<1> QED BY <1>1, DeleteStep

LEMMA PatchStep ==
  ASSUME CInv, NEW k \in Calls, NEW d \in Devices, NEW c \in Homes, home[c] # None,
         NEW patch \in PatchesOf(home[c].owner), Patch(k, d, c, patch)
  PROVE  CInv' /\ Safe
<1> DEFINE r == [kind |-> "patch", phase |-> "read", dev |-> d, home |-> c, patch |-> patch,
                 base |-> None]
<1>1. Takes(k, r)
  BY DEF Patch
<1>2. r \in PatchCall(home[c].owner)
  BY DEF PatchCall
<1>3. r.kind = "patch" /\ r.home = c /\ r.phase = "read"
  OBVIOUS
<1> HIDE DEF r
<1>4. SoundPatch(home, r)
  BY <1>2, <1>3 DEF SoundPatch
<1> QED BY <1>1, <1>3, <1>4, Begins DEF Sound

LEMMA PatchMetadataStep ==
  ASSUME CInv, NEW k \in Calls, NEW d \in Devices, NEW c \in Homes,
         NEW on \in BOOLEAN, NEW sent \in Devices, PatchMetadata(k, d, c, on, sent)
  PROVE  CInv' /\ Safe
<1>1. home[c] # None /\ Level(Owner[d], c) = 3 /\ Patch(k, d, c, MirrorPatch(d, on, sent))
  BY DEF PatchMetadata, LiveHome
<1>2. home[c].owner = Owner[d]
  BY <1>1, OwnersLevel, CalendarsAssumption
<1>3. MirrorPatch(d, on, sent) \in PatchesOf(home[c].owner)
  <2>1. CASE on
    BY <1>2, <2>1 DEF MirrorPatch, PatchesOf
  <2>2. CASE ~on
    BY <2>2 DEF MirrorPatch, PatchesOf
  <2> QED BY <2>1, <2>2
<1> QED BY <1>1, <1>3, PatchStep

LEMMA PropPatchStep ==
  ASSUME CInv, NEW k \in Calls, NEW d \in Devices, NEW c \in Homes,
         NEW color \in Colors, PropPatch(k, d, c, color)
  PROVE  CInv' /\ Safe
<1>1. home[c] # None
  BY DEF PropPatch, LiveHome
<1>2. CASE Patch(k, d, c, [color |-> color])
  <2>1. [color |-> color] \in PatchesOf(home[c].owner)
    BY DEF PatchesOf
  <2> QED BY <1>1, <1>2, <2>1, PatchStep
<1>3. CASE SetPref(Owner[d], c, color) /\ UNCHANGED <<home, item, copy, call>>
  <2>1. Owner[d] \in People /\ pref \in PrefRows
    BY CalendarsAssumption DEF CInv
  <2>2. pref' \in PrefRows
    BY <1>3, <2>1 DEF SetPref, PrefRows
  <2>3. RowsStep
    BY <1>3, <2>2 DEF CInv, RowsStep, HomesGrow, ItemsGrow, Told, HomeRows, HomeRow
  <2>4. CallStep
    BY <1>3 DEF CInv, CallStep
  <2>5. Safe
    BY <1>3 DEF Safe, UIDsSafe, KeysSafe, PathsSafe, MirrorSafe
  <2> QED BY <1>3, <2>3, <2>4, <2>5, InvStep
<1> QED BY <1>2, <1>3 DEF PropPatch

LEMMA PollStep ==
  ASSUME CInv, NEW k \in Calls, NEW d \in Devices, NEW c \in Homes, NEW early \in BOOLEAN,
         Poll(k, d, c, early)
  PROVE  CInv' /\ Safe
<1> DEFINE r == [kind |-> "poll", phase |-> "rest", home |-> c, early |-> early,
                 tag |-> IF early THEN None ELSE Tag(c),
                 items |-> IF early THEN Listed(c) ELSE {}]
<1>1. Takes(k, r) /\ home[c] # None
  BY DEF Poll, LiveHome
<1>2. home[c].seq \in Nat /\ home[c].stamp \in Nat
  BY <1>1, TypesOfHome
<1>3. r.kind = "poll" /\ r.home = c /\ r.early = early /\ (~early => r.tag = Tag(c))
  OBVIOUS
<1> HIDE DEF r
<1>4. SoundPoll(home, r)
  BY <1>1, <1>2, <1>3 DEF SoundPoll, Tag
<1> QED BY <1>1, <1>3, <1>4, Begins DEF Sound

-----------------------------------------------------------------------------
(* Requests write, or go on.                                               *)

\* Only the request that steps may break anything.
LEMMA OthersSafe ==
  ASSUME NEW k \in Calls, \A j \in Calls : j # k => call'[j] = call[j],
         UIDsSafe(k), KeysSafe(k), PathsSafe(k), \A c \in Homes : MirrorSafe(c)
  PROVE  Safe
<1>1. ASSUME NEW j \in Calls, j # k PROVE UIDsSafe(j) /\ KeysSafe(j) /\ PathsSafe(j)
  BY <1>1 DEF UIDsSafe, KeysSafe, PathsSafe
<1> QED BY <1>1 DEF Safe

LEMMA InsertHomeStep ==
  ASSUME CInv, NEW k \in Calls, NEW c \in Homes, InsertHome(k, c)
  PROVE  CInv' /\ Safe
<1> DEFINE r == call[k]
           u == Owner[r.dev]
           row == [kind |-> r.of, owner |-> u, name |-> r.name, live |-> TRUE, slug |-> r.slug,
                   color |-> None, mirror |-> FALSE, writer |-> None, stamp |-> 1, seq |-> 0]
<1>1. CASE Fails(k)
  BY <1>1, Failing
<1>2. CASE home' = [home EXCEPT ![c] = row] /\ UNCHANGED <<item, pref>> /\ Ends(k)
  <2>1. r # None /\ r.kind = "create" /\ home[c] = None
    BY DEF InsertHome, Does
  <2>2. SoundCreate(home, r)
    BY <2>1 DEF CInv, Sound
  <2>3. r \in CreateCall /\ u \in People
    BY <2>2, CalendarsAssumption DEF SoundCreate, CreateCall
  <2>4. row \in HomeRow
    BY <2>3 DEF CreateCall, HomeRow
  <2>5. /\ row.kind = r.of /\ row.owner = u /\ row.slug = r.slug /\ row.mirror = FALSE
    OBVIOUS
  <2>6. home'[c] = row /\ \A b \in Homes : b # c => home'[b] = home[b]
    BY <1>2 DEF CInv, HomeRows
  <2>h. home' = [home EXCEPT ![c] = row]
    BY <1>2
  <2> HIDE DEF row
  <2>7. RowsStep
    BY <1>2, <2>1, <2>4, <2>5, <2>h, HomeRowsStep
  <2>8. call' = [call EXCEPT ![k] = None] /\ copy' = copy
    BY <1>2 DEF Ends, Goes
  <2>9. CallStep /\ call'[k] = None /\ \A j \in Calls : j # k => call'[j] = call[j]
    BY <2>8, CallGoes
  <2>10. PathsSafe(k)
    <3>1. SUFFICES ASSUME NEW b \in Homes, LiveHome(b), home[b].kind = row.kind,
                          home[b].owner = row.owner, Seg(b) = row.slug
                   PROVE  b \notin r.seen
      BY <2>1, <2>6 DEF PathsSafe
    <3>2. r.slug # None
      BY <2>5, <3>1, CalendarsAssumption DEF Seg
    <3> QED BY <2>2, <2>5, <3>1, <3>2 DEF SoundCreate, Seg, SegOf
  <2>11. UIDsSafe(k) /\ KeysSafe(k) /\ \A b \in Homes : MirrorSafe(b)
    BY <1>2, <2>1 DEF UIDsSafe, KeysSafe, MirrorSafe
  <2>12. Safe
    BY <2>9, <2>10, <2>11, OthersSafe
  <2> QED BY <2>7, <2>8, <2>9, <2>12, InvStep
<1> QED BY <1>1, <1>2 DEF InsertHome

LEMMA PutNameStep ==
  ASSUME CInv, NEW k \in Calls, PutName(k)
  PROVE  CInv' /\ Safe
<1> DEFINE r == call[k]
           R(t) == [r EXCEPT !.phase = "push", !.target = t,
                             !.base = IF t = Fresh THEN 0 ELSE item[t].rev]
<1>1. PICK t \in IF Named(r.home, r.name) = {} THEN {Fresh} ELSE Named(r.home, r.name) :
        IF MayPut(r, t) THEN Goes(k, R(t)) ELSE Ends(k)
  BY DEF PutName
<1>2. UNCHANGED tables /\ r # None /\ r.kind = "put"
  BY DEF PutName, Does
<1>3. SoundPut(home, item, r)
  BY <1>2 DEF CInv, Sound
<1>4. CASE Ends(k)
  BY <1>2, <1>4, Failing DEF Fails
<1>5. CASE MayPut(r, t) /\ Goes(k, R(t))
  <2>1. t = Fresh \/ (t \in Items /\ item[t] # None /\ item[t].home = r.home)
    BY <1>1 DEF Named, ItemsIn
  <2>2. t # Fresh => item[t].rev \in Nat
    BY <2>1, TypesOfItem DEF ItemRow
  <2>3. r \in PutCall
    BY <1>3 DEF SoundPut
  <2> DEFINE s == R(t)
  <2>4. s \in PutCall
    BY <2>1, <2>2, <2>3 DEF PutCall
  <2>5. /\ s.kind = "put" /\ s.home = r.home /\ s.other = r.other /\ s.seen = r.seen
        /\ s.target = t
    BY <1>2, <2>3 DEF PutCall
  <2>6. Goes(k, s)
    BY <1>5
  <2> HIDE DEF s
  <2>7. r.other \in {None, t}
    BY <1>5 DEF MayPut
  <2>8. t # None
    BY <2>1, CalendarsAssumption
  <2>9. SoundPut(home, item, s)
    BY <1>3, <2>1, <2>4, <2>5, <2>7, <2>8, CalendarsAssumption DEF SoundPut
  <2> QED BY <1>2, <2>5, <2>6, <2>9, Quiet DEF Sound
<1> QED BY <1>1, <1>4, <1>5

\* A request that pushes may, and if its device is not the local operator's, it
\* is the writer of what is mirrored.
LEMMA WriterPushes ==
  ASSUME NEW d, NEW c, MayPush(d, c)
  PROVE  LiveHome(c) /\ (d # Operator /\ home[c].mirror => d = home[c].writer)
BY DEF MayPush

\* A put that pushes the row of item i.
LEMMA PutPushed ==
  ASSUME CInv, NEW k \in Calls, NEW i \in Items, Does(k, "put", "push"),
         MayPush(call[k].dev, call[k].home), Ends(k),
         NEW n \in Nat,
         Pushed(i, [home |-> call[k].home, name |-> call[k].name, uid |-> call[k].uid,
                    content |-> call[k].content, live |-> TRUE, rev |-> n]),
         \/ call[k].target = Fresh /\ item[i] = None
         \/ call[k].target = i
  PROVE  CInv' /\ Safe
<1> DEFINE r == call[k]
           row == [home |-> r.home, name |-> r.name, uid |-> r.uid,
                   content |-> r.content, live |-> TRUE, rev |-> n]
<1>1. r # None /\ r.kind = "put" /\ r.phase = "push"
  BY DEF Does
<1>2. SoundPut(home, item, r)
  BY <1>1 DEF CInv, Sound
<1>3. r \in PutCall /\ r.home \in Homes /\ home[r.home] # None
  BY <1>2 DEF SoundPut, PutCall
<1>4. row \in ItemRow
  BY <1>3 DEF PutCall, ItemRow
<1>5. row.home = r.home
  OBVIOUS
<1>6. item[i] # None => item[i].home = r.home
  BY <1>2, <1>5 DEF SoundPut
<1>7. item' = [item EXCEPT ![i] = row] /\ Pushed(i, row)
  BY DEF Pushed
<1> HIDE DEF row
<1>8. RowsStep
  BY <1>3, <1>4, <1>5, <1>6, <1>7, PushedRows
<1>9. call' = [call EXCEPT ![k] = None] /\ copy' = copy
  BY DEF Ends, Goes
<1>10. CallStep /\ call'[k] = None /\ \A j \in Calls : j # k => call'[j] = call[j]
  BY <1>9, CallGoes
<1>11. \A j \in Items : j # i => item'[j] = item[j]
  BY <1>7 DEF CInv, ItemRows
<1>12. UIDsSafe(k)
  <2>1. SUFFICES ASSUME NEW j \in Items PROVE j \notin r.seen \/ r.other = i
    BY <1>11 DEF UIDsSafe
  <2>2. r.other \in {None, r.target} /\ (r.other = None => r.seen = {})
    BY <1>1, <1>2 DEF SoundPut
  <2>3. r.other \in Items \cup {None}
    BY <1>3 DEF PutCall
  <2>4. CASE r.target = Fresh
    BY <2>2, <2>3, <2>4, CalendarsAssumption
  <2>5. CASE r.target = i
    BY <2>2, <2>5
  <2> QED BY <2>4, <2>5
<1>13. KeysSafe(k) /\ PathsSafe(k)
  BY <1>1 DEF KeysSafe, PathsSafe
<1>14. ASSUME NEW c \in Homes PROVE MirrorSafe(c)
  <2>1. r.dev # Operator
    BY <1>3, CalendarsAssumption DEF PutCall
  <2>2. CASE c = r.home
    BY <1>1, <1>10, <2>1, <2>2, WriterPushes DEF MirrorSafe
  <2>3. CASE c # r.home
    <3>1. item'[i] = row
      BY <1>7 DEF CInv, ItemRows
    <3>2. ItemsAt(item', c) = ItemsAt(item, c)
      BY <1>5, <1>6, <1>11, <2>3, <3>1 DEF ItemsAt
    <3> QED BY <3>2 DEF MirrorSafe
  <2> QED BY <2>2, <2>3
<1>15. Safe
  BY <1>10, <1>12, <1>13, <1>14, OthersSafe
<1> QED BY <1>8, <1>9, <1>10, <1>15, InvStep

LEMMA CreateItemStep ==
  ASSUME CInv, NEW k \in Calls, NEW i \in Items, CreateItem(k, i)
  PROVE  CInv' /\ Safe
<1>1. CASE Fails(k)
  BY <1>1, Failing
<1>2. CASE ~Fails(k)
  BY <1>2, PutPushed, 1 \in Nat DEF CreateItem
<1> QED BY <1>1, <1>2

LEMMA UpdateItemStep ==
  ASSUME CInv, NEW k \in Calls, UpdateItem(k)
  PROVE  CInv' /\ Safe
<1> DEFINE i == call[k].target
<1>1. CASE Fails(k)
  BY <1>1, Failing
<1>2. CASE ~Fails(k)
  <2>1. Does(k, "put", "push") /\ i # Fresh
    BY DEF UpdateItem
  <2>2. SoundPut(home, item, call[k])
    BY <2>1 DEF CInv, Sound, Does
  <2>3. i \in Items /\ item[i] # None
    BY <2>1, <2>2 DEF SoundPut, PutCall, Does
  <2>4. item[i].rev + 1 \in Nat
    BY <2>3, TypesOfItem DEF ItemRow
  <2>5. /\ MayPush(call[k].dev, call[k].home) /\ Ends(k)
        /\ Pushed(i, [home |-> call[k].home, name |-> call[k].name, uid |-> call[k].uid,
                      content |-> call[k].content, live |-> TRUE, rev |-> item[i].rev + 1])
    BY <1>2 DEF UpdateItem
  <2> QED BY <2>1, <2>3, <2>4, <2>5, PutPushed
<1> QED BY <1>1, <1>2

LEMMA DeletedRow ==
  ASSUME NEW x \in ItemRow
  PROVE  LET y == [x EXCEPT !.live = FALSE, !.rev = @ + 1] IN y \in ItemRow /\ y.home = x.home
<1> DEFINE z == [x EXCEPT !.live = FALSE]
<1>1. z \in ItemRow /\ z.rev \in Nat /\ z.home = x.home /\ z.rev = x.rev
  BY DEF ItemRow
<1>2. [x EXCEPT !.live = FALSE, !.rev = @ + 1] = [z EXCEPT !.rev = x.rev + 1]
  BY DEF ItemRow
<1> HIDE DEF z
<1>3. [z EXCEPT !.rev = x.rev + 1] \in ItemRow /\ [z EXCEPT !.rev = x.rev + 1].home = z.home
  BY <1>1 DEF ItemRow
<1> QED BY <1>1, <1>2, <1>3

LEMMA DeleteOneStep ==
  ASSUME CInv, NEW k \in Calls, NEW i \in Items, DeleteOne(k, i)
  PROVE  CInv' /\ Safe
<1> DEFINE r == call[k]
           s == [r EXCEPT !.todo = @ \ {i}]
           row == [item[i] EXCEPT !.live = FALSE, !.rev = @ + 1]
<1>1. CASE Fails(k)
  BY <1>1, Failing
<1>2. CASE ~Fails(k)
  <2>1. /\ r # None /\ r.kind = "delete" /\ i \in r.todo /\ MayPush(r.dev, r.home)
        /\ Goes(k, s)
        /\ IF item[i].live THEN Pushed(i, row) ELSE UNCHANGED tables
    BY <1>2 DEF DeleteOne, Does
  <2>2. SoundDelete(home, item, r)
    BY <2>1 DEF CInv, Sound
  <2>3. /\ r \in DeleteCall /\ r.home \in Homes /\ home[r.home] # None
        /\ item[i] # None /\ item[i].home = r.home
    BY <2>1, <2>2 DEF SoundDelete, DeleteCall
  <2>4. s \in DeleteCall
    BY <2>3 DEF DeleteCall
  <2>5. /\ s.kind = "delete" /\ s.home = r.home /\ s.dev = r.dev /\ s.whole = r.whole
        /\ s.todo = r.todo \ {i}
    BY <2>1, <2>3 DEF DeleteCall
  <2>h. Goes(k, s)
    BY <2>1
  <2> HIDE DEF s
  <2>6. SoundDelete(home, item, s)
    BY <2>2, <2>4, <2>5 DEF SoundDelete
  <2>7. Sound(home, item, s)
    BY <2>5, <2>6 DEF Sound
  <2>8. CASE UNCHANGED tables
    BY <2>7, <2>8, <2>h, Quiet
  <2>9. CASE item[i].live /\ Pushed(i, row)
    <3>1. item[i] \in ItemRow
      BY <2>3, TypesOfItem
    <3>2. row \in ItemRow
      BY <3>1, DeletedRow
    <3>3. row.home = r.home
      BY <2>3, <3>1, DeletedRow
    <3>4. Pushed(i, row)
      BY <2>9
    <3> HIDE DEF row
    <3>5. RowsStep
      BY <2>3, <3>2, <3>3, <3>4, PushedRows
    <3>6. Sound(home', item', s)
      BY <2>7, <3>5, SoundStays DEF CInv, RowsStep
    <3>7. call' = [call EXCEPT ![k] = s] /\ copy' = copy
      BY <2>h DEF Goes
    <3>8. CallStep /\ call'[k] = s /\ \A j \in Calls : j # k => call'[j] = call[j]
      BY <3>6, <3>7, CallGoes
    <3>9. item'[i] = row /\ \A j \in Items : j # i => item'[j] = item[j]
      BY <3>4 DEF Pushed, CInv, ItemRows
    <3>10. UIDsSafe(k) /\ KeysSafe(k) /\ PathsSafe(k)
      BY <2>1 DEF UIDsSafe, KeysSafe, PathsSafe
    <3>11. ASSUME NEW c \in Homes PROVE MirrorSafe(c)
      <4>1. CASE c = r.home
        <5>1. s # r
          BY <2>1, <2>5
        <5>2. LiveHome(c) /\ home[c].mirror => r.dev = home[c].writer \/ r.dev = Operator
          BY <2>1, <4>1, WriterPushes
        <5>3. r.dev = Operator => r.whole
          BY <2>2 DEF SoundDelete
        <5> QED BY <2>1, <3>8, <4>1, <5>1, <5>2, <5>3 DEF MirrorSafe
      <4>2. CASE c # r.home
        <5>1. ItemsAt(item', c) = ItemsAt(item, c)
          BY <2>3, <3>3, <3>9, <4>2 DEF ItemsAt
        <5> QED BY <5>1 DEF MirrorSafe
      <4> QED BY <4>1, <4>2
    <3>12. Safe
      BY <3>8, <3>10, <3>11, OthersSafe
    <3> QED BY <3>5, <3>7, <3>8, <3>12, InvStep
  <2> QED BY <2>1, <2>8, <2>9
<1> QED BY <1>1, <1>2

LEMMA DeleteEndsStep ==
  ASSUME CInv, NEW k \in Calls, DeleteEnds(k)
  PROVE  CInv' /\ Safe
<1> DEFINE r == call[k]
           c == r.home
           row == [home[c] EXCEPT !.live = FALSE]
<1>1. r # None /\ r.kind = "delete" /\ Ends(k) /\ UNCHANGED <<item, pref>>
  BY DEF DeleteEnds, Does
<1>2. SoundDelete(home, item, r)
  BY <1>1 DEF CInv, Sound
<1>3. c \in Homes /\ home[c] # None
  BY <1>2 DEF SoundDelete, DeleteCall
<1>4. CASE home' = home
  BY <1>1, <1>4, Failing DEF Fails, tables
<1>5. CASE home' = [home EXCEPT ![c].live = FALSE]
  <2>1. home[c] \in HomeRow /\ home[c].seq \in Nat
    BY <1>3, TypesOfHome
  <2>2. row \in HomeRow
    BY <2>1 DEF HomeRow
  <2>3. /\ row.kind = home[c].kind /\ row.owner = home[c].owner /\ row.slug = home[c].slug
        /\ row.seq = home[c].seq /\ row.mirror = home[c].mirror /\ row.writer = home[c].writer
    BY <2>1 DEF HomeRow
  <2>4. home' = [home EXCEPT ![c] = row]
    BY <1>5
  <2> HIDE DEF row, c
  <2>5. row.mirror => OwnWriter(row.owner, row.writer)
    BY <1>3, <2>3 DEF CInv, WritersIn
  <2>6. home[c].seq <= row.seq
    BY <2>1, <2>3
  <2>7. RowsStep
    BY <1>1, <1>3, <2>2, <2>3, <2>4, <2>5, <2>6, HomeRowsStep
  <2>8. call' = [call EXCEPT ![k] = None] /\ copy' = copy
    BY <1>1 DEF Ends, Goes
  <2>9. CallStep /\ call'[k] = None /\ \A j \in Calls : j # k => call'[j] = call[j]
    BY <2>8, CallGoes
  <2>10. UIDsSafe(k) /\ KeysSafe(k) /\ PathsSafe(k) /\ \A b \in Homes : MirrorSafe(b)
    BY <1>1 DEF UIDsSafe, KeysSafe, PathsSafe, MirrorSafe
  <2>11. Safe
    BY <2>9, <2>10, OthersSafe
  <2> QED BY <2>7, <2>8, <2>9, <2>11, InvStep
<1> QED BY <1>4, <1>5 DEF DeleteEnds

LEMMA PatchReadStep ==
  ASSUME CInv, NEW k \in Calls, PatchRead(k)
  PROVE  CInv' /\ Safe
<1> DEFINE r == call[k]
           c == r.home
           s == [r EXCEPT !.phase = "write", !.base = Metadata(c)]
<1>1. r # None /\ r.kind = "patch" /\ UNCHANGED tables /\ (Ends(k) \/ (LiveHome(c) /\ Goes(k, s)))
  BY DEF PatchRead, Does
<1>2. CASE Ends(k)
  BY <1>1, <1>2, Failing DEF Fails
<1>3. CASE LiveHome(c) /\ Goes(k, s)
  <2>1. SoundPatch(home, r)
    BY <1>1 DEF CInv, Sound
  <2>2. c \in Homes /\ home[c] # None /\ r \in PatchCall(home[c].owner)
    BY <2>1 DEF SoundPatch
  <2>3. home[c] \in HomeRow
    BY <2>2, TypesOfHome
  <2>4. Metadata(c) \in Document /\ Metadata(c).slug = home[c].slug
        /\ Metadata(c).mirror = home[c].mirror /\ Metadata(c).writer = home[c].writer
    BY <2>3 DEF Metadata, Document, HomeRow
  <2>5. s \in PatchCall(home[c].owner)
    BY <2>2, <2>4 DEF PatchCall
  <2>6. s.kind = "patch" /\ s.home = c /\ s.base = Metadata(c)
    BY <1>1, <2>2 DEF PatchCall
  <2>h. Goes(k, s)
    BY <1>3
  <2> HIDE DEF s
  <2>7. Metadata(c).mirror => OwnWriter(home[c].owner, Metadata(c).writer)
    BY <2>2, <2>4 DEF CInv, WritersIn
  <2>8. SoundPatch(home, s)
    BY <2>2, <2>4, <2>5, <2>6, <2>7 DEF SoundPatch
  <2> QED BY <1>1, <2>6, <2>8, <2>h, Quiet DEF Sound
<1> QED BY <1>1, <1>2, <1>3

\* What a patch leaves of the document it read.
LEMMA MergedIs ==
  ASSUME NEW u, NEW base \in Document, NEW patch \in PatchesOf(u),
         base.mirror => OwnWriter(u, base.writer)
  PROVE  LET doc == Merged(base, patch) IN
         /\ doc \in Document /\ doc.slug = base.slug
         /\ doc.mirror => OwnWriter(u, doc.writer)
         /\ \A f \in {"slug", "color", "mirror", "writer"} \ DOMAIN patch : doc[f] = base[f]
<1> DEFINE doc == Merged(base, patch)
<1>1. DOMAIN base = {"slug", "color", "mirror", "writer"}
  BY DEF Document
<1>2. doc = [slug |-> IF "slug" \in DOMAIN patch THEN patch["slug"] ELSE base.slug,
             color |-> IF "color" \in DOMAIN patch THEN patch["color"] ELSE base.color,
             mirror |-> IF "mirror" \in DOMAIN patch THEN patch["mirror"] ELSE base.mirror,
             writer |-> IF "writer" \in DOMAIN patch THEN patch["writer"] ELSE base.writer]
  BY <1>1 DEF Merged
<1>3. /\ base.slug \in Words \cup {None} /\ base.color \in Colors \cup {None}
      /\ base.mirror \in BOOLEAN /\ base.writer \in Devices \cup {None}
  BY DEF Document
<1>4. CASE patch \in [color : Colors]
  <2>1. DOMAIN patch = {"color"} /\ patch["color"] \in Colors
    BY <1>4
  <2>2. doc = [slug |-> base.slug, color |-> patch["color"], mirror |-> base.mirror,
               writer |-> base.writer]
    BY <1>2, <2>1
  <2> QED BY <1>3, <2>1, <2>2 DEF Document
<1>5. CASE patch \in [mirror : {TRUE}, writer : {d \in Devices : Owner[d] = u}]
  <2>1. /\ DOMAIN patch = {"mirror", "writer"} /\ patch["mirror"] = TRUE
        /\ patch["writer"] \in Devices /\ Owner[patch["writer"]] = u
    BY <1>5
  <2>2. doc = [slug |-> base.slug, color |-> base.color, mirror |-> TRUE,
               writer |-> patch["writer"]]
    BY <1>2, <2>1
  <2> QED BY <1>3, <2>1, <2>2 DEF Document, OwnWriter
<1>6. CASE patch \in [mirror : {FALSE}]
  <2>1. DOMAIN patch = {"mirror"} /\ patch["mirror"] = FALSE
    BY <1>6
  <2>2. doc = [slug |-> base.slug, color |-> base.color, mirror |-> FALSE,
               writer |-> base.writer]
    BY <1>2, <2>1
  <2> QED BY <1>3, <2>1, <2>2 DEF Document
<1> QED BY <1>4, <1>5, <1>6 DEF PatchesOf

LEMMA PatchWriteStep ==
  ASSUME CInv, NEW k \in Calls, PatchWrite(k)
  PROVE  CInv' /\ Safe
<1> DEFINE r == call[k]
           c == r.home
           doc == Merged(r.base, r.patch)
           row == [kind |-> home[c].kind, owner |-> home[c].owner, name |-> home[c].name,
                   live |-> TRUE, slug |-> doc.slug, color |-> doc.color,
                   mirror |-> doc.mirror, writer |-> doc.writer,
                   stamp |-> home[c].stamp + 1, seq |-> home[c].seq]
<1>1. CASE Fails(k)
  BY <1>1, Failing
<1>2. CASE ~Fails(k)
  <2>1. /\ r # None /\ r.kind = "patch" /\ r.phase = "write"
        /\ home' = [home EXCEPT ![c] = row] /\ UNCHANGED <<item, pref>> /\ Ends(k)
    BY <1>2 DEF PatchWrite, Does
  <2>2. SoundPatch(home, r)
    BY <2>1 DEF CInv, Sound
  <2>3. /\ c \in Homes /\ home[c] # None /\ r.patch \in PatchesOf(home[c].owner)
        /\ r.base \in Document /\ r.base.slug = home[c].slug
        /\ r.base.mirror => OwnWriter(home[c].owner, r.base.writer)
    BY <2>1, <2>2 DEF SoundPatch, PatchCall
  <2>4. home[c] \in HomeRow /\ home[c].seq \in Nat /\ home[c].stamp \in Nat
    BY <2>3, TypesOfHome
  <2>5. /\ doc \in Document /\ doc.slug = home[c].slug
        /\ doc.mirror => OwnWriter(home[c].owner, doc.writer)
        /\ \A f \in {"slug", "color", "mirror", "writer"} \ DOMAIN r.patch : doc[f] = r.base[f]
    BY <2>3, MergedIs
  <2> HIDE DEF doc
  <2>6. row \in HomeRow
    BY <2>4, <2>5 DEF HomeRow, Document
  <2>7. /\ row.kind = home[c].kind /\ row.owner = home[c].owner /\ row.slug = doc.slug
        /\ row.color = doc.color /\ row.mirror = doc.mirror /\ row.writer = doc.writer
        /\ row.seq = home[c].seq
    OBVIOUS
  <2>h. home' = [home EXCEPT ![c] = row]
    BY <2>1
  <2> HIDE DEF row
  <2>8. RowsStep
    <3>1. home[c].seq <= row.seq
      BY <2>4, <2>7
    <3>2. row.slug = home[c].slug /\ (row.mirror => OwnWriter(row.owner, row.writer))
      BY <2>5, <2>7
    <3> HIDE DEF c
    <3> QED BY <2>1, <2>3, <2>6, <2>7, <2>h, <3>1, <3>2, HomeRowsStep
  <2>9. call' = [call EXCEPT ![k] = None] /\ copy' = copy
    BY <2>1 DEF Ends, Goes
  <2>10. CallStep /\ call'[k] = None /\ \A j \in Calls : j # k => call'[j] = call[j]
    BY <2>9, CallGoes
  <2>11. KeysSafe(k)
    <3>1. SUFFICES ASSUME r.base = Metadata(c),
                          NEW f \in DOMAIN Metadata(c) \ DOMAIN r.patch
                   PROVE  home'[c][f] = home[c][f]
      BY DEF KeysSafe
    <3>2. f \in {"slug", "color", "mirror", "writer"} \ DOMAIN r.patch
      BY DEF Metadata
    <3>3. doc[f] = r.base[f]
      BY <2>5, <3>2
    <3>4. home'[c] = row
      BY <2>3, <2>h DEF CInv, HomeRows
    <3>5. row[f] = doc[f]
      BY <2>7, <3>2
    <3>6. Metadata(c)[f] = home[c][f]
      BY <3>2 DEF Metadata
    <3> QED BY <3>1, <3>3, <3>4, <3>5, <3>6
  <2>12. UIDsSafe(k) /\ PathsSafe(k) /\ \A b \in Homes : MirrorSafe(b)
    BY <2>1 DEF UIDsSafe, PathsSafe, MirrorSafe
  <2>13. Safe
    BY <2>10, <2>11, <2>12, OthersSafe
  <2> QED BY <2>8, <2>9, <2>10, <2>13, InvStep
<1> QED BY <1>1, <1>2

LEMMA PollEndsStep ==
  ASSUME CInv, NEW k \in Calls, PollEnds(k)
  PROVE  CInv' /\ Safe
<1> DEFINE r == call[k]
           c == r.home
           p == IF r.early THEN [tag |-> Tag(c), items |-> r.items, early |-> TRUE]
                ELSE [tag |-> r.tag, items |-> Listed(c), early |-> FALSE]
<1>1. r # None /\ r.kind = "poll" /\ UNCHANGED tables /\ call' = [call EXCEPT ![k] = None]
  BY DEF PollEnds, Does
<1>2. SoundPoll(home, r)
  BY <1>1 DEF CInv, Sound
<1>3. CallStep
  BY <1>1, CallGoes
<1>4. RowsStep /\ Safe
  BY <1>1, QuietRows, QuietSafe
<1>5. CASE copy' = copy
  BY <1>3, <1>4, <1>5, InvStep
<1>6. CASE copy' = [copy EXCEPT ![c] = p]
  <2>1. p.early = r.early /\ (~r.early => p.tag = r.tag /\ p.items = Listed(c))
    BY <1>2 DEF SoundPoll
  <2>2. Listed(c) = ListAt(item, c)
    BY DEF Listed, ListCalendarObjects, ListAddressObjects, ItemsIn, ListAt, ItemsAt
  <2> HIDE DEF p
  <2>3. CopyOK(home, item, c, p)
    BY <1>2, <2>1, <2>2 DEF SoundPoll, CopyOK
  <2>4. CopyOK(home', item', c, p)
    BY <1>1, <2>3 DEF tables
  <2>5. copy = [b \in Homes |-> copy[b]]
    BY DEF CInv
  <2>6. copy' = [b \in Homes |-> IF b = c THEN p ELSE copy[b]]
    BY <1>6, <2>5
  <2>7. copy' = [b \in Homes |-> copy'[b]]
    BY <2>6
  <2>8. \A b \in Homes : copy'[b] # copy[b] => b = c /\ copy'[b] = p
    BY <2>6
  <2> QED BY <1>3, <1>4, <2>4, <2>7, <2>8, InvStep
<1> QED BY <1>5, <1>6 DEF PollEnds

-----------------------------------------------------------------------------
(* Every step, and what holds of every behaviour.                          *)

LEMMA RequestStep ==
  ASSUME CInv, NEW k \in Calls, Request(k)
  PROVE  CInv' /\ Safe
<1>1. PICK d \in Devices :
        \/ \E seg \in Words, name \in Titles :
             CreateCalendar(k, d, seg, name) \/ CreateAddressBook(k, d, seg, name)
        \/ \E c \in Homes :
             \/ \E name, uid \in Words, content \in Payloads,
                   match \in Payloads \cup {None, Fresh} :
                  \/ PutCalendarObject(k, d, c, name, uid, content, match)
                  \/ PutAddressObject(k, d, c, name, uid, content, match)
             \/ Poll(k, d, c, TRUE) \/ Poll(k, d, c, FALSE)
             \/ DeleteCalendar(k, d, c) \/ DeleteAddressBook(k, d, c)
             \/ \E color \in Colors : PropPatch(k, d, c, color)
             \/ \E on \in BOOLEAN, sent \in Devices : PatchMetadata(k, d, c, on, sent)
        \/ \E i \in Items : DeleteItem(k, d, i)
  BY DEF Request
<1>2. CASE \E seg \in Words, name \in Titles :
             CreateCalendar(k, d, seg, name) \/ CreateAddressBook(k, d, seg, name)
  BY <1>2, CreateStep
<1>3. ASSUME NEW c \in Homes,
             \/ \E name, uid \in Words, content \in Payloads,
                   match \in Payloads \cup {None, Fresh} :
                  \/ PutCalendarObject(k, d, c, name, uid, content, match)
                  \/ PutAddressObject(k, d, c, name, uid, content, match)
             \/ Poll(k, d, c, TRUE) \/ Poll(k, d, c, FALSE)
             \/ DeleteCalendar(k, d, c) \/ DeleteAddressBook(k, d, c)
             \/ \E color \in Colors : PropPatch(k, d, c, color)
             \/ \E on \in BOOLEAN, sent \in Devices : PatchMetadata(k, d, c, on, sent)
      PROVE  CInv' /\ Safe
  BY <1>3, PutStep, PollStep, DeleteHomeStep, PropPatchStep, PatchMetadataStep
<1>4. CASE \E i \in Items : DeleteItem(k, d, i)
  BY <1>4, DeleteItemStep
<1> QED BY <1>1, <1>2, <1>3, <1>4

LEMMA CalStep ==
  ASSUME CInv, [CalNext]_calVars
  PROVE  CInv' /\ Safe
<1>1. CASE UNCHANGED calVars
  <2>1. UNCHANGED tables /\ copy' = copy /\ call' = call
    BY <1>1 DEF calVars, tables
  <2>2. CallStep
    BY <2>1 DEF CInv, CallStep
  <2> QED BY <2>1, <2>2, QuietRows, QuietSafe, InvStep
<1>2. ASSUME NEW k \in Calls, Request(k) PROVE CInv' /\ Safe
  BY <1>2, RequestStep
<1>3. ASSUME NEW k \in Calls, NEW c \in Homes, InsertHome(k, c) PROVE CInv' /\ Safe
  BY <1>3, InsertHomeStep
<1>4. ASSUME NEW k \in Calls, NEW i \in Items, CreateItem(k, i) \/ DeleteOne(k, i)
      PROVE  CInv' /\ Safe
  BY <1>4, CreateItemStep, DeleteOneStep
<1>5. ASSUME NEW k \in Calls, \/ PutName(k) \/ UpdateItem(k) \/ DeleteEnds(k) \/ PatchRead(k)
                              \/ PatchWrite(k) \/ PollEnds(k)
      PROVE  CInv' /\ Safe
  BY <1>5, PutNameStep, UpdateItemStep, DeleteEndsStep, PatchReadStep, PatchWriteStep, PollEndsStep
<1> QED BY <1>1, <1>2, <1>3, <1>4, <1>5 DEF CalNext

LEMMA CalStart == ASSUME CalInit PROVE CInv
<1>1. home \in HomeRows /\ item \in ItemRows
  BY CalendarsAssumption DEF CalInit, HomeRows, ItemRows
<1>2. pref \in PrefRows
  BY DEF CalInit, PrefRows
<1>3. WritersIn(home)
  <2>1. SUFFICES ASSUME NEW c \in Homes, home[c] # None, home[c].mirror
                 PROVE  OwnWriter(home[c].owner, home[c].writer)
    BY DEF WritersIn
  <2>2. home[c] \in HomeRow
    BY <1>1, <2>1 DEF HomeRows
  <2>3. home[c].writer # None /\ Owner[home[c].writer] = home[c].owner
    BY <2>1, CalendarsAssumption DEF CalInit
  <2> QED BY <2>2, <2>3 DEF HomeRow, OwnWriter
<1>4. /\ copy = [c \in Homes |-> copy[c]] /\ \A c \in Homes : copy[c] = None
      /\ call = [k \in Calls |-> call[k]] /\ \A k \in Calls : call[k] = None
  BY DEF CalInit
<1> QED BY <1>1, <1>2, <1>3, <1>4 DEF CInv

\* Where a user's own collection is listed, one of the user's own is found.
LEMMA OwnFound ==
  ASSUME CInv
  PROVE  OwnHomesFound
<1>1. SUFFICES ASSUME NEW u \in People, NEW c \in Homes, LiveHome(c), home[c].owner = u,
                      NEW b \in FindHome(u, home[c].kind, Seg(c))
               PROVE  home[b].owner = u
  BY DEF OwnHomesFound
<1> DEFINE kind == home[c].kind
           seg == Seg(c)
           all == HomeOf(u, kind)
           own == {e \in all : home[e].owner = u}
<1>2. c \in own
  BY <1>1 DEF HomeOf, Level
<1>3. home[c] \in HomeRow
  BY <1>1, TypesOfHome DEF LiveHome
<1>4. CASE seg \in all
  <2>1. b = seg
    BY <1>1, <1>4 DEF FindHome
  <2>2. seg \in Homes
    BY <1>4 DEF HomeOf
  <2>3. home[c].slug = None
    BY <1>3, <2>2, CalendarsAssumption DEF Seg, HomeRow
  <2>4. seg = c
    BY <2>3 DEF Seg
  <2> QED BY <1>1, <2>1, <2>4
<1>5. CASE seg \notin all
  <2>1. c \in {e \in own : Seg(e) = seg}
    BY <1>2
  <2>2. FindHome(u, kind, seg) = {e \in own : Seg(e) = seg}
    BY <1>5, <2>1 DEF FindHome
  <2> QED BY <1>1, <2>2
<1> QED BY <1>4, <1>5

LEMMA CopiesTell ==
  ASSUME CInv
  PROVE  TagsTell
<1>1. SUFFICES ASSUME NEW c \in Homes, UpToDate(c), ~copy[c].early
               PROVE  copy[c].items = Listed(c)
  BY DEF TagsTell
<1>2. CopyOK(home, item, c, copy[c]) /\ copy[c].tag = <<home[c].seq, home[c].stamp>>
  BY <1>1 DEF CInv, UpToDate, Tag
<1>3. copy[c].tag[1] = home[c].seq
  BY <1>2
<1>4. Listed(c) = ListAt(item, c)
  BY DEF Listed, ListCalendarObjects, ListAddressObjects, ItemsIn, ListAt, ItemsAt
<1> QED BY <1>1, <1>2, <1>3, <1>4 DEF CopyOK

\* What a calendar program finds is sound at any time: rows of their types, a
\* mirror that only a device of its owner writes, one's own collections where
\* they are listed, and tags that tell of every change (home.go, lookup.go).
THEOREM HomesStaySound == CalSpec => []HomesSound
<1>1. CInv => HomesOK /\ WritersOwn
  BY CalendarsAssumption
  DEF CInv, HomesOK, HomeRows, ItemRows, PrefRows, WritersOwn, WritersIn, OwnWriter, LiveHome
<1>2. CInv => HomesSound
  BY <1>1, OwnFound, CopiesTell DEF HomesSound
<1>3. CalInit => CInv
  BY CalStart
<1>4. CInv /\ [CalNext]_calVars => CInv'
  BY CalStep
<1> QED BY <1>2, <1>3, <1>4, PTL DEF CalSpec

\* What requests double or lose of each other's writes are writes that
\* overlapped, and a mirrored calendar changes by its writer or goes as a whole
\* (caldav.go, color.go, access.go).
THEOREM CalendarWritesStaySafe == CalSpec => CalendarWritesSafe
<1>1. Safe =>
        \A k \in Calls, i, j \in Items :
          /\ call[k] # None /\ call'[k] = None /\ call[k].kind = "put"
          /\ item'[i] # item[i] /\ item'[i].live /\ i # j
          /\ j \in WithUID(call[k].home, item'[i].uid)
          => j \notin call[k].seen \/ call[k].other = i
  BY DEF Safe, UIDsSafe
<1>2. Safe =>
        \A k \in Calls, c \in Homes :
          /\ call[k] # None /\ call'[k] = None /\ call[k].kind = "patch" /\ home' # home
          /\ call[k].home = c /\ call[k].base = Metadata(c)
          => \A f \in DOMAIN Metadata(c) \ DOMAIN call[k].patch : home'[c][f] = home[c][f]
  BY DEF Safe, KeysSafe
<1>3. Safe =>
        \A k \in Calls, b, c \in Homes :
          /\ call[k] # None /\ call'[k] = None /\ call[k].kind = "create"
          /\ home[c] = None /\ home'[c] # None
          /\ LiveHome(b) /\ home[b].kind = home'[c].kind /\ home[b].owner = home'[c].owner
          /\ Seg(b) = home'[c].slug
          => b \notin call[k].seen
  BY DEF Safe, PathsSafe
<1>4. Safe =>
        \A c \in Homes : LiveHome(c) /\ home[c].mirror /\ ItemsIn(c)' # ItemsIn(c) =>
          \E k \in Calls :
            /\ call[k] # None /\ call'[k] # call[k] /\ call[k].home = c
            /\ \/ call[k].dev = home[c].writer
               \/ call[k].kind = "delete" /\ call[k].whole
  BY DEF Safe, MirrorSafe, ItemsIn, ItemsAt
<1>5. CalInit => CInv
  BY CalStart
<1>6. CInv /\ [CalNext]_calVars => CInv' /\ Safe
  BY CalStep
<1> QED BY <1>1, <1>2, <1>3, <1>4, <1>5, <1>6, PTL
        DEF CalSpec, CalendarWritesSafe, UIDsDoubledOnlyInOverlap, KeysLostOnlyInOverlap,
            PathsDoubledOnlyInOverlap, MirrorsKept
=============================================================================
