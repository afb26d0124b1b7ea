----------------------------- MODULE Calendars -----------------------------
(***************************************************************************)
(* Calendars and address books as CalDAV and CardDAV clients see them      *)
(* (internal/dav: caldav.go, carddav.go, home.go, color.go, compat.go),    *)
(* and the metadata patches of the sync API that write the same rows       *)
(* (server.go, handleEnsureCollection; lookup.go; access.go).              *)
(*                                                                         *)
(* A request reads, then writes; between its reads and its writes other    *)
(* requests come in.  What a handler reads before it looks for the UID is  *)
(* one step.  Shares do not change here (module FolderTree), every object  *)
(* has a name, and what a calendar file says is its UID and its name.      *)
(*                                                                         *)
(* An operator Name_Slip is a wrong variant of the operator Name after it; *)
(* the specification uses none of them.                                    *)
(***************************************************************************)
EXTENDS Integers, Sequences, FiniteSets

CONSTANTS
  Homes,        \* collection ids
  Items,        \* object ids
  Devices, People,
  Words,        \* path segments, names and UIDs of items
  Titles,       \* names of collections
  Payloads, Colors,
  Owner,        \* the user of a device
  ShareLevel,   \* [Homes -> [People -> 0..2]]
  StartHomes, StartItems, \* rows an instance begins with
  Calls,        \* the requests the server works on at the same time
  Reader,       \* the device of the calendar program that keeps copies
  None, Fresh, Operator, \* sentinels; Operator: the local operator's device
  MaxCalls      \* bound: requests ever made

VARIABLES
  home,    \* rows of collections of kind calendar or addressbook
  item,    \* rows of events and contacts
  pref,    \* a user's own color for a collection shared with it
  copy,    \* what the Reader has of a collection: [tag, items, early], or None
  call,    \* what each handler is doing, or None
  calls    \* requests made so far

tables == <<home, item, pref>>
calVars == <<home, item, pref, copy, call, calls>>

HomeRow ==
  [kind : {"calendar", "addressbook"}, owner : People, name : Titles, live : BOOLEAN,
   slug : Words \cup {None}, color : Colors \cup {None},
   mirror : BOOLEAN, writer : Devices \cup {None},
   stamp : Nat,  \* updated_at
   seq : Nat]    \* how many rows the journal has of it
ItemRow == [home : Homes, name : Words, uid : Words, content : Payloads, live : BOOLEAN,
            rev : Nat]

\* An id is never a path segment, the sentinels are no data, and an instance
\* begins with rows of their types in which the writer of a mirror is a device
\* of the owner.
ASSUME CalendarsAssumption ==
  /\ Homes \cap Words = {} /\ Operator \notin Devices /\ Fresh \notin Items \cup {None}
  /\ None \notin HomeRow \cup ItemRow \cup Items \cup Devices \cup Words \cup Homes
  /\ Owner \in [Devices -> People] /\ ShareLevel \in [Homes -> [People -> 0..2]]
  /\ StartHomes \in [Homes -> HomeRow \cup {None}]
  /\ StartItems \in [Items -> ItemRow \cup {None}]
  /\ \A c \in Homes : StartHomes[c] # None /\ StartHomes[c].mirror =>
       StartHomes[c].writer # None /\ Owner[StartHomes[c].writer] = StartHomes[c].owner

-----------------------------------------------------------------------------
(* A user's home: its own collections, and those shared with it.           *)

LiveHome(c) == home[c] # None /\ home[c].live
Level(u, c) == IF home[c].owner = u THEN 3 ELSE ShareLevel[c][u]
HomeOf(u, kind) == {c \in Homes : LiveHome(c) /\ home[c].kind = kind /\ Level(u, c) > 0}

\* collectionSeg: the path segment a collection is listed under.
Seg(c) == IF home[c].slug # None THEN home[c].slug ELSE c

\* findHome: by id; then the user's own, by segment and by name; then shared ones.
FindHome_SharedFirst(u, kind, seg) ==
  LET all == HomeOf(u, kind)
      own == {c \in all : home[c].owner = u}
      bySeg(S) == {c \in S : Seg(c) = seg}
      byName == {c \in own : home[c].name = seg}
  IN IF seg \in all THEN {seg}
     ELSE IF bySeg(all \ own) # {} THEN bySeg(all \ own)
     ELSE IF bySeg(own) # {} THEN bySeg(own)
     ELSE byName
FindHome(u, kind, seg) ==
  LET all == HomeOf(u, kind)
      own == {c \in all : home[c].owner = u}
      bySeg(S) == {c \in S : Seg(c) = seg}
      byName == {c \in own : home[c].name = seg}
  IN IF seg \in all THEN {seg}
     ELSE IF bySeg(own) # {} THEN bySeg(own)
     ELSE IF byName # {} THEN byName
     ELSE bySeg(all \ own)

ItemsIn(c) == {i \in Items : item[i] # None /\ item[i].live /\ item[i].home = c}
Named(c, n) == {i \in ItemsIn(c) : item[i].name = n}
WithUID(c, uid) == {i \in ItemsIn(c) : item[i].uid = uid}

\* A push of one item by device d: what applyOne asks of the collection.
MayPush(d, c) ==
  /\ LiveHome(c)
  /\ d # Operator =>
       /\ Level(Owner[d], c) >= 2
       /\ home[c].mirror => home[c].writer = d

Pushed(i, row) ==
  /\ item' = [item EXCEPT ![i] = row]
  /\ home' = [home EXCEPT ![row.home].seq = @ + 1]
  /\ UNCHANGED pref

\* The tag of a collection changes with its journal and with its metadata.
Tag(c) == <<home[c].seq, home[c].stamp>>

ListCalendarObjects(c) == {item[i] : i \in ItemsIn(c)}
ListAddressObjects(c) == {item[i] : i \in ItemsIn(c)}
Listed(c) ==
  IF home[c].kind = "calendar" THEN ListCalendarObjects(c) ELSE ListAddressObjects(c)

-----------------------------------------------------------------------------
(* Requests.                                                               *)

Free(k) == call[k] = None /\ calls < MaxCalls
Takes(k, r) ==
  /\ calls' = calls + 1 /\ call' = [call EXCEPT ![k] = r]
  /\ UNCHANGED <<tables, copy>>

Does(k, kind, phase) == call[k] # None /\ call[k].kind = kind /\ call[k].phase = phase
Goes(k, r) == call' = [call EXCEPT ![k] = r] /\ UNCHANGED <<calls, copy>>
Ends(k) == Goes(k, None)
Fails(k) == Ends(k) /\ UNCHANGED tables

\* MKCALENDAR, or MKCOL of an address book: neither the segment nor the name
\* may lead to a collection already.
CreateHome(k, d, kind, seg, name) ==
  LET u == Owner[d] IN
  /\ FindHome(u, kind, seg) = {}
  /\ ~ \E c \in HomeOf(u, kind) : home[c].owner = u /\ home[c].name = name
  /\ Takes(k, [kind |-> "create", phase |-> "insert", of |-> kind, dev |-> d, name |-> name,
               slug |-> IF seg = name THEN None ELSE seg,
               seen |-> {c \in Homes : LiveHome(c)}])
CreateCalendar(k, d, seg, name) == CreateHome(k, d, "calendar", seg, name)
CreateAddressBook(k, d, seg, name) == CreateHome(k, d, "addressbook", seg, name)

\* Only the unique index on owner, kind and name is looked at again.
InsertHome(k, c) ==
  /\ Does(k, "create", "insert") /\ home[c] = None
  /\ LET r == call[k]
         u == Owner[r.dev]
     IN IF \E b \in HomeOf(u, r.of) : home[b].owner = u /\ home[b].name = r.name
        THEN Fails(k)
        ELSE /\ home' = [home EXCEPT ![c] =
                  [kind |-> r.of, owner |-> u, name |-> r.name, live |-> TRUE, slug |-> r.slug,
                   color |-> None, mirror |-> FALSE, writer |-> None, stamp |-> 1, seq |-> 0]]
             /\ UNCHANGED <<item, pref>> /\ Ends(k)

\* PUT of an event or contact.  The UID is looked for first, then the name.
PutItem(k, d, kind, c, name, uid, content, match) ==
  /\ LiveHome(c) /\ c \in FindHome(Owner[d], kind, Seg(c)) /\ Level(Owner[d], c) >= 2
  /\ \E other \in IF WithUID(c, uid) = {} THEN {None} ELSE WithUID(c, uid) :
       Takes(k, [kind |-> "put", phase |-> "name", dev |-> d, home |-> c, name |-> name,
                 uid |-> uid, content |-> content, match |-> match,
                 other |-> other, target |-> None, base |-> 0, seen |-> WithUID(c, uid)])
PutCalendarObject(k, d, c, name, uid, content, match) ==
  PutItem(k, d, "calendar", c, name, uid, content, match)
PutAddressObject(k, d, c, name, uid, content, match) ==
  PutItem(k, d, "addressbook", c, name, uid, content, match)

\* Another item has the UID: no.  If-Match where nothing is: no.  The match
\* Fresh (If-None-Match: *) where something is: no.
MayPut_AnyUID(r, target) ==
  r.match \in {None} \cup IF target = Fresh THEN {Fresh} ELSE {item[target].content}
MayPut(r, target) ==
  /\ r.other \in {None, target}
  /\ r.match \in {None} \cup IF target = Fresh THEN {Fresh} ELSE {item[target].content}

PutName(k) ==
  /\ Does(k, "put", "name") /\ UNCHANGED tables
  /\ LET r == call[k]
         found == Named(r.home, r.name)
     IN \E t \in IF found = {} THEN {Fresh} ELSE found :
          IF MayPut(r, t)
          THEN Goes(k, [r EXCEPT !.phase = "push", !.target = t,
                                 !.base = IF t = Fresh THEN 0 ELSE item[t].rev])
          ELSE Ends(k)

CreateItem(k, i) ==
  /\ Does(k, "put", "push") /\ call[k].target = Fresh /\ item[i] = None
  /\ LET r == call[k] IN
       IF MayPush(r.dev, r.home)
       THEN /\ Pushed(i, [home |-> r.home, name |-> r.name, uid |-> r.uid,
                          content |-> r.content, live |-> TRUE, rev |-> 1])
            /\ Ends(k)
       ELSE Fails(k)

\* Without If-Match the update is forced.
UpdateItem(k) ==
  /\ Does(k, "put", "push") /\ call[k].target # Fresh
  /\ LET r == call[k]
         i == r.target
     IN IF /\ MayPush(r.dev, r.home) /\ item[i].live
           /\ r.match = None \/ item[i].rev = r.base
        THEN /\ Pushed(i, [home |-> r.home, name |-> r.name, uid |-> r.uid,
                           content |-> r.content, live |-> TRUE, rev |-> item[i].rev + 1])
             /\ Ends(k)
        ELSE Fails(k)

\* DELETE of an event or contact, always forced.
Begun(d, c, todo, whole) ==
  [kind |-> "delete", phase |-> "push", dev |-> d, home |-> c, todo |-> todo, whole |-> whole]
DeleteItem(k, d, i) ==
  /\ item[i] # None /\ item[i].live /\ LiveHome(item[i].home)
  /\ Level(Owner[d], item[i].home) >= 2
  /\ Takes(k, Begun(d, item[i].home, {i}, FALSE))

\* DELETE of a whole collection, by its owner.  What a calendar mirrors is
\* deleted as the local operator.
DeleteCalendar(k, d, c) ==
  /\ LiveHome(c) /\ home[c].kind = "calendar" /\ Level(Owner[d], c) = 3
  /\ Takes(k, Begun(IF home[c].mirror THEN Operator ELSE d, c, ItemsIn(c), TRUE))
DeleteAddressBook(k, d, c) ==
  /\ LiveHome(c) /\ home[c].kind = "addressbook" /\ Level(Owner[d], c) = 3
  /\ Takes(k, Begun(d, c, ItemsIn(c), TRUE))

\* A refusal ends the request; an item already deleted is as good as deleted.
DeleteOne(k, i) ==
  /\ Does(k, "delete", "push") /\ i \in call[k].todo
  /\ IF MayPush(call[k].dev, call[k].home)
     THEN /\ IF item[i].live THEN Pushed(i, [item[i] EXCEPT !.live = FALSE, !.rev = @ + 1])
             ELSE UNCHANGED tables
          /\ Goes(k, [call[k] EXCEPT !.todo = @ \ {i}])
     ELSE Fails(k)

DeleteEnds(k) ==
  /\ Does(k, "delete", "push") /\ call[k].todo = {}
  /\ Ends(k) /\ UNCHANGED <<item, pref>>
  /\ home' = IF call[k].whole /\ LiveHome(call[k].home)
             THEN [home EXCEPT ![call[k].home].live = FALSE] ELSE home

-----------------------------------------------------------------------------
(* Metadata.  A patch names the keys it sets.                              *)

Patch(k, d, c, patch) ==
  Takes(k, [kind |-> "patch", phase |-> "read", dev |-> d, home |-> c, patch |-> patch,
            base |-> None])

\* SetPref, of a color: a row of the user's own, made or replaced.
SetPref(u, c, color) == pref' = [pref EXCEPT ![u][c] = color]

\* PROPPATCH: the owner's color goes into the metadata, a guest's is its own.
PropPatch(k, d, c, color) ==
  /\ LiveHome(c) /\ home[c].kind = "calendar" /\ Level(Owner[d], c) >= 1
  /\ IF Level(Owner[d], c) = 3 THEN Patch(k, d, c, [color |-> color]) /\ UNCHANGED pref
     ELSE /\ calls' = calls + 1
          /\ SetPref(Owner[d], c, color)
          /\ UNCHANGED <<home, item, copy, call>>

\* POST /sync/v1/collections with metadata, by the owner.  MirrorPatch writes
\* the device that turns the mirror on, and no other.
MirrorPatch(d, on, sent) == IF on THEN [mirror |-> TRUE, writer |-> d] ELSE [mirror |-> FALSE]
PatchMetadata(k, d, c, on, sent) ==
  /\ LiveHome(c) /\ Level(Owner[d], c) = 3
  /\ Patch(k, d, c, MirrorPatch(d, on, sent))

Metadata(c) == [slug |-> home[c].slug, color |-> home[c].color,
                mirror |-> home[c].mirror, writer |-> home[c].writer]

PatchRead(k) ==
  /\ Does(k, "patch", "read") /\ UNCHANGED tables
  /\ LET r == call[k] IN
       IF LiveHome(r.home) THEN Goes(k, [r EXCEPT !.phase = "write", !.base = Metadata(r.home)])
       ELSE Ends(k)

\* MergeJSON: the whole document is written back.
Merged(base, patch) ==
  [f \in DOMAIN base |-> IF f \in DOMAIN patch THEN patch[f] ELSE base[f]]

PatchWrite(k) ==
  /\ Does(k, "patch", "write")
  /\ LET r == call[k]
         doc == Merged(r.base, r.patch)
     IN IF ~LiveHome(r.home) \/ doc = Metadata(r.home) THEN Fails(k)
        ELSE /\ home' = [home EXCEPT ![r.home] =
                  [kind |-> home[r.home].kind, owner |-> home[r.home].owner,
                   name |-> home[r.home].name, live |-> TRUE, slug |-> doc.slug,
                   color |-> doc.color, mirror |-> doc.mirror, writer |-> doc.writer,
                   stamp |-> home[r.home].stamp + 1, seq |-> home[r.home].seq]]
             /\ UNCHANGED <<item, pref>> /\ Ends(k)

-----------------------------------------------------------------------------
(* A calendar program polls: it asks for the tag, and for the items when it  *)
(* is new.  A PROPFIND of the collection itself tells both, the items first. *)

UpToDate(c) == copy[c] # None /\ copy[c].tag = Tag(c)
Poll(k, d, c, early) ==
  /\ d = Reader /\ LiveHome(c) /\ Level(Owner[d], c) >= 1
  /\ UpToDate(c) => early
  /\ Takes(k, [kind |-> "poll", phase |-> "rest", home |-> c, early |-> early,
               tag |-> IF early THEN None ELSE Tag(c),
               items |-> IF early THEN Listed(c) ELSE {}])

PollEnds(k) ==
  /\ Does(k, "poll", "rest") /\ UNCHANGED <<tables, calls>>
  /\ call' = [call EXCEPT ![k] = None]
  /\ LET r == call[k] IN
       IF ~LiveHome(r.home) THEN UNCHANGED copy
       ELSE copy' = [copy EXCEPT ![r.home] =
              IF r.early THEN [tag |-> Tag(r.home), items |-> r.items, early |-> TRUE]
              ELSE [tag |-> r.tag, items |-> Listed(r.home), early |-> FALSE]]

-----------------------------------------------------------------------------
CalInit ==
  /\ home = StartHomes /\ item = StartItems
  /\ pref = [u \in People |-> [c \in Homes |-> None]]
  /\ copy = [c \in Homes |-> None]
  /\ call = [k \in Calls |-> None] /\ calls = 0

Request(k) ==
  \E d \in Devices :
    \/ \E seg \in Words, name \in Titles :
         CreateCalendar(k, d, seg, name) \/ CreateAddressBook(k, d, seg, name)
    \/ \E c \in {h \in Homes : LiveHome(h)} :
         \/ \E name, uid \in Words, content \in Payloads, match \in Payloads \cup {None, Fresh} :
              \/ PutCalendarObject(k, d, c, name, uid, content, match)
              \/ PutAddressObject(k, d, c, name, uid, content, match)
         \/ Poll(k, d, c, TRUE) \/ Poll(k, d, c, FALSE)
         \/ DeleteCalendar(k, d, c) \/ DeleteAddressBook(k, d, c)
         \/ \E color \in Colors : PropPatch(k, d, c, color)
         \/ \E on \in BOOLEAN, sent \in Devices : PatchMetadata(k, d, c, on, sent)
    \/ \E i \in Items : DeleteItem(k, d, i)

CalNext ==
  \E k \in Calls :
    \/ Free(k) /\ Request(k)
    \/ \E c \in Homes : InsertHome(k, c)
    \/ \E i \in Items : CreateItem(k, i) \/ DeleteOne(k, i)
    \/ PutName(k) \/ UpdateItem(k) \/ DeleteEnds(k) \/ PatchRead(k) \/ PatchWrite(k)
    \/ PollEnds(k)

CalSpec == CalInit /\ [][CalNext]_calVars

-----------------------------------------------------------------------------
(* Properties.                                                             *)

\* Every row has its type.
HomesOK ==
  /\ home \in [Homes -> HomeRow \cup {None}]
  /\ item \in [Items -> ItemRow \cup {None}]
  /\ pref \in [People -> [Homes -> Colors \cup {None}]]

\* A PUT makes a second item with the UID of another only when that other one
\* got it after the PUT had looked for it (caldav.go:228).
UIDsDoubledOnlyInOverlap ==
  [][\A k \in Calls, i, j \in Items :
       /\ call[k] # None /\ call'[k] = None /\ call[k].kind = "put"
       /\ item'[i] # item[i] /\ item'[i].live /\ i # j
       /\ j \in WithUID(call[k].home, item'[i].uid)
       => j \notin call[k].seen \/ call[k].other = i]_calVars

\* A metadata key that a patch does not name keeps its value, unless another
\* patch was written between this one's reading and writing ("Merge, so keys
\* this struct does not know (slug, mirror_device) survive", color.go:156).
KeysLostOnlyInOverlap ==
  [][\A k \in Calls, c \in Homes :
       /\ call[k] # None /\ call'[k] = None /\ call[k].kind = "patch" /\ home' # home
       /\ call[k].home = c /\ call[k].base = Metadata(c)
       => \A f \in DOMAIN Metadata(c) \ DOMAIN call[k].patch :
            home'[c][f] = home[c][f]]_calVars

\* While a calendar is mirrored, only the device that turned the mirror on, or
\* the deletion of the whole calendar by its owner, changes what is in it.
MirrorsKept ==
  [][\A c \in Homes : LiveHome(c) /\ home[c].mirror /\ ItemsIn(c)' # ItemsIn(c) =>
       \E k \in Calls :
         /\ call[k] # None /\ call'[k] # call[k] /\ call[k].home = c
         /\ \/ call[k].dev = home[c].writer
            \/ call[k].kind = "delete" /\ call[k].whole]_calVars

\* The writer of a mirror is a device of the calendar's owner.
WritersOwn ==
  \A c \in Homes : LiveHome(c) /\ home[c].mirror =>
    home[c].writer # None /\ Owner[home[c].writer] = home[c].owner

\* Where the server lists one of a user's own calendars is where it finds it,
\* whatever slugs the calendars shared with the user have (home.go:203).
OwnHomesFound ==
  \A u \in People, c \in Homes :
    LiveHome(c) /\ home[c].owner = u =>
      \A b \in FindHome(u, home[c].kind, Seg(c)) : home[b].owner = u

\* A program that asks for the tag before the items, and finds the tag again,
\* has what the collection has (lookup.go:167, "Tags bump when objects change").
TagsTell ==
  \A c \in Homes :
    LiveHome(c) /\ UpToDate(c) /\ ~copy[c].early =>
      copy[c].items = Listed(c)

\* Two of a user's own collections are listed under one path only when they
\* were created at the same time.
PathsDoubledOnlyInOverlap ==
  [][\A k \in Calls, b, c \in Homes :
       /\ call[k] # None /\ call'[k] = None /\ call[k].kind = "create"
       /\ home[c] = None /\ home'[c] # None
       /\ LiveHome(b) /\ home[b].kind = home'[c].kind /\ home[b].owner = home'[c].owner
       /\ Seg(b) = home'[c].slug
       => b \notin call[k].seen]_calVars

\* What a calendar program finds, at any time.
HomesSound == HomesOK /\ WritersOwn /\ OwnHomesFound /\ TagsTell

\* What requests that run at the same time leave of each other's writes: a lost
\* or doubled write is always one of two that overlapped, and a mirror has one writer.
CalendarWritesSafe ==
  /\ UIDsDoubledOnlyInOverlap /\ KeysLostOnlyInOverlap
  /\ PathsDoubledOnlyInOverlap /\ MirrorsKept
=============================================================================
