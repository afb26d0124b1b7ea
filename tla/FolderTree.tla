---------------------------- MODULE FolderTree ----------------------------
(***************************************************************************)
(* The collection tree of internal/syncengine (lookup.go, tree.go,         *)
(* engine.go, access.go) and the requests of signed devices that change it *)
(* (internal/server/files.go, server.go, me.go): folders with an owner, a  *)
(* parent and a root, the files in them, and the shares on the roots.      *)
(*                                                                         *)
(* A request is a record in `request'.  What it reads before its first     *)
(* write is one step, which sees the committed rows; every write of its is *)
(* a step of its own, as are the reads between two writes.  Other requests *)
(* come in between: nothing is locked, the store's mutex serialises single *)
(* transactions only.                                                      *)
(*                                                                         *)
(* All folders are of one kind.  A caller is the user of its device; users *)
(* stay active, and devices unrevoked.  Quota refusals are left out.        *)
(*                                                                         *)
(* An operator Name_Slip is a wrong variant of the operator Name after it; *)
(* the specification uses none of them.                                    *)
(***************************************************************************)
EXTENDS Integers, Sequences, FiniteSets

CONSTANTS
  Folders,      \* collection ids
  Files,        \* object ids: numbers, for a listing pages in their order
  Users, Names, Contents,
  Handlers,     \* requests the server works on at the same time
  Top,          \* the parent of a root
  NoRow, Idle,  \* sentinels
  StartFolders, StartFiles, StartShares,  \* the rows an instance begins with
  Kinds,        \* the kinds of request its clients make
  MaxRequests,  \* bound: requests ever made
  MaxRestructuring  \* requests at once that create, move or rename folders

VARIABLES
  folder,   \* rows of collections
  file,     \* rows of objects
  share,    \* level of each user on each folder that has a share row
  request,  \* what each handler is doing, or Idle
  made,     \* requests made so far
  stuck     \* a statement runs that never ends, and holds the writer

rows == <<folder, file, share>>
vars == <<folder, file, share, request, made, stuck>>

FolderRow ==
  [owner : Users, parent : Folders \cup {Top}, root : Folders, name : Names,
   live : BOOLEAN, rev : Nat]
FileRow ==
  [folder : Folders, name : Names, content : Contents, rev : Nat, live : BOOLEAN]

ASSUME TreeAssumption ==
  /\ Files \subseteq Nat \ {0} /\ IsFiniteSet(Files) /\ IsFiniteSet(Handlers)
  /\ Top \notin Folders /\ NoRow \notin FolderRow \cup FileRow

\* An instance begins with trees: whichever folders one takes, one of them is in
\* none of the others.
ASSUME StartAssumption ==
  /\ StartFolders \in [Folders -> FolderRow \cup {NoRow}]
  /\ StartFiles \in [Files -> FileRow \cup {NoRow}]
  /\ StartShares \in [Folders -> [Users -> 0..2]]
  /\ \A f \in {g \in Folders : StartFolders[g] # NoRow} :
       LET up == StartFolders[f].parent IN
       IF up = Top THEN StartFolders[f].root = f
       ELSE /\ StartFolders[up] # NoRow
            /\ StartFolders[f].owner = StartFolders[up].owner
            /\ StartFolders[f].root = StartFolders[up].root
  /\ \A S \in SUBSET {g \in Folders : StartFolders[g] # NoRow} :
       S # {} => \E f \in S : StartFolders[f].parent \notin S

-----------------------------------------------------------------------------
(* The tree as the rows tell it.                                           *)

Known(f) == folder[f] # NoRow
IsLive(f) == Known(f) /\ folder[f].live
LiveFile(x) == file[x] # NoRow /\ file[x].live

Children(p) == {f \in Folders : IsLive(f) /\ folder[f].parent = p}
FilesIn(f) == {x \in Files : LiveFile(x) /\ file[x].folder = f}

\* The live folder of that name under p; roots are looked for by owner.
FindChild(u, p, n) ==
  {f \in Children(p) : folder[f].name = n /\ (p = Top => folder[f].owner = u)}

\* The unique index over owner, parent and name of live folders: f may have it.
NameFree(f, owner, p, n) ==
  ~ \E g \in Children(p) \ {f} : folder[g].owner = owner /\ folder[g].name = n

\* f and everything below it, deleted folders included: no smaller set has f and,
\* with a folder, all that are in it.
HasChildren(S) == \A g \in Folders : Known(g) /\ folder[g].parent \in S => g \in S
Subtree(f) ==
  LET around == {S \in SUBSET Folders : f \in S /\ HasChildren(S)}
  IN {g \in Folders : \A S \in around : g \in S}

IsAncestor_Parent(f, p) == p = f
IsAncestor(f, p) == p \in Subtree(f)

\* 0 none, 1 read, 2 write, 3 owner: what the shares on its root grant.
Access(u, f) ==
  IF folder[f].owner = u THEN 3 ELSE share[folder[f].root][u]

\* collectionForAdmin: a root takes its owner, a folder below it a writer.
MayAdmin(u, f) ==
  IsLive(f) /\ Access(u, f) >= IF folder[f].parent = Top THEN 3 ELSE 2

-----------------------------------------------------------------------------
(* What a push of one item needs, and does (engine.go, applyOne).          *)

MayTarget(u, f) == IsLive(f) /\ Access(u, f) >= 2
MayTake(u, x, f) ==
  file[x].folder # f =>
    Access(u, file[x].folder) >= 2 /\ folder[file[x].folder].owner = folder[f].owner

CanCreate(u, f) == MayTarget(u, f)
CanChange(u, x, f, base, force) ==
  /\ MayTarget(u, f) /\ LiveFile(x) /\ MayTake(u, x, f)
  /\ force \/ base = file[x].rev

FileCreated(x, f, n, c) ==
  file' = [file EXCEPT ![x] = [folder |-> f, name |-> n, content |-> c, rev |-> 1, live |-> TRUE]]
FileUpdated(x, f, n, c) ==
  file' = [file EXCEPT ![x] =
             [folder |-> f, name |-> n, content |-> c, rev |-> @.rev + 1, live |-> TRUE]]
FileDeleted(x) ==
  file' = [file EXCEPT ![x].live = FALSE, ![x].rev = @ + 1]

-----------------------------------------------------------------------------
(* Requests.                                                               *)

Restructuring(r) == r.kind \in {"ensure", "update", "copy"}
CanRestructure ==
  Cardinality({h \in Handlers : request[h] # Idle /\ Restructuring(request[h])})
    < MaxRestructuring

\* The handlers that a request may still come to.
FreeHandlers ==
  IF made < MaxRequests THEN {h \in Handlers : request[h] = Idle} ELSE {}

Opens(h, kind) ==
  /\ h \in FreeHandlers /\ kind \in Kinds
  /\ made' = made + 1
  /\ UNCHANGED <<folder, file, share, stuck>>

At(h, kind) == request[h] # Idle /\ request[h].kind = kind
InPhase(h, kind, phase) == At(h, kind) /\ request[h].phase = phase

Begin(h, r) == request' = [request EXCEPT ![h] = r]
End(h) == request' = [request EXCEPT ![h] = Idle]
Continue(h, r) == Begin(h, r) /\ UNCHANGED <<made, stuck>>
Finish(h) == End(h) /\ UNCHANGED <<made, stuck>>

\* A request fails, or has nothing to do: it answers and changes no row.
GiveUp(h) == Finish(h) /\ UNCHANGED rows

\* The row an insert writes.  A child has its parent's owner and root, as they
\* were when the parent was read; a root is its own.
Inserted(f, owner, p, root, n) ==
  folder' = [folder EXCEPT ![f] =
    [owner |-> owner, parent |-> p, root |-> IF p = Top THEN f ELSE root,
     name |-> n, live |-> TRUE, rev |-> 1]]

OwnerUnder(u, p) == IF p = Top THEN u ELSE folder[p].owner
RootUnder(p) == IF p = Top THEN Top ELSE folder[p].root

\* POST /sync/v1/collections: an existing folder of that name is returned.
EnsureBegin(h, u, p, n) ==
  /\ Opens(h, "ensure") /\ CanRestructure
  /\ p # Top => IsLive(p) /\ Access(u, p) >= 2
  /\ FindChild(u, p, n) = {}
  /\ Begin(h, [kind |-> "ensure", user |-> u, parent |-> p, name |-> n,
               owner |-> OwnerUnder(u, p), root |-> RootUnder(p)])

\* The insert looks at nothing but the unique index.
EnsureInsert(h, f) ==
  /\ ~stuck /\ At(h, "ensure") /\ ~Known(f)
  /\ LET r == request[h] IN
       IF NameFree(f, r.owner, r.parent, r.name)
       THEN /\ Inserted(f, r.owner, r.parent, r.root, r.name)
            /\ Finish(h) /\ UNCHANGED <<file, share>>
       ELSE GiveUp(h)

\* POST /sync/v1/collections/update, up to its first write.  The parent stays
\* as it is when the request names none.
MoveAllowed(u, f, p) ==
  IF p = Top THEN folder[f].owner = u
  ELSE /\ IsLive(p) /\ Access(u, p) >= 2
       /\ folder[p].owner = folder[f].owner
       /\ ~IsAncestor(f, p)

UpdateBegin(h, u, f, p, n) ==
  /\ Opens(h, "update") /\ CanRestructure
  /\ MayAdmin(u, f) /\ MoveAllowed(u, f, p)
  /\ <<n, p>> # <<folder[f].name, folder[f].parent>>
  /\ FindChild(folder[f].owner, p, n) \subseteq {f}
  /\ Begin(h, [kind |-> "update", user |-> u, folder |-> f, parent |-> p, name |-> n,
               root |-> Top, moves |-> p # folder[f].parent,
               phase |-> IF n # folder[f].name THEN "rename" ELSE "read"])

Renamed(f, n) == folder' = [folder EXCEPT ![f].name = n, ![f].rev = @ + 1]

\* RenameCollection.  It renames within the parent the folder still has.
Rename(h) ==
  /\ ~stuck /\ InPhase(h, "update", "rename")
  /\ LET r == request[h] IN
       IF IsLive(r.folder) /\ NameFree(r.folder, folder[r.folder].owner,
                                       folder[r.folder].parent, r.name)
       THEN /\ Renamed(r.folder, r.name)
            /\ UNCHANGED <<file, share>>
            /\ IF r.moves THEN Continue(h, [r EXCEPT !.phase = "read"]) ELSE Finish(h)
       ELSE GiveUp(h)

\* SetCollectionParent reads both folders before its transaction; whether the
\* new parent is still live is not looked at again.
MoveRead(h) ==
  /\ InPhase(h, "update", "read")
  /\ LET r == request[h] IN
       IF IsLive(r.folder) /\ (r.parent # Top => folder[r.parent].owner = folder[r.folder].owner)
       THEN Continue(h, [r EXCEPT !.phase = "write",
                                  !.root = IF r.parent = Top THEN r.folder
                                           ELSE folder[r.parent].root])
            /\ UNCHANGED rows
       ELSE GiveUp(h)

\* The folder and all that is below it take the new root.
Moved_FolderOnly(f, p, root) ==
  folder' = [folder EXCEPT ![f].parent = p, ![f].root = root, ![f].rev = @ + 1]
Moved(f, p, root) ==
  LET below == Subtree(f) IN
  folder' = [g \in Folders |->
    IF g \notin below THEN folder[g]
    ELSE IF g # f THEN [folder[g] EXCEPT !.root = root]
    ELSE [folder[f] EXCEPT !.parent = p, !.root = root, !.rev = @ + 1]]

\* Under a descendant of its own, the walk over the folders below never ends:
\* the transaction stays open and with it the writer.
MoveWrite(h) ==
  /\ ~stuck /\ InPhase(h, "update", "write")
  /\ LET r == request[h]
         f == r.folder
         ok == IsLive(f) /\ NameFree(f, folder[f].owner, r.parent, folder[f].name)
     IN IF ~ok THEN GiveUp(h)
        ELSE IF r.parent \in Subtree(f)
        THEN stuck' = TRUE /\ UNCHANGED <<folder, file, share, request, made>>
        ELSE Moved(f, r.parent, r.root) /\ UNCHANGED <<file, share>> /\ Finish(h)

\* DeleteCollectionTree (and the same walk in dav/fs.go): the folders below
\* first, each as listed when the walk reached its parent, then the files,
\* then the folder.  A frame of the stack is one call of the recursion.
Frame(f) ==
  [folder |-> f, kids |-> Children(f), listed |-> FALSE, files |-> {}, todo |-> {}]

DeleteBegin(h, u, f) ==
  /\ Opens(h, "delete") /\ MayAdmin(u, f)
  /\ Begin(h, [kind |-> "delete", user |-> u, stack |-> <<Frame(f)>>])

\* The operator's DeleteCollection (operator.go) never looks below the folder.
OperatorDelete(h, u, f) ==
  /\ Opens(h, "operator") /\ Known(f) /\ folder[f].owner = u
  /\ Begin(h, [kind |-> "delete", user |-> u,
               stack |-> <<[Frame(f) EXCEPT !.kids = {}]>>])

TopFrame(h) == Head(request[h].stack)
WithTop(h, frame) == [request[h] EXCEPT !.stack = <<frame>> \o Tail(@)]

DeleteDescend(h, g) ==
  /\ At(h, "delete") /\ g \in TopFrame(h).kids
  /\ LET left == [TopFrame(h) EXCEPT !.kids = @ \ {g}] IN
       Continue(h, [request[h] EXCEPT !.stack = <<Frame(g), left>> \o Tail(@)])
  /\ UNCHANGED rows

DeleteList(h) ==
  /\ At(h, "delete") /\ TopFrame(h).kids = {} /\ ~TopFrame(h).listed
  /\ Continue(h, WithTop(h, [TopFrame(h) EXCEPT !.files = FilesIn(TopFrame(h).folder),
                                                !.todo = FilesIn(TopFrame(h).folder),
                                                !.listed = TRUE]))
  /\ UNCHANGED rows

\* One forced push for each file listed.  Refused, it ends the request; a file
\* already deleted is as good as deleted.
DeleteFile_Skip(h, x) ==
  /\ ~stuck /\ At(h, "delete") /\ x \in TopFrame(h).todo
  /\ LET u == request[h].user
         f == TopFrame(h).folder
     IN /\ IF CanChange(u, x, f, 0, TRUE) THEN FileDeleted(x) ELSE UNCHANGED file
        /\ UNCHANGED <<folder, share>>
        /\ Continue(h, WithTop(h, [TopFrame(h) EXCEPT !.todo = @ \ {x}]))
DeleteFile(h, x) ==
  /\ ~stuck /\ At(h, "delete") /\ x \in TopFrame(h).todo
  /\ LET u == request[h].user
         f == TopFrame(h).folder
         next == WithTop(h, [TopFrame(h) EXCEPT !.todo = @ \ {x}])
     IN \/ /\ CanChange(u, x, f, 0, TRUE)
           /\ FileDeleted(x) /\ UNCHANGED <<folder, share>> /\ Continue(h, next)
        \/ /\ MayTarget(u, f) /\ ~LiveFile(x) /\ MayTake(u, x, f)
           /\ UNCHANGED rows /\ Continue(h, next)
        \/ /\ ~ (MayTarget(u, f) /\ MayTake(u, x, f))
           /\ GiveUp(h)

Tombstoned(f) ==
  /\ folder' = [folder EXCEPT ![f].live = FALSE, ![f].rev = @ + 1]
  /\ share' = [share EXCEPT ![f] = [u \in Users |-> 0]]

\* TombstoneCollection: the folder goes, and its own shares with it.  A folder
\* someone else has deleted meanwhile ends the request with an error.
DeleteFolder(h) ==
  /\ ~stuck /\ At(h, "delete") /\ TopFrame(h).listed /\ TopFrame(h).todo = {}
  /\ LET f == TopFrame(h).folder
         rest == Tail(request[h].stack)
     IN \/ /\ IsLive(f) /\ Tombstoned(f) /\ UNCHANGED file
           /\ IF rest = <<>> THEN Finish(h)
              ELSE Continue(h, [request[h] EXCEPT !.stack = rest])
        \/ ~IsLive(f) /\ GiveUp(h)

\* PUT .../shares: the owner of a live root; the row is written later.
ShareBegin(h, u, f, guest, level) ==
  /\ Opens(h, "share")
  /\ IsLive(f) /\ folder[f].parent = Top /\ Access(u, f) = 3 /\ guest # folder[f].owner
  /\ Begin(h, [kind |-> "share", user |-> u, folder |-> f, guest |-> guest, level |-> level])

Shared(f, guest, level) ==
  /\ share' = [share EXCEPT ![f][guest] = level]
  /\ folder' = [folder EXCEPT ![f].rev = @ + 1]

ShareWrite(h) ==
  /\ ~stuck /\ At(h, "share")
  /\ LET r == request[h] IN Shared(r.folder, r.guest, r.level)
  /\ UNCHANGED file /\ Finish(h)

\* DELETE .../shares: ownedRoot, then RemoveShare; a missing row is no error.
Unshare(u, f, guest) ==
  /\ ~stuck /\ "unshare" \in Kinds /\ made < MaxRequests /\ made' = made + 1
  /\ IsLive(f) /\ folder[f].parent = Top /\ Access(u, f) = 3
  /\ share[f][guest] > 0
  /\ Shared(f, guest, 0)
  /\ UNCHANGED <<file, request, stuck>>

\* POST /sync/v1/objects: a page of the live files after an id, in id order.
PageLimit == 1
ListBegin(h, u, f) ==
  /\ Opens(h, "list") /\ Known(f) /\ Access(u, f) >= 1
  /\ Begin(h, [kind |-> "list", user |-> u, folder |-> f, after |-> 0, seen |-> {},
               start |-> {<<x, file[x].rev>> : x \in FilesIn(f)}])

Page(f, after) ==
  LET rest == {x \in FilesIn(f) : x > after}
  IN {x \in rest : Cardinality({y \in rest : y < x}) < PageLimit}

ListPage(h) ==
  /\ At(h, "list")
  /\ LET r == request[h]
         page == Page(r.folder, r.after)
     IN IF Access(r.user, r.folder) = 0 \/ Cardinality(page) < PageLimit
        THEN GiveUp(h)
        ELSE /\ Continue(h, [r EXCEPT !.after = CHOOSE x \in page : \A y \in page : y <= x,
                                      !.seen = @ \cup page])
             /\ UNCHANGED rows

\* The client hangs up, or the server restarts: what is written stays written.
Abandon(h) == request[h] # Idle /\ ~stuck /\ GiveUp(h)

Init ==
  /\ folder = StartFolders /\ file = StartFiles /\ share = StartShares
  /\ request = [h \in Handlers |-> Idle]
  /\ made = 0 /\ stuck = FALSE

TreeNext ==
  \/ \E h \in FreeHandlers, u \in Users, p \in Folders \cup {Top}, n \in Names :
       EnsureBegin(h, u, p, n) \/ \E f \in Folders : UpdateBegin(h, u, f, p, n)
  \/ \E h \in Handlers, f \in Folders : EnsureInsert(h, f) \/ DeleteDescend(h, f)
  \/ \E h \in Handlers : \/ Rename(h) \/ MoveRead(h) \/ MoveWrite(h)
                         \/ DeleteList(h) \/ DeleteFolder(h)
                         \/ ShareWrite(h) \/ ListPage(h) \/ Abandon(h)
  \/ \E h \in FreeHandlers, u \in Users, f \in Folders :
       DeleteBegin(h, u, f) \/ OperatorDelete(h, u, f) \/ ListBegin(h, u, f)
  \/ \E h \in Handlers, x \in Files : DeleteFile(h, x)
  \/ \E u, guest \in Users, f \in Folders :
       \/ Unshare(u, f, guest)
       \/ \E h \in FreeHandlers, level \in 1..2 : ShareBegin(h, u, f, guest, level)

TreeSpec == Init /\ [][TreeNext]_vars

-----------------------------------------------------------------------------
(* Properties.                                                             *)

\* Every row has its type.
RowsOK ==
  /\ folder \in [Folders -> FolderRow \cup {NoRow}]
  /\ file \in [Files -> FileRow \cup {NoRow}]
  /\ share \in [Folders -> [Users -> 0..2]]

\* Nothing is handed to another user: whatever is created, moved, copied or
\* deleted meanwhile, a folder belongs to the owner of the folder it is in.
OwnerInherited ==
  \A f \in Folders : Known(f) /\ folder[f].parent # Top =>
    Known(folder[f].parent) /\ folder[f].owner = folder[folder[f].parent].owner

\* Access is looked up by root, and the tree is walked by parent: they agree.
RootInherited ==
  \A f \in Folders : Known(f) =>
    IF folder[f].parent = Top THEN folder[f].root = f
    ELSE Known(folder[f].parent) /\ folder[f].root = folder[folder[f].parent].root

\* A move leaves the folders a tree, and so its walk over the folders below
\* ends (tree.go:20: a cycle must not come about).
MovesEnd == ~stuck

\* What u is told of the folders it can see, and the tag that spares it asking
\* again (access.go, CollectionsRev).
Visible(u) == {f \in Folders : Known(f) /\ Access(u, f) > 0}
View(u) ==
  [f \in Visible(u) |-> <<folder[f].name, folder[f].parent, folder[f].live, Access(u, f)>>]
CollectionsRev(u) == [f \in Visible(u) |-> <<folder[f].rev, Access(u, f)>>]

\* No change of what a user sees of the folders goes without a new tag
\* (docs/API.md:131).
RevTellsChanges ==
  [][<<folder, share>>' # <<folder, share>> =>
       \A u \in Users : View(u)' # View(u) => CollectionsRev(u)' # CollectionsRev(u)]_rows

\* A listing in pages shows every file that stayed as it was all along, up to
\* the last id it has been given, whatever came and went beside it.
ListingComplete ==
  \A h \in Handlers : At(h, "list") =>
    LET r == request[h] IN
    \A x \in FilesIn(r.folder) :
      x <= r.after /\ <<x, file[x].rev>> \in r.start => x \in r.seen

\* A guest moves folders about inside what is shared with it: it takes no root
\* away from the top, and nothing out to the top.
GuestsMoveWithin ==
  [][\A h \in Handlers, f \in Folders :
       /\ At(h, "update") /\ Known(f) /\ folder'[f].parent # folder[f].parent
       /\ request[h].folder = f /\ request'[h] # request[h]
       /\ folder[f].owner # request[h].user
       => folder[f].parent # Top /\ folder'[f].parent # Top]_vars

\* A deletion takes a folder away only when every file it listed there is
\* deleted or has left.
ListedFilesDeletedFirst ==
  [][\A h \in Handlers : At(h, "delete") =>
       LET f == TopFrame(h).folder IN
       IsLive(f) /\ ~folder'[f].live /\ request'[h] # request[h] =>
         /\ TopFrame(h).listed
         /\ TopFrame(h).files \cap FilesIn(f) = {}]_vars
=============================================================================
