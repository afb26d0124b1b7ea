----------------------------- MODULE DavFiles -----------------------------
(***************************************************************************)
(* The WebDAV file system over the collection tree (internal/dav/fs.go,    *)
(* path.go, lock.go): PUT, MKCOL, DELETE, COPY and MOVE, each a request of *)
(* several steps among those of FolderTree, which writes the same rows.    *)
(*                                                                         *)
(* A path is walked from the caller's own roots or from roots shared with  *)
(* it, by names of live folders; what it ends at is chosen directly here,  *)
(* and must be reachable that way.  LOCK answers every caller with a token *)
(* and excludes nobody (lock.go), so it is no state.  The name a request   *)
(* gives is valid, and a push is refused only as applyOne does: not for    *)
(* quota.  The photo made of a camera upload belongs to module Photos.     *)
(***************************************************************************)
EXTENDS FolderTree

CONSTANTS
  AnyContent,  \* no precondition on the content, or nothing to name
  New   \* the file a PUT is about to create

-----------------------------------------------------------------------------
(* Paths.                                                                  *)

\* The folders from f up to its root, by parent.
HasParents(S) == \A g \in S : Known(g) => folder[g].parent \in S \cup {Top}
Above(f) ==
  LET around == {S \in SUBSET Folders : f \in S /\ HasParents(S)}
  IN {g \in Folders : \A S \in around : g \in S}

\* The level resolve finds along the path: owner below the caller's own roots,
\* the share of the root elsewhere; nothing below a deleted folder.
PathAccess(u, f) ==
  LET up == Above(f)
      root == CHOOSE g \in up : folder[g].parent = Top
  IN IF ~Known(f) \/ \E g \in up : ~IsLive(g) THEN 0
     ELSE IF folder[root].owner = u THEN 3 ELSE share[root][u]

FilesNamed(f, n) == {x \in FilesIn(f) : file[x].name = n}

\* A name means a folder before it means a file.
PathFile(u, x) ==
  /\ LiveFile(x) /\ PathAccess(u, file[x].folder) >= 1
  /\ FindChild(u, file[x].folder, file[x].name) = {}

\* allowCollectionAdmin
PathAdmin(u, f) ==
  PathAccess(u, f) >= IF folder[f].parent = Top THEN 3 ELSE 2

-----------------------------------------------------------------------------
(* PUT (Create), and the copy of one file.                                 *)

\* The parent is looked up and the body stored; then the name is.
Put(u, f, n, c, match, fresh) ==
  [kind |-> "put", user |-> u, phase |-> "lookup", folder |-> f, name |-> n, content |-> c,
   match |-> match, fresh |-> fresh, target |-> New, base |-> 0]

PutBegin(h, u, f, n, c, match, fresh) ==
  /\ Opens(h, "put")
  /\ PathAccess(u, f) >= 2 /\ FindChild(u, f, n) = {}
  /\ Begin(h, Put(u, f, n, c, match, fresh))

\* If-None-Match: * and If-Match are tried on the file that has the name; with
\* none there, If-Match is not looked at.
Precondition(r, x) ==
  ~r.fresh /\ r.match \in {AnyContent, file[x].content}

PutLookup(h) ==
  /\ InPhase(h, "put", "lookup")
  /\ LET r == request[h]
         found == FilesNamed(r.folder, r.name)
     IN \/ /\ found = {}
           /\ Continue(h, [r EXCEPT !.phase = "push"]) /\ UNCHANGED rows
        \/ \E x \in found :
             IF Precondition(r, x)
             THEN /\ Continue(h, [r EXCEPT !.phase = "push", !.target = x, !.base = file[x].rev])
                  /\ UNCHANGED rows
             ELSE GiveUp(h)

\* The update is forced unless the request named the content it replaces.
PutCreate(h, x) ==
  /\ ~stuck /\ InPhase(h, "put", "push") /\ request[h].target = New /\ file[x] = NoRow
  /\ LET r == request[h] IN
       IF CanCreate(r.user, r.folder)
       THEN FileCreated(x, r.folder, r.name, r.content) /\ UNCHANGED <<folder, share>> /\ Finish(h)
       ELSE GiveUp(h)

PutUpdate(h) ==
  /\ ~stuck /\ InPhase(h, "put", "push") /\ request[h].target # New
  /\ LET r == request[h] IN
       IF CanChange(r.user, r.target, r.folder, r.base, r.match = AnyContent)
       THEN /\ FileUpdated(r.target, r.folder, r.name, r.content)
            /\ UNCHANGED <<folder, share>> /\ Finish(h)
       ELSE GiveUp(h)

\* The source is read whole and then put: an existing file is replaced, unless
\* the request says not to and the name was taken when it was admitted.
CopyFile(h, u, x, f, n, overwrite) ==
  /\ Opens(h, "copy file") /\ PathFile(u, x)
  /\ PathAccess(u, f) >= 2 /\ FindChild(u, f, n) = {}
  /\ overwrite \/ FilesNamed(f, n) = {}
  /\ Begin(h, Put(u, f, n, file[x].content, AnyContent, FALSE))

-----------------------------------------------------------------------------
(* MKCOL and DELETE.                                                       *)

Mkcol(h, u, p, n) ==
  /\ Opens(h, "mkcol") /\ CanRestructure
  /\ p # Top => PathAccess(u, p) >= 2 /\ FilesNamed(p, n) = {}
  /\ FindChild(u, p, n) = {}
  /\ Begin(h, [kind |-> "ensure", user |-> u, parent |-> p, name |-> n,
               owner |-> OwnerUnder(u, p), root |-> RootUnder(p)])

RemoveTree(h, u, f) ==
  /\ Opens(h, "remove tree") /\ Known(f) /\ PathAdmin(u, f)
  /\ Begin(h, [kind |-> "delete", user |-> u, stack |-> <<Frame(f)>>])

RemoveBegin(h, u, x, match) ==
  /\ Opens(h, "remove") /\ PathFile(u, x) /\ PathAccess(u, file[x].folder) >= 2
  /\ match \in {AnyContent, file[x].content}
  /\ Begin(h, [kind |-> "remove", user |-> u, folder |-> file[x].folder, target |-> x,
               match |-> match, base |-> file[x].rev])

Remove(h) ==
  /\ ~stuck /\ At(h, "remove")
  /\ LET r == request[h] IN
       IF CanChange(r.user, r.target, r.folder, r.base, r.match = AnyContent)
       THEN FileDeleted(r.target) /\ UNCHANGED <<folder, share>> /\ Finish(h)
       ELSE GiveUp(h)

-----------------------------------------------------------------------------
(* MOVE.                                                                   *)

\* A file: whoever has the name at the new place is deleted first, whatever
\* comes of that, and then the file is written there as it was when its path
\* was walked.
MoveFileBegin(h, u, x, f, n, overwrite) ==
  /\ Opens(h, "move file") /\ PathFile(u, x)
  /\ PathAccess(u, file[x].folder) >= 2 /\ PathAccess(u, f) >= 2
  /\ folder[f].owner = folder[file[x].folder].owner
  /\ LET there == FilesNamed(f, n)
         move(dest) == Begin(h,
           [kind |-> "move", user |-> u, target |-> x, folder |-> f, name |-> n,
            content |-> file[x].content, base |-> file[x].rev, dest |-> dest,
            phase |-> IF dest \in {New, x} THEN "push" ELSE "clear"])
     IN \/ there = {} /\ move(New)
        \/ \E y \in there : (overwrite \/ y = x) /\ move(y)

MoveFileClear(h) ==
  /\ ~stuck /\ InPhase(h, "move", "clear")
  /\ LET r == request[h] IN
       /\ IF CanChange(r.user, r.dest, r.folder, 0, TRUE) THEN FileDeleted(r.dest)
          ELSE UNCHANGED file
       /\ UNCHANGED <<folder, share>> /\ Continue(h, [r EXCEPT !.phase = "push"])

MoveFilePush(h) ==
  /\ ~stuck /\ InPhase(h, "move", "push")
  /\ LET r == request[h] IN
       IF CanChange(r.user, r.target, r.folder, 0, TRUE)
       THEN /\ FileUpdated(r.target, r.folder, r.name, r.content)
            /\ UNCHANGED <<folder, share>> /\ Finish(h)
       ELSE GiveUp(h)

\* A folder: renamed where it is, even if it has the name, and then moved.  A
\* folder that has the name at the new place stops it only when the request
\* says not to overwrite; the unique index stops the writes.
MoveFolder(h, u, f, p, n, overwrite) ==
  /\ Opens(h, "move folder") /\ CanRestructure
  /\ Known(f) /\ PathAdmin(u, f)
  /\ IF p = Top THEN folder[f].owner = u
     ELSE /\ Known(p) /\ PathAccess(u, p) >= 2
          /\ ~IsAncestor(f, p) /\ folder[p].owner = folder[f].owner
  /\ overwrite \/ FindChild(folder[f].owner, p, n) = {}
  /\ Begin(h, [kind |-> "update", user |-> u, folder |-> f, parent |-> p, name |-> n,
               root |-> Top, moves |-> TRUE, phase |-> "rename"])

-----------------------------------------------------------------------------
(* COPY of a folder: into the folder that has the name, or a new one; the  *)
(* files of each folder first, then the folders below it.  A frame of the  *)
(* stack is one call of copyCollectionContents.                            *)

CopyFrame(src, dest) ==
  [src |-> src, dest |-> dest, kids |-> {}, listed |-> FALSE,
   files |-> {<<file[x].name, file[x].content>> : x \in FilesIn(src)}]

Copy(u, stack) == [kind |-> "copy", user |-> u, phase |-> "copying", stack |-> stack]

CopyBegin(h, u, f, p, n, overwrite) ==
  /\ Opens(h, "copy") /\ CanRestructure
  /\ Known(f) /\ PathAccess(u, f) >= 1
  /\ p # Top => Known(p) /\ PathAccess(u, p) >= 2 /\ ~IsAncestor(f, p)
  /\ LET there == FindChild(u, p, n) IN
       IF there = {}
       THEN Begin(h, [kind |-> "copy", user |-> u, phase |-> "create", src |-> f, parent |-> p,
                      name |-> n, owner |-> OwnerUnder(u, p), root |-> RootUnder(p)])
       ELSE overwrite /\ \E g \in there : Begin(h, Copy(u, <<CopyFrame(f, g)>>))

CopyCreate(h, g) ==
  /\ ~stuck /\ InPhase(h, "copy", "create") /\ ~Known(g)
  /\ LET r == request[h] IN
       IF NameFree(g, r.owner, r.parent, r.name)
       THEN /\ Inserted(g, r.owner, r.parent, r.root, r.name) /\ UNCHANGED <<file, share>>
            /\ Continue(h, Copy(r.user, <<CopyFrame(r.src, g)>>))
       ELSE GiveUp(h)

Copying(h) == InPhase(h, "copy", "copying")

\* One file of the list, with the content it was listed with, to the file that
\* has its name there or to a new one.  Found and pushed in one step: what can
\* come between is shown by PUT.
CopyOne(h, n, c, y) ==
  /\ ~stuck /\ Copying(h) /\ <<n, c>> \in TopFrame(h).files
  /\ LET d == TopFrame(h).dest
         named == FilesNamed(d, n)
         next == WithTop(h, [TopFrame(h) EXCEPT !.files = @ \ {<<n, c>>}])
     IN /\ IF named = {} THEN file[y] = NoRow ELSE y \in named
        /\ IF MayTarget(request[h].user, d)
           THEN /\ IF named = {} THEN FileCreated(y, d, n, c) ELSE FileUpdated(y, d, n, c)
                /\ UNCHANGED <<folder, share>> /\ Continue(h, next)
           ELSE GiveUp(h)

CopyList(h) ==
  /\ Copying(h) /\ TopFrame(h).files = {} /\ ~TopFrame(h).listed
  /\ Continue(h, WithTop(h, [TopFrame(h) EXCEPT !.kids = Children(TopFrame(h).src),
                                                !.listed = TRUE]))
  /\ UNCHANGED rows

\* EnsureChildCollection for a folder below, and the call for its contents.
CopyDescend(h, k, g) ==
  /\ ~stuck /\ Copying(h) /\ k \in TopFrame(h).kids
  /\ LET d == TopFrame(h).dest
         there == FindChild(request[h].user, d, folder[k].name)
         left == [TopFrame(h) EXCEPT !.kids = @ \ {k}]
         call(dest) == Continue(h, [request[h] EXCEPT
                         !.stack = <<CopyFrame(k, dest), left>> \o Tail(@)])
     IN \/ g \in there /\ call(g) /\ UNCHANGED rows
        \/ /\ there = {} /\ ~Known(g) /\ IsLive(d)
           /\ Inserted(g, folder[d].owner, d, folder[d].root, folder[k].name)
           /\ call(g) /\ UNCHANGED <<file, share>>
        \/ there = {} /\ ~IsLive(d) /\ GiveUp(h)

CopyReturn(h) ==
  /\ Copying(h) /\ TopFrame(h).listed /\ TopFrame(h).kids = {}
  /\ UNCHANGED rows
  /\ LET rest == Tail(request[h].stack) IN
       IF rest = <<>> THEN Finish(h) ELSE Continue(h, [request[h] EXCEPT !.stack = rest])

-----------------------------------------------------------------------------
DavNext ==
  \/ \E h \in FreeHandlers, u \in Users, f \in Folders, n \in Names :
       \/ \E c \in Contents, match \in Contents \cup {AnyContent}, fresh \in BOOLEAN :
            PutBegin(h, u, f, n, c, match, fresh)
       \/ \E x \in Files, overwrite \in BOOLEAN :
            CopyFile(h, u, x, f, n, overwrite) \/ MoveFileBegin(h, u, x, f, n, overwrite)
       \/ \E p \in Folders \cup {Top}, overwrite \in BOOLEAN :
            MoveFolder(h, u, f, p, n, overwrite) \/ CopyBegin(h, u, f, p, n, overwrite)
  \/ \E h \in FreeHandlers, u \in Users, p \in Folders \cup {Top}, n \in Names : Mkcol(h, u, p, n)
  \/ \E h \in FreeHandlers, u \in Users :
       \/ \E f \in Folders : RemoveTree(h, u, f)
       \/ \E x \in Files, match \in Contents \cup {AnyContent} : RemoveBegin(h, u, x, match)
  \/ \E h \in Handlers, x \in Files :
       PutCreate(h, x) \/ \E n \in Names, c \in Contents : CopyOne(h, n, c, x)
  \/ \E h \in Handlers, f \in Folders : CopyCreate(h, f) \/ \E k \in Folders : CopyDescend(h, k, f)
  \/ \E h \in Handlers : \/ PutLookup(h) \/ PutUpdate(h) \/ Remove(h)
                         \/ MoveFileClear(h) \/ MoveFilePush(h)
                         \/ CopyList(h) \/ CopyReturn(h)

Next == TreeNext \/ DavNext

Spec == Init /\ [][Next]_vars

-----------------------------------------------------------------------------
(* Properties.                                                             *)

\* A path grants what the rows grant: someone who gets to a folder by its path
\* has there what a push is checked against.
PathsGrantTheSame ==
  \A u \in Users, f \in Folders :
    Known(f) /\ PathAccess(u, f) > 0 => PathAccess(u, f) = Access(u, f)

\* A PUT or DELETE that names the content it means to replace or delete never
\* replaces or deletes another, whoever wrote since it was looked up
\* (SYNC.md: "no silent overwrite").
ConditionalWritesSafe ==
  [][\A h \in Handlers :
       /\ At(h, "put") \/ At(h, "remove")
       /\ request'[h] = Idle /\ request[h].match # AnyContent /\ request[h].target # New
       /\ file' # file
       => file[request[h].target].content = request[h].match]_vars

\* What is deleted stays deleted: a MOVE or PUT that looked the file up before
\* does not bring it back.
DeletedStaysDeleted ==
  [][\A x \in Files : file[x] # NoRow /\ ~file[x].live => file'[x] = file[x]]_file

\* What the paths and listings of the front end rest on, together: rows of their
\* type, one owner and one root per tree, listings in pages that leave out
\* nothing, and paths that grant what the rows grant.
TreeSound ==
  /\ RowsOK /\ OwnerInherited /\ RootInherited
  /\ ListingComplete /\ PathsGrantTheSame

\* What no request does to the work of another, together: no change without a new
\* tag, no folder taken out of its owner's tree, no folder deleted over its
\* files, no conditional write over another, nothing brought back.
WritesSafe ==
  /\ RevTellsChanges /\ GuestsMoveWithin /\ ListedFilesDeletedFirst
  /\ ConditionalWritesSafe /\ DeletedStaysDeleted
=============================================================================
