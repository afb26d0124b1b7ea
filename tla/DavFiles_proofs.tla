-------------------------- MODULE DavFiles_proofs --------------------------
(***************************************************************************)
(* Proofs about the collection tree and the file system over it.           *)
(***************************************************************************)
EXTENDS DavFiles, FiniteSetTheorems, SequenceTheorems, TLAPS

\* One request at a time creates, moves or renames folders.
OneRestructures == MaxRestructuring = 1

-----------------------------------------------------------------------------
(* The invariant of the rows and of what requests know of them, as         *)
(* operators of the rows of folders F and files X.                         *)

FolderRows == [Folders -> FolderRow \cup {NoRow}]
FileRows == [Files -> FileRow \cup {NoRow}]
ShareRows == [Folders -> [Users -> 0..2]]

Is(F, f) == f \in Folders /\ F[f] # NoRow
Dead(X, x) == X[x] # NoRow /\ ~X[x].live

\* What any step may do to the folders: none is forgotten or changes owner, and
\* one that changes otherwise, but for its root, gets a new revision.
FoldersGrow(F, G) ==
  \A f \in Folders : F[f] # NoRow =>
    /\ G[f] # NoRow /\ G[f].owner = F[f].owner
    /\ G[f].rev = F[f].rev =>
         G[f].name = F[f].name /\ G[f].parent = F[f].parent /\ G[f].live = F[f].live

\* What any step may do to the files: the live ones get new revisions.
FilesGrow(X, Y) ==
  \A x \in Files : X[x] # NoRow /\ Y[x] # X[x] =>
    X[x].live /\ Y[x] # NoRow /\ Y[x].rev > X[x].rev

\* The folders are where they were.
SameTree(F, G) ==
  \A f \in Folders :
    /\ F[f] # NoRow <=> G[f] # NoRow
    /\ F[f] # NoRow => /\ G[f].owner = F[f].owner /\ G[f].parent = F[f].parent
                       /\ G[f].root = F[f].root

-----------------------------------------------------------------------------
(* What a request of each kind holds.                                      *)

Parent == Folders \cup {Top}
EnsureRequest ==
  [kind : {"ensure"}, user : Users, parent : Parent, name : Names, owner : Users, root : Parent]
UpdateRequest ==
  [kind : {"update"}, user : Users, folder : Folders, parent : Parent, name : Names,
   root : Parent, moves : BOOLEAN, phase : {"rename", "read", "write"}]
DeleteFrame ==
  [folder : Folders, kids : SUBSET Folders, listed : BOOLEAN,
   files : SUBSET Files, todo : SUBSET Files]
ShareRequest ==
  [kind : {"share"}, user : Users, folder : Folders, guest : Users, level : 1..2]
ListRequest ==
  [kind : {"list"}, user : Users, folder : Folders, after : Nat, seen : SUBSET Files,
   start : SUBSET (Files \X Nat)]
PutRequest ==
  [kind : {"put"}, user : Users, phase : {"lookup", "push"}, folder : Folders, name : Names,
   content : Contents, match : Contents \cup {AnyContent}, fresh : BOOLEAN,
   target : Files \cup {New}, base : Nat]
RemoveRequest ==
  [kind : {"remove"}, user : Users, folder : Folders, target : Files,
   match : Contents \cup {AnyContent}, base : Nat]
MoveRequest ==
  [kind : {"move"}, user : Users, target : Files, folder : Folders, name : Names,
   content : Contents, base : Nat, dest : Files \cup {New}, phase : {"clear", "push"}]
CreateRequest ==
  [kind : {"copy"}, user : Users, phase : {"create"}, src : Folders, parent : Parent,
   name : Names, owner : Users, root : Parent]
CopyFrames(F) ==
  {fr \in [src : Folders, dest : Folders, kids : SUBSET Folders, listed : BOOLEAN,
           files : SUBSET (Names \X Contents)] : \A k \in fr.kids : F[k] # NoRow}
CopyRequest(F) ==
  [kind : {"copy"}, user : Users, phase : {"copying"}, stack : Seq(CopyFrames(F)) \ {<<>>}]

\* A tree deletion has deleted what it has ticked off its list.
DeleteFrames(X) ==
  {fr \in DeleteFrame : /\ \A x \in fr.files : X[x] # NoRow
                        /\ fr.todo \subseteq fr.files
                        /\ fr.listed => \A x \in fr.files \ fr.todo : Dead(X, x)}
DeleteRequest(X) ==
  [kind : {"delete"}, user : Users, stack : Seq(DeleteFrames(X)) \ {<<>>}]

\* A file that has the revision a request looked up has the content it matched.
StillMatches(X, r) ==
  /\ X[r.target] # NoRow /\ r.base <= X[r.target].rev
  /\ r.match # AnyContent /\ r.base = X[r.target].rev => r.match = X[r.target].content

\* A listing has shown what was there at its start, unchanged, up to its last id.
ListsAll(X, r) ==
  /\ \A e \in r.start : X[e[1]] # NoRow /\ e[2] <= X[e[1]].rev
  /\ \A x \in Files :
       /\ X[x] # NoRow /\ X[x].live /\ X[x].folder = r.folder
       /\ x <= r.after /\ <<x, X[x].rev>> \in r.start
       => x \in r.seen

\* What is to be inserted under a folder has its root.
Under(F, r) == r.parent # Top => Is(F, r.parent) /\ r.root \in Folders

Sound(F, X, r) ==
  /\ r.kind = "ensure" => r \in EnsureRequest /\ Under(F, r)
  /\ r.kind = "update" =>
       /\ r \in UpdateRequest /\ Is(F, r.folder) /\ (r.parent # Top => Is(F, r.parent))
       /\ r.phase = "write" => r.root \in Folders
  /\ r.kind = "delete" => r \in DeleteRequest(X)
  /\ r.kind = "share" => r \in ShareRequest /\ Is(F, r.folder)
  /\ r.kind = "list" => r \in ListRequest /\ Is(F, r.folder) /\ ListsAll(X, r)
  /\ r.kind = "put" =>
       /\ r \in PutRequest
       /\ r.target # New => StillMatches(X, r)
  /\ r.kind = "remove" => r \in RemoveRequest /\ StillMatches(X, r)
  /\ r.kind = "move" => r \in MoveRequest /\ (r.phase = "clear" => r.dest \in Files)
  /\ r.kind = "copy" =>
       \/ r \in CreateRequest /\ Under(F, r)
       \/ r \in CopyRequest(F)

RInv ==
  /\ folder \in FolderRows /\ file \in FileRows /\ share \in ShareRows
  /\ request = [h \in Handlers |-> request[h]]
  /\ \A h \in Handlers : request[h] # Idle => Sound(folder, file, request[h])

-----------------------------------------------------------------------------
(* What a request knows stays so.                                          *)

LEMMA StackGrows ==
  ASSUME NEW S, NEW T, S \subseteq T, NEW s \in Seq(S) \ {<<>>}
  PROVE  s \in Seq(T) \ {<<>>}
BY SeqMonotonic

LEMMA SoundStays ==
  ASSUME NEW F \in FolderRows, NEW G \in FolderRows, NEW X \in FileRows, NEW Y \in FileRows,
         FoldersGrow(F, G), FilesGrow(X, Y), NEW r, Sound(F, X, r)
  PROVE  Sound(G, Y, r)
<1>1. \A f : Is(F, f) => Is(G, f)
  BY DEF Is, FoldersGrow
<1>u. Under(F, r) => Under(G, r)
  BY <1>1 DEF Under
<1>2. \A x \in Files : X[x] # NoRow => Y[x] # NoRow /\ (Y[x] = X[x] \/ Y[x].rev > X[x].rev)
  BY DEF FilesGrow
<1>3. \A x \in Files : X[x] # NoRow => X[x].rev \in Nat
  BY DEF FileRows, FileRow
<1>a. \A x \in Files : Y[x] # NoRow => Y[x].rev \in Nat
  BY DEF FileRows, FileRow
<1>4. CASE r.kind = "delete"
  <2>1. DeleteFrames(X) \subseteq DeleteFrames(Y)
    BY DEF DeleteFrames, DeleteFrame, Dead, FilesGrow
  <2>2. r \in DeleteRequest(X)
    BY <1>4 DEF Sound
  <2>3. Seq(DeleteFrames(X)) \ {<<>>} \subseteq Seq(DeleteFrames(Y)) \ {<<>>}
    BY <2>1, StackGrows
  <2>4. r \in DeleteRequest(Y)
    BY <2>2, <2>3 DEF DeleteRequest
  <2> QED BY <1>4, <2>4 DEF Sound
<1>5. CASE r.kind = "copy"
  <2>1. CopyFrames(F) \subseteq CopyFrames(G)
    BY DEF CopyFrames, FoldersGrow
  <2>2. Seq(CopyFrames(F)) \ {<<>>} \subseteq Seq(CopyFrames(G)) \ {<<>>}
    BY <2>1, StackGrows
  <2>3. r \in CopyRequest(F) => r \in CopyRequest(G)
    BY <2>2 DEF CopyRequest
  <2> QED BY <1>u, <1>5, <2>3 DEF Sound
<1>6. CASE r.kind = "list"
  <2>1. r \in ListRequest /\ Is(F, r.folder) /\ ListsAll(X, r)
    BY <1>6 DEF Sound
  <2>2. r.start \in SUBSET (Files \X Nat) /\ r.seen \in SUBSET Files /\ r.after \in Nat
    BY <2>1 DEF ListRequest
  <2>3. \A e \in r.start : e[1] \in Files /\ e[2] \in Nat
    BY <2>2
  <2>4. \A e \in r.start : Y[e[1]] # NoRow /\ e[2] <= Y[e[1]].rev
    BY <2>1, <2>3, <1>2, <1>3, <1>a DEF ListsAll
  <2>5. ASSUME NEW x \in Files, Y[x] # NoRow, Y[x].live, Y[x].folder = r.folder,
               x <= r.after, <<x, Y[x].rev>> \in r.start
        PROVE  x \in r.seen
    <3>1. X[x] # NoRow /\ Y[x].rev <= X[x].rev
      BY <2>1, <2>5 DEF ListsAll
    <3>2. Y[x] = X[x]
      BY <1>2, <1>3, <1>a, <2>5, <3>1
    <3> QED BY <2>1, <2>5, <3>2 DEF ListsAll
  <2>6. ListsAll(Y, r)
    BY <2>4, <2>5 DEF ListsAll
  <2> QED BY <1>1, <1>6, <2>1, <2>6 DEF Sound
<1>7. CASE r.kind \in {"put", "remove"}
  <2>1. ASSUME r.target \in Files, r.base \in Nat, StillMatches(X, r)
        PROVE  StillMatches(Y, r)
    BY <1>2, <1>3, <1>a, <2>1 DEF StillMatches
  <2>2. r.kind = "put" => r \in PutRequest
    BY DEF Sound
  <2>3. r.kind = "put" /\ r.target # New => r.target \in Files /\ r.base \in Nat
    BY <2>2 DEF PutRequest
  <2>4. r.kind = "remove" => r \in RemoveRequest
    BY DEF Sound
  <2>5. r.kind = "remove" => r.target \in Files /\ r.base \in Nat
    BY <2>4 DEF RemoveRequest
  <2> QED BY <1>7, <2>1, <2>3, <2>5 DEF Sound
<1>8. CASE r.kind \notin {"delete", "copy", "list", "put", "remove"}
  BY <1>1, <1>u, <1>8 DEF Sound
<1> QED BY <1>4, <1>5, <1>6, <1>7, <1>8

-----------------------------------------------------------------------------
(* What the writes do to the rows.                                         *)

\* The fields of a row.
LEMMA FolderFields ==
  ASSUME NEW row \in FolderRow
  PROVE  /\ row.owner \in Users /\ row.parent \in Parent /\ row.root \in Folders
         /\ row.name \in Names /\ row.live \in BOOLEAN /\ row.rev \in Nat
         /\ row # NoRow
BY TreeAssumption DEF FolderRow, Parent

LEMMA FileFields ==
  ASSUME NEW row \in FileRow
  PROVE  /\ row.folder \in Folders /\ row.name \in Names /\ row.content \in Contents
         /\ row.live \in BOOLEAN /\ row.rev \in Nat /\ row # NoRow
BY TreeAssumption DEF FileRow

LEMMA FolderRowsAre ==
  ASSUME NEW F \in FolderRows, NEW f \in Folders, F[f] # NoRow
  PROVE  F[f] \in FolderRow
BY DEF FolderRows

LEMMA FileRowsAre ==
  ASSUME NEW X \in FileRows, NEW x \in Files, X[x] # NoRow
  PROVE  X[x] \in FileRow
BY DEF FileRows

\* A deleted file's row.
LEMMA EditedFile ==
  ASSUME NEW r \in FileRow, NEW l \in BOOLEAN, NEW v \in Nat
  PROVE  LET new == [r EXCEPT !.live = l, !.rev = v] IN
         new \in FileRow /\ new.rev = v /\ new.live = l
BY DEF FileRow

\* A row is inserted.
LEMMA InsertRows ==
  ASSUME NEW F \in FolderRows, NEW f \in Folders, F[f] = NoRow, NEW row \in FolderRow
  PROVE  /\ [F EXCEPT ![f] = row] \in FolderRows
         /\ FoldersGrow(F, [F EXCEPT ![f] = row])
BY FolderFields, FolderRowsAre DEF FolderRows, FoldersGrow

\* A row is written with a new revision.
LEMMA WriteRows ==
  ASSUME NEW F \in FolderRows, NEW f \in Folders, F[f] # NoRow, NEW row \in FolderRow,
         row.owner = F[f].owner, row.rev = F[f].rev + 1
  PROVE  /\ [F EXCEPT ![f] = row] \in FolderRows
         /\ FoldersGrow(F, [F EXCEPT ![f] = row])
         /\ row.parent = F[f].parent /\ row.root = F[f].root =>
              SameTree(F, [F EXCEPT ![f] = row])
<1>1. F[f].rev \in Nat
  BY FolderRowsAre, FolderFields
<1>2. row.rev # F[f].rev
  BY <1>1
<1> QED BY <1>2, FolderFields, FolderRowsAre DEF FolderRows, FoldersGrow, SameTree

\* A file's row is written, when there is none or when it is live.
LEMMA WriteFiles ==
  ASSUME NEW X \in FileRows, NEW x \in Files, NEW row \in FileRow,
         X[x] = NoRow \/ (X[x].live /\ row.rev = X[x].rev + 1)
  PROVE  /\ [X EXCEPT ![x] = row] \in FileRows
         /\ FilesGrow(X, [X EXCEPT ![x] = row])
<1>1. X[x] # NoRow => X[x].rev \in Nat
  BY FileRowsAre, FileFields
<1> QED BY <1>1, FileFields, FileRowsAre DEF FileRows, FilesGrow

LEMMA SameRows ==
  ASSUME NEW F \in FolderRows, NEW X \in FileRows
  PROVE  FoldersGrow(F, F) /\ FilesGrow(X, X) /\ SameTree(F, F)
BY DEF FoldersGrow, FilesGrow, SameTree

LEMMA RenamedRows ==
  ASSUME folder \in FolderRows, NEW f \in Folders, NEW n \in Names, Known(f), Renamed(f, n)
  PROVE  folder' \in FolderRows /\ FoldersGrow(folder, folder') /\ SameTree(folder, folder')
<1> DEFINE row == [folder[f] EXCEPT !.name = n, !.rev = folder[f].rev + 1]
<1>1. folder[f] \in FolderRow /\ folder[f].rev + 1 \in Nat
  BY FolderRowsAre, FolderFields DEF Known
<1>2. /\ row \in FolderRow /\ row.owner = folder[f].owner /\ row.rev = folder[f].rev + 1
      /\ row.parent = folder[f].parent /\ row.root = folder[f].root
  BY <1>1 DEF FolderRow
<1>3. folder' = [folder EXCEPT ![f] = row]
  BY DEF Renamed
<1> HIDE DEF row
<1> QED BY <1>2, <1>3, WriteRows DEF Known

LEMMA SharedRows ==
  ASSUME folder \in FolderRows, share \in ShareRows, NEW f \in Folders, NEW guest \in Users,
         NEW level \in 0..2, Known(f), Shared(f, guest, level)
  PROVE  /\ folder' \in FolderRows /\ FoldersGrow(folder, folder') /\ SameTree(folder, folder')
         /\ share' \in ShareRows
<1> DEFINE row == [folder[f] EXCEPT !.rev = folder[f].rev + 1]
<1>1. folder[f] \in FolderRow /\ folder[f].rev + 1 \in Nat
  BY FolderRowsAre, FolderFields DEF Known
<1>2. /\ row \in FolderRow /\ row.owner = folder[f].owner /\ row.rev = folder[f].rev + 1
      /\ row.parent = folder[f].parent /\ row.root = folder[f].root
  BY <1>1 DEF FolderRow
<1>3. folder' = [folder EXCEPT ![f] = row]
  BY DEF Shared
<1>4. share' \in ShareRows
  BY DEF Shared, ShareRows
<1> HIDE DEF row
<1> QED BY <1>2, <1>3, <1>4, WriteRows DEF Known

LEMMA TombstonedRows ==
  ASSUME folder \in FolderRows, share \in ShareRows, NEW f \in Folders, Known(f), Tombstoned(f)
  PROVE  /\ folder' \in FolderRows /\ FoldersGrow(folder, folder') /\ SameTree(folder, folder')
         /\ share' \in ShareRows
<1> DEFINE row == [folder[f] EXCEPT !.live = FALSE, !.rev = folder[f].rev + 1]
<1>1. folder[f] \in FolderRow /\ folder[f].rev + 1 \in Nat
  BY FolderRowsAre, FolderFields DEF Known
<1>2. /\ row \in FolderRow /\ row.owner = folder[f].owner /\ row.rev = folder[f].rev + 1
      /\ row.parent = folder[f].parent /\ row.root = folder[f].root
  BY <1>1 DEF FolderRow
<1>3. folder' = [folder EXCEPT ![f] = row]
  BY DEF Tombstoned
<1>4. share' \in ShareRows
  BY DEF Tombstoned, ShareRows
<1> HIDE DEF row
<1> QED BY <1>2, <1>3, <1>4, WriteRows DEF Known

LEMMA InsertedRows ==
  ASSUME folder \in FolderRows, NEW f \in Folders, NEW owner \in Users, NEW p \in Parent,
         NEW root, p # Top => root \in Folders, NEW n \in Names,
         ~Known(f), Inserted(f, owner, p, root, n)
  PROVE  /\ folder' \in FolderRows /\ FoldersGrow(folder, folder')
         /\ folder'[f].owner = owner /\ folder'[f].parent = p /\ folder'[f] # NoRow
         /\ folder'[f].root = IF p = Top THEN f ELSE root
         /\ \A g \in Folders : g # f => folder'[g] = folder[g]
<1> DEFINE row == [owner |-> owner, parent |-> p, root |-> IF p = Top THEN f ELSE root,
                   name |-> n, live |-> TRUE, rev |-> 1]
<1>1. row \in FolderRow
  BY DEF FolderRow, Parent
<1>2. folder' = [folder EXCEPT ![f] = row]
  BY DEF Inserted
<1>4. row.owner = owner /\ row.parent = p /\ row.root = IF p = Top THEN f ELSE root
  OBVIOUS
<1> HIDE DEF row
<1>3. folder'[f] = row /\ \A g \in Folders : g # f => folder'[g] = folder[g]
  BY <1>2 DEF FolderRows
<1> QED BY <1>1, <1>2, <1>3, <1>4, InsertRows, FolderFields DEF Known

\* What is below a known folder is known, and the folder itself is among it.
LEMMA SubtreeHas ==
  ASSUME NEW f \in Folders, Known(f)
  PROVE  /\ Subtree(f) \subseteq Folders /\ f \in Subtree(f)
         /\ HasChildren(Subtree(f)) /\ \A g \in Subtree(f) : Known(g)
         /\ \A S \in SUBSET Folders : f \in S /\ HasChildren(S) => Subtree(f) \subseteq S
<1>1. \A S \in SUBSET Folders : f \in S /\ HasChildren(S) => Subtree(f) \subseteq S
  BY DEF Subtree
<1>2. f \in {g \in Folders : Known(g)} /\ HasChildren({g \in Folders : Known(g)})
  BY DEF HasChildren
<1> QED BY <1>1, <1>2 DEF Subtree, HasChildren

LEMMA MovedRows ==
  ASSUME folder \in FolderRows, NEW f \in Folders, NEW p \in Parent, NEW root \in Folders,
         Known(f), Moved(f, p, root)
  PROVE  /\ folder' \in FolderRows /\ FoldersGrow(folder, folder')
         /\ folder'[f].parent = p /\ folder'[f].root = root
         /\ \A g \in Folders : /\ folder'[g] # NoRow <=> folder[g] # NoRow
                               /\ g \notin Subtree(f) => folder'[g] = folder[g]
                               /\ g # f /\ Known(g) => folder'[g].parent = folder[g].parent
                               /\ g \in Subtree(f) => folder'[g].root = root
                               /\ Known(g) => folder'[g].live = folder[g].live
<1>1. \A g \in Subtree(f) : folder[g] \in FolderRow
  BY SubtreeHas, FolderRowsAre DEF Known
<1>2. f \in Subtree(f) /\ Subtree(f) \subseteq Folders
  BY SubtreeHas
<1> DEFINE rooted(g) == [folder[g] EXCEPT !.root = root]
           moved == [folder[f] EXCEPT !.parent = p, !.root = root, !.rev = folder[f].rev + 1]
<1>3. \A g \in Folders : folder'[g] = IF g \notin Subtree(f) THEN folder[g]
                                      ELSE IF g # f THEN rooted(g) ELSE moved
  BY DEF Moved
<1>4. ASSUME NEW row \in FolderRow
      PROVE  LET new == [row EXCEPT !.root = root] IN
             /\ new \in FolderRow /\ new.owner = row.owner /\ new.name = row.name
             /\ new.parent = row.parent /\ new.live = row.live /\ new.rev = row.rev
             /\ new.root = root
  BY DEF FolderRow
<1>5. \A g \in Subtree(f) :
        /\ rooted(g) \in FolderRow /\ rooted(g).owner = folder[g].owner
        /\ rooted(g).name = folder[g].name /\ rooted(g).parent = folder[g].parent
        /\ rooted(g).live = folder[g].live /\ rooted(g).root = root
  BY <1>1, <1>4
<1>6. /\ moved \in FolderRow /\ moved.owner = folder[f].owner /\ moved.parent = p
      /\ moved.root = root /\ moved.rev = folder[f].rev + 1 /\ moved.live = folder[f].live
  <2>1. folder[f] \in FolderRow /\ folder[f].rev + 1 \in Nat
    BY <1>1, <1>2, FolderFields
  <2> QED BY <2>1 DEF FolderRow, Parent
<1> HIDE DEF rooted, moved
<1>7. folder' = [g \in Folders |-> folder'[g]]
  BY DEF Moved
<1>8. \A g \in Folders : folder'[g] \in FolderRow \cup {NoRow}
  BY <1>3, <1>5, <1>6 DEF FolderRows
<1>9. folder' \in FolderRows
  BY <1>7, <1>8 DEF FolderRows
<1>10. moved.rev # folder[f].rev /\ moved # NoRow
  BY <1>1, <1>2, <1>6, FolderFields
<1>11. FoldersGrow(folder, folder')
  BY <1>2, <1>3, <1>5, <1>6, <1>10, FolderFields DEF FoldersGrow
<1>12. \A g \in Subtree(f) : folder[g] # NoRow /\ folder'[g] # NoRow
  BY <1>1, <1>2, <1>3, <1>5, <1>6, FolderFields
<1> QED BY <1>2, <1>3, <1>5, <1>6, <1>9, <1>11, <1>12 DEF Known

LEMMA CreatedRows ==
  ASSUME file \in FileRows, NEW x \in Files, NEW f \in Folders, NEW n \in Names,
         NEW c \in Contents, file[x] = NoRow, FileCreated(x, f, n, c)
  PROVE  file' \in FileRows /\ FilesGrow(file, file')
<1> DEFINE row == [folder |-> f, name |-> n, content |-> c, rev |-> 1, live |-> TRUE]
<1>1. row \in FileRow
  BY DEF FileRow
<1>2. file' = [file EXCEPT ![x] = row]
  BY DEF FileCreated
<1> HIDE DEF row
<1> QED BY <1>1, <1>2, WriteFiles

LEMMA UpdatedRows ==
  ASSUME file \in FileRows, NEW x \in Files, NEW f \in Folders, NEW n \in Names,
         NEW c \in Contents, LiveFile(x), FileUpdated(x, f, n, c)
  PROVE  file' \in FileRows /\ FilesGrow(file, file')
<1> DEFINE row == [folder |-> f, name |-> n, content |-> c, rev |-> file[x].rev + 1,
                   live |-> TRUE]
<1>1. file[x].rev \in Nat
  BY FileRowsAre, FileFields DEF LiveFile
<1>2. row \in FileRow /\ row.rev = file[x].rev + 1
  BY <1>1 DEF FileRow
<1>3. file' = [file EXCEPT ![x] = row]
  BY DEF FileUpdated
<1> HIDE DEF row
<1> QED BY <1>2, <1>3, WriteFiles DEF LiveFile

LEMMA DeletedRows ==
  ASSUME file \in FileRows, NEW x \in Files, LiveFile(x), FileDeleted(x)
  PROVE  file' \in FileRows /\ FilesGrow(file, file') /\ Dead(file', x)
<1> DEFINE row == [file[x] EXCEPT !.live = FALSE, !.rev = file[x].rev + 1]
<1>1. file[x] \in FileRow /\ file[x].rev + 1 \in Nat
  BY FileRowsAre, FileFields DEF LiveFile
<1>2. row \in FileRow /\ row.rev = file[x].rev + 1 /\ ~row.live
  BY <1>1, EditedFile
<1>3. file' = [file EXCEPT ![x] = row]
  BY DEF FileDeleted
<1> HIDE DEF row
<1>4. file'[x] = row
  BY <1>3 DEF FileRows
<1> QED BY <1>2, <1>3, <1>4, WriteFiles, FileFields DEF LiveFile, Dead

-----------------------------------------------------------------------------
(* A step, whichever request takes it.                                     *)

\* A deletion takes away a folder whose listed files are gone; what names the
\* content it replaces replaces no other.
OwnSafe(h) ==
  /\ At(h, "delete") =>
       LET f == TopFrame(h).folder IN
       IsLive(f) /\ ~folder'[f].live =>
         TopFrame(h).listed /\ TopFrame(h).files \cap FilesIn(f) = {}
  /\ (At(h, "put") \/ At(h, "remove")) /\ request'[h] = Idle
       /\ request[h].match # AnyContent /\ request[h].target # New /\ file' # file
     => file[request[h].target].content = request[h].match

Steps ==
  /\ folder' \in FolderRows /\ file' \in FileRows /\ share' \in ShareRows
  /\ FoldersGrow(folder, folder') /\ FilesGrow(file, file')
  /\ request' = [k \in Handlers |-> request'[k]]
  /\ \A k \in Handlers : request'[k] # request[k] =>
       /\ request'[k] # Idle => Sound(folder', file', request'[k])
       /\ OwnSafe(k)

\* A step that leaves the tree as it is, and begins no request that would not.
Plain ==
  /\ SameTree(folder, folder') /\ stuck' = stuck
  /\ \A k \in Handlers :
       request'[k] # request[k] /\ request'[k] # Idle => ~Restructuring(request'[k])

\* What the action properties ask of a step, but for where folders go.
RowsSafe ==
  /\ \A u \in Users : View(u)' # View(u) => CollectionsRev(u)' # CollectionsRev(u)
  /\ \A h \in Handlers : At(h, "delete") =>
       LET f == TopFrame(h).folder IN
       IsLive(f) /\ ~folder'[f].live /\ request'[h] # request[h] =>
         TopFrame(h).listed /\ TopFrame(h).files \cap FilesIn(f) = {}
  /\ \A h \in Handlers :
       /\ At(h, "put") \/ At(h, "remove")
       /\ request'[h] = Idle /\ request[h].match # AnyContent /\ request[h].target # New
       /\ file' # file
       => file[request[h].target].content = request[h].match
  /\ \A x \in Files : file[x] # NoRow /\ ~file[x].live => file'[x] = file[x]

LEMMA StepsKeep == RInv /\ Steps => RInv' /\ RowsSafe
<1> SUFFICES ASSUME RInv, Steps PROVE RInv' /\ RowsSafe
  OBVIOUS
<1>1. /\ folder \in FolderRows /\ file \in FileRows
      /\ folder' \in FolderRows /\ file' \in FileRows /\ share' \in ShareRows
      /\ FoldersGrow(folder, folder') /\ FilesGrow(file, file')
  BY DEF RInv, Steps
<1>2. ASSUME NEW h \in Handlers, request'[h] # Idle
      PROVE  Sound(folder', file', request'[h])
  <2>1. CASE request'[h] # request[h]
    BY <1>2, <2>1 DEF Steps
  <2>2. CASE request'[h] = request[h]
    <3>1. Sound(folder, file, request[h])
      BY <1>2, <2>2 DEF RInv
    <3>2. Sound(folder', file', request[h])
      BY <1>1, <3>1, SoundStays
    <3> QED BY <2>2, <3>2
  <2> QED BY <2>1, <2>2
<1>3. RInv'
  BY <1>1, <1>2 DEF RInv, Steps
<1>4. ASSUME NEW u \in Users, CollectionsRev(u)' = CollectionsRev(u)
      PROVE  View(u)' = View(u)
  <2>1. Visible(u)' = Visible(u)
    <3>1. DOMAIN CollectionsRev(u)' = DOMAIN CollectionsRev(u)
      BY <1>4
    <3>2. DOMAIN CollectionsRev(u) = Visible(u)
      BY DEF CollectionsRev
    <3>3. DOMAIN (CollectionsRev(u)') = Visible(u)'
      BY DEF CollectionsRev
    <3> QED BY <1>4, <3>2, <3>3
  <2>2. ASSUME NEW f \in Visible(u)
        PROVE  /\ folder'[f].rev = folder[f].rev /\ Access(u, f)' = Access(u, f)
               /\ f \in Folders /\ folder[f] # NoRow
    <3>1. CollectionsRev(u)[f] = <<folder[f].rev, Access(u, f)>>
      BY <2>2 DEF CollectionsRev
    <3>2. (CollectionsRev(u)')[f] = <<folder'[f].rev, Access(u, f)'>>
      BY <2>1, <2>2 DEF CollectionsRev
    <3>3. f \in Folders /\ folder[f] # NoRow
      BY <2>2 DEF Visible, Known
    <3> QED BY <1>4, <3>1, <3>2, <3>3
  <2>3. \A f \in Visible(u) : /\ folder'[f].name = folder[f].name
                              /\ folder'[f].parent = folder[f].parent
                              /\ folder'[f].live = folder[f].live
    BY <1>1, <2>2 DEF FoldersGrow
  <2> QED BY <2>1, <2>2, <2>3 DEF View
<1>5. \A x \in Files : file[x] # NoRow /\ ~file[x].live => file'[x] = file[x]
  BY <1>1 DEF FilesGrow
<1>6. ASSUME NEW h \in Handlers, At(h, "delete"), request'[h] # request[h]
      PROVE  LET f == TopFrame(h).folder IN
             IsLive(f) /\ ~folder'[f].live =>
               TopFrame(h).listed /\ TopFrame(h).files \cap FilesIn(f) = {}
  BY <1>6 DEF Steps, OwnSafe
<1>7. ASSUME NEW h \in Handlers, At(h, "put") \/ At(h, "remove"), request'[h] = Idle,
             request[h].match # AnyContent, request[h].target # New, file' # file
      PROVE  file[request[h].target].content = request[h].match
  <2>1. request'[h] # request[h]
    BY <1>7 DEF At
  <2> QED BY <1>7, <2>1 DEF Steps, OwnSafe
<1> QED BY <1>3, <1>4, <1>5, <1>6, <1>7 DEF RowsSafe

-----------------------------------------------------------------------------
(* Steps by what they write.                                               *)

\* One handler goes on.
LEMMA Goes ==
  ASSUME RInv, NEW h \in Handlers, NEW r, request' = [request EXCEPT ![h] = r]
  PROVE  /\ request' = [k \in Handlers |-> request'[k]] /\ request'[h] = r
         /\ \A k \in Handlers : k # h => request'[k] = request[k]
BY DEF RInv

LEMMA WriteStep ==
  ASSUME RInv, NEW h \in Handlers, NEW r, request' = [request EXCEPT ![h] = r],
         folder' \in FolderRows, file' \in FileRows, share' \in ShareRows,
         FoldersGrow(folder, folder'), FilesGrow(file, file'),
         r # Idle => Sound(folder', file', r), OwnSafe(h)
  PROVE  /\ Steps
         /\ SameTree(folder, folder') /\ stuck' = stuck /\ (r # Idle => ~Restructuring(r)) =>
              Plain
BY Goes DEF Steps, Plain

LEMMA ReadStep ==
  ASSUME RInv, NEW h \in Handlers, NEW r, request' = [request EXCEPT ![h] = r],
         UNCHANGED rows, r # Idle => Sound(folder, file, r)
  PROVE  /\ Steps
         /\ stuck' = stuck /\ (r # Idle => ~Restructuring(r)) => Plain
<1>1. folder' = folder /\ file' = file /\ share' = share
  BY DEF rows
<1>2. OwnSafe(h)
  BY <1>1 DEF OwnSafe, IsLive
<1> QED BY <1>1, <1>2, WriteStep, SameRows DEF RInv

LEMMA GiveUpStep ==
  ASSUME RInv, NEW h \in Handlers, GiveUp(h)
  PROVE  Steps /\ Plain
BY ReadStep DEF GiveUp, Finish, End

\* Only a file changes.
LEMMA FileStep ==
  ASSUME RInv, NEW h \in Handlers, NEW r, request' = [request EXCEPT ![h] = r],
         UNCHANGED <<folder, share>>, file' \in FileRows, FilesGrow(file, file'),
         r # Idle => Sound(folder, file', r),
         /\ At(h, "put") \/ At(h, "remove")
         /\ request[h].match # AnyContent /\ request[h].target # New /\ r = Idle
         => file[request[h].target].content = request[h].match
  PROVE  /\ Steps
         /\ stuck' = stuck /\ (r # Idle => ~Restructuring(r)) => Plain
<1>1. OwnSafe(h)
  BY Goes DEF OwnSafe, IsLive
<1> QED BY <1>1, WriteStep, SameRows DEF RInv

-----------------------------------------------------------------------------
(* Requests that a handler may begin.                                      *)

LEMMA SoundEnsure ==
  ASSUME NEW F, NEW X, NEW r \in EnsureRequest, Under(F, r)
  PROVE  Sound(F, X, r)
BY DEF Sound, EnsureRequest

LEMMA SoundUpdate ==
  ASSUME NEW F, NEW X, NEW r \in UpdateRequest, Is(F, r.folder),
         r.parent # Top => Is(F, r.parent), r.phase = "write" => r.root \in Folders
  PROVE  Sound(F, X, r)
BY DEF Sound, UpdateRequest

LEMMA SoundDelete ==
  ASSUME NEW F, NEW X, NEW r \in DeleteRequest(X)
  PROVE  Sound(F, X, r)
BY DEF Sound, DeleteRequest

LEMMA SoundShare ==
  ASSUME NEW F, NEW X, NEW r \in ShareRequest, Is(F, r.folder)
  PROVE  Sound(F, X, r)
BY DEF Sound, ShareRequest

LEMMA SoundList ==
  ASSUME NEW F, NEW X, NEW r \in ListRequest, Is(F, r.folder), ListsAll(X, r)
  PROVE  Sound(F, X, r)
BY DEF Sound, ListRequest

LEMMA SoundPut ==
  ASSUME NEW F, NEW X, NEW r \in PutRequest,
         r.target # New => StillMatches(X, r)
  PROVE  Sound(F, X, r)
BY DEF Sound, PutRequest

LEMMA SoundRemove ==
  ASSUME NEW F, NEW X, NEW r \in RemoveRequest, StillMatches(X, r)
  PROVE  Sound(F, X, r)
BY DEF Sound, RemoveRequest

LEMMA SoundMove ==
  ASSUME NEW F, NEW X, NEW r \in MoveRequest, r.phase = "clear" => r.dest \in Files
  PROVE  Sound(F, X, r)
BY DEF Sound, MoveRequest

LEMMA SoundCreate ==
  ASSUME NEW F, NEW X, NEW r \in CreateRequest, Under(F, r)
  PROVE  Sound(F, X, r)
BY DEF Sound, CreateRequest

LEMMA SoundCopy ==
  ASSUME NEW F, NEW X, NEW r \in CopyRequest(F)
  PROVE  Sound(F, X, r)
BY DEF Sound, CopyRequest

\* What the stack of a walk holds as its frames come and go.
LEMMA StackMoves ==
  ASSUME NEW S, NEW s \in Seq(S) \ {<<>>}
  PROVE  /\ Head(s) \in S
         /\ Tail(s) # <<>> => Tail(s) \in Seq(S) \ {<<>>}
         /\ \A a \in S : <<a>> \o Tail(s) \in Seq(S) \ {<<>>} /\ <<a>> \in Seq(S) \ {<<>>}
         /\ \A a, b \in S : <<a, b>> \o Tail(s) \in Seq(S) \ {<<>>}
<1>1. Head(s) \in S /\ Tail(s) \in Seq(S) /\ Len(Tail(s)) \in Nat
  BY HeadTailProperties, LenProperties
<1>2. ASSUME NEW a \in S PROVE <<a>> \in Seq(S) /\ Len(<<a>>) = 1 /\ <<a>> # <<>>
  BY <1>2
<1>3. ASSUME NEW a \in S, NEW b \in S PROVE <<a, b>> \in Seq(S) /\ Len(<<a, b>>) = 2
  BY <1>3
<1>4. ASSUME NEW t \in Seq(S), Len(t) > 0
      PROVE  t \o Tail(s) \in Seq(S) /\ t \o Tail(s) # <<>>
  BY <1>1, <1>4, ConcatProperties, EmptySeq, LenProperties
<1> QED BY <1>1, <1>2, <1>3, <1>4

-----------------------------------------------------------------------------
(* The requests of signed devices.                                         *)

\* A request opens at an idle handler.
LEMMA OpensIs ==
  ASSUME NEW h, NEW kind, Opens(h, kind)
  PROVE  h \in Handlers /\ request[h] = Idle /\ UNCHANGED rows /\ stuck' = stuck
BY DEF Opens, FreeHandlers, rows

LEMMA OwnerAndRoot ==
  ASSUME RInv, NEW u \in Users, NEW p \in Parent, p # Top => Known(p)
  PROVE  /\ OwnerUnder(u, p) \in Users /\ RootUnder(p) \in Parent
         /\ p # Top => /\ Is(folder, p) /\ RootUnder(p) \in Folders
                       /\ OwnerUnder(u, p) = folder[p].owner /\ RootUnder(p) = folder[p].root
BY FolderRowsAre, FolderFields DEF RInv, OwnerUnder, RootUnder, Known, Parent, Is

LEMMA EnsureBegins ==
  ASSUME RInv, NEW h, NEW u \in Users, NEW p \in Parent, NEW n \in Names,
         NEW kind, Opens(h, kind), p # Top => Known(p),
         Begin(h, [kind |-> "ensure", user |-> u, parent |-> p, name |-> n,
                   owner |-> OwnerUnder(u, p), root |-> RootUnder(p)])
  PROVE  Steps
<1> DEFINE r == [kind |-> "ensure", user |-> u, parent |-> p, name |-> n,
                 owner |-> OwnerUnder(u, p), root |-> RootUnder(p)]
<1>1. r \in EnsureRequest /\ r.parent = p /\ r.root = RootUnder(p)
  BY OwnerAndRoot DEF EnsureRequest
<1>2. request' = [request EXCEPT ![h] = r]
  BY DEF Begin
<1> HIDE DEF r
<1>3. Sound(folder, file, r)
  BY <1>1, OwnerAndRoot, SoundEnsure DEF Under
<1> QED BY <1>2, <1>3, OpensIs, ReadStep

LEMMA EnsureBeginStep ==
  ASSUME RInv, NEW h, NEW u \in Users, NEW p \in Parent, NEW n \in Names,
         EnsureBegin(h, u, p, n)
  PROVE  Steps
BY EnsureBegins DEF EnsureBegin, IsLive

LEMMA EnsureInsertStep ==
  ASSUME RInv, NEW h \in Handlers, NEW f \in Folders, EnsureInsert(h, f)
  PROVE  Steps
<1> DEFINE r == request[h]
<1>1. r \in EnsureRequest /\ Under(folder, r)
  BY DEF EnsureInsert, At, RInv, Sound
<1>2. CASE GiveUp(h)
  BY <1>2, GiveUpStep
<1>3. CASE /\ Inserted(f, r.owner, r.parent, r.root, r.name)
           /\ Finish(h) /\ UNCHANGED <<file, share>>
  <2>1. /\ r.owner \in Users /\ r.parent \in Parent /\ r.name \in Names
        /\ r.parent # Top => r.root \in Folders
    BY <1>1 DEF EnsureRequest, Under
  <2>2. folder' \in FolderRows /\ FoldersGrow(folder, folder')
    BY <1>3, <2>1, InsertedRows DEF RInv, EnsureInsert
  <2>3. OwnSafe(h)
    BY <1>3 DEF OwnSafe, EnsureInsert, At
  <2> QED BY <1>3, <2>2, <2>3, WriteStep, SameRows DEF RInv, Finish, End
<1> QED BY <1>2, <1>3 DEF EnsureInsert

LEMMA UpdateBegins ==
  ASSUME RInv, NEW h, NEW u \in Users, NEW f \in Folders, NEW p \in Parent, NEW n \in Names,
         NEW moves \in BOOLEAN, NEW phase \in {"rename", "read"},
         NEW kind, Opens(h, kind), Known(f), p # Top => Known(p),
         Begin(h, [kind |-> "update", user |-> u, folder |-> f, parent |-> p, name |-> n,
                   root |-> Top, moves |-> moves, phase |-> phase])
  PROVE  Steps
<1> DEFINE r == [kind |-> "update", user |-> u, folder |-> f, parent |-> p, name |-> n,
                 root |-> Top, moves |-> moves, phase |-> phase]
<1>1. r \in UpdateRequest /\ r.parent = p /\ r.folder = f /\ r.phase # "write"
  BY DEF UpdateRequest, Parent
<1>2. request' = [request EXCEPT ![h] = r]
  BY DEF Begin
<1> HIDE DEF r
<1>3. Sound(folder, file, r)
  BY <1>1, SoundUpdate DEF Is, Known, Parent
<1> QED BY <1>2, <1>3, OpensIs, ReadStep

LEMMA UpdateBeginStep ==
  ASSUME RInv, NEW h, NEW u \in Users, NEW f \in Folders, NEW p \in Parent, NEW n \in Names,
         UpdateBegin(h, u, f, p, n)
  PROVE  Steps
<1>1. Known(f) /\ (p # Top => Known(p))
  BY DEF UpdateBegin, MayAdmin, IsLive, MoveAllowed
<1> QED BY <1>1, UpdateBegins DEF UpdateBegin

\* What a request that renames or moves holds, and how it goes on.
LEMMA UpdateIs ==
  ASSUME RInv, NEW h \in Handlers, At(h, "update")
  PROVE  LET r == request[h] IN
         /\ r \in UpdateRequest /\ Known(r.folder) /\ r.folder \in Folders
         /\ r.parent \in Parent /\ r.name \in Names
         /\ r.parent # Top => Is(folder, r.parent)
         /\ r.phase = "write" => r.root \in Folders
BY DEF RInv, At, Sound, Is, Known, UpdateRequest

LEMMA RenameStep ==
  ASSUME RInv, NEW h \in Handlers, Rename(h)
  PROVE  Steps /\ SameTree(folder, folder') /\ stuck' = stuck
<1> DEFINE r == request[h]
           n == [r EXCEPT !.phase = "read"]
<1>1. At(h, "update")
  BY DEF Rename, InPhase
<1>2. CASE GiveUp(h)
  BY <1>2, GiveUpStep DEF Plain
<1>3. CASE Renamed(r.folder, r.name) /\ UNCHANGED <<file, share>>
           /\ (Continue(h, n) \/ Finish(h))
  <2>1. folder' \in FolderRows /\ FoldersGrow(folder, folder') /\ SameTree(folder, folder')
    BY <1>1, <1>3, UpdateIs, RenamedRows DEF RInv
  <2>2. OwnSafe(h)
    BY <1>1, <1>3 DEF OwnSafe, At
  <2>3. /\ n \in UpdateRequest /\ n.folder = r.folder /\ n.parent = r.parent
        /\ n.phase = "read"
    BY <1>1, UpdateIs DEF UpdateRequest
  <2> HIDE DEF n
  <2>4. Sound(folder, file, n)
    BY <1>1, <2>3, UpdateIs, SoundUpdate DEF Is, Known
  <2>5. file' = file /\ share' = share /\ FilesGrow(file, file)
    BY <1>3, SameRows DEF RInv
  <2>6. Sound(folder', file', n)
    BY <2>1, <2>4, <2>5, SoundStays DEF RInv
  <2>7. CASE Continue(h, n)
    BY <2>1, <2>2, <2>5, <2>6, <2>7, WriteStep DEF RInv, Continue, Begin
  <2>8. CASE Finish(h)
    BY <2>1, <2>2, <2>5, <2>8, WriteStep DEF RInv, Finish, End
  <2> QED BY <1>3, <2>7, <2>8
<1> QED BY <1>2, <1>3 DEF Rename

LEMMA MoveReadStep ==
  ASSUME RInv, NEW h \in Handlers, MoveRead(h)
  PROVE  Steps /\ UNCHANGED rows /\ stuck' = stuck
<1> DEFINE r == request[h]
           root == IF r.parent = Top THEN r.folder ELSE folder[r.parent].root
           n == [r EXCEPT !.phase = "write", !.root = root]
<1>1. At(h, "update")
  BY DEF MoveRead, InPhase
<1>2. CASE GiveUp(h)
  BY <1>2, GiveUpStep DEF GiveUp, Finish
<1>3. CASE Continue(h, n) /\ UNCHANGED rows
  <2>1. root \in Folders
    BY <1>1, UpdateIs, FolderRowsAre, FolderFields DEF RInv, Is
  <2>2. /\ n \in UpdateRequest /\ n.folder = r.folder /\ n.parent = r.parent
        /\ n.root = root
    BY <1>1, <2>1, UpdateIs DEF UpdateRequest, Parent
  <2> HIDE DEF n
  <2>3. Sound(folder, file, n)
    BY <1>1, <2>1, <2>2, UpdateIs, SoundUpdate DEF Is, Known
  <2> QED BY <1>3, <2>3, ReadStep DEF Continue, Begin
<1> QED BY <1>2, <1>3 DEF MoveRead

LEMMA MoveWriteStep ==
  ASSUME RInv, NEW h \in Handlers, MoveWrite(h)
  PROVE  Steps
<1> DEFINE r == request[h]
<1>1. At(h, "update") /\ r.phase = "write"
  BY DEF MoveWrite, InPhase
<1>2. CASE GiveUp(h)
  BY <1>2, GiveUpStep
<1>3. CASE UNCHANGED <<folder, file, share, request>>
  BY <1>3, SameRows DEF Steps, RInv
<1>4. CASE Moved(r.folder, r.parent, r.root) /\ UNCHANGED <<file, share>> /\ Finish(h)
  <2>1. folder' \in FolderRows /\ FoldersGrow(folder, folder')
    BY <1>1, <1>4, UpdateIs, MovedRows DEF RInv
  <2>2. OwnSafe(h)
    BY <1>1, <1>4 DEF OwnSafe, At
  <2>3. file' = file /\ share' = share /\ FilesGrow(file, file)
    BY <1>4, SameRows DEF RInv
  <2> QED BY <1>4, <2>1, <2>2, <2>3, WriteStep DEF RInv, Finish, End
<1> QED BY <1>2, <1>3, <1>4 DEF MoveWrite

-----------------------------------------------------------------------------
(* Deletion, sharing, listing.                                             *)

LEMMA FrameIs ==
  ASSUME NEW f \in Folders
  PROVE  /\ Frame(f) \in DeleteFrames(file)
         /\ [Frame(f) EXCEPT !.kids = {}] \in DeleteFrames(file)
<1> DEFINE fr == Frame(f)
           n == [fr EXCEPT !.kids = {}]
<1>1. fr \in DeleteFrame /\ fr.files = {} /\ fr.todo = {} /\ ~fr.listed
  BY DEF Frame, DeleteFrame, Children
<1> HIDE DEF fr
<1>2. n \in DeleteFrame /\ n.files = {} /\ n.todo = {} /\ ~n.listed
  BY <1>1 DEF DeleteFrame
<1> HIDE DEF n
<1>3. fr \in DeleteFrames(file) /\ n \in DeleteFrames(file)
  BY <1>1, <1>2 DEF DeleteFrames
<1> QED BY <1>3 DEF n, fr

LEMMA DeleteBegins ==
  ASSUME RInv, NEW h, NEW u \in Users, NEW kind, Opens(h, kind),
         NEW frame \in DeleteFrames(file),
         Begin(h, [kind |-> "delete", user |-> u, stack |-> <<frame>>])
  PROVE  Steps /\ Plain
<1> DEFINE r == [kind |-> "delete", user |-> u, stack |-> <<frame>>]
<1>1. <<frame>> \in Seq(DeleteFrames(file)) /\ <<frame>> # <<>>
  OBVIOUS
<1>2. r \in DeleteRequest(file)
  BY <1>1 DEF DeleteRequest
<1>3. request' = [request EXCEPT ![h] = r]
  BY DEF Begin
<1>4. r.kind = "delete"
  OBVIOUS
<1> HIDE DEF r
<1> QED BY <1>2, <1>3, <1>4, OpensIs, ReadStep, SoundDelete DEF Restructuring

LEMMA DeleteBeginStep ==
  ASSUME RInv, NEW h, NEW u \in Users, NEW f \in Folders, DeleteBegin(h, u, f)
  PROVE  Steps /\ Plain
BY FrameIs, DeleteBegins DEF DeleteBegin

LEMMA OperatorDeleteStep ==
  ASSUME RInv, NEW h, NEW u \in Users, NEW f \in Folders, OperatorDelete(h, u, f)
  PROVE  Steps /\ Plain
BY FrameIs, DeleteBegins DEF OperatorDelete

\* What a deletion holds.
LEMMA DeleteIs ==
  ASSUME RInv, NEW h \in Handlers, At(h, "delete")
  PROVE  /\ request[h] \in DeleteRequest(file)
         /\ request[h].stack \in Seq(DeleteFrames(file)) \ {<<>>}
         /\ TopFrame(h) \in DeleteFrames(file) /\ TopFrame(h) \in DeleteFrame
         /\ TopFrame(h).kids \in SUBSET Folders /\ TopFrame(h).folder \in Folders
         /\ TopFrame(h).todo \in SUBSET Files /\ TopFrame(h).files \in SUBSET Files
<1>1. request[h] \in DeleteRequest(file)
  BY DEF RInv, At, Sound
<1>2. request[h].stack \in Seq(DeleteFrames(file)) \ {<<>>}
  BY <1>1 DEF DeleteRequest
<1>3. TopFrame(h) \in DeleteFrames(file)
  BY <1>2, StackMoves DEF TopFrame
<1>4. TopFrame(h) \in DeleteFrame
  BY <1>3 DEF DeleteFrames
<1> QED BY <1>1, <1>2, <1>3, <1>4 DEF DeleteFrame

\* A deletion goes on with another stack.
LEMMA DeleteGoesOn ==
  ASSUME NEW X, NEW r \in DeleteRequest(X), NEW s \in Seq(DeleteFrames(X)) \ {<<>>}
  PROVE  [r EXCEPT !.stack = s] \in DeleteRequest(X) /\ [r EXCEPT !.stack = s].kind = "delete"
<1> DEFINE Stacks == Seq(DeleteFrames(X)) \ {<<>>}
<1>1. r \in [kind : {"delete"}, user : Users, stack : Stacks] /\ s \in Stacks
  BY DEF DeleteRequest
<1> HIDE DEF Stacks
<1>2. /\ [r EXCEPT !.stack = s] \in [kind : {"delete"}, user : Users, stack : Stacks]
      /\ [r EXCEPT !.stack = s].kind = "delete"
  BY <1>1
<1> QED BY <1>2 DEF DeleteRequest, Stacks

LEMMA DeleteDescendStep ==
  ASSUME RInv, NEW h \in Handlers, NEW g \in Folders, DeleteDescend(h, g)
  PROVE  Steps /\ Plain
<1> DEFINE fr == TopFrame(h)
           left == [fr EXCEPT !.kids = fr.kids \ {g}]
           s == <<Frame(g), left>> \o Tail(request[h].stack)
           r == [request[h] EXCEPT !.stack = s]
<1>1. At(h, "delete") /\ UNCHANGED rows /\ Continue(h, r)
  BY DEF DeleteDescend
<1>2. fr \in DeleteFrames(file) /\ fr \in DeleteFrame
  BY <1>1, DeleteIs
<1> HIDE DEF fr
<1>3. /\ left \in DeleteFrame /\ left.files = fr.files /\ left.todo = fr.todo
      /\ left.listed = fr.listed
  BY <1>2 DEF DeleteFrame
<1>4. left \in DeleteFrames(file)
  BY <1>2, <1>3 DEF DeleteFrames
<1> HIDE DEF left
<1>5. s \in Seq(DeleteFrames(file)) \ {<<>>}
  BY <1>1, <1>4, FrameIs, DeleteIs, StackMoves
<1> HIDE DEF s
<1>6. r \in DeleteRequest(file) /\ r.kind = "delete"
  BY <1>1, <1>5, DeleteIs, DeleteGoesOn
<1> HIDE DEF r
<1> QED BY <1>1, <1>6, ReadStep, SoundDelete DEF Continue, Begin, Restructuring

LEMMA DeleteListStep ==
  ASSUME RInv, NEW h \in Handlers, DeleteList(h)
  PROVE  Steps /\ Plain
<1> DEFINE fr == TopFrame(h)
           here == FilesIn(fr.folder)
           listed == [fr EXCEPT !.files = here, !.todo = here, !.listed = TRUE]
           s == <<listed>> \o Tail(request[h].stack)
           r == [request[h] EXCEPT !.stack = s]
<1>1. At(h, "delete") /\ UNCHANGED rows /\ Continue(h, r)
  BY DEF DeleteList, WithTop
<1>2. fr \in DeleteFrames(file) /\ fr \in DeleteFrame
  BY <1>1, DeleteIs
<1>3. here \in SUBSET Files /\ \A x \in here : file[x] # NoRow
  BY DEF FilesIn, LiveFile
<1> HIDE DEF fr, here
<1>4. listed \in DeleteFrame /\ listed.files = here /\ listed.todo = here
  BY <1>2, <1>3 DEF DeleteFrame
<1>5. listed \in DeleteFrames(file)
  BY <1>3, <1>4 DEF DeleteFrames
<1> HIDE DEF listed
<1>6. s \in Seq(DeleteFrames(file)) \ {<<>>}
  BY <1>1, <1>5, DeleteIs, StackMoves
<1> HIDE DEF s
<1>7. r \in DeleteRequest(file) /\ r.kind = "delete"
  BY <1>1, <1>6, DeleteIs, DeleteGoesOn
<1> HIDE DEF r
<1> QED BY <1>1, <1>7, ReadStep, SoundDelete DEF Continue, Begin, Restructuring

LEMMA DeleteFileStep ==
  ASSUME RInv, NEW h \in Handlers, NEW x \in Files, DeleteFile(h, x)
  PROVE  Steps /\ Plain
<1> DEFINE fr == TopFrame(h)
           left == [fr EXCEPT !.todo = fr.todo \ {x}]
           s == <<left>> \o Tail(request[h].stack)
           r == [request[h] EXCEPT !.stack = s]
<1>1. At(h, "delete") /\ x \in fr.todo
  BY DEF DeleteFile
<1>2. CASE GiveUp(h)
  BY <1>2, GiveUpStep
<1>3. CASE /\ Continue(h, r) /\ UNCHANGED <<folder, share>>
           /\ \/ LiveFile(x) /\ FileDeleted(x)
              \/ ~LiveFile(x) /\ file' = file
  <2>1. fr \in DeleteFrames(file) /\ fr \in DeleteFrame
    BY <1>1, DeleteIs
  <2>2. file[x] # NoRow
    BY <1>1, <2>1 DEF DeleteFrames
  <2>3. file' \in FileRows /\ FilesGrow(file, file') /\ Dead(file', x)
    BY <1>3, <2>2, DeletedRows, SameRows DEF RInv, Dead, LiveFile
  <2>4. Sound(folder, file', request[h])
    BY <1>1, <2>3, SoundStays, SameRows DEF RInv, At
  <2>5. request[h] \in DeleteRequest(file')
    BY <1>1, <2>4 DEF Sound, At
  <2>6. request[h].stack \in Seq(DeleteFrames(file')) \ {<<>>}
    BY <2>5 DEF DeleteRequest
  <2>7. fr \in DeleteFrames(file')
    BY <2>6, StackMoves DEF TopFrame
  <2> HIDE DEF fr
  <2>8. /\ left \in DeleteFrame /\ left.files = fr.files /\ left.todo = fr.todo \ {x}
        /\ left.listed = fr.listed
    BY <2>1 DEF DeleteFrame
  <2>9. left \in DeleteFrames(file')
    BY <2>3, <2>7, <2>8 DEF DeleteFrames
  <2> HIDE DEF left
  <2>10. s \in Seq(DeleteFrames(file')) \ {<<>>}
    BY <2>6, <2>9, StackMoves
  <2> HIDE DEF s
  <2>11. r \in DeleteRequest(file') /\ r.kind = "delete"
    BY <2>5, <2>10, DeleteGoesOn
  <2> HIDE DEF r
  <2>12. Sound(folder, file', r)
    BY <2>11, SoundDelete
  <2>13. ~ (At(h, "put") \/ At(h, "remove"))
    BY <1>1 DEF At
  <2> QED BY <1>3, <2>3, <2>11, <2>12, <2>13, FileStep DEF Continue, Begin, Restructuring
<1>4. \/ GiveUp(h)
      \/ /\ Continue(h, r) /\ UNCHANGED <<folder, share>>
         /\ \/ LiveFile(x) /\ FileDeleted(x)
            \/ ~LiveFile(x) /\ file' = file
  BY DEF DeleteFile, WithTop, CanChange, rows
<1> QED BY <1>2, <1>3, <1>4

LEMMA DeleteFolderStep ==
  ASSUME RInv, NEW h \in Handlers, DeleteFolder(h)
  PROVE  Steps /\ Plain
<1> DEFINE fr == TopFrame(h)
           f == fr.folder
           rest == Tail(request[h].stack)
           r == [request[h] EXCEPT !.stack = rest]
<1>1. At(h, "delete") /\ fr.listed /\ fr.todo = {}
  BY DEF DeleteFolder
<1>2. CASE GiveUp(h)
  BY <1>2, GiveUpStep
<1>3. CASE /\ IsLive(f) /\ Tombstoned(f) /\ UNCHANGED file
           /\ IF rest = <<>> THEN Finish(h) ELSE Continue(h, r)
  <2>1. fr \in DeleteFrames(file) /\ f \in Folders
    BY <1>1, DeleteIs
  <2>2. /\ folder' \in FolderRows /\ FoldersGrow(folder, folder') /\ SameTree(folder, folder')
        /\ share' \in ShareRows
    BY <1>3, <2>1, TombstonedRows DEF RInv, IsLive
  <2>3. fr.files \cap FilesIn(f) = {}
    BY <1>1, <2>1 DEF DeleteFrames, FilesIn, LiveFile, Dead
  <2>4. OwnSafe(h)
    BY <1>1, <2>3 DEF OwnSafe, At
  <2>5. FilesGrow(file, file)
    BY SameRows DEF RInv
  <2>6. CASE rest = <<>>
    BY <1>3, <2>2, <2>4, <2>5, <2>6, WriteStep DEF RInv, Finish, End
  <2>7. CASE rest # <<>>
    <3>1. rest \in Seq(DeleteFrames(file)) \ {<<>>}
      BY <1>1, <2>7, DeleteIs, StackMoves
    <3> HIDE DEF rest
    <3>2. r \in DeleteRequest(file) /\ r.kind = "delete"
      BY <1>1, <3>1, DeleteIs, DeleteGoesOn
    <3>3. Continue(h, r)
      BY <1>3, <2>7
    <3> HIDE DEF r
    <3>4. Sound(folder', file, r)
      BY <3>2, SoundDelete
    <3> QED BY <1>3, <2>2, <2>4, <2>5, <3>2, <3>3, <3>4, WriteStep
            DEF RInv, Continue, Begin, Restructuring
  <2> QED BY <2>6, <2>7
<1> QED BY <1>2, <1>3 DEF DeleteFolder

LEMMA ShareBeginStep ==
  ASSUME RInv, NEW h, NEW u \in Users, NEW f \in Folders, NEW guest \in Users,
         NEW level \in 1..2, ShareBegin(h, u, f, guest, level)
  PROVE  Steps /\ Plain
<1> DEFINE r == [kind |-> "share", user |-> u, folder |-> f, guest |-> guest, level |-> level]
<1>1. r \in ShareRequest /\ r.folder = f /\ r.kind = "share"
  BY DEF ShareRequest
<1>2. request' = [request EXCEPT ![h] = r] /\ Known(f) /\ Opens(h, "share")
  BY DEF ShareBegin, Begin, IsLive
<1> HIDE DEF r
<1> QED BY <1>1, <1>2, OpensIs, ReadStep, SoundShare DEF Is, Known, Restructuring

LEMMA ShareWriteStep ==
  ASSUME RInv, NEW h \in Handlers, ShareWrite(h)
  PROVE  Steps /\ Plain
<1> DEFINE r == request[h]
<1>1. r \in ShareRequest /\ Is(folder, r.folder)
  BY DEF ShareWrite, RInv, At, Sound
<1>2. r.guest \in Users /\ r.level \in 0..2 /\ r.folder \in Folders
  BY <1>1 DEF ShareRequest
<1>3. /\ folder' \in FolderRows /\ FoldersGrow(folder, folder') /\ SameTree(folder, folder')
      /\ share' \in ShareRows
  BY <1>1, <1>2, SharedRows DEF RInv, Is, Known, ShareWrite
<1>4. OwnSafe(h)
  BY DEF OwnSafe, At, ShareWrite
<1> QED BY <1>3, <1>4, WriteStep, SameRows DEF RInv, ShareWrite, Finish, End

LEMMA UnshareStep ==
  ASSUME RInv, NEW u \in Users, NEW f \in Folders, NEW guest \in Users, Unshare(u, f, guest)
  PROVE  Steps /\ Plain
<1>1. /\ folder' \in FolderRows /\ FoldersGrow(folder, folder') /\ SameTree(folder, folder')
      /\ share' \in ShareRows
  BY SharedRows DEF RInv, Unshare, IsLive
<1>2. request' = request /\ file' = file /\ stuck' = stuck
  BY DEF Unshare
<1> QED BY <1>1, <1>2, SameRows DEF Steps, Plain, RInv

LEMMA ListBeginStep ==
  ASSUME RInv, NEW h, NEW u \in Users, NEW f \in Folders, ListBegin(h, u, f)
  PROVE  Steps /\ Plain
<1> DEFINE start == {<<x, file[x].rev>> : x \in FilesIn(f)}
           r == [kind |-> "list", user |-> u, folder |-> f, after |-> 0, seen |-> {},
                 start |-> start]
<1>1. \A x \in FilesIn(f) : x \in Files /\ file[x] # NoRow /\ file[x].rev \in Nat
  BY FileRowsAre, FileFields DEF RInv, FilesIn, LiveFile
<1>2. start \in SUBSET (Files \X Nat)
  BY <1>1
<1>3. \A e \in start : file[e[1]] # NoRow /\ e[2] <= file[e[1]].rev
  BY <1>1
<1>4. request' = [request EXCEPT ![h] = r] /\ Known(f) /\ Opens(h, "list")
  BY DEF ListBegin, Begin
<1> HIDE DEF start
<1>5. /\ r \in ListRequest /\ r.folder = f /\ r.kind = "list" /\ r.after = 0
      /\ r.start = start
  BY <1>2 DEF ListRequest
<1> HIDE DEF r
<1>6. ListsAll(file, r)
  BY <1>3, <1>5, TreeAssumption DEF ListsAll
<1> QED BY <1>4, <1>5, <1>6, OpensIs, ReadStep, SoundList DEF Is, Known, Restructuring

\* A page has one file, the first after the last id.
LEMMA PageIs ==
  ASSUME NEW f, NEW after \in Nat
  PROVE  \/ Page(f, after) = {}
         \/ \E m \in FilesIn(f) :
              /\ Page(f, after) = {m} /\ m > after /\ m \in Nat
              /\ \A x \in FilesIn(f) : x > after => m <= x
<1> DEFINE rest == {x \in FilesIn(f) : x > after}
           less(x) == {y \in rest : y < x}
<1>1. FilesIn(f) \in SUBSET Files /\ FilesIn(f) \in SUBSET Nat /\ IsFiniteSet(FilesIn(f))
  BY TreeAssumption, FS_Subset DEF FilesIn
<1>2. rest \in SUBSET Nat /\ IsFiniteSet(rest)
  BY <1>1, FS_Subset
<1>3. ASSUME NEW x PROVE Cardinality(less(x)) < 1 <=> less(x) = {}
  <2>1. IsFiniteSet(less(x))
    BY <1>2, FS_Subset
  <2> QED BY <2>1, FS_CardinalityType, FS_EmptySet
<1>4. Page(f, after) = {x \in rest : less(x) = {}}
  BY <1>3 DEF Page, PageLimit
<1>5. ASSUME NEW m \in Page(f, after)
      PROVE  /\ m \in FilesIn(f) /\ m > after /\ m \in Nat
             /\ \A x \in rest : m <= x
  BY <1>2, <1>4, <1>5
<1>6. ASSUME NEW m \in Page(f, after), NEW x \in Page(f, after) PROVE x = m
  BY <1>2, <1>4, <1>5, <1>6
<1> QED BY <1>5, <1>6

LEMMA ListPageStep ==
  ASSUME RInv, NEW h \in Handlers, ListPage(h)
  PROVE  Steps /\ Plain
<1> DEFINE r == request[h]
           page == Page(r.folder, r.after)
           last == CHOOSE x \in page : \A y \in page : y <= x
           n == [r EXCEPT !.after = last, !.seen = r.seen \cup page]
<1>1. r \in ListRequest /\ Is(folder, r.folder) /\ ListsAll(file, r)
  BY DEF ListPage, RInv, At, Sound
<1>2. CASE GiveUp(h)
  BY <1>2, GiveUpStep
<1>3. CASE Cardinality(page) >= 1 /\ Continue(h, n) /\ UNCHANGED rows
  <2>a. r.after \in Nat /\ r.seen \in SUBSET Files
    BY <1>1 DEF ListRequest
  <2>b. page # {}
    <3>1. Cardinality({}) = 0
      BY FS_EmptySet
    <3> HIDE DEF page
    <3> QED BY <1>3, <3>1
  <2>1. page # {} /\ r.after \in Nat /\ r.seen \in SUBSET Files
    BY <2>a, <2>b
  <2>2. PICK m \in FilesIn(r.folder) :
          /\ page = {m} /\ m > r.after /\ m \in Nat
          /\ \A x \in FilesIn(r.folder) : x > r.after => m <= x
    BY <2>1, PageIs
  <2>3. last = m /\ m \in Files
    BY <2>2 DEF FilesIn
  <2> HIDE DEF page, last
  <2>4. /\ n \in ListRequest /\ n.kind = "list" /\ n.folder = r.folder /\ n.start = r.start
        /\ n.after = m /\ n.seen = r.seen \cup {m}
    BY <1>1, <2>1, <2>2, <2>3 DEF ListRequest
  <2> HIDE DEF n
  <2>5. ASSUME NEW x \in Files, file[x] # NoRow, file[x].live, file[x].folder = n.folder,
               x <= n.after, <<x, file[x].rev>> \in n.start
        PROVE  x \in n.seen
    <3>1. x \in FilesIn(r.folder) /\ x \in Nat
      BY <2>4, <2>5, TreeAssumption DEF FilesIn, LiveFile
    <3>2. CASE x <= r.after
      BY <1>1, <2>4, <2>5, <3>2 DEF ListsAll
    <3>3. CASE x > r.after
      BY <2>2, <2>4, <2>5, <3>1, <3>3
    <3> QED BY <2>1, <3>1, <3>2, <3>3
  <2>6. ListsAll(file, n)
    BY <1>1, <2>4, <2>5 DEF ListsAll
  <2> QED BY <1>1, <1>3, <2>4, <2>6, ReadStep, SoundList DEF Continue, Begin, Restructuring
<1>4. Cardinality(page) \in Nat
  <2>1. IsFiniteSet(FilesIn(r.folder))
    BY TreeAssumption, FS_Subset DEF FilesIn
  <2>2. page \subseteq FilesIn(r.folder)
    BY DEF Page
  <2> QED BY <2>1, <2>2, FS_Subset, FS_CardinalityType
<1> QED BY <1>2, <1>3, <1>4 DEF ListPage, PageLimit

LEMMA AbandonStep ==
  ASSUME RInv, NEW h \in Handlers, Abandon(h)
  PROVE  Steps /\ Plain
BY GiveUpStep DEF Abandon

-----------------------------------------------------------------------------
(* The requests of the file system.                                        *)

LEMMA PathKnown ==
  ASSUME NEW u, NEW f, PathAccess(u, f) >= 1
  PROVE  Known(f)
BY DEF PathAccess

\* What is found by a path or in a folder is a live file.
LEMMA FoundFile ==
  ASSUME RInv, NEW x \in Files, LiveFile(x)
  PROVE  /\ file[x].folder \in Folders /\ file[x].content \in Contents
         /\ file[x].name \in Names /\ file[x].rev \in Nat
BY FileRowsAre, FileFields DEF RInv, LiveFile

LEMMA PutIs ==
  ASSUME NEW u \in Users, NEW f \in Folders, NEW n \in Names, NEW c \in Contents,
         NEW match \in Contents \cup {AnyContent}, NEW fresh \in BOOLEAN
  PROVE  LET r == Put(u, f, n, c, match, fresh) IN
         r \in PutRequest /\ r.kind = "put" /\ r.target = New
BY DEF Put, PutRequest

LEMMA PutBegins ==
  ASSUME RInv, NEW h, NEW kind, Opens(h, kind),
         NEW u \in Users, NEW f \in Folders, NEW n \in Names, NEW c \in Contents,
         NEW match \in Contents \cup {AnyContent}, NEW fresh \in BOOLEAN,
         Begin(h, Put(u, f, n, c, match, fresh))
  PROVE  Steps /\ Plain
<1> DEFINE r == Put(u, f, n, c, match, fresh)
<1>1. r \in PutRequest /\ r.kind = "put" /\ r.target = New
  BY PutIs
<1>2. request' = [request EXCEPT ![h] = r]
  BY DEF Begin
<1> HIDE DEF r
<1> QED BY <1>1, <1>2, OpensIs, ReadStep, SoundPut DEF Restructuring

LEMMA PutBeginStep ==
  ASSUME RInv, NEW h, NEW u \in Users, NEW f \in Folders, NEW n \in Names, NEW c \in Contents,
         NEW match \in Contents \cup {AnyContent}, NEW fresh \in BOOLEAN,
         PutBegin(h, u, f, n, c, match, fresh)
  PROVE  Steps /\ Plain
BY PutBegins DEF PutBegin

LEMMA CopyFileStep ==
  ASSUME RInv, NEW h, NEW u \in Users, NEW x \in Files, NEW f \in Folders, NEW n \in Names,
         NEW overwrite, CopyFile(h, u, x, f, n, overwrite)
  PROVE  Steps /\ Plain
<1>1. LiveFile(x)
  BY DEF CopyFile, PathFile
<1>2. file[x].content \in Contents
  BY <1>1, FoundFile
<1> QED BY <1>2, PutBegins DEF CopyFile

LEMMA PutLookupStep ==
  ASSUME RInv, NEW h \in Handlers, PutLookup(h)
  PROVE  Steps /\ Plain
<1> DEFINE r == request[h]
           new == [r EXCEPT !.phase = "push"]
           old(x) == [r EXCEPT !.phase = "push", !.target = x, !.base = file[x].rev]
<1>1. r \in PutRequest /\ (r.target # New => StillMatches(file, r))
  BY DEF PutLookup, InPhase, At, RInv, Sound
<1>3. CASE GiveUp(h)
  BY <1>3, GiveUpStep
<1>4. CASE Continue(h, new) /\ UNCHANGED rows
  <2>1. /\ new \in PutRequest /\ new.kind = "put" /\ new.target = r.target
        /\ new.base = r.base /\ new.match = r.match
    BY <1>1 DEF PutRequest
  <2> HIDE DEF new
  <2>2. new.target # New => StillMatches(file, new)
    BY <1>1, <2>1 DEF StillMatches
  <2> QED BY <1>4, <2>1, <2>2, ReadStep, SoundPut DEF Continue, Begin, Restructuring
<1>5. CASE \E x \in FilesNamed(r.folder, r.name) :
             Precondition(r, x) /\ Continue(h, old(x)) /\ UNCHANGED rows
  <2>1. PICK x \in FilesNamed(r.folder, r.name) :
             Precondition(r, x) /\ Continue(h, old(x)) /\ UNCHANGED rows
    BY <1>5
  <2>2. x \in Files /\ LiveFile(x)
    BY DEF FilesNamed, FilesIn
  <2>3. file[x].rev \in Nat
    BY <2>2, FoundFile
  <2>4. /\ old(x) \in PutRequest /\ old(x).kind = "put" /\ old(x).target = x
        /\ old(x).base = file[x].rev /\ old(x).match = r.match
    BY <1>1, <2>2, <2>3 DEF PutRequest
  <2> DEFINE o == old(x)
  <2>5. o = old(x)
    OBVIOUS
  <2> HIDE DEF o, old
  <2>6. StillMatches(file, o)
    BY <2>1, <2>2, <2>3, <2>4, <2>5 DEF StillMatches, Precondition, LiveFile
  <2> QED BY <2>1, <2>4, <2>5, <2>6, ReadStep, SoundPut DEF Continue, Begin, Restructuring
<1> QED BY <1>3, <1>4, <1>5 DEF PutLookup

LEMMA PutCreateStep ==
  ASSUME RInv, NEW h \in Handlers, NEW x \in Files, PutCreate(h, x)
  PROVE  Steps /\ Plain
<1> DEFINE r == request[h]
<1>1. r \in PutRequest
  BY DEF PutCreate, InPhase, At, RInv, Sound
<1>2. CASE GiveUp(h)
  BY <1>2, GiveUpStep
<1>3. CASE FileCreated(x, r.folder, r.name, r.content) /\ UNCHANGED <<folder, share>> /\ Finish(h)
  <2>1. r.folder \in Folders /\ r.name \in Names /\ r.content \in Contents
    BY <1>1 DEF PutRequest
  <2>2. file' \in FileRows /\ FilesGrow(file, file')
    BY <1>3, <2>1, CreatedRows DEF RInv, PutCreate
  <2>3. request[h].target = New
    BY DEF PutCreate
  <2> QED BY <1>3, <2>2, <2>3, FileStep DEF Finish, End
<1> QED BY <1>2, <1>3 DEF PutCreate

\* A push over the revision that was looked up finds the content that was matched.
LEMMA MatchedContent ==
  ASSUME RInv, NEW h \in Handlers, NEW r, r = request[h], StillMatches(file, r),
         r.match # AnyContent,
         CanChange(r.user, r.target, r.folder, r.base, r.match = AnyContent)
  PROVE  file[r.target].content = r.match
BY DEF StillMatches, CanChange

LEMMA PutUpdateStep ==
  ASSUME RInv, NEW h \in Handlers, PutUpdate(h)
  PROVE  Steps /\ Plain
<1> DEFINE r == request[h]
<1>1. /\ r \in PutRequest /\ r.target # New
      /\ r.target # New => StillMatches(file, r)
  BY DEF PutUpdate, InPhase, At, RInv, Sound
<1>2. CASE GiveUp(h)
  BY <1>2, GiveUpStep
<1>3. CASE /\ CanChange(r.user, r.target, r.folder, r.base, r.match = AnyContent)
           /\ FileUpdated(r.target, r.folder, r.name, r.content)
           /\ UNCHANGED <<folder, share>> /\ Finish(h)
  <2>1. r.folder \in Folders /\ r.name \in Names /\ r.content \in Contents /\ r.target \in Files
    BY <1>1 DEF PutRequest
  <2>2. file' \in FileRows /\ FilesGrow(file, file')
    BY <1>3, <2>1, UpdatedRows DEF RInv, CanChange
  <2>3. r.match # AnyContent => file[r.target].content = r.match
    BY <1>1, <1>3, MatchedContent
  <2> QED BY <1>3, <2>2, <2>3, FileStep DEF Finish, End
<1> QED BY <1>2, <1>3 DEF PutUpdate

LEMMA RemoveTreeStep ==
  ASSUME RInv, NEW h, NEW u \in Users, NEW f \in Folders, RemoveTree(h, u, f)
  PROVE  Steps /\ Plain
BY FrameIs, DeleteBegins DEF RemoveTree

LEMMA RemoveBeginStep ==
  ASSUME RInv, NEW h, NEW u \in Users, NEW x \in Files,
         NEW match \in Contents \cup {AnyContent}, RemoveBegin(h, u, x, match)
  PROVE  Steps /\ Plain
<1> DEFINE r == [kind |-> "remove", user |-> u, folder |-> file[x].folder, target |-> x,
                 match |-> match, base |-> file[x].rev]
<1>1. LiveFile(x) /\ match \in {AnyContent, file[x].content} /\ Opens(h, "remove")
  BY DEF RemoveBegin, PathFile
<1>2. request' = [request EXCEPT ![h] = r]
  BY DEF RemoveBegin, Begin
<1>3. /\ r \in RemoveRequest /\ r.kind = "remove" /\ r.target = x /\ r.match = match
      /\ r.base = file[x].rev
  BY <1>1, FoundFile DEF RemoveRequest
<1> HIDE DEF r
<1>4. StillMatches(file, r)
  BY <1>1, <1>3, FoundFile DEF StillMatches, LiveFile
<1> QED BY <1>1, <1>2, <1>3, <1>4, OpensIs, ReadStep, SoundRemove DEF Restructuring

LEMMA RemoveStep ==
  ASSUME RInv, NEW h \in Handlers, Remove(h)
  PROVE  Steps /\ Plain
<1> DEFINE r == request[h]
<1>1. r \in RemoveRequest /\ StillMatches(file, r)
  BY DEF Remove, At, RInv, Sound
<1>2. CASE GiveUp(h)
  BY <1>2, GiveUpStep
<1>3. CASE /\ CanChange(r.user, r.target, r.folder, r.base, r.match = AnyContent)
           /\ FileDeleted(r.target) /\ UNCHANGED <<folder, share>> /\ Finish(h)
  <2>1. file' \in FileRows /\ FilesGrow(file, file')
    BY <1>1, <1>3, DeletedRows DEF RInv, CanChange, RemoveRequest
  <2>2. r.match # AnyContent => file[r.target].content = r.match
    BY <1>1, <1>3, MatchedContent
  <2> QED BY <1>3, <2>1, <2>2, FileStep DEF Finish, End
<1> QED BY <1>2, <1>3 DEF Remove

LEMMA MoveFileBeginStep ==
  ASSUME RInv, NEW h, NEW u \in Users, NEW x \in Files, NEW f \in Folders, NEW n \in Names,
         NEW overwrite, MoveFileBegin(h, u, x, f, n, overwrite)
  PROVE  Steps /\ Plain
<1> DEFINE r(dest) == [kind |-> "move", user |-> u, target |-> x, folder |-> f, name |-> n,
                       content |-> file[x].content, base |-> file[x].rev, dest |-> dest,
                       phase |-> IF dest \in {New, x} THEN "push" ELSE "clear"]
<1>1. LiveFile(x) /\ Opens(h, "move file")
  BY DEF MoveFileBegin, PathFile
<1>2. PICK dest \in Files \cup {New} : Begin(h, r(dest))
  BY DEF MoveFileBegin, FilesNamed, FilesIn
<1>3. /\ r(dest) \in MoveRequest /\ r(dest).kind = "move" /\ r(dest).dest = dest
      /\ r(dest).phase = "clear" => dest # New
  BY <1>1, FoundFile DEF MoveRequest
<1> DEFINE m == r(dest)
<1>4. m = r(dest)
  OBVIOUS
<1> HIDE DEF m, r
<1> QED BY <1>1, <1>2, <1>3, <1>4, OpensIs, ReadStep, SoundMove DEF Begin, Restructuring

LEMMA MoveFileClearStep ==
  ASSUME RInv, NEW h \in Handlers, MoveFileClear(h)
  PROVE  Steps /\ Plain
<1> DEFINE r == request[h]
           new == [r EXCEPT !.phase = "push"]
<1>1. r \in MoveRequest /\ r.dest \in Files /\ At(h, "move")
  BY DEF MoveFileClear, InPhase, At, RInv, Sound
<1>2. /\ new \in MoveRequest /\ new.kind = "move" /\ new.phase = "push"
  BY <1>1 DEF MoveRequest
<1>3. Continue(h, new) /\ UNCHANGED <<folder, share>>
  BY DEF MoveFileClear
<1> HIDE DEF new
<1>4. file' \in FileRows /\ FilesGrow(file, file')
  <2>1. CASE UNCHANGED file
    BY <2>1, SameRows DEF RInv
  <2>2. CASE LiveFile(r.dest) /\ FileDeleted(r.dest)
    BY <1>1, <2>2, DeletedRows DEF RInv
  <2> QED BY <2>1, <2>2 DEF MoveFileClear, CanChange
<1>5. Sound(folder, file', new)
  BY <1>2, SoundMove
<1>6. ~ (At(h, "put") \/ At(h, "remove"))
  BY <1>1 DEF At
<1> QED BY <1>2, <1>3, <1>4, <1>5, <1>6, FileStep DEF Continue, Begin, Restructuring

LEMMA MoveFilePushStep ==
  ASSUME RInv, NEW h \in Handlers, MoveFilePush(h)
  PROVE  Steps /\ Plain
<1> DEFINE r == request[h]
<1>1. r \in MoveRequest /\ At(h, "move")
  BY DEF MoveFilePush, InPhase, At, RInv, Sound
<1>2. CASE GiveUp(h)
  BY <1>2, GiveUpStep
<1>3. CASE /\ CanChange(r.user, r.target, r.folder, 0, TRUE)
           /\ FileUpdated(r.target, r.folder, r.name, r.content)
           /\ UNCHANGED <<folder, share>> /\ Finish(h)
  <2>1. r.folder \in Folders /\ r.name \in Names /\ r.content \in Contents /\ r.target \in Files
    BY <1>1 DEF MoveRequest
  <2>2. file' \in FileRows /\ FilesGrow(file, file')
    BY <1>3, <2>1, UpdatedRows DEF RInv, CanChange
  <2>3. ~ (At(h, "put") \/ At(h, "remove"))
    BY <1>1 DEF At
  <2> QED BY <1>3, <2>2, <2>3, FileStep DEF Finish, End
<1> QED BY <1>2, <1>3 DEF MoveFilePush

LEMMA MkcolStep ==
  ASSUME RInv, NEW h, NEW u \in Users, NEW p \in Parent, NEW n \in Names, Mkcol(h, u, p, n)
  PROVE  Steps
<1>1. p # Top => Known(p)
  BY DEF Mkcol, PathAccess
<1> QED BY <1>1, EnsureBegins DEF Mkcol

LEMMA MoveFolderStep ==
  ASSUME RInv, NEW h, NEW u \in Users, NEW f \in Folders, NEW p \in Parent, NEW n \in Names,
         NEW overwrite, MoveFolder(h, u, f, p, n, overwrite)
  PROVE  Steps
<1>1. Known(f) /\ (p # Top => Known(p))
  BY DEF MoveFolder
<1> QED BY <1>1, UpdateBegins DEF MoveFolder

LEMMA CopyFrameIs ==
  ASSUME NEW F, file \in FileRows, NEW s \in Folders, NEW d \in Folders
  PROVE  CopyFrame(s, d) \in CopyFrames(F)
<1> DEFINE fr == CopyFrame(s, d)
<1>1. {<<file[x].name, file[x].content>> : x \in FilesIn(s)} \in SUBSET (Names \X Contents)
  BY FileRowsAre, FileFields DEF FilesIn, LiveFile
<1>2. /\ fr \in [src : Folders, dest : Folders, kids : SUBSET Folders, listed : BOOLEAN,
                 files : SUBSET (Names \X Contents)]
      /\ fr.kids = {}
  BY <1>1 DEF CopyFrame
<1> HIDE DEF fr
<1>3. fr \in CopyFrames(F)
  BY <1>2 DEF CopyFrames
<1> QED BY <1>3 DEF fr

LEMMA CopyIs ==
  ASSUME NEW F, file \in FileRows, NEW u \in Users, NEW s \in Folders, NEW d \in Folders
  PROVE  /\ Copy(u, <<CopyFrame(s, d)>>) \in CopyRequest(F)
         /\ Copy(u, <<CopyFrame(s, d)>>).kind = "copy"
<1> DEFINE fr == CopyFrame(s, d)
<1>1. fr \in CopyFrames(F)
  BY CopyFrameIs
<1> HIDE DEF fr
<1>2. <<fr>> \in Seq(CopyFrames(F)) \ {<<>>}
  BY <1>1
<1>3. Copy(u, <<fr>>) \in CopyRequest(F) /\ Copy(u, <<fr>>).kind = "copy"
  BY <1>2 DEF Copy, CopyRequest
<1> QED BY <1>3 DEF fr

LEMMA CopyBeginStep ==
  ASSUME RInv, NEW h, NEW u \in Users, NEW f \in Folders, NEW p \in Parent, NEW n \in Names,
         NEW overwrite, CopyBegin(h, u, f, p, n, overwrite)
  PROVE  Steps
<1> DEFINE r == [kind |-> "copy", user |-> u, phase |-> "create", src |-> f, parent |-> p,
                 name |-> n, owner |-> OwnerUnder(u, p), root |-> RootUnder(p)]
<1>1. Opens(h, "copy") /\ (p # Top => Known(p))
  BY DEF CopyBegin
<1>2. CASE Begin(h, r)
  <2>1. r \in CreateRequest /\ r.parent = p /\ r.root = RootUnder(p)
    BY <1>1, OwnerAndRoot DEF CreateRequest
  <2>2. request' = [request EXCEPT ![h] = r]
    BY <1>2 DEF Begin
  <2> HIDE DEF r
  <2>3. Sound(folder, file, r)
    BY <1>1, <2>1, OwnerAndRoot, SoundCreate DEF Under
  <2> QED BY <1>1, <2>2, <2>3, OpensIs, ReadStep
<1>3. ASSUME NEW g \in FindChild(u, p, n), Begin(h, Copy(u, <<CopyFrame(f, g)>>))
      PROVE  Steps
  <2> DEFINE c == Copy(u, <<CopyFrame(f, g)>>)
  <2>1. c \in CopyRequest(folder)
    BY CopyIs DEF RInv, FindChild, Children
  <2>2. request' = [request EXCEPT ![h] = c]
    BY <1>3 DEF Begin
  <2> HIDE DEF c
  <2> QED BY <1>1, <2>1, <2>2, OpensIs, ReadStep, SoundCopy
<1> QED BY <1>2, <1>3 DEF CopyBegin

LEMMA CopyCreateStep ==
  ASSUME RInv, NEW h \in Handlers, NEW g \in Folders, CopyCreate(h, g)
  PROVE  Steps
<1> DEFINE r == request[h]
           c == Copy(r.user, <<CopyFrame(r.src, g)>>)
<1>1. r \in CreateRequest /\ Under(folder, r)
  BY DEF CopyCreate, InPhase, At, RInv, Sound, CopyRequest
<1>2. CASE GiveUp(h)
  BY <1>2, GiveUpStep
<1>3. CASE /\ Inserted(g, r.owner, r.parent, r.root, r.name) /\ UNCHANGED <<file, share>>
           /\ Continue(h, c)
  <2>1. /\ r.owner \in Users /\ r.parent \in Parent /\ r.name \in Names /\ r.user \in Users
        /\ r.src \in Folders /\ (r.parent # Top => r.root \in Folders)
    BY <1>1 DEF CreateRequest, Under
  <2>2. folder' \in FolderRows /\ FoldersGrow(folder, folder')
    BY <1>3, <2>1, InsertedRows DEF RInv, CopyCreate
  <2>3. OwnSafe(h)
    BY <1>3 DEF OwnSafe, CopyCreate, InPhase, At
  <2>4. c \in CopyRequest(folder')
    BY <2>1, CopyIs DEF RInv
  <2> HIDE DEF c
  <2> QED BY <1>3, <2>2, <2>3, <2>4, WriteStep, SameRows, SoundCopy DEF RInv, Continue, Begin
<1> QED BY <1>2, <1>3 DEF CopyCreate

\* What a copy under way holds, and how it goes on with another stack.
LEMMA CopyingIs ==
  ASSUME RInv, NEW h \in Handlers, Copying(h)
  PROVE  /\ request[h] \in CopyRequest(folder)
         /\ request[h].stack \in Seq(CopyFrames(folder)) \ {<<>>}
         /\ TopFrame(h) \in CopyFrames(folder)
         /\ TopFrame(h).src \in Folders /\ TopFrame(h).dest \in Folders
         /\ TopFrame(h).kids \in SUBSET Folders /\ \A k \in TopFrame(h).kids : Known(k)
         /\ TopFrame(h).files \in SUBSET (Names \X Contents)
         /\ request[h].user \in Users
<1>1. request[h] \in CopyRequest(folder)
  BY DEF RInv, Copying, InPhase, At, Sound, CreateRequest
<1>2. request[h].stack \in Seq(CopyFrames(folder)) \ {<<>>} /\ request[h].user \in Users
  BY <1>1 DEF CopyRequest
<1>3. TopFrame(h) \in CopyFrames(folder)
  BY <1>2, StackMoves DEF TopFrame
<1> QED BY <1>1, <1>2, <1>3 DEF CopyFrames, Known

LEMMA CopyGoesOn ==
  ASSUME NEW F, NEW r \in CopyRequest(F), NEW s \in Seq(CopyFrames(F)) \ {<<>>}
  PROVE  [r EXCEPT !.stack = s] \in CopyRequest(F)
<1> DEFINE Stacks == Seq(CopyFrames(F)) \ {<<>>}
<1>1. /\ r \in [kind : {"copy"}, user : Users, phase : {"copying"}, stack : Stacks]
      /\ s \in Stacks
  BY DEF CopyRequest
<1> HIDE DEF Stacks
<1>2. [r EXCEPT !.stack = s] \in
        [kind : {"copy"}, user : Users, phase : {"copying"}, stack : Stacks]
  BY <1>1
<1> QED BY <1>2 DEF CopyRequest, Stacks

LEMMA CopyOneStep ==
  ASSUME RInv, NEW h \in Handlers, NEW n \in Names, NEW c \in Contents, NEW y \in Files,
         CopyOne(h, n, c, y)
  PROVE  Steps /\ SameTree(folder, folder') /\ stuck' = stuck
<1> DEFINE fr == TopFrame(h)
           left == [fr EXCEPT !.files = fr.files \ {<<n, c>>}]
           s == <<left>> \o Tail(request[h].stack)
           r == [request[h] EXCEPT !.stack = s]
<1>1. Copying(h) /\ fr \in CopyFrames(folder) /\ fr.dest \in Folders
  BY CopyingIs DEF CopyOne
<1>2. CASE GiveUp(h)
  BY <1>2, GiveUpStep DEF Plain
<1>3. CASE /\ \/ file[y] = NoRow /\ FileCreated(y, fr.dest, n, c)
              \/ LiveFile(y) /\ FileUpdated(y, fr.dest, n, c)
           /\ UNCHANGED <<folder, share>> /\ Continue(h, r)
  <2>1. file' \in FileRows /\ FilesGrow(file, file')
    BY <1>1, <1>3, CreatedRows, UpdatedRows DEF RInv
  <2> HIDE DEF fr
  <2>2. left \in CopyFrames(folder)
    BY <1>1 DEF CopyFrames
  <2> HIDE DEF left
  <2>3. s \in Seq(CopyFrames(folder)) \ {<<>>}
    BY <1>1, <2>2, CopyingIs, StackMoves
  <2> HIDE DEF s
  <2>4. r \in CopyRequest(folder)
    BY <1>1, <2>3, CopyingIs, CopyGoesOn
  <2> HIDE DEF r
  <2>5. Sound(folder, file', r)
    BY <2>4, SoundCopy
  <2>6. ~ (At(h, "put") \/ At(h, "remove"))
    BY <1>1 DEF Copying, InPhase, At
  <2>7. Steps
    BY <1>3, <2>1, <2>5, <2>6, FileStep DEF Continue, Begin
  <2> QED BY <1>3, <2>7, SameRows DEF RInv, Continue
<1>4. CASE ~GiveUp(h)
  <2>1. /\ UNCHANGED <<folder, share>> /\ Continue(h, r)
        /\ IF FilesNamed(fr.dest, n) = {} THEN file[y] = NoRow ELSE y \in FilesNamed(fr.dest, n)
        /\ IF FilesNamed(fr.dest, n) = {} THEN FileCreated(y, fr.dest, n, c)
                                          ELSE FileUpdated(y, fr.dest, n, c)
    BY <1>4 DEF CopyOne, WithTop
  <2>2. \/ file[y] = NoRow /\ FileCreated(y, fr.dest, n, c)
        \/ LiveFile(y) /\ FileUpdated(y, fr.dest, n, c)
    BY <2>1 DEF FilesNamed, FilesIn
  <2> QED BY <1>3, <2>1, <2>2
<1> QED BY <1>2, <1>4

LEMMA CopyListStep ==
  ASSUME RInv, NEW h \in Handlers, CopyList(h)
  PROVE  Steps /\ UNCHANGED rows /\ stuck' = stuck
<1> DEFINE fr == TopFrame(h)
           kids == Children(fr.src)
           listed == [fr EXCEPT !.kids = kids, !.listed = TRUE]
           s == <<listed>> \o Tail(request[h].stack)
           r == [request[h] EXCEPT !.stack = s]
<1>1. Copying(h) /\ UNCHANGED rows /\ Continue(h, r)
  BY DEF CopyList, WithTop
<1>2. fr \in CopyFrames(folder)
  BY <1>1, CopyingIs
<1>3. kids \in SUBSET Folders /\ \A k \in kids : folder[k] # NoRow
  BY DEF Children, IsLive, Known
<1> HIDE DEF fr, kids
<1>4. listed \in CopyFrames(folder)
  BY <1>2, <1>3 DEF CopyFrames
<1> HIDE DEF listed
<1>5. s \in Seq(CopyFrames(folder)) \ {<<>>}
  BY <1>1, <1>4, CopyingIs, StackMoves
<1> HIDE DEF s
<1>6. r \in CopyRequest(folder)
  BY <1>1, <1>5, CopyingIs, CopyGoesOn
<1> HIDE DEF r
<1> QED BY <1>1, <1>6, ReadStep, SoundCopy DEF Continue, Begin

LEMMA CopyReturnStep ==
  ASSUME RInv, NEW h \in Handlers, CopyReturn(h)
  PROVE  Steps /\ UNCHANGED rows /\ stuck' = stuck
<1> DEFINE rest == Tail(request[h].stack)
           r == [request[h] EXCEPT !.stack = rest]
<1>1. Copying(h) /\ UNCHANGED rows
  BY DEF CopyReturn
<1>2. CASE rest = <<>> /\ Finish(h)
  BY <1>1, <1>2, ReadStep DEF Finish, End
<1>3. CASE rest # <<>> /\ Continue(h, r)
  <2>1. rest \in Seq(CopyFrames(folder)) \ {<<>>}
    BY <1>1, <1>3, CopyingIs, StackMoves
  <2> HIDE DEF rest
  <2>2. r \in CopyRequest(folder)
    BY <1>1, <2>1, CopyingIs, CopyGoesOn
  <2> HIDE DEF r
  <2> QED BY <1>1, <1>3, <2>2, ReadStep, SoundCopy DEF Continue, Begin
<1> QED BY <1>2, <1>3 DEF CopyReturn

LEMMA CopyDescendStep ==
  ASSUME RInv, NEW h \in Handlers, NEW k \in Folders, NEW g \in Folders, CopyDescend(h, k, g)
  PROVE  Steps
<1> DEFINE fr == TopFrame(h)
           d == fr.dest
           left == [fr EXCEPT !.kids = fr.kids \ {k}]
           s == <<CopyFrame(k, g), left>> \o Tail(request[h].stack)
           r == [request[h] EXCEPT !.stack = s]
<1>1. Copying(h) /\ k \in fr.kids
  BY DEF CopyDescend
<1>2. /\ fr \in CopyFrames(folder) /\ d \in Folders /\ Known(k)
  BY <1>1, CopyingIs
<1>3. Sound(folder, file, r)
  <2> HIDE DEF fr
  <2>1. left \in CopyFrames(folder)
    BY <1>2 DEF CopyFrames
  <2> HIDE DEF left
  <2>2. s \in Seq(CopyFrames(folder)) \ {<<>>}
    BY <1>1, <2>1, CopyingIs, CopyFrameIs, StackMoves DEF RInv
  <2> HIDE DEF s
  <2>3. r \in CopyRequest(folder)
    BY <1>1, <2>2, CopyingIs, CopyGoesOn
  <2> HIDE DEF r
  <2> QED BY <2>3, SoundCopy
<1>4. CASE GiveUp(h)
  BY <1>4, GiveUpStep
<1>5. CASE Continue(h, r) /\ UNCHANGED rows
  <2> HIDE DEF r
  <2> QED BY <1>3, <1>5, ReadStep DEF Continue, Begin
<1>6. CASE /\ ~Known(g) /\ IsLive(d)
           /\ Inserted(g, folder[d].owner, d, folder[d].root, folder[k].name)
           /\ Continue(h, r) /\ UNCHANGED <<file, share>>
  <2> HIDE DEF r
  <2>1. folder[d] \in FolderRow /\ folder[k] \in FolderRow
    BY <1>2, <1>6, FolderRowsAre DEF RInv, IsLive, Known
  <2>2. folder' \in FolderRows /\ FoldersGrow(folder, folder')
    BY <1>2, <1>6, <2>1, FolderFields, InsertedRows DEF RInv, Parent
  <2>3. OwnSafe(h)
    BY <1>1, <1>6 DEF OwnSafe, Copying, InPhase, At
  <2>4. file' = file /\ share' = share /\ FilesGrow(file, file)
    BY <1>6, SameRows DEF RInv
  <2>5. Sound(folder', file', r)
    BY <1>3, <2>2, <2>4, SoundStays DEF RInv
  <2> QED BY <1>6, <2>2, <2>3, <2>4, <2>5, WriteStep DEF RInv, Continue, Begin
<1> QED BY <1>4, <1>5, <1>6 DEF CopyDescend

-----------------------------------------------------------------------------
(* Every step, and what holds of every behaviour.                          *)

\* Requests that begin with creating, moving or renaming folders, and their steps.
Restructures ==
  \/ \E h \in FreeHandlers, u \in Users, p \in Parent, n \in Names :
       \/ EnsureBegin(h, u, p, n) \/ Mkcol(h, u, p, n)
       \/ \E f \in Folders : UpdateBegin(h, u, f, p, n)
       \/ \E f \in Folders, overwrite \in BOOLEAN :
            MoveFolder(h, u, f, p, n, overwrite) \/ CopyBegin(h, u, f, p, n, overwrite)
  \/ \E h \in Handlers, f \in Folders :
       EnsureInsert(h, f) \/ CopyCreate(h, f) \/ \E k \in Folders : CopyDescend(h, k, f)
  \/ \E h \in Handlers :
       \/ Rename(h) \/ MoveRead(h) \/ MoveWrite(h) \/ CopyList(h) \/ CopyReturn(h)
       \/ \E x \in Files, n \in Names, c \in Contents : CopyOne(h, n, c, x)

LEMMA TreeStep ==
  ASSUME RInv, TreeNext
  PROVE  (Steps /\ Plain) \/ Restructures
<1>1. ASSUME NEW h \in FreeHandlers, NEW u \in Users, NEW p \in Folders \cup {Top},
             NEW n \in Names, EnsureBegin(h, u, p, n) \/ \E f \in Folders : UpdateBegin(h, u, f, p, n)
      PROVE  Restructures
  BY <1>1 DEF Restructures, Parent
<1>2. ASSUME NEW h \in Handlers, NEW f \in Folders, EnsureInsert(h, f) \/ DeleteDescend(h, f)
      PROVE  (Steps /\ Plain) \/ Restructures
  BY <1>2, DeleteDescendStep DEF Restructures
<1>3. ASSUME NEW h \in Handlers, Rename(h) \/ MoveRead(h) \/ MoveWrite(h)
      PROVE  Restructures
  BY <1>3 DEF Restructures
<1>4. ASSUME NEW h \in Handlers,
             DeleteList(h) \/ DeleteFolder(h) \/ ShareWrite(h) \/ ListPage(h) \/ Abandon(h)
      PROVE  Steps /\ Plain
  BY <1>4, DeleteListStep, DeleteFolderStep, ShareWriteStep, ListPageStep, AbandonStep
<1>5. ASSUME NEW h \in FreeHandlers, NEW u \in Users, NEW f \in Folders,
             DeleteBegin(h, u, f) \/ OperatorDelete(h, u, f) \/ ListBegin(h, u, f)
      PROVE  Steps /\ Plain
  BY <1>5, DeleteBeginStep, OperatorDeleteStep, ListBeginStep
<1>6. ASSUME NEW h \in Handlers, NEW x \in Files, DeleteFile(h, x)
      PROVE  Steps /\ Plain
  BY <1>6, DeleteFileStep
<1>7. ASSUME NEW u \in Users, NEW guest \in Users, NEW f \in Folders, Unshare(u, f, guest)
      PROVE  Steps /\ Plain
  BY <1>7, UnshareStep
<1>8. ASSUME NEW u \in Users, NEW guest \in Users, NEW f \in Folders, NEW h \in FreeHandlers,
             NEW level \in 1..2, ShareBegin(h, u, f, guest, level)
      PROVE  Steps /\ Plain
  BY <1>8, ShareBeginStep
<1> QED BY <1>1, <1>2, <1>3, <1>4, <1>5, <1>6, <1>7, <1>8 DEF TreeNext

LEMMA DavStep ==
  ASSUME RInv, DavNext
  PROVE  (Steps /\ Plain) \/ Restructures
<1>1. ASSUME NEW h \in FreeHandlers, NEW u \in Users, NEW f \in Folders, NEW n \in Names,
             NEW c \in Contents, NEW match \in Contents \cup {AnyContent}, NEW fresh \in BOOLEAN,
             PutBegin(h, u, f, n, c, match, fresh)
      PROVE  Steps /\ Plain
  BY <1>1, PutBeginStep
<1>2. ASSUME NEW h \in FreeHandlers, NEW u \in Users, NEW f \in Folders, NEW n \in Names,
             NEW x \in Files, NEW overwrite \in BOOLEAN,
             CopyFile(h, u, x, f, n, overwrite) \/ MoveFileBegin(h, u, x, f, n, overwrite)
      PROVE  Steps /\ Plain
  BY <1>2, CopyFileStep, MoveFileBeginStep
<1>3. ASSUME NEW h \in FreeHandlers, NEW u \in Users, NEW f \in Folders, NEW n \in Names,
             NEW p \in Folders \cup {Top}, NEW overwrite \in BOOLEAN,
             MoveFolder(h, u, f, p, n, overwrite) \/ CopyBegin(h, u, f, p, n, overwrite)
      PROVE  Restructures
  BY <1>3 DEF Restructures, Parent
<1>4. ASSUME NEW h \in FreeHandlers, NEW u \in Users, NEW p \in Folders \cup {Top},
             NEW n \in Names, Mkcol(h, u, p, n)
      PROVE  Restructures
  BY <1>4 DEF Restructures, Parent
<1>5. ASSUME NEW h \in FreeHandlers, NEW u \in Users, NEW f \in Folders, RemoveTree(h, u, f)
      PROVE  Steps /\ Plain
  BY <1>5, RemoveTreeStep
<1>6. ASSUME NEW h \in FreeHandlers, NEW u \in Users, NEW x \in Files,
             NEW match \in Contents \cup {AnyContent}, RemoveBegin(h, u, x, match)
      PROVE  Steps /\ Plain
  BY <1>6, RemoveBeginStep
<1>7. ASSUME NEW h \in Handlers, NEW x \in Files,
             PutCreate(h, x) \/ \E n \in Names, c \in Contents : CopyOne(h, n, c, x)
      PROVE  (Steps /\ Plain) \/ Restructures
  BY <1>7, PutCreateStep DEF Restructures
<1>8. ASSUME NEW h \in Handlers, NEW f \in Folders,
             CopyCreate(h, f) \/ \E k \in Folders : CopyDescend(h, k, f)
      PROVE  Restructures
  BY <1>8 DEF Restructures
<1>9. ASSUME NEW h \in Handlers, \/ PutLookup(h) \/ PutUpdate(h) \/ Remove(h)
                                 \/ MoveFileClear(h) \/ MoveFilePush(h)
      PROVE  Steps /\ Plain
  BY <1>9, PutLookupStep, PutUpdateStep, RemoveStep, MoveFileClearStep, MoveFilePushStep
<1>10. ASSUME NEW h \in Handlers, CopyList(h) \/ CopyReturn(h)
      PROVE  Restructures
  BY <1>10 DEF Restructures
<1>11. CASE \E h \in FreeHandlers, u \in Users, f \in Folders, n \in Names :
              \/ \E c \in Contents, match \in Contents \cup {AnyContent}, fresh \in BOOLEAN :
                   PutBegin(h, u, f, n, c, match, fresh)
              \/ \E x \in Files, overwrite \in BOOLEAN :
                   CopyFile(h, u, x, f, n, overwrite) \/ MoveFileBegin(h, u, x, f, n, overwrite)
              \/ \E p \in Folders \cup {Top}, overwrite \in BOOLEAN :
                   MoveFolder(h, u, f, p, n, overwrite) \/ CopyBegin(h, u, f, p, n, overwrite)
  <2>1. PICK h \in FreeHandlers, u \in Users, f \in Folders, n \in Names :
              \/ \E c \in Contents, match \in Contents \cup {AnyContent}, fresh \in BOOLEAN :
                   PutBegin(h, u, f, n, c, match, fresh)
              \/ \E x \in Files, overwrite \in BOOLEAN :
                   CopyFile(h, u, x, f, n, overwrite) \/ MoveFileBegin(h, u, x, f, n, overwrite)
              \/ \E p \in Folders \cup {Top}, overwrite \in BOOLEAN :
                   MoveFolder(h, u, f, p, n, overwrite) \/ CopyBegin(h, u, f, p, n, overwrite)
    BY <1>11
  <2>2. CASE \E c \in Contents, match \in Contents \cup {AnyContent}, fresh \in BOOLEAN :
               PutBegin(h, u, f, n, c, match, fresh)
    BY <1>1, <2>2
  <2>3. CASE \E x \in Files, overwrite \in BOOLEAN :
               CopyFile(h, u, x, f, n, overwrite) \/ MoveFileBegin(h, u, x, f, n, overwrite)
    BY <1>2, <2>3
  <2>4. CASE \E p \in Folders \cup {Top}, overwrite \in BOOLEAN :
               MoveFolder(h, u, f, p, n, overwrite) \/ CopyBegin(h, u, f, p, n, overwrite)
    BY <1>3, <2>4
  <2> QED BY <2>1, <2>2, <2>3, <2>4
<1>12. CASE \E h \in FreeHandlers, u \in Users, p \in Folders \cup {Top}, n \in Names :
              Mkcol(h, u, p, n)
  BY <1>4, <1>12
<1>13. CASE \E h \in FreeHandlers, u \in Users :
              \/ \E f \in Folders : RemoveTree(h, u, f)
              \/ \E x \in Files, match \in Contents \cup {AnyContent} : RemoveBegin(h, u, x, match)
  BY <1>5, <1>6, <1>13
<1>14. CASE \E h \in Handlers, x \in Files :
              PutCreate(h, x) \/ \E n \in Names, c \in Contents : CopyOne(h, n, c, x)
  BY <1>7, <1>14
<1>15. CASE \E h \in Handlers, f \in Folders :
              CopyCreate(h, f) \/ \E k \in Folders : CopyDescend(h, k, f)
  BY <1>8, <1>15
<1>16. CASE \E h \in Handlers : \/ PutLookup(h) \/ PutUpdate(h) \/ Remove(h)
                                \/ MoveFileClear(h) \/ MoveFilePush(h)
                                \/ CopyList(h) \/ CopyReturn(h)
  BY <1>9, <1>10, <1>16
<1> QED BY <1>11, <1>12, <1>13, <1>14, <1>15, <1>16 DEF DavNext

LEMMA RestructureStep ==
  ASSUME RInv, Restructures
  PROVE  Steps
<1>1. ASSUME NEW h \in FreeHandlers, NEW u \in Users, NEW p \in Parent, NEW n \in Names,
             \/ EnsureBegin(h, u, p, n) \/ Mkcol(h, u, p, n)
             \/ \E f \in Folders : UpdateBegin(h, u, f, p, n)
             \/ \E f \in Folders, overwrite \in BOOLEAN :
                  MoveFolder(h, u, f, p, n, overwrite) \/ CopyBegin(h, u, f, p, n, overwrite)
      PROVE  Steps
  BY <1>1, EnsureBeginStep, MkcolStep, UpdateBeginStep, MoveFolderStep, CopyBeginStep
<1>2. ASSUME NEW h \in Handlers, NEW f \in Folders,
             EnsureInsert(h, f) \/ CopyCreate(h, f) \/ \E k \in Folders : CopyDescend(h, k, f)
      PROVE  Steps
  BY <1>2, EnsureInsertStep, CopyCreateStep, CopyDescendStep
<1>3. ASSUME NEW h \in Handlers,
             \/ Rename(h) \/ MoveRead(h) \/ MoveWrite(h) \/ CopyList(h) \/ CopyReturn(h)
             \/ \E x \in Files, n \in Names, c \in Contents : CopyOne(h, n, c, x)
      PROVE  Steps
  BY <1>3, RenameStep, MoveReadStep, MoveWriteStep, CopyListStep, CopyReturnStep, CopyOneStep
<1> QED BY <1>1, <1>2, <1>3 DEF Restructures

LEMMA StutterStep ==
  ASSUME RInv, UNCHANGED vars
  PROVE  Steps /\ Plain
BY SameRows DEF RInv, Steps, Plain, vars

LEMMA NextStep == RInv /\ [Next]_vars => RInv' /\ RowsSafe
<1> SUFFICES ASSUME RInv, [Next]_vars PROVE RInv' /\ RowsSafe
  OBVIOUS
<1>1. Steps
  BY TreeStep, DavStep, RestructureStep, StutterStep DEF Next
<1> QED BY <1>1, StepsKeep

LEMMA InitRows == Init => RInv
<1> SUFFICES ASSUME Init PROVE RInv
  OBVIOUS
<1>1. folder \in FolderRows /\ file \in FileRows /\ share \in ShareRows
  BY StartAssumption DEF Init, FolderRows, FileRows, ShareRows
<1> QED BY <1>1 DEF Init, RInv

\* The rows keep their types and the requests their hold on them.
LEMMA RowsHold == Spec => []RInv
BY InitRows, NextStep, PTL DEF Spec

\* ListingComplete of module FolderTree: a listing in pages shows every file that
\* stayed as it was up to its last id; and every row keeps its type.  For any
\* number of requests at the same time.
THEOREM ListingsComplete == Spec => [](RowsOK /\ ListingComplete)
<1>1. RInv => RowsOK
  BY DEF RInv, RowsOK, FolderRows, FileRows, ShareRows
<1>2. RInv => ListingComplete
  BY DEF RInv, ListingComplete, At, Sound, ListsAll, FilesIn, LiveFile
<1> QED BY <1>1, <1>2, RowsHold, PTL

\* What module DavFiles puts together in WritesSafe but for the moves of guests: no
\* change of what a user sees without a new tag, no folder deleted over the files
\* its deletion listed, no conditional write over another, nothing brought back.
\* For any number of requests at the same time.
THEOREM WritesKeep ==
  Spec => /\ RevTellsChanges /\ ListedFilesDeletedFirst
          /\ ConditionalWritesSafe /\ DeletedStaysDeleted
<1>1. RInv /\ [Next]_vars => RowsSafe
  BY NextStep
<1>2. RowsSafe =>
        [<<folder, share>>' # <<folder, share>> =>
           \A u \in Users : View(u)' # View(u) => CollectionsRev(u)' # CollectionsRev(u)]_rows
  BY DEF RowsSafe
<1>3. RowsSafe =>
        [\A h \in Handlers : At(h, "delete") =>
           LET f == TopFrame(h).folder IN
           IsLive(f) /\ ~folder'[f].live /\ request'[h] # request[h] =>
             /\ TopFrame(h).listed
             /\ TopFrame(h).files \cap FilesIn(f) = {}]_vars
  BY DEF RowsSafe
<1>4. RowsSafe =>
        [\A h \in Handlers :
           /\ At(h, "put") \/ At(h, "remove")
           /\ request'[h] = Idle /\ request[h].match # AnyContent /\ request[h].target # New
           /\ file' # file
           => file[request[h].target].content = request[h].match]_vars
  BY DEF RowsSafe
<1>5. RowsSafe =>
        [\A x \in Files : file[x] # NoRow /\ ~file[x].live => file'[x] = file[x]]_file
  BY DEF RowsSafe
<1> QED BY <1>1, <1>2, <1>3, <1>4, <1>5, RowsHold, PTL
        DEF Spec, RevTellsChanges, ListedFilesDeletedFirst, ConditionalWritesSafe,
            DeletedStaysDeleted

-----------------------------------------------------------------------------
(* The folders stay trees, when one request at a time changes them.        *)

HasChildrenIn(F, S) == \A g \in Folders : F[g] # NoRow /\ F[g].parent \in S => g \in S
Below(F, f) ==
  {g \in Folders : \A S \in SUBSET Folders : f \in S /\ HasChildrenIn(F, S) => g \in S}

KnownIn(F) == {g \in Folders : F[g] # NoRow}

\* A folder has the owner and the root of the one it is in, and whichever folders
\* one takes, one of them is in none of the others.
TreeOK(F) ==
  /\ \A f \in KnownIn(F) :
       LET p == F[f].parent IN
       IF p = Top THEN F[f].root = f
       ELSE p \in KnownIn(F) /\ F[f].owner = F[p].owner /\ F[f].root = F[p].root
  /\ \A S \in SUBSET KnownIn(F) : S # {} => \E f \in S : F[f].parent \notin S

Busy(r) == r # Idle /\ Restructuring(r)

\* What a request read of the tree before its write is still so.
UpToDate(F, r) ==
  /\ r.kind = "ensure" \/ (r.kind = "copy" /\ r.phase = "create") =>
       (r.parent # Top => r.owner = F[r.parent].owner /\ r.root = F[r.parent].root)
  /\ r.kind = "update" =>
       /\ r.parent \notin Below(F, r.folder)
       /\ r.parent # Top => F[r.parent].owner = F[r.folder].owner
       /\ r.phase = "write" => r.root = IF r.parent = Top THEN r.folder ELSE F[r.parent].root
       /\ F[r.folder].owner # r.user => F[r.folder].parent # Top /\ r.parent # Top

TInv ==
  /\ RInv /\ TreeOK(folder) /\ ~stuck
  /\ \A h, k \in Handlers : Busy(request[h]) /\ Busy(request[k]) => h = k
  /\ \A h \in Handlers : request[h] # Idle => UpToDate(folder, request[h])

LEMMA BelowIs ==
  ASSUME NEW f
  PROVE  Subtree(f) = Below(folder, f)
BY DEF Subtree, Below, HasChildren, HasChildrenIn, Known

LEMMA BelowHas ==
  ASSUME NEW F, NEW f \in Folders
  PROVE  /\ Below(F, f) \subseteq Folders /\ f \in Below(F, f)
         /\ HasChildrenIn(F, Below(F, f))
         /\ \A S \in SUBSET Folders : f \in S /\ HasChildrenIn(F, S) => Below(F, f) \subseteq S
BY DEF Below, HasChildrenIn

\* Below a folder, all but that folder itself are in a folder that is below it.
LEMMA BelowParent ==
  ASSUME NEW F, NEW f \in Folders, NEW g \in Below(F, f), g # f
  PROVE  F[g].parent \in Below(F, f)
<1> DEFINE B == Below(F, f)
           S == B \ {g}
<1> SUFFICES ASSUME F[g].parent \notin B PROVE FALSE
  OBVIOUS
<1>1. S \in SUBSET Folders /\ f \in S
  BY BelowHas
<1>2. ASSUME NEW k \in Folders, F[k] # NoRow, F[k].parent \in S PROVE k \in S
  BY <1>2, BelowHas DEF HasChildrenIn
<1>3. HasChildrenIn(F, S)
  BY <1>2 DEF HasChildrenIn
<1>4. B \subseteq S
  BY <1>1, <1>3, BelowHas
<1> QED BY <1>4

LEMMA SameTreeStays ==
  ASSUME NEW F, NEW G, SameTree(F, G)
  PROVE  /\ KnownIn(G) = KnownIn(F) /\ \A f : Below(G, f) = Below(F, f)
         /\ TreeOK(F) => TreeOK(G)
<1>1. KnownIn(G) = KnownIn(F) /\ KnownIn(F) \subseteq Folders
  BY DEF SameTree, KnownIn
<1>2. \A f \in KnownIn(F) :
        G[f].owner = F[f].owner /\ G[f].parent = F[f].parent /\ G[f].root = F[f].root
  BY DEF SameTree, KnownIn
<1>3. \A S : HasChildrenIn(G, S) <=> HasChildrenIn(F, S)
  BY <1>1, <1>2 DEF HasChildrenIn, KnownIn
<1>4. \A f : Below(G, f) = Below(F, f)
  BY <1>3 DEF Below
<1>5. ASSUME TreeOK(F) PROVE TreeOK(G)
  <2>1. \A f \in KnownIn(G) :
          LET p == G[f].parent IN
          IF p = Top THEN G[f].root = f
          ELSE p \in KnownIn(G) /\ G[f].owner = G[p].owner /\ G[f].root = G[p].root
    BY <1>1, <1>2, <1>5 DEF TreeOK
  <2>2. \A S \in SUBSET KnownIn(G) : S # {} => \E f \in S : G[f].parent \notin S
    BY <1>1, <1>2, <1>5 DEF TreeOK
  <2> QED BY <2>1, <2>2 DEF TreeOK
<1> QED BY <1>1, <1>4, <1>5

\* A new folder is a leaf of the tree of its parent.
LEMMA InsertedTree ==
  ASSUME NEW F, NEW G, TreeOK(F), NEW g \in Folders, F[g] = NoRow, G[g] # NoRow,
         \A k \in Folders : k # g => G[k] = F[k],
         LET p == G[g].parent IN
         IF p = Top THEN G[g].root = g
         ELSE p \in KnownIn(F) /\ G[g].owner = F[p].owner /\ G[g].root = F[p].root
  PROVE  TreeOK(G)
<1>1. KnownIn(G) = KnownIn(F) \cup {g} /\ g \notin KnownIn(F) /\ KnownIn(F) \subseteq Folders
  BY DEF KnownIn
<1>2. \A k \in KnownIn(F) : G[k] = F[k]
  BY <1>1
<1>3. G[g].parent # g /\ \A k \in KnownIn(F) : F[k].parent # g
  BY <1>1, TreeAssumption DEF TreeOK
<1>4. \A f \in KnownIn(G) :
        LET p == G[f].parent IN
        IF p = Top THEN G[f].root = f
        ELSE p \in KnownIn(G) /\ G[f].owner = G[p].owner /\ G[f].root = G[p].root
  BY <1>1, <1>2 DEF TreeOK
<1>5. ASSUME NEW S \in SUBSET KnownIn(G), S # {}
      PROVE  \E f \in S : G[f].parent \notin S
  <2>1. CASE S \ {g} = {}
    BY <1>3, <1>5, <2>1
  <2>2. CASE S \ {g} # {}
    <3>1. PICK f \in S \ {g} : F[f].parent \notin S \ {g}
      BY <1>1, <2>2 DEF TreeOK
    <3>2. f \in KnownIn(F)
      BY <1>1
    <3> QED BY <1>2, <1>3, <3>1, <3>2
  <2> QED BY <2>1, <2>2
<1> QED BY <1>4, <1>5 DEF TreeOK

\* A folder moves with all below it under one that is not below it.
LEMMA MovedTree ==
  ASSUME NEW F, NEW G, TreeOK(F), NEW f \in KnownIn(F), NEW p \in Parent, NEW root,
         p \notin Below(F, f),
         IF p = Top THEN root = f
         ELSE p \in KnownIn(F) /\ F[p].owner = F[f].owner /\ root = F[p].root,
         KnownIn(G) = KnownIn(F), \A g \in KnownIn(F) : G[g].owner = F[g].owner,
         \A g \in KnownIn(F) : g \notin Below(F, f) => G[g] = F[g],
         \A g \in KnownIn(F) : g # f => G[g].parent = F[g].parent,
         \A g \in Below(F, f) : G[g].root = root,
         G[f].parent = p
  PROVE  TreeOK(G)
<1> DEFINE B == Below(F, f)
<1>1. /\ f \in Folders /\ f \in B /\ B \subseteq Folders
      /\ \A g \in KnownIn(F) : F[g].parent \in B => g \in B
  BY BelowHas DEF KnownIn, HasChildrenIn
<1>2. Top \notin B
  BY <1>1, TreeAssumption
<1>3. \A g \in B : g # f => F[g].parent \in B
  BY <1>1, BelowParent
<1>t. \A g \in KnownIn(F) :
        IF F[g].parent = Top THEN F[g].root = g
        ELSE /\ F[g].parent \in KnownIn(F) /\ F[g].owner = F[F[g].parent].owner
             /\ F[g].root = F[F[g].parent].root
  BY DEF TreeOK
<1> HIDE DEF B
<1>b. B = Below(F, f)
  BY DEF B
<1>4. ASSUME NEW g \in KnownIn(F)
      PROVE  LET q == G[g].parent IN
             IF q = Top THEN G[g].root = g
             ELSE q \in KnownIn(F) /\ G[g].owner = G[q].owner /\ G[g].root = G[q].root
  <2>1. CASE g = f
    <3>1. G[g].parent = p /\ G[g].root = root
      BY <1>1, <1>b, <2>1
    <3>2. p # Top => G[p] = F[p] /\ p \in KnownIn(F)
      BY <1>b
    <3> QED BY <2>1, <3>1, <3>2
  <2>2. CASE g \in B /\ g # f
    <3>1. G[g].parent = F[g].parent /\ G[g].root = root /\ F[g].parent \in B
      BY <1>3, <1>b, <2>2
    <3>2. F[g].parent # Top /\ G[F[g].parent].root = root
      BY <1>2, <1>b, <3>1
    <3> QED BY <1>t, <3>1, <3>2
  <2>3. CASE g \notin B
    <3>1. G[g] = F[g] /\ F[g].parent \notin B
      BY <1>1, <1>b, <2>3
    <3>2. F[g].parent # Top => F[g].parent \in KnownIn(F) /\ G[F[g].parent] = F[F[g].parent]
      BY <1>t, <1>b, <3>1
    <3> QED BY <1>t, <3>1, <3>2
  <2> QED BY <2>1, <2>2, <2>3
<1>5. ASSUME NEW S \in SUBSET KnownIn(F), S # {}
      PROVE  \E g \in S : G[g].parent \notin S
  <2>1. CASE S \ B # {}
    <3>1. PICK g \in S \ B : F[g].parent \notin S \ B
      BY <2>1 DEF TreeOK
    <3>2. G[g] = F[g] /\ F[g].parent \notin B
      BY <1>1, <1>b
    <3> QED BY <3>1, <3>2
  <2>2. CASE S \subseteq B
    <3>1. PICK g \in S : F[g].parent \notin S
      BY <1>5 DEF TreeOK
    <3> QED BY <1>b, <2>2, <3>1
  <2> QED BY <2>1, <2>2
<1> QED BY <1>4, <1>5 DEF TreeOK

\* What a path walks up has one owner and one root, and ends at that root.
LEMMA AboveIs ==
  ASSUME TreeOK(folder), NEW f \in Folders, Known(f)
  PROVE  /\ Above(f) # {}
         /\ \A g \in Above(f) : /\ Known(g) /\ g \in Folders
                                /\ folder[g].owner = folder[f].owner
                                /\ folder[g].root = folder[f].root
         /\ \E g \in Above(f) : folder[g].parent = Top
<1> DEFINE kin == {g \in Folders : /\ Known(g) /\ folder[g].owner = folder[f].owner
                                   /\ folder[g].root = folder[f].root}
<1>1. f \in kin /\ HasParents(kin) /\ kin \in SUBSET Folders
  BY DEF TreeOK, KnownIn, Known, HasParents
<1>2. Above(f) \subseteq kin
  BY <1>1 DEF Above
<1>3. f \in Above(f) /\ HasParents(Above(f))
  <2>1. ASSUME NEW g \in Above(f), Known(g), folder[g].parent # Top
        PROVE  folder[g].parent \in Above(f)
    <3>1. folder[g].parent \in Folders
      BY <2>1 DEF Above, TreeOK, KnownIn, Known
    <3> QED BY <2>1, <3>1 DEF Above, HasParents
  <2> QED BY <2>1 DEF Above, HasParents
<1>4. Above(f) \in SUBSET KnownIn(folder)
  BY <1>2 DEF KnownIn, Known
<1>5. PICK g \in Above(f) : folder[g].parent \notin Above(f)
  BY <1>3, <1>4 DEF TreeOK
<1>6. folder[g].parent = Top
  BY <1>2, <1>3, <1>5 DEF HasParents
<1> QED BY <1>2, <1>3, <1>6

LEMMA PathsGrant ==
  ASSUME TreeOK(folder), NEW u \in Users, NEW f \in Folders, Known(f), PathAccess(u, f) > 0
  PROVE  PathAccess(u, f) = Access(u, f)
<1> DEFINE root == CHOOSE g \in Above(f) : folder[g].parent = Top
<1>1. root \in Above(f) /\ folder[root].parent = Top
  BY AboveIs
<1>2. folder[root].owner = folder[f].owner /\ folder[root].root = folder[f].root
  BY <1>1, AboveIs
<1>3. Known(root) /\ root \in Folders
  BY <1>1, AboveIs
<1>4. folder[root].root = root
  BY <1>1, <1>3 DEF TreeOK, KnownIn, Known
<1>5. PathAccess(u, f) = IF folder[root].owner = u THEN 3 ELSE share[root][u]
  BY DEF PathAccess
<1> HIDE DEF root
<1> QED BY <1>2, <1>4, <1>5 DEF Access

-----------------------------------------------------------------------------
(* Steps, when one request at a time changes the tree.                     *)

\* A guest that moves a folder takes it neither from the top nor to the top.
GuestsSafe ==
  \A h \in Handlers, f \in Folders :
    /\ At(h, "update") /\ Known(f) /\ folder'[f].parent # folder[f].parent
    /\ request[h].folder = f /\ request'[h] # request[h]
    /\ folder[f].owner # request[h].user
    => folder[f].parent # Top /\ folder'[f].parent # Top

LEMMA SameTreeGuests ==
  ASSUME SameTree(folder, folder') PROVE GuestsSafe
BY DEF SameTree, GuestsSafe, Known

LEMMA UpToDateStays ==
  ASSUME NEW F, NEW G, SameTree(F, G), NEW X, NEW r, Sound(F, X, r), UpToDate(F, r)
  PROVE  UpToDate(G, r)
<1>1. \A f \in Folders : F[f] # NoRow =>
        G[f].owner = F[f].owner /\ G[f].parent = F[f].parent /\ G[f].root = F[f].root
  BY DEF SameTree
<1>2. \A f : Below(G, f) = Below(F, f)
  BY SameTreeStays
<1>3. CASE r.kind = "ensure"
  BY <1>1, <1>3 DEF UpToDate, Sound, Under, Is
<1>4. CASE r.kind = "copy" /\ r.phase = "create"
  BY <1>1, <1>4 DEF UpToDate, Sound, Under, Is, CopyRequest
<1>5. CASE r.kind = "update"
  BY <1>1, <1>2, <1>5 DEF UpToDate, Sound, Is
<1> QED BY <1>3, <1>4, <1>5 DEF UpToDate

LEMMA SoundIs ==
  ASSUME RInv, NEW h \in Handlers, request[h] # Idle
  PROVE  Sound(folder, file, request[h])
BY DEF RInv

\* The others stand as they did while the tree does.
LEMMA PlainStep ==
  ASSUME TInv, Steps, Plain
  PROVE  TInv' /\ GuestsSafe
<1>1. RInv' /\ SameTree(folder, folder') /\ ~stuck'
  BY StepsKeep DEF TInv, Plain
<1>2. TreeOK(folder')
  BY <1>1, SameTreeStays DEF TInv
<1>3. \A h \in Handlers : Busy(request'[h]) => request'[h] = request[h]
  BY DEF Plain, Busy
<1>4. ASSUME NEW h \in Handlers, request'[h] # Idle PROVE UpToDate(folder', request'[h])
  <2>1. CASE request'[h] = request[h]
    BY <1>1, <1>4, <2>1, SoundIs, UpToDateStays DEF TInv
  <2>2. CASE request'[h] # request[h]
    BY <1>4, <2>2 DEF Plain, Restructuring, UpToDate
  <2> QED BY <2>1, <2>2
<1> QED BY <1>1, <1>2, <1>3, <1>4, SameTreeGuests DEF TInv

\* One that changes the tree is alone, as it begins and until it ends.
LEMMA KeepStep ==
  ASSUME TInv, Steps, SameTree(folder, folder'), stuck' = stuck,
         NEW h \in Handlers, NEW r, request' = [request EXCEPT ![h] = r],
         r # Idle => UpToDate(folder', r),
         Busy(request[h]) \/ \A k \in Handlers : ~Busy(request[k])
  PROVE  TInv' /\ GuestsSafe
<1>1. RInv' /\ ~stuck'
  BY StepsKeep DEF TInv
<1>2. TreeOK(folder')
  BY SameTreeStays DEF TInv
<1>3. request'[h] = r /\ \A k \in Handlers : k # h => request'[k] = request[k]
  BY Goes DEF TInv
<1>4. \A k \in Handlers : Busy(request'[k]) => k = h
  BY <1>3 DEF TInv
<1>5. ASSUME NEW k \in Handlers, request'[k] # Idle PROVE UpToDate(folder', request'[k])
  <2>1. CASE k # h
    BY <1>3, <1>5, <2>1, SoundIs, UpToDateStays DEF TInv
  <2> QED BY <1>3, <1>5, <2>1
<1> QED BY <1>1, <1>2, <1>4, <1>5, SameTreeGuests DEF TInv

\* Once it has written the tree, no other request rests on it.
LEMMA ChangeStep ==
  ASSUME TInv, Steps, TreeOK(folder'), stuck' = stuck,
         NEW h \in Handlers, NEW r, request' = [request EXCEPT ![h] = r],
         Busy(request[h]), r # Idle => r.kind = "copy" /\ r.phase = "copying"
  PROVE  TInv'
<1>1. RInv' /\ ~stuck'
  BY StepsKeep DEF TInv
<1>3. request'[h] = r /\ \A k \in Handlers : k # h => request'[k] = request[k]
  BY Goes DEF TInv
<1>4. \A k \in Handlers : Busy(request'[k]) => k = h
  BY <1>3 DEF TInv
<1>5. ASSUME NEW k \in Handlers, request'[k] # Idle PROVE UpToDate(folder', request'[k])
  <2>1. CASE k # h
    <3>1. ~Restructuring(request'[k])
      BY <1>4, <1>5, <2>1 DEF Busy
    <3> QED BY <3>1 DEF Restructuring, UpToDate
  <2>2. CASE k = h
    BY <1>3, <1>5, <2>2 DEF UpToDate
  <2> QED BY <2>1, <2>2
<1> QED BY <1>1, <1>4, <1>5 DEF TInv

LEMMA BeginsAlone ==
  ASSUME OneRestructures, CanRestructure
  PROVE  \A k \in Handlers : ~Busy(request[k])
<1> DEFINE at == {h \in Handlers : request[h] # Idle /\ Restructuring(request[h])}
<1>1. IsFiniteSet(at)
  BY TreeAssumption, FS_Subset
<1>2. Cardinality(at) < 1
  BY DEF OneRestructures, CanRestructure
<1>3. at = {}
  BY <1>1, <1>2, FS_CardinalityType, FS_EmptySet
<1> QED BY <1>3 DEF Busy

\* A request begins on a tree as it is.
LEMMA BeginStep ==
  ASSUME TInv, OneRestructures, CanRestructure, Steps, NEW h, NEW kind, Opens(h, kind),
         NEW r, Begin(h, r), UpToDate(folder, r)
  PROVE  TInv' /\ GuestsSafe
<1>1. h \in Handlers /\ UNCHANGED rows /\ stuck' = stuck
  BY OpensIs
<1>2. SameTree(folder, folder') /\ folder' = folder
  BY <1>1, SameRows DEF rows, TInv, RInv
<1> QED BY <1>1, <1>2, BeginsAlone, KeepStep DEF Begin

\* A new folder with the owner and the root its parent has.
LEMMA InsertStep ==
  ASSUME TInv, Steps, NEW g \in Folders, ~Known(g), NEW owner \in Users, NEW p \in Parent,
         NEW root, NEW n \in Names, Inserted(g, owner, p, root, n),
         p # Top => Is(folder, p) /\ root = folder[p].root /\ owner = folder[p].owner
  PROVE  TreeOK(folder') /\ GuestsSafe
<1>1. folder \in FolderRows /\ (p # Top => root \in Folders)
  BY FolderRowsAre, FolderFields DEF TInv, RInv, Is
<1>a. /\ folder'[g].owner = owner /\ folder'[g].parent = p /\ folder'[g] # NoRow
      /\ \A k \in Folders : k # g => folder'[k] = folder[k]
  BY <1>1, InsertedRows
<1>b. folder'[g].root = IF p = Top THEN g ELSE root
  BY <1>1, InsertedRows
<1>2. /\ folder'[g].owner = owner /\ folder'[g].parent = p /\ folder'[g] # NoRow
      /\ folder'[g].root = IF p = Top THEN g ELSE root
      /\ \A k \in Folders : k # g => folder'[k] = folder[k]
  BY <1>a, <1>b
<1>3. TreeOK(folder')
  BY <1>2, InsertedTree DEF TInv, Is, Known, KnownIn
<1>4. GuestsSafe
  BY <1>2 DEF GuestsSafe, Known
<1> QED BY <1>3, <1>4

LEMMA EnsureUpToDate ==
  ASSUME RInv, NEW u \in Users, NEW p \in Parent, p # Top => Known(p), NEW r,
         r.parent = p, r.owner = OwnerUnder(u, p), r.root = RootUnder(p),
         r.kind \in {"ensure", "copy"}
  PROVE  UpToDate(folder, r)
BY OwnerAndRoot DEF UpToDate

LEMMA EnsureBeginTree ==
  ASSUME TInv, OneRestructures, NEW h, NEW u \in Users, NEW p \in Parent, NEW n \in Names,
         EnsureBegin(h, u, p, n) \/ Mkcol(h, u, p, n)
  PROVE  TInv' /\ GuestsSafe
<1> DEFINE r == [kind |-> "ensure", user |-> u, parent |-> p, name |-> n,
                 owner |-> OwnerUnder(u, p), root |-> RootUnder(p)]
<1>1. Begin(h, r) /\ CanRestructure /\ (Opens(h, "ensure") \/ Opens(h, "mkcol"))
  BY DEF EnsureBegin, Mkcol
<1>2. Steps
  BY EnsureBeginStep, MkcolStep DEF TInv
<1>3. p # Top => Known(p)
  BY DEF EnsureBegin, IsLive, Mkcol, PathAccess
<1>4. UpToDate(folder, r)
  BY <1>3, EnsureUpToDate DEF TInv
<1> HIDE DEF r
<1> QED BY <1>1, <1>2, <1>4, BeginStep

LEMMA CopyBeginTree ==
  ASSUME TInv, OneRestructures, NEW h, NEW u \in Users, NEW f \in Folders, NEW p \in Parent,
         NEW n \in Names, NEW overwrite, CopyBegin(h, u, f, p, n, overwrite)
  PROVE  TInv' /\ GuestsSafe
<1> DEFINE r == [kind |-> "copy", user |-> u, phase |-> "create", src |-> f, parent |-> p,
                 name |-> n, owner |-> OwnerUnder(u, p), root |-> RootUnder(p)]
<1>1. CanRestructure /\ Opens(h, "copy") /\ (p # Top => Known(p))
  BY DEF CopyBegin
<1>2. Steps
  BY CopyBeginStep DEF TInv
<1>3. CASE Begin(h, r)
  <2>1. UpToDate(folder, r)
    BY <1>1, EnsureUpToDate DEF TInv
  <2> HIDE DEF r
  <2> QED BY <1>1, <1>2, <1>3, <2>1, BeginStep
<1>4. ASSUME NEW g, Begin(h, Copy(u, <<CopyFrame(f, g)>>))
      PROVE  TInv' /\ GuestsSafe
  <2> DEFINE c == Copy(u, <<CopyFrame(f, g)>>)
  <2>1. UpToDate(folder, c)
    BY DEF UpToDate, Copy
  <2> HIDE DEF c
  <2>2. Begin(h, c)
    BY <1>4 DEF c
  <2> QED BY <1>1, <1>2, <2>1, <2>2, BeginStep
<1> QED BY <1>3, <1>4 DEF CopyBegin

LEMMA UpdateUpToDate ==
  ASSUME RInv, NEW r, r.kind = "update", r.phase # "write",
         r.parent \notin Subtree(r.folder),
         r.parent # Top => folder[r.parent].owner = folder[r.folder].owner,
         folder[r.folder].owner # r.user => folder[r.folder].parent # Top /\ r.parent # Top
  PROVE  UpToDate(folder, r)
BY BelowIs DEF UpToDate

LEMMA TopNotBelow ==
  ASSUME NEW f PROVE Top \notin Subtree(f)
BY TreeAssumption DEF Subtree

\* A root takes its owner: nobody has more than a share on another's.
LEMMA RootTakesOwner ==
  ASSUME RInv, NEW u \in Users, NEW f \in Folders, Known(f), folder[f].parent = Top
  PROVE  /\ MayAdmin(u, f) => folder[f].owner = u
         /\ PathAdmin(u, f) => folder[f].owner = u
<1>1. \A g \in Folders : share[g][u] \in 0..2
  BY DEF RInv, ShareRows
<1>2. folder[f].root \in Folders
  BY FolderRowsAre, FolderFields DEF RInv, Known
<1>3. MayAdmin(u, f) => folder[f].owner = u
  BY <1>1, <1>2 DEF MayAdmin, Access
<1>4. Above(f) = {f}
  <2>1. f \in {f} /\ HasParents({f}) /\ {f} \in SUBSET Folders
    BY DEF HasParents
  <2>2. Above(f) \subseteq {f}
    BY <2>1 DEF Above
  <2> QED BY <2>2 DEF Above
<1>5. PathAccess(u, f) >= 3 => folder[f].owner = u
  <2> DEFINE root == CHOOSE g \in Above(f) : folder[g].parent = Top
  <2>1. root = f
    BY <1>4
  <2>2. PathAccess(u, f) \in {0, IF folder[root].owner = u THEN 3 ELSE share[root][u]}
    BY DEF PathAccess
  <2> HIDE DEF root
  <2> QED BY <1>1, <2>1, <2>2
<1> QED BY <1>3, <1>5 DEF PathAdmin

LEMMA UpdateBeginTree ==
  ASSUME TInv, OneRestructures, NEW h, NEW u \in Users, NEW f \in Folders, NEW p \in Parent,
         NEW n \in Names, UpdateBegin(h, u, f, p, n)
  PROVE  TInv' /\ GuestsSafe
<1> DEFINE r == [kind |-> "update", user |-> u, folder |-> f, parent |-> p, name |-> n,
                 root |-> Top, moves |-> p # folder[f].parent,
                 phase |-> IF n # folder[f].name THEN "rename" ELSE "read"]
<1>1. Begin(h, r) /\ CanRestructure /\ Opens(h, "update")
  BY DEF UpdateBegin
<1>2. Steps
  BY UpdateBeginStep DEF TInv
<1>3. Known(f) /\ MayAdmin(u, f) /\ MoveAllowed(u, f, p)
  BY DEF UpdateBegin, MayAdmin, IsLive
<1>4. /\ p \notin Subtree(f) /\ (p # Top => folder[p].owner = folder[f].owner)
      /\ folder[f].owner # u => folder[f].parent # Top /\ p # Top
  BY <1>3, TopNotBelow, RootTakesOwner DEF MoveAllowed, IsAncestor, TInv
<1>5. UpToDate(folder, r)
  BY <1>4, UpdateUpToDate DEF TInv
<1> HIDE DEF r
<1> QED BY <1>1, <1>2, <1>5, BeginStep

LEMMA MoveFolderTree ==
  ASSUME TInv, OneRestructures, NEW h, NEW u \in Users, NEW f \in Folders, NEW p \in Parent,
         NEW n \in Names, NEW overwrite, MoveFolder(h, u, f, p, n, overwrite)
  PROVE  TInv' /\ GuestsSafe
<1> DEFINE r == [kind |-> "update", user |-> u, folder |-> f, parent |-> p, name |-> n,
                 root |-> Top, moves |-> TRUE, phase |-> "rename"]
<1>1. Begin(h, r) /\ CanRestructure /\ Opens(h, "move folder")
  BY DEF MoveFolder
<1>2. Steps
  BY MoveFolderStep DEF TInv
<1>3. Known(f) /\ PathAdmin(u, f)
  BY DEF MoveFolder
<1>4. /\ p \notin Subtree(f) /\ (p # Top => folder[p].owner = folder[f].owner)
      /\ folder[f].owner # u => folder[f].parent # Top /\ p # Top
  BY <1>3, TopNotBelow, RootTakesOwner DEF MoveFolder, IsAncestor, TInv
<1>5. UpToDate(folder, r)
  BY <1>4, UpdateUpToDate DEF TInv
<1> HIDE DEF r
<1> QED BY <1>1, <1>2, <1>5, BeginStep

LEMMA EnsureInsertTree ==
  ASSUME TInv, NEW h \in Handlers, NEW f \in Folders, EnsureInsert(h, f)
  PROVE  TInv' /\ GuestsSafe
<1> DEFINE r == request[h]
<1>1. /\ r \in EnsureRequest /\ Under(folder, r) /\ r # Idle /\ r.kind = "ensure"
      /\ UpToDate(folder, r)
  BY DEF EnsureInsert, At, TInv, RInv, Sound
<1>2. Steps
  BY EnsureInsertStep DEF TInv
<1>3. CASE GiveUp(h)
  BY <1>3, GiveUpStep, PlainStep DEF TInv
<1>4. CASE /\ Inserted(f, r.owner, r.parent, r.root, r.name)
           /\ Finish(h) /\ UNCHANGED <<file, share>>
  <2>1. r.owner \in Users /\ r.parent \in Parent /\ r.name \in Names
    BY <1>1 DEF EnsureRequest
  <2>2. r.parent # Top => /\ Is(folder, r.parent) /\ r.root = folder[r.parent].root
                          /\ r.owner = folder[r.parent].owner
    BY <1>1 DEF UpToDate, Under
  <2>3. TreeOK(folder') /\ GuestsSafe
    BY <1>2, <1>4, <2>1, <2>2, InsertStep DEF EnsureInsert
  <2>4. Busy(request[h])
    BY <1>1 DEF Busy, Restructuring
  <2>5. request' = [request EXCEPT ![h] = Idle] /\ stuck' = stuck
    BY <1>4 DEF Finish, End
  <2>6. TInv'
    BY <1>2, <2>3, <2>4, <2>5, ChangeStep
  <2> QED BY <2>3, <2>6
<1> QED BY <1>3, <1>4 DEF EnsureInsert

LEMMA CopyCreateTree ==
  ASSUME TInv, NEW h \in Handlers, NEW g \in Folders, CopyCreate(h, g)
  PROVE  TInv' /\ GuestsSafe
<1> DEFINE r == request[h]
           c == Copy(r.user, <<CopyFrame(r.src, g)>>)
<1>1. /\ r \in CreateRequest /\ Under(folder, r) /\ r # Idle
      /\ r.kind = "copy" /\ r.phase = "create" /\ UpToDate(folder, r)
  BY DEF CopyCreate, InPhase, At, TInv, RInv, Sound, CopyRequest
<1>2. Steps
  BY CopyCreateStep DEF TInv
<1>3. CASE GiveUp(h)
  BY <1>3, GiveUpStep, PlainStep DEF TInv
<1>4. CASE /\ Inserted(g, r.owner, r.parent, r.root, r.name) /\ UNCHANGED <<file, share>>
           /\ Continue(h, c)
  <2>1. r.owner \in Users /\ r.parent \in Parent /\ r.name \in Names
    BY <1>1 DEF CreateRequest
  <2>2. r.parent # Top => /\ Is(folder, r.parent) /\ r.root = folder[r.parent].root
                          /\ r.owner = folder[r.parent].owner
    BY <1>1 DEF UpToDate, Under
  <2>3. TreeOK(folder') /\ GuestsSafe
    BY <1>2, <1>4, <2>1, <2>2, InsertStep DEF CopyCreate
  <2>4. Busy(request[h])
    BY <1>1 DEF Busy, Restructuring
  <2>5. c.kind = "copy" /\ c.phase = "copying"
    BY DEF Copy
  <2> HIDE DEF c
  <2>6. request' = [request EXCEPT ![h] = c] /\ stuck' = stuck
    BY <1>4 DEF Continue, Begin
  <2>7. TInv'
    BY <1>2, <2>3, <2>4, <2>5, <2>6, ChangeStep
  <2> QED BY <2>3, <2>7
<1> QED BY <1>3, <1>4 DEF CopyCreate

\* A copy under way goes on with another stack, or ends.
LEMMA CopyBusy ==
  ASSUME RInv, NEW h \in Handlers, Copying(h), NEW s
  PROVE  LET r == [request[h] EXCEPT !.stack = s] IN
         Busy(request[h]) /\ r.kind = "copy" /\ r.phase = "copying"
<1>1. request[h] \in CopyRequest(folder) /\ request[h] # Idle
  BY CopyingIs DEF Copying, InPhase, At
<1> QED BY <1>1 DEF CopyRequest, Busy, Restructuring

LEMMA CopyKeepTree ==
  ASSUME TInv, NEW h \in Handlers, Copying(h), Steps, SameTree(folder, folder'),
         stuck' = stuck,
         \/ Finish(h)
         \/ \E s : Continue(h, [request[h] EXCEPT !.stack = s])
  PROVE  TInv' /\ GuestsSafe
<1>1. Busy(request[h])
  BY CopyBusy DEF TInv
<1>2. CASE Finish(h)
  BY <1>1, <1>2, KeepStep DEF Finish, End
<1>3. ASSUME NEW s, Continue(h, [request[h] EXCEPT !.stack = s])
      PROVE  TInv' /\ GuestsSafe
  <2> DEFINE r == [request[h] EXCEPT !.stack = s]
  <2>1. r.kind = "copy" /\ r.phase = "copying"
    BY CopyBusy DEF TInv
  <2>2. request' = [request EXCEPT ![h] = r]
    BY <1>3 DEF Continue, Begin
  <2> HIDE DEF r
  <2>3. UpToDate(folder', r)
    BY <2>1 DEF UpToDate
  <2> QED BY <1>1, <2>2, <2>3, KeepStep
<1> QED BY <1>2, <1>3

LEMMA CopyOneTree ==
  ASSUME TInv, NEW h \in Handlers, NEW n \in Names, NEW c \in Contents, NEW y \in Files,
         CopyOne(h, n, c, y)
  PROVE  TInv' /\ GuestsSafe
BY CopyOneStep, CopyKeepTree DEF TInv, CopyOne, GiveUp, WithTop

LEMMA CopyListTree ==
  ASSUME TInv, NEW h \in Handlers, CopyList(h)
  PROVE  TInv' /\ GuestsSafe
<1>1. SameTree(folder, folder')
  BY SameRows DEF TInv, RInv, rows, CopyList
<1> QED BY <1>1, CopyListStep, CopyKeepTree DEF TInv, CopyList, WithTop

LEMMA CopyReturnTree ==
  ASSUME TInv, NEW h \in Handlers, CopyReturn(h)
  PROVE  TInv' /\ GuestsSafe
<1>1. SameTree(folder, folder')
  BY SameRows DEF TInv, RInv, rows, CopyReturn
<1> QED BY <1>1, CopyReturnStep, CopyKeepTree DEF TInv, CopyReturn

LEMMA CopyDescendTree ==
  ASSUME TInv, NEW h \in Handlers, NEW k \in Folders, NEW g \in Folders, CopyDescend(h, k, g)
  PROVE  TInv' /\ GuestsSafe
<1> DEFINE fr == TopFrame(h)
           d == fr.dest
           left == [fr EXCEPT !.kids = fr.kids \ {k}]
           s == <<CopyFrame(k, g), left>> \o Tail(request[h].stack)
           r == [request[h] EXCEPT !.stack = s]
<1>1. Copying(h) /\ k \in fr.kids
  BY DEF CopyDescend
<1>2. d \in Folders /\ Known(k)
  BY <1>1, CopyingIs DEF TInv
<1>3. Steps
  BY CopyDescendStep DEF TInv
<1>4. CASE GiveUp(h)
  BY <1>4, GiveUpStep, PlainStep DEF TInv
<1>5. CASE Continue(h, r) /\ UNCHANGED rows
  <2>1. SameTree(folder, folder') /\ stuck' = stuck
    BY <1>5, SameRows DEF TInv, RInv, rows, Continue
  <2> HIDE DEF s
  <2> QED BY <1>1, <1>3, <1>5, <2>1, CopyKeepTree
<1>6. CASE /\ ~Known(g) /\ IsLive(d)
           /\ Inserted(g, folder[d].owner, d, folder[d].root, folder[k].name)
           /\ Continue(h, r) /\ UNCHANGED <<file, share>>
  <2> HIDE DEF s
  <2>1. Busy(request[h]) /\ r.kind = "copy" /\ r.phase = "copying"
    BY <1>1, CopyBusy DEF TInv
  <2> HIDE DEF r, fr
  <2>2. /\ folder[d] \in FolderRow /\ folder[k] \in FolderRow /\ Is(folder, d)
        /\ d # Top /\ d \in Parent
    BY <1>2, <1>6, FolderRowsAre, TreeAssumption DEF TInv, RInv, IsLive, Known, Is, Parent
  <2>3. folder[d].owner \in Users /\ folder[k].name \in Names
    BY <2>2, FolderFields
  <2>4. TreeOK(folder') /\ GuestsSafe
    BY <1>3, <1>6, <2>2, <2>3, InsertStep
  <2>5. request' = [request EXCEPT ![h] = r] /\ stuck' = stuck
    BY <1>6 DEF Continue, Begin
  <2>6. TInv'
    BY <1>3, <2>1, <2>4, <2>5, ChangeStep
  <2> QED BY <2>4, <2>6
<1> QED BY <1>4, <1>5, <1>6 DEF CopyDescend

LEMMA UpdateTree ==
  ASSUME TInv, NEW h \in Handlers, At(h, "update")
  PROVE  Busy(request[h]) /\ UpToDate(folder, request[h]) /\ Sound(folder, file, request[h])
BY DEF TInv, RInv, At, Busy, Restructuring

LEMMA RenameTree ==
  ASSUME TInv, NEW h \in Handlers, Rename(h)
  PROVE  TInv' /\ GuestsSafe
<1> DEFINE r == request[h]
           n == [r EXCEPT !.phase = "read"]
<1>1. At(h, "update")
  BY DEF Rename, InPhase
<1>2. Steps /\ SameTree(folder, folder') /\ stuck' = stuck
  BY RenameStep DEF TInv
<1>3. Busy(request[h])
  BY <1>1, UpdateTree
<1>4. CASE Finish(h)
  BY <1>2, <1>3, <1>4, KeepStep DEF Finish, End
<1>5. CASE Continue(h, n)
  <2>1. r \in UpdateRequest /\ UpToDate(folder, r) /\ Sound(folder, file, r)
    BY <1>1, UpdateIs, UpdateTree DEF TInv
  <2>2. /\ n \in UpdateRequest /\ n.kind = "update" /\ n.folder = r.folder
        /\ n.parent = r.parent /\ n.user = r.user /\ n.phase = "read" /\ r.kind = "update"
    BY <2>1 DEF UpdateRequest
  <2>3. request' = [request EXCEPT ![h] = n]
    BY <1>5 DEF Continue, Begin
  <2> HIDE DEF n
  <2>4. UpToDate(folder, n)
    BY <2>1, <2>2 DEF UpToDate
  <2>5. Sound(folder, file, n)
    BY <1>1, <2>2, UpdateIs, SoundUpdate DEF TInv, Is, Known
  <2>6. UpToDate(folder', n)
    BY <1>2, <2>4, <2>5, UpToDateStays
  <2> QED BY <1>2, <1>3, <2>3, <2>6, KeepStep
<1> QED BY <1>4, <1>5 DEF Rename, GiveUp

LEMMA MoveReadTree ==
  ASSUME TInv, NEW h \in Handlers, MoveRead(h)
  PROVE  TInv' /\ GuestsSafe
<1> DEFINE r == request[h]
           root == IF r.parent = Top THEN r.folder ELSE folder[r.parent].root
           n == [r EXCEPT !.phase = "write", !.root = root]
<1>1. At(h, "update")
  BY DEF MoveRead, InPhase
<1>2. Steps /\ UNCHANGED rows /\ stuck' = stuck
  BY MoveReadStep DEF TInv
<1>3. Busy(request[h])
  BY <1>1, UpdateTree
<1>4. SameTree(folder, folder') /\ folder' = folder
  BY <1>2, SameRows DEF TInv, RInv, rows
<1>5. CASE Finish(h)
  BY <1>2, <1>3, <1>4, <1>5, KeepStep DEF Finish, End
<1>6. CASE Continue(h, n)
  <2>1. r \in UpdateRequest /\ UpToDate(folder, r)
    BY <1>1, UpdateIs, UpdateTree DEF TInv
  <2>2. /\ n.kind = "update" /\ n.folder = r.folder /\ n.parent = r.parent
        /\ n.user = r.user /\ n.root = root /\ r.kind = "update"
    BY <2>1 DEF UpdateRequest
  <2>3. request' = [request EXCEPT ![h] = n]
    BY <1>6 DEF Continue, Begin
  <2> HIDE DEF n
  <2>4. UpToDate(folder, n)
    BY <2>1, <2>2 DEF UpToDate
  <2> QED BY <1>2, <1>3, <1>4, <2>3, <2>4, KeepStep
<1> QED BY <1>5, <1>6 DEF MoveRead, GiveUp

LEMMA MoveWriteTree ==
  ASSUME TInv, NEW h \in Handlers, MoveWrite(h)
  PROVE  TInv' /\ GuestsSafe
<1> DEFINE r == request[h]
           f == r.folder
           p == r.parent
<1>1. At(h, "update") /\ r.phase = "write"
  BY DEF MoveWrite, InPhase
<1>2. Steps
  BY MoveWriteStep DEF TInv
<1>3. /\ Busy(r) /\ r.kind = "update" /\ p \notin Below(folder, f)
      /\ p # Top => folder[p].owner = folder[f].owner
      /\ r.root = IF p = Top THEN f ELSE folder[p].root
      /\ folder[f].owner # r.user => folder[f].parent # Top /\ p # Top
  BY <1>1, UpdateTree DEF UpToDate, At
<1>4. /\ f \in Folders /\ Known(f) /\ p \in Parent /\ (p # Top => Is(folder, p))
      /\ r.root \in Folders
  BY <1>1, UpdateIs DEF TInv
<1>5. CASE GiveUp(h)
  BY <1>5, GiveUpStep, PlainStep DEF TInv
<1>6. CASE Moved(f, p, r.root) /\ UNCHANGED <<file, share>> /\ Finish(h)
  <2>1. /\ folder'[f].parent = p
        /\ \A g \in Folders : /\ folder'[g] # NoRow <=> folder[g] # NoRow
                              /\ g \notin Subtree(f) => folder'[g] = folder[g]
                              /\ g # f /\ Known(g) => folder'[g].parent = folder[g].parent
                              /\ g \in Subtree(f) => folder'[g].root = r.root
    BY <1>4, <1>6, MovedRows DEF TInv, RInv
  <2>2. \A g \in KnownIn(folder) : folder'[g].owner = folder[g].owner
    BY <1>2 DEF Steps, FoldersGrow, KnownIn
  <2>3. KnownIn(folder') = KnownIn(folder) /\ f \in KnownIn(folder)
    BY <1>4, <2>1 DEF KnownIn, Known
  <2>a. Below(folder, f) \subseteq Folders /\ KnownIn(folder) \subseteq Folders
    BY DEF Below, KnownIn
  <2>b. IF p = Top THEN r.root = f
        ELSE /\ p \in KnownIn(folder) /\ folder[p].owner = folder[f].owner
             /\ r.root = folder[p].root
    BY <1>3, <1>4 DEF KnownIn, Is
  <2>c. /\ \A g \in KnownIn(folder) : g \notin Below(folder, f) => folder'[g] = folder[g]
        /\ \A g \in KnownIn(folder) : g # f => folder'[g].parent = folder[g].parent
        /\ \A g \in Below(folder, f) : folder'[g].root = r.root
    BY <2>1, <2>a, BelowIs DEF KnownIn, Known
  <2>d. TreeOK(folder)
    BY DEF TInv
  <2>4. TreeOK(folder')
    <3> DEFINE F == folder
               G == folder'
               root == r.root
    <3>1. /\ TreeOK(F) /\ f \in KnownIn(F) /\ p \in Parent /\ p \notin Below(F, f)
          /\ IF p = Top THEN root = f
             ELSE p \in KnownIn(F) /\ F[p].owner = F[f].owner /\ root = F[p].root
          /\ KnownIn(G) = KnownIn(F) /\ \A g \in KnownIn(F) : G[g].owner = F[g].owner
          /\ \A g \in KnownIn(F) : g \notin Below(F, f) => G[g] = F[g]
          /\ \A g \in KnownIn(F) : g # f => G[g].parent = F[g].parent
          /\ \A g \in Below(F, f) : G[g].root = root
          /\ G[f].parent = p
      BY <1>3, <1>4, <2>1, <2>2, <2>3, <2>b, <2>c, <2>d
    <3> HIDE DEF F, G, root, r, f, p
    <3>2. TreeOK(G)
      BY <3>1, MovedTree
    <3> QED BY <3>2 DEF G
  <2>5. request' = [request EXCEPT ![h] = Idle] /\ stuck' = stuck
    BY <1>6 DEF Finish, End
  <2>6. TInv'
    BY <1>2, <1>3, <2>4, <2>5, ChangeStep
  <2>7. \A k \in Handlers : request'[k] # request[k] => k = h
    BY <2>5, Goes DEF TInv
  <2>8. GuestsSafe
    BY <1>3, <2>1, <2>7 DEF GuestsSafe
  <2> QED BY <2>6, <2>8
<1>7. p \notin Subtree(f)
  BY <1>3, BelowIs
<1> QED BY <1>5, <1>6, <1>7 DEF MoveWrite

LEMMA RestructureTree ==
  ASSUME TInv, OneRestructures, Restructures
  PROVE  TInv' /\ GuestsSafe
<1>1. ASSUME NEW h \in FreeHandlers, NEW u \in Users, NEW p \in Parent, NEW n \in Names,
             \/ EnsureBegin(h, u, p, n) \/ Mkcol(h, u, p, n)
             \/ \E f \in Folders : UpdateBegin(h, u, f, p, n)
             \/ \E f \in Folders, overwrite \in BOOLEAN :
                  MoveFolder(h, u, f, p, n, overwrite) \/ CopyBegin(h, u, f, p, n, overwrite)
      PROVE  TInv' /\ GuestsSafe
  BY <1>1, EnsureBeginTree, UpdateBeginTree, MoveFolderTree, CopyBeginTree
<1>2. ASSUME NEW h \in Handlers, NEW f \in Folders,
             EnsureInsert(h, f) \/ CopyCreate(h, f) \/ \E k \in Folders : CopyDescend(h, k, f)
      PROVE  TInv' /\ GuestsSafe
  BY <1>2, EnsureInsertTree, CopyCreateTree, CopyDescendTree
<1>3. ASSUME NEW h \in Handlers,
             \/ Rename(h) \/ MoveRead(h) \/ MoveWrite(h) \/ CopyList(h) \/ CopyReturn(h)
             \/ \E x \in Files, n \in Names, c \in Contents : CopyOne(h, n, c, x)
      PROVE  TInv' /\ GuestsSafe
  BY <1>3, RenameTree, MoveReadTree, MoveWriteTree, CopyListTree, CopyReturnTree, CopyOneTree
<1> QED BY <1>1, <1>2, <1>3 DEF Restructures

LEMMA NextTree == OneRestructures /\ TInv /\ [Next]_vars => TInv' /\ GuestsSafe
<1> SUFFICES ASSUME OneRestructures, TInv, [Next]_vars PROVE TInv' /\ GuestsSafe
  OBVIOUS
<1>1. CASE Steps /\ Plain
  BY <1>1, PlainStep
<1>2. CASE Restructures
  BY <1>2, RestructureTree
<1> QED BY <1>1, <1>2, TreeStep, DavStep, StutterStep DEF Next, TInv

LEMMA InitTree == Init => TInv
<1> SUFFICES ASSUME Init PROVE TInv
  OBVIOUS
<1>1. RInv /\ ~stuck
  BY InitRows DEF Init
<1>2. TreeOK(folder)
  <2> DEFINE F == StartFolders
  <2>1. F \in FolderRows
    BY StartAssumption DEF FolderRows
  <2>2. \A f \in KnownIn(F) : f \in Folders /\ F[f].parent \in Parent
    BY <2>1, FolderRowsAre, FolderFields DEF KnownIn
  <2>3. \A f \in KnownIn(F) :
          LET p == F[f].parent IN
          IF p = Top THEN F[f].root = f
          ELSE F[p] # NoRow /\ F[f].owner = F[p].owner /\ F[f].root = F[p].root
    BY StartAssumption DEF KnownIn
  <2>4. \A S \in SUBSET KnownIn(F) : S # {} => \E f \in S : F[f].parent \notin S
    BY StartAssumption DEF KnownIn
  <2>5. folder = F
    BY DEF Init
  <2> HIDE DEF F
  <2> QED BY <2>2, <2>3, <2>4, <2>5 DEF TreeOK, KnownIn, Parent
<1>3. \A h \in Handlers : request[h] = Idle
  BY DEF Init
<1> QED BY <1>1, <1>2, <1>3 DEF TInv, Busy

LEMMA TreeHolds ==
  ASSUME OneRestructures
  PROVE  Spec => []TInv
<1>1. TInv /\ [Next]_vars => TInv'
  BY NextTree
<1> QED BY <1>1, InitTree, PTL DEF Spec

\* TreeSound of module DavFiles: one owner and one root per tree, listings without a
\* gap, and paths that grant what the rows grant, as long as one request at a time
\* creates, moves or renames folders.
THEOREM TreeIsSound ==
  ASSUME OneRestructures
  PROVE  Spec => []TreeSound
<1>1. TInv => RowsOK /\ ListingComplete
  BY DEF TInv, RInv, RowsOK, FolderRows, FileRows, ShareRows, ListingComplete, At, Sound,
         ListsAll, FilesIn, LiveFile
<1>2. TInv => OwnerInherited /\ RootInherited
  BY DEF TInv, TreeOK, KnownIn, OwnerInherited, RootInherited, Known
<1>3. TInv => PathsGrantTheSame
  BY PathsGrant DEF TInv, PathsGrantTheSame
<1>4. TInv => TreeSound
  BY <1>1, <1>2, <1>3 DEF TreeSound
<1> QED BY <1>4, TreeHolds, PTL

\* MovesEnd of module FolderTree: no move brings about a cycle, on the same terms.
THEOREM NoCycles ==
  ASSUME OneRestructures
  PROVE  Spec => []MovesEnd
<1>1. TInv => MovesEnd
  BY DEF TInv, MovesEnd
<1> QED BY <1>1, TreeHolds, PTL

\* WritesSafe of module DavFiles, all of it: to what WritesKeep says, that a guest
\* takes no folder out of what is shared with it, on the same terms.
THEOREM WritesAreSafe ==
  ASSUME OneRestructures
  PROVE  Spec => WritesSafe
<1>1. GuestsSafe =>
        [\A h \in Handlers, f \in Folders :
           /\ At(h, "update") /\ Known(f) /\ folder'[f].parent # folder[f].parent
           /\ request[h].folder = f /\ request'[h] # request[h]
           /\ folder[f].owner # request[h].user
           => folder[f].parent # Top /\ folder'[f].parent # Top]_vars
  BY DEF GuestsSafe
<1>2. TInv /\ [Next]_vars => GuestsSafe
  BY NextTree
<1>3. Spec => GuestsMoveWithin
  BY <1>1, <1>2, TreeHolds, PTL DEF Spec, GuestsMoveWithin
<1> QED BY <1>3, WritesKeep DEF WritesSafe
=============================================================================
