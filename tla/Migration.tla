----------------------------- MODULE Migration -----------------------------
(***************************************************************************)
(* How a database of an earlier release is brought to the present schema:  *)
(* internal/store/migrate.go, and Open and WithWrite of store.go.  Every   *)
(* program that opens the data migrates it, the server as well as a        *)
(* command beside it; each reads the version once, then makes each         *)
(* migration in a transaction that ends by recording its version.          *)
(*                                                                         *)
(* All collections are of one kind.  A duplicate is renamed to its name    *)
(* with the end of its id, a name nothing else has.  Sizes count in units: *)
(* an object's size and metadata are one unit, each further blob another.  *)
(*                                                                         *)
(* An operator Name_Slip is a wrong variant of the operator Name after it; *)
(* the specification uses none of them.                                    *)
(***************************************************************************)
EXTENDS Integers, FiniteSets, FiniteSetsExt

CONSTANTS
  Processes, \* that open the data
  Cols,      \* collections, numbered as they were made
  Old, New,  \* objects: of the old database, and pushed since
  Blobs,
  Owner,     \* the user who inherits everything
  MaxEnds,   \* bound: opens that fail, and deaths
  Null

ObjectRow == [blob : Blobs, extra : SUBSET Blobs, deleted : BOOLEAN, charged : Nat]

ASSUME MigrationAssumption ==
  /\ Cols \subseteq Nat \ {0} /\ IsFiniteSet(Blobs)
  /\ IsFiniteSet(Old \cup New) /\ Old \cap New = {}
  /\ Null \notin Nat \cup ObjectRow

VARIABLES
  applied, \* the versions in schema_meta
  users, cols, objects,
  refcount,\* [Blobs -> the count of its references]
  open,    \* [Processes -> Null, or the version it believes in]
  repeated,\* a migration was made twice (history)
  ends

migrationVars == <<applied, users, cols, objects, refcount, open, repeated, ends>>

Migrations == {2, 3, 4, 5, 6, 7}
Later(v) == {m \in Migrations : m > v}

-----------------------------------------------------------------------------
(* What the migrations do.                                                 *)

LiveObjects(os) == {o \in DOMAIN os : os[o] # Null /\ ~os[o].deleted}
Blobs_(obj) == {obj.blob} \cup obj.extra

\* Every collection gets a root: the topmost ancestor.  The collections at and above
\* one are the least set that holds it and every parent of its members.
Upward(S) == \A d \in S : cols[d].parent \in S \cup {Null}
Above(c) ==
  {d \in Cols : \A S \in SUBSET Cols : c \in S /\ Upward(S) => d \in S}
One(S) == CHOOSE d \in S : TRUE
RootOf(c) == One({d \in Above(c) : cols[d].parent = Null})

\* dedupeCollectionNames: of live siblings with one name the oldest keeps it.
Siblings(c, d) == cols[c].parent = cols[d].parent /\ cols[c].name = cols[d].name
Dup(c) ==
  ~cols[c].deleted
  /\ \E d \in Cols : ~cols[d].deleted /\ Siblings(c, d) /\ d < c

\* recountBlobRefs: by objects that are not deleted, metadata blobs included.
Recount_Contents ==
  [b \in Blobs |-> Cardinality({o \in LiveObjects(objects) : b = objects[o].blob})]
Referring(os, b) == {o \in LiveObjects(os) : b \in Blobs_(os[o])}
Recount == [b \in Blobs |-> Cardinality(Referring(objects, b))]

\* migrateV2; adoptSingleUserData fails when there is an owner already.
MigrateV2 ==
  /\ Owner \notin users
  /\ users' = users \cup {Owner}
  /\ cols' = [c \in Cols |->
       [parent |-> cols[c].parent, name |-> IF Dup(c) THEN c ELSE cols[c].name,
        deleted |-> cols[c].deleted, owner |-> Owner, root |-> RootOf(c)]]
  /\ refcount' = Recount
  /\ UNCHANGED objects

\* migrateV6 charges every object its size and metadata.
MigrateV6 ==
  /\ objects' = [o \in DOMAIN objects |->
       IF objects[o] = Null THEN Null ELSE [objects[o] EXCEPT !.charged = 1]]
  /\ UNCHANGED <<users, cols, refcount>>

\* migrateV3, V4, V5 and V7 add what is empty: columns, tables, indexes.
Up(v) ==
  CASE v = 2 -> MigrateV2
    [] v = 6 -> MigrateV6
    [] OTHER -> UNCHANGED <<users, cols, objects, refcount>>

-----------------------------------------------------------------------------
(* Open.                                                                   *)

Version == Max({1} \cup applied)

Opens(p) ==
  /\ open[p] = Null /\ open' = [open EXCEPT ![p] = Version]
  /\ UNCHANGED <<applied, users, cols, objects, refcount, repeated, ends>>

\* Migrate: the next one, in a transaction; nothing asks whether another program
\* has made it since the version was read.
Migrate(p) ==
  /\ open[p] # Null /\ Later(open[p]) # {}
  /\ LET v == Min(Later(open[p])) IN
     /\ Up(v) /\ applied' = applied \cup {v}
     /\ repeated' = (repeated \/ v \in applied)
     /\ open' = [open EXCEPT ![p] = v]
  /\ UNCHANGED ends

\* The database is busy, the disk is full, there is an owner already, or the
\* process dies: the transaction is undone, and the data is not opened.
Fails(p) ==
  /\ open[p] # Null /\ open' = [open EXCEPT ![p] = Null]
  /\ ends < MaxEnds /\ ends' = ends + 1
  /\ UNCHANGED <<applied, users, cols, objects, refcount, repeated>>

-----------------------------------------------------------------------------
(* What a program does with the data once it has opened it.                *)

IsOpen(p) == open[p] # Null /\ Later(open[p]) = {}

Push(p, o, b, extra) ==
  /\ IsOpen(p) /\ objects[o] = Null
  /\ objects' = [objects EXCEPT ![o] =
       [blob |-> b, extra |-> extra, deleted |-> FALSE, charged |-> 1 + Cardinality(extra)]]
  /\ refcount' = [x \in Blobs |-> IF x \in {b} \cup extra THEN refcount[x] + 1 ELSE refcount[x]]
  /\ UNCHANGED <<applied, users, cols, open, repeated, ends>>

-----------------------------------------------------------------------------
\* A database of schema 1: names were not unique (here all are 0), counts left out
\* metadata.  A collection was made after the one it is in.
OldTree(parent, deleted) ==
  [c \in Cols |-> [parent |-> parent[c], name |-> 0, deleted |-> deleted[c],
                   owner |-> Null, root |-> Null]]
OldObjects(b, extra, deleted) ==
  [o \in Old \cup New |-> IF o \in New THEN Null ELSE
     [blob |-> b, extra |-> extra, deleted |-> deleted, charged |-> 0]]

MigrationInit ==
  /\ applied = {} /\ users = {} /\ open = [p \in Processes |-> Null] /\ ends = 0 /\ repeated = FALSE
  /\ \E parent \in [Cols -> Cols \cup {Null}], deleted \in [Cols -> BOOLEAN] :
       /\ \A c \in Cols : parent[c] # Null => parent[c] < c
       /\ cols = OldTree(parent, deleted)
  /\ \E b \in Blobs, extra \in SUBSET Blobs, deleted \in BOOLEAN :
       /\ b \notin extra
       /\ objects = OldObjects(b, extra, deleted)
       /\ refcount = [x \in Blobs |-> IF x = b /\ ~deleted THEN Cardinality(Old) ELSE 0]

MigrationNext ==
  \E p \in Processes :
    \/ Opens(p) \/ Migrate(p) \/ Fails(p)
    \/ \E o \in New, b \in Blobs, extra \in SUBSET Blobs : b \notin extra /\ Push(p, o, b, extra)

MigrationSpec == MigrationInit /\ [][MigrationNext]_migrationVars

-----------------------------------------------------------------------------
(* Properties.                                                             *)

\* After the multi-user migration every collection is owned, by a user, and has
\* the root of its parent; no two live siblings have one name.
TreeMigrated ==
  2 \in applied =>
    \A c \in Cols :
      /\ cols[c].owner \in users
      /\ cols[c].root = IF cols[c].parent = Null THEN c ELSE cols[cols[c].parent].root
      /\ ~cols[c].deleted =>
           \A d \in Cols \ {c} : cols[d].deleted \/ ~Siblings(c, d)

\* The counts of blobs are exact from then on, and what is pushed stays charged in
\* full, unless two programs migrated at once: the second repeats what the first
\* has made, over what was written since (only the quota's charge suffers).
CountsMigrated ==
  /\ 2 \in applied => refcount = Recount
  /\ \A o \in New : objects[o] # Null /\ ~repeated =>
       objects[o].charged = 1 + Cardinality(objects[o].extra)

MigratedSound == TreeMigrated /\ CountsMigrated
=============================================================================
