----------------------------- MODULE MCClients -----------------------------
(* Instances for TLC, in one run: the walk over a collection's objects in    *)
(* SyncEngine, and four modules around the engine: Photos, PhotoBackup on    *)
(* top of it, Settings and Migration.  A behaviour steps in the one that     *)
(* `part' names.                                                             *)
EXTENDS MCSyncEngine, PhotoBackup, Settings, Migration

CONSTANTS p1, p2, p3, p4, al, al2, t1, t2, n1, n2, a1, m1

\* Photos: the library of u1 and two albums, into one of which a photo was added;
\* room for two photos more.
MCOriginals == {x, <<a1, 1>>, <<a1, 2>>}
MCDecodable == {<<a1, 2>>}
MCAlbumLevel == u1 :> (al :> 3 @@ al2 :> 3) @@ u2 :> (al :> 2 @@ al2 :> 0)
PhotoAt(place, from) ==
  [place |-> place, content |-> x, name |-> n1, thumb |-> None, from |-> from,
   live |-> TRUE, rev |-> 1]
MCStartPhotos == p1 :> PhotoAt(u1, None) @@ p2 :> PhotoAt(al2, p1) @@ p3 :> None @@ p4 :> None
MCStartHeld == {<<u1, x>>, <<u1, t1>>, <<u1, t2>>}

\* PhotoBackup: one photo with a movie, edited once; and the same without one.
MCMovieOf == a1 :> m1
MCNameOf == a1 :> n1
Still == INSTANCE PhotoBackup WITH MovieOf <- a1 :> None

\* Settings: two values of each, one or two archives to keep.
\* Migration: two programs that open a database of three collections and one object.

-----------------------------------------------------------------------------
VARIABLE part

\* Of what a part begins with, the others have one case.
ClientsInit ==
  /\ part \in {"tree", "library", "phone", "still", "settings", "migration"}
  /\ Init /\ BackupInit /\ SettingsInit /\ MigrationInit
  /\ part # "settings" => file.body.public = 0 /\ file.body.keep = 1
  /\ part # "migration" =>
       /\ \A c \in Cols : cols[c].parent = Null /\ ~cols[c].deleted
       /\ \A o \in Old : objects[o].blob = x /\ objects[o].extra = {} /\ ~objects[o].deleted

StepTree ==
  /\ part = "tree" /\ Next
  /\ UNCHANGED <<part, backupVars, settingsVars, migrationVars>>
StepLibrary ==
  /\ part = "library" /\ PhotoNext
  /\ UNCHANGED <<part, vars, phoneVars, settingsVars, migrationVars>>
StepPhone ==
  /\ \/ part = "phone" /\ BackupNext
     \/ part = "still" /\ Still!BackupNext
  /\ UNCHANGED <<part, vars, settingsVars, migrationVars>>
StepSettings ==
  /\ part = "settings" /\ SettingsNext
  /\ UNCHANGED <<part, vars, backupVars, migrationVars>>
StepMigration ==
  /\ part = "migration" /\ MigrationNext
  /\ UNCHANGED <<part, vars, backupVars, settingsVars>>

ClientsNext == StepTree \/ StepLibrary \/ StepPhone \/ StepSettings \/ StepMigration
ClientsSpec ==
  /\ ClientsInit
  /\ [][ClientsNext]_<<part, vars, backupVars, settingsVars, migrationVars>>

\* h1 and h2 are handlers, requests and programs; p3 and p4 the photos to be made.
SymmetricParts ==
  Permutations({h1, h2}) \cup Permutations({p3, p4}) \cup Permutations({t1, t2})
=============================================================================
