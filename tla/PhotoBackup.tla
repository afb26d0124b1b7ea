---------------------------- MODULE PhotoBackup ----------------------------
(***************************************************************************)
(* The camera-roll backup of a phone (NubiloKit/PhotoBackup.swift) against *)
(* the library of a server (module Photos).                                *)
(*                                                                         *)
(* The engine is an actor: what it does up to the next await is one step,  *)
(* and at an await the callbacks of the uploader come in.  A pass takes    *)
(* one asset at a time (the code: batches of 25).  Counting attempts is    *)
(* left out: an error may be the last one, and then the row has failed.    *)
(* A content is <<asset, version>>.                                        *)
(***************************************************************************)
EXTENDS Photos

CONSTANTS
  Assets,     \* of the camera roll
  Phone,      \* the user of the phone
  MovieOf,    \* [Assets -> Movies \cup {None}]: the movie of a Live Photo
  NameOf,     \* [Assets -> Names]
  MaxVersion, MaxKills, MaxFaults, MaxTasks \* bounds: versions, ends of the app,
                                            \* lost answers, tasks and callbacks at once

\* What a pass is doing.
Passes ==
  [step : {"commit"}, todo : SUBSET Assets] \cup [step : {"loop"}]
  \cup [step : {"check"}, asset : Assets]

ASSUME PhoneAssumption ==
  /\ Phone \in People /\ MaxVersion \in Nat \ {0} /\ NameOf \in [Assets -> Names]
  /\ Assets \X (1..MaxVersion) \subseteq Originals /\ None \notin Originals \cup Passes

VARIABLES
  asset,    \* [Assets -> 1..MaxVersion]: the version in the camera roll
  row,      \* the engine's rows, as it has them in memory
  disk,     \* and as they were last saved
  uploads,  \* tasks of the background session: [asset, part, blob, try]
  finished, \* their callbacks under way, with ok
  pass,     \* what a pass is doing, or None
  waits,    \* commits whose answer the engine awaits: [req, asset, by]
  kills, faults,
  crossed   \* history: assets of which two commits were awaited at once, or an
            \* upload ended after the row had left "uploading"

phoneRows == <<row, disk>>
phoneVars == <<asset, row, disk, uploads, finished, pass, waits, kills, faults, crossed>>
backupVars == <<photoVars, phoneVars>>

NoRow == [state |-> "unknown", sha |-> None, modified |-> 0]
States == {"unknown", "pending", "uploading", "uploaded", "done", "failed"}

\* The rows become r, saved or not.
Saves(r) == row' = r /\ disk' = r
Notes(r) == row' = r /\ UNCHANGED disk
With(a, state) == [row EXCEPT ![a] = [row[a] EXCEPT !.state = state]]

Edit(a) ==
  /\ asset[a] < MaxVersion /\ asset' = [asset EXCEPT ![a] = @ + 1]
  /\ UNCHANGED <<photoVars, phoneRows, uploads, finished, pass, waits, kills, faults, crossed>>

\* scan: new assets, edited ones that are done, and failed ones are pending.
Scanned(a) ==
  LET r == row[a] IN
  IF r.state = "unknown" THEN [state |-> "pending", sha |-> None, modified |-> asset[a]]
  ELSE IF r.state = "done" /\ asset[a] > r.modified
       THEN [state |-> "pending", sha |-> r.sha, modified |-> asset[a]]
  ELSE IF r.state = "failed" THEN [r EXCEPT !.state = "pending"]
  ELSE r

\* A pass scans, commits what is uploaded, and then takes pending rows.
PassBegin ==
  /\ pass = None /\ Saves([a \in Assets |-> Scanned(a)])
  /\ pass' = [step |-> "commit", todo |-> {a \in Assets : row[a].state = "uploaded"}]
  /\ UNCHANGED <<photoVars, asset, uploads, finished, waits, kills, faults, crossed>>

InPass(step) == pass # None /\ pass.step = step

\* commit: refused at once where a blob is missing, else a request to the server.
CommitSent(a, by) ==
  LET c == row[a].sha
      can == CanCommit(Phone, c, MovieOf[a])
      late == by = "original" /\ row[a].state # "uploading"
      twice == can /\ \E w \in waits : w.asset = a
  IN
  /\ crossed' = IF late \/ twice THEN crossed \cup {a} ELSE crossed
  /\ IF can THEN \E k \in Requests :
                  /\ Unused(k) /\ Lookup(k, Phone, c, NameOf[a], None) /\ UNCHANGED <<rows, tile>>
                  /\ waits' = waits \cup {[req |-> k, asset |-> a, by |-> by]}
     ELSE UNCHANGED <<photoVars, waits>>
CommitState(a) ==
  IF CanCommit(Phone, row[a].sha, MovieOf[a]) THEN {row[a].state} ELSE {"uploaded", "failed"}

PassCommit(a) ==
  /\ InPass("commit") /\ a \in pass.todo
  /\ ~ \E w \in waits : w.by = "pass"
  /\ CommitSent(a, "pass") /\ \E s \in CommitState(a) : Notes(With(a, s))
  /\ pass' = [pass EXCEPT !.todo = @ \ {a}]
  /\ UNCHANGED <<asset, uploads, finished, kills, faults>>

PassLoop ==
  /\ InPass("commit") /\ pass.todo = {} /\ ~ \E w \in waits : w.by = "pass"
  /\ Saves(row) /\ pass' = [step |-> "loop"]
  /\ UNCHANGED <<photoVars, asset, uploads, finished, waits, kills, faults, crossed>>

PassExport(a) ==
  /\ InPass("loop") /\ row[a].state = "pending"
  /\ Notes([row EXCEPT ![a] = [row[a] EXCEPT !.sha = <<a, asset[a]>>]])
  /\ pass' = [step |-> "check", asset |-> a]
  /\ UNCHANGED <<photoVars, asset, uploads, finished, waits, kills, faults, crossed>>

PassExportFails(a) ==
  /\ InPass("loop") /\ row[a].state = "pending" /\ faults < MaxFaults /\ faults' = faults + 1
  /\ \E s \in {"pending", "failed"} : Notes(With(a, s))
  /\ UNCHANGED <<photoVars, asset, uploads, finished, pass, waits, kills, crossed>>

\* A task like no other of the session.
Task(a, part, blob) ==
  [asset |-> a, part |-> part, blob |-> blob,
   try |-> CHOOSE n \in 0..Cardinality(uploads \cup finished) : \A t \in uploads \cup finished :
             t.asset = a /\ t.part = part => t.try # n]

\* Missing: no photo of the library is of that blob, and none is of a movie's.
PassUpload ==
  /\ InPass("check")
  /\ LET a == pass.asset
         c == row[a].sha
     IN /\ Existing(Phone, c, None) = {} \/ MovieOf[a] # None
        /\ uploads' = uploads \cup {Task(a, "original", c)} \cup
             IF MovieOf[a] = None THEN {} ELSE {Task(a, "movie", MovieOf[a])}
        /\ Cardinality(uploads' \cup finished) <= MaxTasks
        /\ Saves(With(a, "uploading"))
  /\ pass' = [step |-> "loop"]
  /\ UNCHANGED <<photoVars, asset, finished, waits, kills, faults, crossed>>

PassCommitsAtOnce ==
  /\ InPass("check")
  /\ LET a == pass.asset IN
       /\ Existing(Phone, row[a].sha, None) # {} /\ MovieOf[a] = None
       /\ CommitSent(a, "pass") /\ \E s \in CommitState(a) : Notes(With(a, s))
  /\ pass' = [step |-> "commit", todo |-> {}]
  /\ UNCHANGED <<asset, uploads, finished, kills, faults>>

\* No row is pending, the time is over, or the check failed.
PassEnds ==
  /\ InPass("loop") \/ InPass("check")
  /\ Saves(row) /\ pass' = None
  /\ UNCHANGED <<photoVars, asset, uploads, finished, waits, kills, faults, crossed>>

-----------------------------------------------------------------------------
(* The background session and its callbacks.                               *)

UploadEnds(t, stored, ok) ==
  /\ t \in uploads /\ ok => stored
  /\ ~ok => faults < MaxFaults
  /\ faults' = IF ok THEN faults ELSE faults + 1
  /\ uploads' = uploads \ {t} /\ finished' = finished \cup {[asset |-> t.asset, part |-> t.part, try |-> t.try, ok |-> ok]}
  /\ held' = IF stored THEN held \cup {<<Phone, t.blob>>} ELSE held
  /\ UNCHANGED <<photo, req, begun, tile, asset, phoneRows, pass, waits, kills, crossed>>

\* uploadFinished: a movie alone completes nothing.
UploadFailed_Ignored(e) ==
  /\ e \in finished /\ ~e.ok /\ finished' = finished \ {e} /\ Saves(row)
  /\ UNCHANGED <<photoVars, asset, uploads, pass, waits, kills, faults, crossed>>
UploadFailed(e) ==
  /\ e \in finished /\ ~e.ok /\ finished' = finished \ {e}
  /\ \E s \in {"pending", "failed"} : Saves(With(e.asset, s))
  /\ UNCHANGED <<photoVars, asset, uploads, pass, waits, kills, faults, crossed>>

UploadFinished(e) ==
  LET a == e.asset IN
  /\ e \in finished /\ e.ok /\ finished' = finished \ {e}
  /\ IF e.part = "movie" /\ row[a].state # "uploaded"
     THEN UNCHANGED <<photoVars, phoneRows, waits, crossed>>
     ELSE /\ CommitSent(a, e.part)
          /\ \E s \in CommitState(a) : Saves(With(a, IF s = row[a].state THEN "uploaded" ELSE s))
  /\ UNCHANGED <<asset, uploads, pass, kills, faults>>

\* The answer of a commit reaches the engine.
CommitAnswered(w) ==
  /\ w \in waits /\ Doing(w.req, "answer") /\ waits' = waits \ {w}
  /\ IF req[w.req].photo # None THEN Notes(With(w.asset, "done"))
     ELSE \E s \in {"uploaded", "failed"} : Notes(With(w.asset, s))
  /\ Becomes(w.req, None)
  /\ UNCHANGED <<rows, tile, asset, uploads, finished, pass, kills, faults, crossed>>

\* It is lost, or takes too long; the server goes on.
CommitLost(w) ==
  /\ w \in waits /\ faults < MaxFaults /\ faults' = faults + 1 /\ waits' = waits \ {w}
  /\ \E s \in {"uploaded", "failed"} : Notes(With(w.asset, s))
  /\ UNCHANGED <<photoVars, asset, uploads, finished, pass, kills, crossed>>

AnswerUnheard(k) ==
  /\ ~ \E w \in waits : w.req = k
  /\ AnswerRead(k) /\ UNCHANGED phoneVars

\* The app ends: the session goes on, what was not saved is gone.
Kill ==
  /\ kills < MaxKills /\ kills' = kills + 1
  /\ row' = disk /\ pass' = None /\ waits' = {} /\ finished' = {}
  /\ UNCHANGED <<photoVars, asset, disk, uploads, faults, crossed>>

-----------------------------------------------------------------------------
BackupInit ==
  /\ PhotoInit
  /\ asset = [a \in Assets |-> 1]
  /\ row = [a \in Assets |-> NoRow] /\ disk = row
  /\ uploads = {} /\ finished = {} /\ pass = None /\ waits = {}
  /\ kills = 0 /\ faults = 0 /\ crossed = {}

BackupNext ==
  \/ ServerStep /\ UNCHANGED phoneVars
  \/ \E k \in Requests : AnswerUnheard(k)
  \/ \E a \in Assets : Edit(a) \/ PassCommit(a) \/ PassExport(a) \/ PassExportFails(a)
  \/ PassBegin \/ PassLoop \/ PassUpload \/ PassCommitsAtOnce \/ PassEnds \/ Kill
  \/ \E t \in uploads, stored, ok \in BOOLEAN : UploadEnds(t, stored, ok)
  \/ \E e \in finished : UploadFailed(e) \/ UploadFinished(e)
  \/ \E w \in waits : CommitAnswered(w) \/ CommitLost(w)

BackupSpec == BackupInit /\ [][BackupNext]_backupVars

-----------------------------------------------------------------------------
(* Properties.                                                             *)

RowsTyped ==
  \A a \in Assets : row[a].state \in States /\ row[a].modified <= asset[a]

\* A row that is done says of an asset that the version its last scan noted is
\* in the library.  Two commits of one asset awaited at once, or the callback of an
\* upload of an earlier round, may break that: the answer of the commit of the old
\* version comes after an edit was noted (PhotoBackup.swift:336).
DoneIsCurrent ==
  \A a \in Assets \ crossed :
    row[a].state = "done" =>
      \E i \in PhotoIds, v \in row[a].modified..MaxVersion :
        photo[i] # None /\ photo[i].place = Phone /\ photo[i].content = <<a, v>>

\* A row waits for an upload only while the session has it, or its callback is
\* under way; an end of the app loses callbacks, and then the row stays so.
UploadsAccounted ==
  \A a \in Assets : row[a].state = "uploading" /\ kills = 0 =>
    \E t \in uploads \cup finished : t.asset = a

\* The engine loses no photo: what is done is in the library, and what is
\* uploading has an upload.
BackupSound == RowsTyped /\ DoneIsCurrent /\ UploadsAccounted
=============================================================================
