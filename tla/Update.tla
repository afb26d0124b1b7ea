------------------------------- MODULE Update -------------------------------
(* Installing a release (internal/update/install.go, manager.go), the start *)
(* of a freshly installed binary (cli.go) and the way back.                 *)
(*                                                                          *)
(* Everything that outlives a process is a variable of its own: the binary  *)
(* the service runs, the one kept beside it, the database, the wired state  *)
(* and update/state.json.  Each write to one of them is a step, and between *)
(* any two the serving process may die.  Four actors write: "start", what   *)
(* runs between the service manager's start and the opening of the data     *)
(* (Guard, then Boot); "watch", watchUpdate of a started server; "install", *)
(* the manager's goroutine; "hand", `nubilo update rollback`.  Each reads   *)
(* state.json once and writes it later, so each has a copy of its own.      *)
(*                                                                          *)
(* A binary is its version; the schema a version brings the database to is  *)
(* Schema.  Update backups are kept as long as a state refers to them, and  *)
(* the binary in them is not needed while .prev is there (it always is once *)
(* a state names a backup).                                                 *)
EXTENDS Naturals

CONSTANTS
  Versions,      \* the releases, numbered from 1; the server starts as 1
  Schema,        \* Schema[v]: the schema version v migrates the database to
  MaxAttempts,   \* maxAttempts
  Failing,       \* the steps that may return an error (a full disk, say)
  CutPairs,      \* may a start or a death fall between two writes that
                 \* belong together (see Whole)?
  OneAtATime,    \* is nothing started while an install or a rollback runs?
  MaxWrites,     \* writes of data
  MaxHands,      \* rollbacks by hand
  MaxFaults,     \* errors of a rollback, deaths of a process not being tried
  None

ASSUME VersionsAssumption ==
  /\ Versions \subseteq Nat /\ 1 \in Versions
  /\ Schema \in [Versions -> Nat]
  /\ \A v, w \in Versions : v <= w => Schema[v] <= Schema[w]
ASSUME BoundsAssumption ==
  /\ {MaxAttempts, MaxWrites, MaxHands, MaxFaults} \subseteq Nat
  /\ CutPairs \in BOOLEAN /\ OneAtATime \in BOOLEAN

VARIABLES
  exe,       \* the binary at the path the service runs
  prev,      \* <exe>.prev, or None
  db,        \* metadata.db: its schema and how many writes it holds
  wired,     \* the version that wrote the wired state last
  file,      \* update/state.json, or None
  late,      \* has the start deadline of the update in file passed?
  proc,      \* the service: what it is doing and which binary it runs
  at,        \* the next step of each actor
  has,       \* the state each actor has read
  spent      \* rollbacks by hand and faults so far

vars == <<exe, prev, db, wired, file, late, proc, at, has, spent>>
disk == <<exe, prev, db, wired, file, late>>

Actors == {"start", "watch", "install", "hand"}
Inside == {"start", "watch", "install"}   \* part of the service's process
Steps == {"idle", "load", "copy", "save", "db", "wired", "record", "healthy",
          "done", "preflight", "backup", "prev", "note", "swap", "exit"}
InProgress == {"restarting", "verifying"}
Phases == InProgress \cup {"rollback", "done", "rolled_back", "failed"}

Database == [schema: Nat, writes: 0..MaxWrites]
Backup == [db: Database, wired: Versions]
State == [phase: Phases, from: Versions, to: Versions,
          attempts: 0..MaxAttempts, backup: Backup \cup {None}]

ASSUME SentinelAssumption == None \notin Versions \cup Backup \cup State

\* The phase recorded, "none" without a state file.
Phase == IF file = None THEN "none" ELSE file.phase
InTrial == Phase \in InProgress
\* An update has not ended.
Pending == InTrial \/ Phase = "rollback"
\* The binary that runs is the one being tried.
Tried == InTrial /\ proc.ver = file.to

TypeOK ==
  /\ exe \in Versions /\ prev \in Versions \cup {None}
  /\ db \in Database /\ wired \in Versions
  /\ file \in State \cup {None} /\ late \in BOOLEAN
  /\ proc \in [pc: {"down", "guard", "boot", "open", "serve"}, ver: Versions]
  /\ at \in [Actors -> Steps]
  /\ has \in [Actors -> State \cup {None}]
  /\ spent \in [hands: 0..MaxHands, faults: 0..MaxFaults]

Init ==
  /\ exe = 1 /\ prev = None /\ wired = 1 /\ file = None /\ late = FALSE
  /\ db = [schema |-> Schema[1], writes |-> 0]
  /\ proc = [pc |-> "down", ver |-> 1]
  /\ at = [a \in Actors |-> "idle"]
  /\ has = [a \in Actors |-> None]
  /\ spent = [hands |-> 0, faults |-> 0]

-----------------------------------------------------------------------------
(* Moving an actor on. *)

Goes(a, step) == at' = [at EXCEPT ![a] = step]
Reads(a, st) == has' = [has EXCEPT ![a] = st]

\* The process ends and takes its actors along; "hand" is another process.
Ends(others) ==
  /\ proc' = [proc EXCEPT !.pc = "down"]
  /\ at' = [a \in Actors |-> IF a \in Inside \cup others THEN "idle" ELSE at[a]]
  /\ has' = [a \in Actors |-> IF a \in Inside \cup others THEN None ELSE has[a]]

\* Two pairs of writes belong together: the binary and the request to restore
\* the data (Rollback), and .prev and the state that names it (Install).  No
\* actor stands between the two, and no rollback by hand is under way.
Whole ==
  \/ CutPairs
  \/ /\ \A a \in Actors : at[a] \notin {"save", "note"}
     /\ at["hand"] # "copy"

\* The data may be opened; Open migrates it.
OpensData ==
  /\ proc' = [proc EXCEPT !.pc = "open"] /\ Goes("start", "idle")

\* After the guard the service manager runs the binary, whatever the guard
\* returned ("ExecStartPre=-").
RunsBinary ==
  /\ proc' = [pc |-> "boot", ver |-> exe] /\ Goes("start", "load")

-----------------------------------------------------------------------------
(* The service manager and the start. *)

Start ==
  /\ proc.pc = "down"
  /\ proc' = [pc |-> IF prev = None THEN "boot" ELSE "guard", ver |-> exe]
  /\ Goes("start", "load")
  /\ UNCHANGED <<disk, has, spent>>

\* A slip: the deadline is left to the binary's own count.
Overdue_CountOnly == InTrial /\ file.attempts > MaxAttempts

Overdue == InTrial /\ (late \/ file.attempts > MaxAttempts)

\* Guard, run from .prev before each start.
GuardLoad ==
  /\ proc.pc = "guard" /\ at["start"] = "load" /\ Whole
  /\ Reads("start", file)
  /\ \/ /\ Phase = "rollback"
        /\ Goes("start", "db") /\ UNCHANGED proc
     \/ /\ Overdue
        /\ Goes("start", "copy") /\ UNCHANGED proc
     \/ /\ Phase # "rollback" /\ ~Overdue
        /\ RunsBinary
  /\ UNCHANGED <<disk, spent>>

\* A slip: the starts are counted and never compared.

\* Boot, run by the binary itself before it opens the data.
BootLoad ==
  /\ proc.pc = "boot" /\ at["start"] = "load" /\ Whole
  /\ Reads("start", file)
  /\ \/ /\ Phase = "rollback"
        /\ Goes("start", "db") /\ UNCHANGED <<proc, file>>
     \/ /\ InTrial /\ proc.ver # file.to
        /\ file' = [file EXCEPT !.phase = "rolled_back"]
        /\ OpensData
     \/ /\ Tried
        /\ file.attempts + 1 > MaxAttempts
        /\ Goes("start", "copy") /\ UNCHANGED <<proc, file>>
     \/ /\ Tried
        /\ file.attempts + 1 <= MaxAttempts
        /\ file' = [file EXCEPT !.phase = "verifying", !.attempts = @ + 1]
        /\ OpensData
     \/ /\ Phase \in {"none", "done", "rolled_back", "failed"}
        /\ OpensData /\ UNCHANGED file
  /\ UNCHANGED <<exe, prev, db, wired, late, spent>>

-----------------------------------------------------------------------------
(* Rollback: the binary, then the state that asks for the data. *)

\* What each caller does once Rollback or restoreData returned without error:
\* the guard restores the data at once, Boot and watchUpdate exit with
\* exitRestart, the command restarts the service.
RollbackCopy(a) ==
  /\ at[a] = "copy" /\ prev # None
  /\ exe' = prev /\ Goes(a, "save")
  /\ UNCHANGED <<prev, db, wired, file, late, proc, has, spent>>

\* A slip: the update is recorded as rolled back with the binary alone.
RollbackSave_BinaryOnly(a) ==
  /\ at[a] = "save"
  /\ file' = [has[a] EXCEPT !.phase = "rolled_back"]
  /\ Goes(a, "exit")
  /\ UNCHANGED <<exe, prev, db, wired, late, proc, has, spent>>

RollbackSave(a) ==
  /\ at[a] = "save"
  /\ file' = [has[a] EXCEPT !.phase = "rollback"]
  /\ Reads(a, file')
  /\ Goes(a, IF a = "start" /\ proc.pc = "guard" THEN "db" ELSE "exit")
  /\ UNCHANGED <<exe, prev, db, wired, late, proc, spent>>

Exit(a) ==
  /\ at[a] = "exit" /\ Whole
  /\ Ends({a})
  /\ UNCHANGED <<disk, spent>>

(* restoreData, before the guard or Boot lets anything open the data. *)

\* A slip: the schema is not asked for.
RestoreDatabase_Always ==
  /\ at["start"] = "db"
  /\ db' = has["start"].backup.db
  /\ Goes("start", "wired")
  /\ UNCHANGED <<exe, prev, wired, file, late, proc, has, spent>>

RestoreDatabase ==
  /\ at["start"] = "db"
  /\ db' = IF db.schema # has["start"].backup.db.schema
             THEN has["start"].backup.db ELSE db
  /\ Goes("start", "wired")
  /\ UNCHANGED <<exe, prev, wired, file, late, proc, has, spent>>

RestoreWired ==
  /\ at["start"] = "wired"
  /\ wired' = has["start"].backup.wired /\ Goes("start", "record")
  /\ UNCHANGED <<exe, prev, db, file, late, proc, has, spent>>

RestoreRecord ==
  /\ at["start"] = "record"
  /\ file' = [has["start"] EXCEPT !.phase = "rolled_back"]
  /\ IF proc.pc = "guard" THEN RunsBinary ELSE OpensData
  /\ UNCHANGED <<exe, prev, db, wired, late, has, spent>>

\* An error in any of these is reported, and what called it goes on: the
\* start opens the data, the server serves on.
Fails(a) ==
  /\ at[a] \in Failing \cap {"copy", "save", "db", "wired", "record"}
  /\ spent.faults < MaxFaults /\ spent' = [spent EXCEPT !.faults = @ + 1]
  /\ IF a # "start" THEN Goes(a, "idle") /\ UNCHANGED proc
     ELSE IF proc.pc = "guard" THEN RunsBinary ELSE OpensData
  /\ UNCHANGED <<disk, has>>

-----------------------------------------------------------------------------
(* The server. *)

\* app.Open: one migration per transaction, each of them kept if the process
\* dies; a schema newer than the binary's is opened as it is.  Then the
\* overlay writes its state, and watchUpdate is started.
Open ==
  /\ proc.pc = "open"
  /\ IF db.schema < Schema[proc.ver]
       THEN /\ db' = [db EXCEPT !.schema = @ + 1]
            /\ UNCHANGED <<wired, proc, at, has>>
       ELSE /\ proc' = [proc EXCEPT !.pc = "serve"] /\ wired' = proc.ver
            /\ IF Phase = "verifying" /\ Tried
                 THEN Goes("watch", "load") ELSE UNCHANGED at
            /\ UNCHANGED <<db, has>>
  /\ UNCHANGED <<exe, prev, file, late, spent>>

WriteData ==
  /\ proc.pc = "serve" /\ db.writes < MaxWrites
  /\ db' = [db EXCEPT !.writes = @ + 1]
  /\ UNCHANGED <<exe, prev, wired, file, late, proc, at, has, spent>>

\* watchUpdate: the server reported healthy in time (Healthy) or did not
\* (Rollback).
WatchLoad ==
  /\ at["watch"] = "load" /\ Whole
  /\ Reads("watch", file)
  /\ \/ /\ Phase = "verifying" /\ Tried /\ Goes("watch", "healthy")
     \/ /\ ~(Phase = "verifying" /\ Tried) /\ Goes("watch", "idle")
     \/ /\ file.backup # None /\ Goes("watch", "copy")
     \/ /\ file.backup = None /\ Goes("watch", "idle")
  /\ UNCHANGED <<disk, proc, spent>>

Healthy ==
  /\ at["watch"] = "healthy"
  /\ file' = [has["watch"] EXCEPT !.phase = "done"]
  /\ Goes("watch", "idle")
  /\ UNCHANGED <<exe, prev, db, wired, late, proc, has, spent>>

-----------------------------------------------------------------------------
(* Install, in the background of a serving server. *)

Released(v) ==
  [phase |-> "failed", from |-> proc.ver, to |-> v, attempts |-> 0,
   backup |-> None]

\* StartInstall: nothing asks how an earlier update stands.
StartInstall(v) ==
  /\ proc.pc = "serve" /\ at["install"] = "idle" /\ v > proc.ver
  /\ OneAtATime => ~Pending /\ at["hand"] = "idle"
  /\ Goes("install", "preflight") /\ Reads("install", Released(v))
  /\ UNCHANGED <<disk, proc, spent>>

Preflight ==
  /\ at["install"] = "preflight" /\ Goes("install", "backup")
  /\ UNCHANGED <<disk, proc, has, spent>>

BackUp ==
  /\ at["install"] = "backup"
  /\ Reads("install", [has["install"] EXCEPT
                         !.backup = [db |-> db, wired |-> wired]])
  /\ Goes("install", "prev")
  /\ UNCHANGED <<disk, proc, spent>>

\* A slip: a .prev that is there already is kept.

KeepPrevious ==
  /\ at["install"] = "prev"
  /\ prev' = exe /\ Goes("install", "note")
  /\ UNCHANGED <<exe, db, wired, file, late, proc, has, spent>>

Note ==
  /\ at["install"] = "note"
  /\ file' = [has["install"] EXCEPT !.phase = "restarting"]
  /\ late' = FALSE /\ Goes("install", "swap")
  /\ UNCHANGED <<exe, prev, db, wired, proc, has, spent>>

Swap ==
  /\ at["install"] = "swap"
  /\ exe' = has["install"].to /\ Goes("install", "exit")
  /\ UNCHANGED <<prev, db, wired, file, late, proc, has, spent>>

\* A step fails: what is recorded names no backup, except after Note or when
\* this release's failure is recorded already.
Refused == Phase = "failed" /\ file.to = has["install"].to

InstallFails ==
  /\ at["install"] \in Failing \cap {"preflight", "backup", "prev", "note", "swap"}
  /\ file' = CASE at["install"] = "swap" -> has["install"]
               [] at["install"] # "swap" /\ Refused -> file
               [] OTHER -> [has["install"] EXCEPT !.backup = None]
  /\ Goes("install", "idle")
  /\ UNCHANGED <<exe, prev, db, wired, late, proc, has, spent>>

-----------------------------------------------------------------------------
(* The operator, time and failures. *)

\* `nubilo update rollback`; a state that names no binary is refused.
RollbackByHand ==
  /\ at["hand"] = "idle" /\ spent.hands < MaxHands
  /\ file # None /\ file.backup # None
  /\ OneAtATime => /\ proc.pc = "serve" /\ at["install"] = "idle"
                   /\ at["watch"] \in {"idle", "load"}
  /\ Goes("hand", "copy") /\ Reads("hand", file)
  /\ spent' = [spent EXCEPT !.hands = @ + 1]
  /\ UNCHANGED <<disk, proc>>

\* startDeadline passes.
Lateness ==
  /\ InTrial /\ ~late
  /\ late' = TRUE
  /\ UNCHANGED <<exe, prev, db, wired, file, proc, at, has, spent>>

\* A binary that is being tried may die again and again; any other process
\* does so MaxFaults times.

Die ==
  /\ proc.pc # "down" /\ Whole
  /\ \/ /\ Tried /\ proc.pc # "guard" /\ UNCHANGED spent
     \/ /\ ~(Tried /\ proc.pc # "guard") /\ spent.faults < MaxFaults
        /\ spent' = [spent EXCEPT !.faults = @ + 1]
  /\ Ends({})
  /\ UNCHANGED disk

Next ==
  \/ Start \/ GuardLoad \/ BootLoad
  \/ RestoreDatabase \/ RestoreWired \/ RestoreRecord
  \/ \E a \in Actors : RollbackCopy(a) \/ RollbackSave(a) \/ Exit(a) \/ Fails(a)
  \/ Open \/ WriteData \/ WatchLoad \/ Healthy
  \/ \E v \in Versions : StartInstall(v)
  \/ Preflight \/ BackUp \/ KeepPrevious \/ Note \/ Swap \/ InstallFails
  \/ RollbackByHand \/ Lateness \/ Die

\* The service manager starts the service whenever it is down; a process
\* that runs goes on; the deadline passes.  Nobody has to install, write or
\* roll back by hand.
Fairness ==
  /\ WF_vars(Start) /\ WF_vars(GuardLoad) /\ WF_vars(BootLoad)
  /\ WF_vars(RestoreDatabase) /\ WF_vars(RestoreWired) /\ WF_vars(RestoreRecord)
  /\ \A a \in Actors :
       WF_vars(RollbackCopy(a)) /\ WF_vars(RollbackSave(a)) /\ WF_vars(Exit(a))
  /\ WF_vars(Open) /\ WF_vars(WatchLoad) /\ WF_vars(Healthy)
  /\ WF_vars(Lateness)
  /\ WF_vars(Preflight) /\ WF_vars(BackUp) /\ WF_vars(KeepPrevious)
  /\ WF_vars(Note) /\ WF_vars(Swap)

Spec == Init /\ [][Next]_vars /\ Fairness

-----------------------------------------------------------------------------
(* Properties. *)

\* The data is never open in a binary that is older than what wrote it: a
\* rollback that put the previous binary back has put its data back before
\* ("before the restored binary opens them", install.go).
OldOpensOnlyOld ==
  proc.pc \in {"open", "serve"} =>
    db.schema <= Schema[proc.ver] /\ wired <= proc.ver

\* An update that is recorded as rolled back left the previous binary.
RolledBackMeansOld ==
  Phase = "rolled_back" => exe = file.from

\* A rollback takes written data away only if the update changed the schema
\* ("otherwise newer data is kept", install.go).
SameSchemaKeepsWrites ==
  [][db'.writes < db.writes => Schema[file.from] # Schema[file.to]]_vars

\* A trial ends: the new binary is confirmed or the way back begun, however
\* often the new binary dies, and where.
TrialEnds == InTrial ~> ~InTrial

\* At any time of an update: the old binary has the old data.
RollbackSound == TypeOK /\ OldOpensOnlyOld /\ RolledBackMeansOld
=============================================================================
