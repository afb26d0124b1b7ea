---------------------------- MODULE Update_proofs ----------------------------
(***************************************************************************)
(* Proofs about Update, for all releases, schemas, attempts and bounds: an *)
(* old binary never opens newer data, and writes are given up only for a   *)
(* change of schema.                                                       *)
(*                                                                         *)
(* As in the run, no start or death falls between two writes that belong   *)
(* together, updates and rollbacks by hand do not overlap, and no write of *)
(* a rollback but that of its record fails (any step of an install may).   *)
(***************************************************************************)
EXTENDS Update, TLAPS

InstalledInOrder ==
  /\ CutPairs = FALSE /\ OneAtATime = TRUE
  /\ Failing \cap {"save", "db", "wired"} = {}

-----------------------------------------------------------------------------
(* The invariant.                                                          *)

\* The database and the wired state are none that v cannot open.
DataFor(v) == db.schema <= Schema[v] /\ wired <= v

\* The state names a backup: it can be rolled back.
Named == file # None /\ file.backup # None

Saving == "save" \in {at["start"], at["watch"], at["hand"]}

\* What each actor does at which time of the service: "start" from the start to
\* the opening of the data, "watch" and "install" while it serves, and "install"
\* and "hand" alone.
ActorsInTurn ==
  /\ proc.pc = "down" => at["start"] = "idle"
  /\ proc.pc = "guard" => at["start"] \in {"load", "copy", "save", "db", "wired", "record"}
  /\ proc.pc = "boot" => at["start"] \in {"load", "copy", "save", "db", "wired", "record", "exit"}
  /\ proc.pc \in {"open", "serve"} => at["start"] = "idle"
  /\ proc.pc # "serve" => at["watch"] = "idle" /\ at["install"] = "idle"
  /\ at["watch"] \in {"idle", "load", "healthy", "copy", "save", "exit"}
  /\ at["hand"] \in {"idle", "copy", "save", "exit"}
  /\ at["install"] \in {"idle", "preflight", "backup", "prev", "note", "swap", "exit"}
  /\ at["watch"] # "idle" => Pending
  /\ at["install"] # "idle" => at["watch"] = "idle" /\ at["hand"] = "idle"
  /\ at["install"] \in {"preflight", "backup", "prev", "note"} => ~Pending
  /\ at["hand"] \in {"copy", "save"} => proc.pc = "serve" /\ at["watch"] \in {"idle", "load"}

\* What the actors have read is what the file says.
CopiesFresh ==
  /\ at["start"] \in {"copy", "save"} => Named /\ has["start"] = file
  /\ at["watch"] \in {"copy", "save"} => Named /\ has["watch"] = file
  /\ at["hand"] \in {"copy", "save"} => Named /\ has["hand"] = file
  /\ at["start"] \in {"db", "wired", "record"} =>
       Named /\ has["start"] = file /\ Phase = "rollback"
  /\ at["start"] = "copy" => InTrial
  /\ at["watch"] = "healthy" => Named /\ has["watch"] = file /\ Phase = "verifying"
  /\ at["install"] \in {"preflight", "backup", "prev", "note", "swap"} =>
       /\ has["install"] # None
       /\ has["install"].phase = "failed" /\ has["install"].from = proc.ver
       /\ has["install"].from < has["install"].to /\ exe = proc.ver
  /\ at["install"] \in {"prev", "note", "swap"} =>
       /\ has["install"].backup # None
       /\ has["install"].backup.db.schema = Schema[proc.ver]
       /\ has["install"].backup.wired <= proc.ver
  /\ at["install"] = "note" => prev = exe
  /\ at["install"] = "swap" => file = [has["install"] EXCEPT !.phase = "restarting"]

\* A state that names a backup is of two releases, of which .prev and the backup
\* are the first, and everything else one of the two.
BackupUsable ==
  /\ Pending \/ Phase = "rolled_back" => Named
  /\ Named =>
       /\ file.from < file.to
       /\ at["install"] # "note" => prev = file.from
       /\ exe \in {file.from, file.to}
       /\ file.backup.db.schema = Schema[file.from] /\ file.backup.wired <= file.from
       /\ Schema[file.from] <= db.schema /\ db.schema <= Schema[file.to]
       /\ file.phase \in {"rollback", "rolled_back", "failed"} \/ Saving => exe = file.from

\* The data fits the binary that has it open, and the one that will be started,
\* unless a rollback is still to restore it.
DataFits ==
  /\ proc.pc \in {"open", "serve"} => DataFor(proc.ver)
  /\ ~Saving /\ Phase # "rollback" => DataFor(exe)
  /\ proc.pc = "serve" => db.schema = Schema[proc.ver]
  /\ at["start"] \in {"wired", "record"} => db.schema = file.backup.db.schema
  /\ at["start"] = "record" => wired = file.backup.wired
  /\ proc.pc = "open" => proc.ver = exe
  /\ proc.pc = "boot" /\ at["start"] \in {"load", "copy", "db", "wired", "record"} =>
       proc.ver = exe
  /\ proc.pc = "serve" /\ Phase \notin {"restarting", "rollback"} /\ ~Saving => proc.ver = exe

IInv == TypeOK /\ ActorsInTurn /\ CopiesFresh /\ BackupUsable /\ DataFits

-----------------------------------------------------------------------------
(* What the model's helpers write, for each actor.                         *)

ActorTypes ==
  /\ at \in [Actors -> Steps] /\ has \in [Actors -> State \cup {None}]
  /\ proc \in [pc: {"down", "guard", "boot", "open", "serve"}, ver: Versions]
  /\ exe \in Versions

\* Goes moves one actor to its next step.
LEMMA GoesIs ==
  ASSUME ActorTypes, NEW a \in Actors, NEW step \in Steps, Goes(a, step)
  PROVE  /\ at' \in [Actors -> Steps]
         /\ at'["start"] = IF a = "start" THEN step ELSE at["start"]
         /\ at'["watch"] = IF a = "watch" THEN step ELSE at["watch"]
         /\ at'["install"] = IF a = "install" THEN step ELSE at["install"]
         /\ at'["hand"] = IF a = "hand" THEN step ELSE at["hand"]
BY DEF ActorTypes, Goes, Actors

\* Reads gives one actor a copy of the state.
LEMMA ReadsIs ==
  ASSUME ActorTypes, NEW a \in Actors, NEW st \in State \cup {None}, Reads(a, st)
  PROVE  /\ has' \in [Actors -> State \cup {None}]
         /\ has'["start"] = IF a = "start" THEN st ELSE has["start"]
         /\ has'["watch"] = IF a = "watch" THEN st ELSE has["watch"]
         /\ has'["install"] = IF a = "install" THEN st ELSE has["install"]
         /\ has'["hand"] = IF a = "hand" THEN st ELSE has["hand"]
BY DEF ActorTypes, Reads, Actors

\* Ends stops the process and every actor inside it.
LEMMA EndsIs ==
  ASSUME ActorTypes, NEW others \in SUBSET Actors, Ends(others)
  PROVE  /\ at' \in [Actors -> Steps] /\ has' \in [Actors -> State \cup {None}]
         /\ at'["start"] = "idle" /\ at'["watch"] = "idle" /\ at'["install"] = "idle"
         /\ at'["hand"] \in {"idle", at["hand"]}
         /\ "hand" \notin others => at'["hand"] = at["hand"]
         /\ proc' \in [pc: {"down", "guard", "boot", "open", "serve"}, ver: Versions]
         /\ proc'.pc = "down" /\ proc'.ver = proc.ver
<1>1. at' \in [Actors -> Steps]
  BY DEF ActorTypes, Ends, Actors, Inside, Steps
<1>2. has' \in [Actors -> State \cup {None}]
  BY DEF ActorTypes, Ends, Actors, Inside
<1> QED BY <1>1, <1>2 DEF ActorTypes, Ends, Actors, Inside

\* OpensData ends the start.
LEMMA OpensDataIs ==
  ASSUME ActorTypes, OpensData
  PROVE  /\ at' \in [Actors -> Steps] /\ at'["start"] = "idle"
         /\ at'["watch"] = at["watch"] /\ at'["install"] = at["install"]
         /\ at'["hand"] = at["hand"]
         /\ proc' \in [pc: {"down", "guard", "boot", "open", "serve"}, ver: Versions]
         /\ proc'.pc = "open" /\ proc'.ver = proc.ver
BY GoesIs DEF ActorTypes, OpensData, Actors, Steps

\* RunsBinary starts the binary at the path the service runs.
LEMMA RunsBinaryIs ==
  ASSUME ActorTypes, RunsBinary
  PROVE  /\ at' \in [Actors -> Steps] /\ at'["start"] = "load"
         /\ at'["watch"] = at["watch"] /\ at'["install"] = at["install"]
         /\ at'["hand"] = at["hand"]
         /\ proc' \in [pc: {"down", "guard", "boot", "open", "serve"}, ver: Versions]
         /\ proc'.pc = "boot" /\ proc'.ver = exe
BY GoesIs DEF ActorTypes, RunsBinary, Actors, Steps

\* A state's fields.
LEMMA StateIs ==
  ASSUME NEW st \in State
  PROVE  /\ st # None /\ st.from \in Versions /\ st.to \in Versions
         /\ st.attempts \in 0..MaxAttempts
         /\ st.phase \in Phases /\ st.backup \in Backup \cup {None}
BY SentinelAssumption DEF State

\* A state with another phase is a state.
LEMMA PhaseIs ==
  ASSUME NEW st \in State, NEW p \in Phases, NEW new, new = [st EXCEPT !.phase = p]
  PROVE  /\ new \in State /\ new # None /\ new.phase = p /\ new.from = st.from /\ new.to = st.to
         /\ new.backup = st.backup
BY SentinelAssumption DEF State

\* A state with one more attempt is a state.
LEMMA AttemptIs ==
  ASSUME NEW st \in State, NEW p \in Phases, st.attempts + 1 <= MaxAttempts, NEW new,
         new = [phase |-> p, from |-> st.from, to |-> st.to,
                attempts |-> st.attempts + 1, backup |-> st.backup]
  PROVE  /\ new \in State /\ new # None /\ new.phase = p /\ new.from = st.from /\ new.to = st.to
         /\ new.backup = st.backup
<1>1. st.attempts \in 0..MaxAttempts
  BY DEF State
<1>2. st.attempts + 1 \in 0..MaxAttempts
  BY <1>1, BoundsAssumption
<1> QED BY <1>2, SentinelAssumption DEF State

\* A state with a backup, or without, is a state.
LEMMA WithBackupIs ==
  ASSUME NEW st \in State, NEW b \in Backup \cup {None}, NEW new, new = [st EXCEPT !.backup = b]
  PROVE  /\ new \in State /\ new # None /\ new.phase = st.phase
         /\ new.from = st.from /\ new.to = st.to /\ new.backup = b
BY SentinelAssumption DEF State

\* A backup's fields.
LEMMA BackupIs ==
  ASSUME NEW b \in Backup
  PROVE  /\ b # None /\ b.db \in Database /\ b.wired \in Versions
BY SentinelAssumption DEF Backup

\* A database keeps one field while the other is written.
LEMMA DatabaseIs ==
  ASSUME NEW d \in Database
  PROVE  /\ d.schema \in Nat /\ d.writes \in 0..MaxWrites
         /\ \A n \in Nat :
              /\ [d EXCEPT !.schema = n] \in Database
              /\ [d EXCEPT !.schema = n].schema = n /\ [d EXCEPT !.schema = n].writes = d.writes
         /\ \A n \in 0..MaxWrites :
              /\ [d EXCEPT !.writes = n] \in Database
              /\ [d EXCEPT !.writes = n].schema = d.schema /\ [d EXCEPT !.writes = n].writes = n
BY DEF Database

\* The numbers an invariant compares.
Numbers ==
  /\ exe \in Nat /\ proc.ver \in Nat /\ wired \in Nat /\ db.schema \in Nat
  /\ Schema[exe] \in Nat /\ Schema[proc.ver] \in Nat
  /\ file # None =>
       /\ file.from \in Nat /\ file.to \in Nat
       /\ Schema[file.from] \in Nat /\ Schema[file.to] \in Nat
       /\ file.from <= file.to => Schema[file.from] <= Schema[file.to]
  /\ Named =>
       /\ file.backup.wired \in Nat /\ file.backup.wired \in Versions /\ file.backup.db \in Database
       /\ file.backup.db.schema \in Nat
\* The releases are numbers, and a later one has no earlier schema.
LEMMA NumbersAre ==
  ASSUME TypeOK PROVE Numbers
<1>1. /\ exe \in Versions /\ proc.ver \in Versions /\ wired \in Versions /\ db.schema \in Nat
      /\ file # None => file \in State
  BY DatabaseIs DEF TypeOK
<1>2. \A v \in Versions : v \in Nat /\ Schema[v] \in Nat
  BY VersionsAssumption
<1>3. ASSUME file # None
      PROVE  file.from \in Versions /\ file.to \in Versions /\ file.backup \in Backup \cup {None}
  BY <1>1, <1>3, StateIs
<1>4. ASSUME Named PROVE file.backup.wired \in Versions /\ file.backup.db \in Database
  BY <1>3, <1>4, BackupIs DEF Named
<1>5. file # None /\ file.from <= file.to => Schema[file.from] <= Schema[file.to]
  BY <1>3, VersionsAssumption
<1> QED BY <1>1, <1>2, <1>3, <1>4, <1>5, DatabaseIs DEF Numbers, Named

\* The two releases of an install's state.
LEMMA ReadInstall ==
  ASSUME NEW st \in State, st.from < st.to
  PROVE  /\ st # None /\ st.from \in Nat /\ st.to \in Nat /\ st.to \in Versions
         /\ Schema[st.from] \in Nat /\ Schema[st.to] \in Nat /\ Schema[st.from] <= Schema[st.to]
<1>1. st.from \in Versions /\ st.to \in Versions /\ st # None
  BY StateIs
<1>2. st.from \in Nat /\ st.to \in Nat
  BY <1>1, VersionsAssumption
<1>3. st.from <= st.to
  BY <1>2
<1> QED BY <1>1, <1>2, <1>3, VersionsAssumption


\* What the steps below rest on.
Known ==
  /\ ActorTypes /\ Numbers
  /\ at \in [Actors -> Steps] /\ has \in [Actors -> State \cup {None}]
  /\ proc \in [pc: {"down", "guard", "boot", "open", "serve"}, ver: Versions]
  /\ exe \in Versions
  /\ TypeOK /\ ActorsInTurn /\ CopiesFresh /\ BackupUsable /\ DataFits
  /\ file # None => file \in State
  /\ prev \in Versions \cup {None} /\ late \in BOOLEAN
  /\ db \in Database /\ wired \in Versions
  /\ spent \in [hands: 0..MaxHands, faults: 0..MaxFaults]

\* The invariant says all of Known.
LEMMA KnownIs ==
  ASSUME IInv PROVE Known
BY NumbersAre DEF IInv, Known, TypeOK, ActorTypes

-----------------------------------------------------------------------------
(* The invariant, one action at a time: what the action writes (<l>s), and *)
(* each part of the invariant after it.                                    *)


\* What an action writes, actor by actor.
Moved(start, watch, install, hand) ==
  /\ at' \in [Actors -> Steps]
  /\ at'["start"] = start /\ at'["watch"] = watch
  /\ at'["install"] = install /\ at'["hand"] = hand
Holds(start, watch, install, hand) ==
  /\ has' \in [Actors -> State \cup {None}]
  /\ has'["start"] = start /\ has'["watch"] = watch
  /\ has'["install"] = install /\ has'["hand"] = hand
Runs(pc, ver) ==
  /\ proc' \in [pc: {"down", "guard", "boot", "open", "serve"}, ver: Versions]
  /\ proc'.pc = pc /\ proc'.ver = ver

\* Nothing is half written.
Quiet ==
  /\ at["start"] # "save" /\ at["watch"] # "save"
  /\ at["install"] # "note" /\ at["hand"] \notin {"save", "copy"}

USE DEF Moved, Holds, Runs, Quiet
USE DEF Known, Numbers, Named, Saving, DataFor, Pending, InTrial, Phase, InProgress

\* The service manager starts the binary the service runs.
LEMMA StartStep ==
  ASSUME InstalledInOrder, IInv, Start
  PROVE  IInv'
<1>0. Known
  BY KnownIs
<1>s. /\ at["start"] = "idle" /\ proc.pc = "down"
      /\ proc'.pc \in {"guard", "boot"} /\ proc'.ver = exe
      /\ proc' \in [pc: {"down", "guard", "boot", "open", "serve"}, ver: Versions]
      /\ Moved("load", at["watch"], at["install"], at["hand"])
      /\ UNCHANGED <<exe, prev, db, wired, file, late, spent, has>>
  BY <1>0, BoundsAssumption, VersionsAssumption, GoesIs
     DEF Start, ActorsInTurn, disk, Actors, Steps, InstalledInOrder
<1>1. TypeOK' BY <1>0, <1>s DEF TypeOK
<1>2. ActorsInTurn' BY <1>0, <1>s DEF ActorsInTurn, CopiesFresh
<1>3. CopiesFresh' BY <1>0, <1>s DEF CopiesFresh, ActorsInTurn, BackupUsable, DataFits
<1>4. BackupUsable' BY <1>0, <1>s DEF BackupUsable, CopiesFresh, ActorsInTurn, DataFits
<1>5. DataFits' BY <1>0, <1>s DEF DataFits, BackupUsable, CopiesFresh, ActorsInTurn
<1> QED BY <1>1, <1>2, <1>3, <1>4, <1>5 DEF IInv

\* Guard has read the state.
LEMMA GuardLoadStep ==
  ASSUME InstalledInOrder, IInv, GuardLoad
  PROVE  IInv'
<1>0. Known
  BY KnownIs
<1>1. CASE at'["start"] = "db"
  <2>s. /\ at["start"] = "load" /\ proc.pc = "guard" /\ Phase = "rollback"
        /\ Moved("db", at["watch"], at["install"], at["hand"])
        /\ Holds(file, has["watch"], has["install"], has["hand"])
        /\ UNCHANGED <<exe, prev, db, wired, file, late, spent, proc>>
    BY <1>0, <1>1, BoundsAssumption, VersionsAssumption, GoesIs, ReadsIs, RunsBinaryIs
       DEF GuardLoad, Overdue, Whole, disk, Actors, Steps, InstalledInOrder
  <2>1. TypeOK' BY <1>0, <2>s DEF TypeOK
  <2>2. ActorsInTurn' BY <1>0, <2>s DEF ActorsInTurn, CopiesFresh
  <2>3. CopiesFresh' BY <1>0, <2>s DEF CopiesFresh, ActorsInTurn, BackupUsable, DataFits
  <2>4. BackupUsable' BY <1>0, <2>s DEF BackupUsable, CopiesFresh, ActorsInTurn, DataFits
  <2>5. DataFits' BY <1>0, <2>s DEF DataFits, BackupUsable, CopiesFresh, ActorsInTurn
  <2> QED BY <2>1, <2>2, <2>3, <2>4, <2>5 DEF IInv
<1>2. CASE at'["start"] = "copy"
  <2>s. /\ at["start"] = "load" /\ proc.pc = "guard" /\ InTrial
        /\ Moved("copy", at["watch"], at["install"], at["hand"])
        /\ Holds(file, has["watch"], has["install"], has["hand"])
        /\ UNCHANGED <<exe, prev, db, wired, file, late, spent, proc>>
    BY <1>0, <1>2, BoundsAssumption, VersionsAssumption, GoesIs, ReadsIs, RunsBinaryIs
       DEF GuardLoad, Overdue, Whole, disk, Actors, Steps, InstalledInOrder
  <2>1. TypeOK' BY <1>0, <2>s DEF TypeOK
  <2>2. ActorsInTurn' BY <1>0, <2>s DEF ActorsInTurn, CopiesFresh
  <2>3. CopiesFresh' BY <1>0, <2>s DEF CopiesFresh, ActorsInTurn, BackupUsable, DataFits
  <2>4. BackupUsable' BY <1>0, <2>s DEF BackupUsable, CopiesFresh, ActorsInTurn, DataFits
  <2>5. DataFits' BY <1>0, <2>s DEF DataFits, BackupUsable, CopiesFresh, ActorsInTurn
  <2> QED BY <2>1, <2>2, <2>3, <2>4, <2>5 DEF IInv
<1>3. CASE at'["start"] = "load"
  <2>s. /\ at["start"] = "load" /\ proc.pc = "guard" /\ Phase # "rollback"
        /\ Quiet
        /\ Moved("load", at["watch"], at["install"], at["hand"])
        /\ Holds(file, has["watch"], has["install"], has["hand"])
        /\ Runs("boot", exe)
        /\ UNCHANGED <<exe, prev, db, wired, file, late, spent>>
    BY <1>0, <1>3, BoundsAssumption, VersionsAssumption, GoesIs, ReadsIs, RunsBinaryIs
       DEF GuardLoad, Overdue, Whole, disk, Actors, Steps, InstalledInOrder
  <2>1. TypeOK' BY <1>0, <2>s DEF TypeOK
  <2>2. ActorsInTurn' BY <1>0, <2>s DEF ActorsInTurn, CopiesFresh
  <2>3. CopiesFresh' BY <1>0, <2>s DEF CopiesFresh, ActorsInTurn, BackupUsable, DataFits
  <2>4. BackupUsable' BY <1>0, <2>s DEF BackupUsable, CopiesFresh, ActorsInTurn, DataFits
  <2>5. DataFits' BY <1>0, <2>s DEF DataFits, BackupUsable, CopiesFresh, ActorsInTurn
  <2> QED BY <2>1, <2>2, <2>3, <2>4, <2>5 DEF IInv
<1> QED
  BY <1>0, <1>1, <1>2, <1>3, GoesIs, RunsBinaryIs
     DEF GuardLoad, Overdue, Whole, disk, Actors, Steps, InstalledInOrder

\* Boot has read the state, and counted an attempt or ended the trial.
LEMMA BootLoadStep ==
  ASSUME InstalledInOrder, IInv, BootLoad
  PROVE  IInv'
<1>0. Known
  BY KnownIs
<1>1. CASE Phase = "rollback"
  <2>s. /\ at["start"] = "load" /\ proc.pc = "boot" /\ Phase = "rollback"
        /\ Moved("db", at["watch"], at["install"], at["hand"])
        /\ Holds(file, has["watch"], has["install"], has["hand"])
        /\ UNCHANGED <<exe, prev, db, wired, file, late, spent, proc>>
    BY <1>0, <1>1, BoundsAssumption, VersionsAssumption, GoesIs, ReadsIs, OpensDataIs
       DEF BootLoad, Tried, Whole, disk, Actors, Steps, InstalledInOrder
  <2>1. TypeOK' BY <1>0, <2>s DEF TypeOK
  <2>2. ActorsInTurn' BY <1>0, <2>s DEF ActorsInTurn, CopiesFresh
  <2>3. CopiesFresh' BY <1>0, <2>s DEF CopiesFresh, ActorsInTurn, BackupUsable, DataFits
  <2>4. BackupUsable' BY <1>0, <2>s DEF BackupUsable, CopiesFresh, ActorsInTurn, DataFits
  <2>5. DataFits' BY <1>0, <2>s DEF DataFits, BackupUsable, CopiesFresh, ActorsInTurn
  <2> QED BY <2>1, <2>2, <2>3, <2>4, <2>5 DEF IInv
<1>2. CASE Tried /\ file.attempts + 1 > MaxAttempts
  <2>v. file.attempts \in 0..MaxAttempts /\ file.attempts \in Nat /\ MaxAttempts \in Nat
    BY <1>0, <1>2, StateIs, BoundsAssumption DEF Tried
  <2>s. /\ at["start"] = "load" /\ proc.pc = "boot" /\ InTrial
        /\ Moved("copy", at["watch"], at["install"], at["hand"])
        /\ Holds(file, has["watch"], has["install"], has["hand"])
        /\ UNCHANGED <<exe, prev, db, wired, file, late, spent, proc>>
    BY <1>0, <1>2, BoundsAssumption, VersionsAssumption, <2>v, GoesIs, ReadsIs, OpensDataIs
       DEF BootLoad, Tried, Whole, disk, Actors, Steps, InstalledInOrder
  <2>1. TypeOK' BY <1>0, <2>s, <2>v DEF TypeOK
  <2>2. ActorsInTurn' BY <1>0, <2>s, <2>v DEF ActorsInTurn, CopiesFresh
  <2>3. CopiesFresh' BY <1>0, <2>s, <2>v DEF CopiesFresh, ActorsInTurn, BackupUsable, DataFits
  <2>4. BackupUsable' BY <1>0, <2>s, <2>v DEF BackupUsable, CopiesFresh, ActorsInTurn, DataFits
  <2>5. DataFits' BY <1>0, <2>s, <2>v DEF DataFits, BackupUsable, CopiesFresh, ActorsInTurn
  <2> QED BY <2>1, <2>2, <2>3, <2>4, <2>5 DEF IInv
<1>3. CASE ~Pending
  <2>s. /\ at["start"] = "load" /\ proc.pc = "boot" /\ ~Pending
        /\ Quiet
        /\ Moved("idle", at["watch"], at["install"], at["hand"])
        /\ Holds(file, has["watch"], has["install"], has["hand"])
        /\ Runs("open", proc.ver)
        /\ UNCHANGED <<exe, prev, db, wired, file, late, spent>>
    BY <1>0, <1>3, BoundsAssumption, VersionsAssumption, GoesIs, ReadsIs, OpensDataIs
       DEF BootLoad, Tried, Whole, disk, Actors, Steps, InstalledInOrder
  <2>1. TypeOK' BY <1>0, <2>s DEF TypeOK
  <2>2. ActorsInTurn' BY <1>0, <2>s DEF ActorsInTurn, CopiesFresh
  <2>3. CopiesFresh' BY <1>0, <2>s DEF CopiesFresh, ActorsInTurn, BackupUsable, DataFits
  <2>4. BackupUsable' BY <1>0, <2>s DEF BackupUsable, CopiesFresh, ActorsInTurn, DataFits
  <2>5. DataFits' BY <1>0, <2>s DEF DataFits, BackupUsable, CopiesFresh, ActorsInTurn
  <2> QED BY <2>1, <2>2, <2>3, <2>4, <2>5 DEF IInv
<1>4. CASE InTrial /\ proc.ver # file.to
  <2>f. file \in State /\ file' = [file EXCEPT !.phase = "rolled_back"]
    BY <1>0, <1>4
       DEF BootLoad, OpensData, Tried, Whole, Goes, Reads, disk, Actors, Steps, InstalledInOrder
  <2>g. /\ file' \in State /\ file' # None
        /\ file'.phase = "rolled_back" /\ file'.from = file.from /\ file'.to = file.to
           /\ file'.backup = file.backup
    BY <2>f, PhaseIs DEF Phases
  <2>s. /\ at["start"] = "load" /\ proc.pc = "boot" /\ InTrial /\ proc.ver # file.to
        /\ Quiet
        /\ Moved("idle", at["watch"], at["install"], at["hand"])
        /\ Holds(file, has["watch"], has["install"], has["hand"])
        /\ Runs("open", proc.ver)
        /\ UNCHANGED <<exe, prev, db, wired, late, spent>>
    BY <1>0, <1>4, BoundsAssumption, VersionsAssumption, <2>g, GoesIs, ReadsIs, OpensDataIs
       DEF BootLoad, Tried, Whole, disk, Actors, Steps, InstalledInOrder
  <2>1. TypeOK' BY <1>0, <2>s, <2>g DEF TypeOK
  <2>2. ActorsInTurn' BY <1>0, <2>s, <2>g DEF ActorsInTurn, CopiesFresh
  <2>3. CopiesFresh' BY <1>0, <2>s, <2>g DEF CopiesFresh, ActorsInTurn, BackupUsable, DataFits
  <2>4. BackupUsable' BY <1>0, <2>s, <2>g DEF BackupUsable, CopiesFresh, ActorsInTurn, DataFits
  <2>5. DataFits' BY <1>0, <2>s, <2>g DEF DataFits, BackupUsable, CopiesFresh, ActorsInTurn
  <2> QED BY <2>1, <2>2, <2>3, <2>4, <2>5 DEF IInv
<1>5. CASE Tried /\ file.attempts + 1 <= MaxAttempts
  <2>v. file.attempts \in 0..MaxAttempts /\ file.attempts \in Nat /\ MaxAttempts \in Nat
    BY <1>0, <1>5, StateIs, BoundsAssumption DEF Tried
  <2>f. file \in State /\ file' = [file EXCEPT !.phase = "verifying", !.attempts = @ + 1]
        /\ file.attempts + 1 <= MaxAttempts
    BY <1>0, <1>5, <2>v
       DEF BootLoad, OpensData, Tried, Whole, Goes, Reads, disk, Actors, Steps, InstalledInOrder
  <2>e. file \in State
        /\ file' = [phase |-> "verifying", from |-> file.from, to |-> file.to,
                    attempts |-> file.attempts + 1, backup |-> file.backup]
    BY <2>f DEF State
  <2>a. file.attempts + 1 <= MaxAttempts
    BY <2>f
  <2>g. /\ file' \in State /\ file' # None
        /\ file'.phase = "verifying" /\ file'.from = file.from /\ file'.to = file.to
           /\ file'.backup = file.backup
    BY <2>a, <2>e, AttemptIs DEF Phases
  <2>s. /\ at["start"] = "load" /\ proc.pc = "boot" /\ InTrial /\ proc.ver = file.to
        /\ Quiet
        /\ Moved("idle", at["watch"], at["install"], at["hand"])
        /\ Holds(file, has["watch"], has["install"], has["hand"])
        /\ Runs("open", proc.ver)
        /\ UNCHANGED <<exe, prev, db, wired, late, spent>>
    BY <1>0, <1>5, BoundsAssumption, VersionsAssumption, <2>v, <2>g, GoesIs, ReadsIs,
       OpensDataIs
       DEF BootLoad, Tried, Whole, disk, Actors, Steps, InstalledInOrder
  <2>1. TypeOK' BY <1>0, <2>s, <2>v, <2>g DEF TypeOK
  <2>2. ActorsInTurn' BY <1>0, <2>s, <2>v, <2>g DEF ActorsInTurn, CopiesFresh
  <2>3. CopiesFresh' BY <1>0, <2>s, <2>v, <2>g DEF CopiesFresh, ActorsInTurn, BackupUsable, DataFits
  <2>4. BackupUsable' BY <1>0, <2>s, <2>v, <2>g DEF BackupUsable, CopiesFresh, ActorsInTurn,
     DataFits
  <2>5. DataFits' BY <1>0, <2>s, <2>v, <2>g DEF DataFits, BackupUsable, CopiesFresh, ActorsInTurn
  <2> QED BY <2>1, <2>2, <2>3, <2>4, <2>5 DEF IInv
<1> QED
  BY <1>0, <1>1, <1>2, <1>3, <1>4, <1>5, GoesIs, OpensDataIs
     DEF BootLoad, Tried, Whole, disk, Actors, Steps, InstalledInOrder

\* The database is what the backup holds, or had its schema.
LEMMA RestoreDatabaseStep ==
  ASSUME InstalledInOrder, IInv, RestoreDatabase
  PROVE  IInv'
<1>0. Known
  BY KnownIs
<1>s. /\ at["start"] = "db" /\ Named /\ has["start"] = file /\ Phase = "rollback"
      /\ db' \in Database /\ db'.schema = file.backup.db.schema
      /\ Moved("wired", at["watch"], at["install"], at["hand"])
      /\ UNCHANGED <<exe, prev, wired, file, late, spent, proc, has>>
  BY <1>0, BoundsAssumption, VersionsAssumption, GoesIs
     DEF RestoreDatabase, CopiesFresh, disk, Actors, Steps, InstalledInOrder
<1>1. TypeOK' BY <1>0, <1>s DEF TypeOK
<1>2. ActorsInTurn' BY <1>0, <1>s DEF ActorsInTurn, CopiesFresh
<1>3. CopiesFresh' BY <1>0, <1>s DEF CopiesFresh, ActorsInTurn, BackupUsable, DataFits
<1>4. BackupUsable' BY <1>0, <1>s DEF BackupUsable, CopiesFresh, ActorsInTurn, DataFits
<1>5. DataFits' BY <1>0, <1>s DEF DataFits, BackupUsable, CopiesFresh, ActorsInTurn
<1> QED BY <1>1, <1>2, <1>3, <1>4, <1>5 DEF IInv

\* The wired state is what the backup holds.
LEMMA RestoreWiredStep ==
  ASSUME InstalledInOrder, IInv, RestoreWired
  PROVE  IInv'
<1>0. Known
  BY KnownIs
<1>s. /\ at["start"] = "wired" /\ Named /\ has["start"] = file /\ Phase = "rollback"
      /\ wired' = file.backup.wired
      /\ Moved("record", at["watch"], at["install"], at["hand"])
      /\ UNCHANGED <<exe, prev, db, file, late, spent, proc, has>>
  BY <1>0, BoundsAssumption, VersionsAssumption, GoesIs
     DEF RestoreWired, CopiesFresh, disk, Actors, Steps, InstalledInOrder
<1>1. TypeOK' BY <1>0, <1>s DEF TypeOK
<1>2. ActorsInTurn' BY <1>0, <1>s DEF ActorsInTurn, CopiesFresh
<1>3. CopiesFresh' BY <1>0, <1>s DEF CopiesFresh, ActorsInTurn, BackupUsable, DataFits
<1>4. BackupUsable' BY <1>0, <1>s DEF BackupUsable, CopiesFresh, ActorsInTurn, DataFits
<1>5. DataFits' BY <1>0, <1>s DEF DataFits, BackupUsable, CopiesFresh, ActorsInTurn
<1> QED BY <1>1, <1>2, <1>3, <1>4, <1>5 DEF IInv

\* The rollback is over: the previous binary has its data back.
LEMMA RestoreRecordStep ==
  ASSUME InstalledInOrder, IInv, RestoreRecord
  PROVE  IInv'
<1>0. Known
  BY KnownIs
<1>1. CASE proc.pc = "guard"
  <2>f. file \in State /\ file' = [file EXCEPT !.phase = "rolled_back"]
    BY <1>0, <1>1
       DEF RestoreRecord, RunsBinary, OpensData, CopiesFresh, ActorsInTurn, Goes, Reads, disk,
           Actors, Steps, InstalledInOrder
  <2>g. /\ file' \in State /\ file' # None
        /\ file'.phase = "rolled_back" /\ file'.from = file.from /\ file'.to = file.to
           /\ file'.backup = file.backup
    BY <2>f, PhaseIs DEF Phases
  <2>s. /\ at["start"] = "record" /\ Named /\ has["start"] = file /\ Phase = "rollback"
        /\ Moved("load", at["watch"], at["install"], at["hand"])
        /\ Runs("boot", exe)
        /\ UNCHANGED <<exe, prev, db, wired, late, spent, has>>
    BY <1>0, <1>1, BoundsAssumption, VersionsAssumption, <2>g, OpensDataIs, RunsBinaryIs
       DEF RestoreRecord, CopiesFresh, ActorsInTurn, disk, Actors, Steps, InstalledInOrder
  <2>1. TypeOK' BY <1>0, <2>s, <2>g DEF TypeOK
  <2>2. ActorsInTurn' BY <1>0, <2>s, <2>g DEF ActorsInTurn, CopiesFresh
  <2>3. CopiesFresh' BY <1>0, <2>s, <2>g DEF CopiesFresh, ActorsInTurn, BackupUsable, DataFits
  <2>4. BackupUsable' BY <1>0, <2>s, <2>g DEF BackupUsable, CopiesFresh, ActorsInTurn, DataFits
  <2>5. DataFits' BY <1>0, <2>s, <2>g DEF DataFits, BackupUsable, CopiesFresh, ActorsInTurn
  <2> QED BY <2>1, <2>2, <2>3, <2>4, <2>5 DEF IInv
<1>2. CASE proc.pc = "boot"
  <2>d. exe = file.from /\ db.schema = Schema[file.from] /\ wired <= file.from /\ proc.ver = exe
    BY <1>0, <1>2 DEF RestoreRecord, CopiesFresh, BackupUsable, DataFits
  <2>f. file \in State /\ file' = [file EXCEPT !.phase = "rolled_back"]
    BY <1>0, <1>2, <2>d
       DEF RestoreRecord, RunsBinary, OpensData, CopiesFresh, ActorsInTurn, Goes, Reads, disk,
           Actors, Steps, InstalledInOrder
  <2>g. /\ file' \in State /\ file' # None
        /\ file'.phase = "rolled_back" /\ file'.from = file.from /\ file'.to = file.to
           /\ file'.backup = file.backup
    BY <2>f, PhaseIs DEF Phases
  <2>s. /\ at["start"] = "record" /\ Named /\ has["start"] = file /\ Phase = "rollback"
        /\ Moved("idle", at["watch"], at["install"], at["hand"])
        /\ Runs("open", proc.ver)
        /\ UNCHANGED <<exe, prev, db, wired, late, spent, has>>
    BY <1>0, <1>2, BoundsAssumption, VersionsAssumption, <2>d, <2>g, OpensDataIs, RunsBinaryIs
       DEF RestoreRecord, CopiesFresh, ActorsInTurn, disk, Actors, Steps, InstalledInOrder
  <2>1. TypeOK' BY <1>0, <2>s, <2>d, <2>g DEF TypeOK
  <2>2. ActorsInTurn' BY <1>0, <2>s, <2>d, <2>g DEF ActorsInTurn, CopiesFresh
  <2>3. CopiesFresh' BY <1>0, <2>s, <2>d, <2>g DEF CopiesFresh, ActorsInTurn, BackupUsable, DataFits
  <2>4. BackupUsable' BY <1>0, <2>s, <2>d, <2>g DEF BackupUsable, CopiesFresh, ActorsInTurn,
     DataFits
  <2>5. DataFits' BY <1>0, <2>s, <2>d, <2>g DEF DataFits, BackupUsable, CopiesFresh, ActorsInTurn
  <2> QED BY <2>1, <2>2, <2>3, <2>4, <2>5 DEF IInv
<1> QED
  BY <1>0, <1>1, <1>2, OpensDataIs, RunsBinaryIs
     DEF RestoreRecord, CopiesFresh, ActorsInTurn, disk, Actors, Steps, InstalledInOrder

\* The previous binary is back, and its data not yet asked for.
LEMMA RollbackCopyStep ==
  ASSUME InstalledInOrder, IInv, NEW a \in Actors, RollbackCopy(a)
  PROVE  IInv'
<1>0. Known
  BY KnownIs
<1>1. CASE a = "start"
  <2>s. /\ at["start"] = "copy" /\ Named /\ has["start"] = file
        /\ exe' = prev /\ prev \in Versions
        /\ Moved("save", at["watch"], at["install"], at["hand"])
        /\ UNCHANGED <<prev, db, wired, file, late, spent, proc, has>>
    BY <1>0, <1>1, BoundsAssumption, VersionsAssumption, GoesIs
       DEF RollbackCopy, CopiesFresh, ActorsInTurn, disk, Actors, Steps, InstalledInOrder
  <2>1. TypeOK' BY <1>0, <2>s DEF TypeOK
  <2>2. ActorsInTurn' BY <1>0, <2>s DEF ActorsInTurn, CopiesFresh
  <2>3. CopiesFresh' BY <1>0, <2>s DEF CopiesFresh, ActorsInTurn, BackupUsable, DataFits
  <2>4. BackupUsable' BY <1>0, <2>s DEF BackupUsable, CopiesFresh, ActorsInTurn, DataFits
  <2>5. DataFits' BY <1>0, <2>s DEF DataFits, BackupUsable, CopiesFresh, ActorsInTurn
  <2> QED BY <2>1, <2>2, <2>3, <2>4, <2>5 DEF IInv
<1>2. CASE a = "watch"
  <2>s. /\ at["watch"] = "copy" /\ Named /\ has["watch"] = file
        /\ exe' = prev /\ prev \in Versions
        /\ Moved(at["start"], "save", at["install"], at["hand"])
        /\ UNCHANGED <<prev, db, wired, file, late, spent, proc, has>>
    BY <1>0, <1>2, BoundsAssumption, VersionsAssumption, GoesIs
       DEF RollbackCopy, CopiesFresh, ActorsInTurn, disk, Actors, Steps, InstalledInOrder
  <2>1. TypeOK' BY <1>0, <2>s DEF TypeOK
  <2>2. ActorsInTurn' BY <1>0, <2>s DEF ActorsInTurn, CopiesFresh
  <2>3. CopiesFresh' BY <1>0, <2>s DEF CopiesFresh, ActorsInTurn, BackupUsable, DataFits
  <2>4. BackupUsable' BY <1>0, <2>s DEF BackupUsable, CopiesFresh, ActorsInTurn, DataFits
  <2>5. DataFits' BY <1>0, <2>s DEF DataFits, BackupUsable, CopiesFresh, ActorsInTurn
  <2> QED BY <2>1, <2>2, <2>3, <2>4, <2>5 DEF IInv
<1>3. CASE a = "hand"
  <2>s. /\ at["hand"] = "copy" /\ Named /\ has["hand"] = file
        /\ exe' = prev /\ prev \in Versions
        /\ Moved(at["start"], at["watch"], at["install"], "save")
        /\ UNCHANGED <<prev, db, wired, file, late, spent, proc, has>>
    BY <1>0, <1>3, BoundsAssumption, VersionsAssumption, GoesIs
       DEF RollbackCopy, CopiesFresh, ActorsInTurn, disk, Actors, Steps, InstalledInOrder
  <2>1. TypeOK' BY <1>0, <2>s DEF TypeOK
  <2>2. ActorsInTurn' BY <1>0, <2>s DEF ActorsInTurn, CopiesFresh
  <2>3. CopiesFresh' BY <1>0, <2>s DEF CopiesFresh, ActorsInTurn, BackupUsable, DataFits
  <2>4. BackupUsable' BY <1>0, <2>s DEF BackupUsable, CopiesFresh, ActorsInTurn, DataFits
  <2>5. DataFits' BY <1>0, <2>s DEF DataFits, BackupUsable, CopiesFresh, ActorsInTurn
  <2> QED BY <2>1, <2>2, <2>3, <2>4, <2>5 DEF IInv
<1> QED
  BY <1>0, <1>1, <1>2, <1>3, GoesIs
     DEF RollbackCopy, CopiesFresh, ActorsInTurn, disk, Actors, Steps, InstalledInOrder

\* The data is asked for, before anything may open it.
LEMMA RollbackSaveStep ==
  ASSUME InstalledInOrder, IInv, NEW a \in Actors, RollbackSave(a)
  PROVE  IInv'
<1>0. Known
  BY KnownIs
<1>1. CASE a = "start" /\ proc.pc = "guard"
  <2>f. file \in State /\ file' = [file EXCEPT !.phase = "rollback"]
    BY <1>0, <1>1
       DEF RollbackSave, CopiesFresh, ActorsInTurn, Goes, Reads, disk, Actors, Steps,
           InstalledInOrder
  <2>g. /\ file' \in State /\ file' # None
        /\ file'.phase = "rollback" /\ file'.from = file.from /\ file'.to = file.to
           /\ file'.backup = file.backup
    BY <2>f, PhaseIs DEF Phases
  <2>s. /\ at["start"] = "save" /\ Named /\ has["start"] = file /\ proc.pc = "guard"
        /\ Moved("db", at["watch"], at["install"], at["hand"])
        /\ Holds(file', has["watch"], has["install"], has["hand"])
        /\ UNCHANGED <<exe, prev, db, wired, late, spent, proc>>
    BY <1>0, <1>1, BoundsAssumption, VersionsAssumption, <2>g, GoesIs, ReadsIs
       DEF RollbackSave, CopiesFresh, ActorsInTurn, disk, Actors, Steps, InstalledInOrder
  <2>1. TypeOK' BY <1>0, <2>s, <2>g DEF TypeOK
  <2>2. ActorsInTurn' BY <1>0, <2>s, <2>g DEF ActorsInTurn, CopiesFresh
  <2>3. CopiesFresh' BY <1>0, <2>s, <2>g DEF CopiesFresh, ActorsInTurn, BackupUsable, DataFits
  <2>4. BackupUsable' BY <1>0, <2>s, <2>g DEF BackupUsable, CopiesFresh, ActorsInTurn, DataFits
  <2>5. DataFits' BY <1>0, <2>s, <2>g DEF DataFits, BackupUsable, CopiesFresh, ActorsInTurn
  <2> QED BY <2>1, <2>2, <2>3, <2>4, <2>5 DEF IInv
<1>2. CASE a = "start" /\ proc.pc # "guard"
  <2>f. file \in State /\ file' = [file EXCEPT !.phase = "rollback"]
    BY <1>0, <1>2
       DEF RollbackSave, CopiesFresh, ActorsInTurn, Goes, Reads, disk, Actors, Steps,
           InstalledInOrder
  <2>g. /\ file' \in State /\ file' # None
        /\ file'.phase = "rollback" /\ file'.from = file.from /\ file'.to = file.to
           /\ file'.backup = file.backup
    BY <2>f, PhaseIs DEF Phases
  <2>s. /\ at["start"] = "save" /\ Named /\ has["start"] = file /\ proc.pc # "guard"
        /\ Moved("exit", at["watch"], at["install"], at["hand"])
        /\ Holds(file', has["watch"], has["install"], has["hand"])
        /\ UNCHANGED <<exe, prev, db, wired, late, spent, proc>>
    BY <1>0, <1>2, BoundsAssumption, VersionsAssumption, <2>g, GoesIs, ReadsIs
       DEF RollbackSave, CopiesFresh, ActorsInTurn, disk, Actors, Steps, InstalledInOrder
  <2>1. TypeOK' BY <1>0, <2>s, <2>g DEF TypeOK
  <2>2. ActorsInTurn' BY <1>0, <2>s, <2>g DEF ActorsInTurn, CopiesFresh
  <2>3. CopiesFresh' BY <1>0, <2>s, <2>g DEF CopiesFresh, ActorsInTurn, BackupUsable, DataFits
  <2>4. BackupUsable' BY <1>0, <2>s, <2>g DEF BackupUsable, CopiesFresh, ActorsInTurn, DataFits
  <2>5. DataFits' BY <1>0, <2>s, <2>g DEF DataFits, BackupUsable, CopiesFresh, ActorsInTurn
  <2> QED BY <2>1, <2>2, <2>3, <2>4, <2>5 DEF IInv
<1>3. CASE a = "watch"
  <2>f. file \in State /\ file' = [file EXCEPT !.phase = "rollback"]
    BY <1>0, <1>3
       DEF RollbackSave, CopiesFresh, ActorsInTurn, Goes, Reads, disk, Actors, Steps,
           InstalledInOrder
  <2>g. /\ file' \in State /\ file' # None
        /\ file'.phase = "rollback" /\ file'.from = file.from /\ file'.to = file.to
           /\ file'.backup = file.backup
    BY <2>f, PhaseIs DEF Phases
  <2>s. /\ at["watch"] = "save" /\ Named /\ has["watch"] = file
        /\ Moved(at["start"], "exit", at["install"], at["hand"])
        /\ Holds(has["start"], file', has["install"], has["hand"])
        /\ UNCHANGED <<exe, prev, db, wired, late, spent, proc>>
    BY <1>0, <1>3, BoundsAssumption, VersionsAssumption, <2>g, GoesIs, ReadsIs
       DEF RollbackSave, CopiesFresh, ActorsInTurn, disk, Actors, Steps, InstalledInOrder
  <2>1. TypeOK' BY <1>0, <2>s, <2>g DEF TypeOK
  <2>2. ActorsInTurn' BY <1>0, <2>s, <2>g DEF ActorsInTurn, CopiesFresh
  <2>3. CopiesFresh' BY <1>0, <2>s, <2>g DEF CopiesFresh, ActorsInTurn, BackupUsable, DataFits
  <2>4. BackupUsable' BY <1>0, <2>s, <2>g DEF BackupUsable, CopiesFresh, ActorsInTurn, DataFits
  <2>5. DataFits' BY <1>0, <2>s, <2>g DEF DataFits, BackupUsable, CopiesFresh, ActorsInTurn
  <2> QED BY <2>1, <2>2, <2>3, <2>4, <2>5 DEF IInv
<1>4. CASE a = "hand"
  <2>f. file \in State /\ file' = [file EXCEPT !.phase = "rollback"]
    BY <1>0, <1>4
       DEF RollbackSave, CopiesFresh, ActorsInTurn, Goes, Reads, disk, Actors, Steps,
           InstalledInOrder
  <2>g. /\ file' \in State /\ file' # None
        /\ file'.phase = "rollback" /\ file'.from = file.from /\ file'.to = file.to
           /\ file'.backup = file.backup
    BY <2>f, PhaseIs DEF Phases
  <2>s. /\ at["hand"] = "save" /\ Named /\ has["hand"] = file
        /\ Moved(at["start"], at["watch"], at["install"], "exit")
        /\ Holds(has["start"], has["watch"], has["install"], file')
        /\ UNCHANGED <<exe, prev, db, wired, late, spent, proc>>
    BY <1>0, <1>4, BoundsAssumption, VersionsAssumption, <2>g, GoesIs, ReadsIs
       DEF RollbackSave, CopiesFresh, ActorsInTurn, disk, Actors, Steps, InstalledInOrder
  <2>1. TypeOK' BY <1>0, <2>s, <2>g DEF TypeOK
  <2>2. ActorsInTurn' BY <1>0, <2>s, <2>g DEF ActorsInTurn, CopiesFresh
  <2>3. CopiesFresh' BY <1>0, <2>s, <2>g DEF CopiesFresh, ActorsInTurn, BackupUsable, DataFits
  <2>4. BackupUsable' BY <1>0, <2>s, <2>g DEF BackupUsable, CopiesFresh, ActorsInTurn, DataFits
  <2>5. DataFits' BY <1>0, <2>s, <2>g DEF DataFits, BackupUsable, CopiesFresh, ActorsInTurn
  <2> QED BY <2>1, <2>2, <2>3, <2>4, <2>5 DEF IInv
<1> QED
  BY <1>0, <1>1, <1>2, <1>3, <1>4, GoesIs
     DEF RollbackSave, CopiesFresh, ActorsInTurn, disk, Actors, Steps, InstalledInOrder

\* A process that is to be restarted takes its actors along.
LEMMA ExitStep ==
  ASSUME InstalledInOrder, IInv, NEW a \in Actors, Exit(a)
  PROVE  IInv'
<1>0. Known
  BY KnownIs
<1>s. /\ Quiet
      /\ at["hand"] # "copy"
      /\ at' \in [Actors -> Steps]
      /\ at'["start"] = "idle" /\ at'["watch"] = "idle" /\ at'["install"] = "idle"
      /\ at'["hand"] \in {"idle", at["hand"]}
      /\ has' \in [Actors -> State \cup {None}]
      /\ Runs("down", proc.ver)
      /\ UNCHANGED <<exe, prev, db, wired, file, late, spent>>
  BY <1>0, BoundsAssumption, VersionsAssumption, EndsIs
     DEF Exit, Inside, Whole, ActorsInTurn, disk, Actors, Steps, InstalledInOrder
<1>1. TypeOK' BY <1>0, <1>s DEF TypeOK
<1>2. ActorsInTurn' BY <1>0, <1>s DEF ActorsInTurn, CopiesFresh
<1>3. CopiesFresh' BY <1>0, <1>s DEF CopiesFresh, ActorsInTurn, BackupUsable, DataFits
<1>4. BackupUsable' BY <1>0, <1>s DEF BackupUsable, CopiesFresh, ActorsInTurn, DataFits
<1>5. DataFits' BY <1>0, <1>s DEF DataFits, BackupUsable, CopiesFresh, ActorsInTurn
<1> QED BY <1>1, <1>2, <1>3, <1>4, <1>5 DEF IInv

\* A rollback that failed at its first step or its last leaves a binary with its data.
LEMMA FailsStep ==
  ASSUME InstalledInOrder, IInv, NEW a \in Actors, Fails(a)
  PROVE  IInv'
<1>0. Known
  BY KnownIs
<1>1. CASE a = "start" /\ proc.pc = "guard"
  <2>s. /\ at["start"] \in {"copy", "record"} /\ Named
        /\ spent' \in [hands: 0..MaxHands, faults: 0..MaxFaults]
        /\ Moved("load", at["watch"], at["install"], at["hand"])
        /\ Runs("boot", exe)
        /\ UNCHANGED <<exe, prev, db, wired, file, late, has>>
    BY <1>0, <1>1, BoundsAssumption, VersionsAssumption, GoesIs, OpensDataIs, RunsBinaryIs
       DEF Fails, ActorsInTurn, CopiesFresh, disk, Actors, Steps, InstalledInOrder
  <2>1. TypeOK' BY <1>0, <2>s DEF TypeOK
  <2>2. ActorsInTurn' BY <1>0, <2>s DEF ActorsInTurn, CopiesFresh
  <2>3. CopiesFresh' BY <1>0, <2>s DEF CopiesFresh, ActorsInTurn, BackupUsable, DataFits
  <2>4. BackupUsable' BY <1>0, <2>s DEF BackupUsable, CopiesFresh, ActorsInTurn, DataFits
  <2>5. DataFits' BY <1>0, <2>s DEF DataFits, BackupUsable, CopiesFresh, ActorsInTurn
  <2> QED BY <2>1, <2>2, <2>3, <2>4, <2>5 DEF IInv
<1>2. CASE a = "start" /\ proc.pc # "guard"
  <2>s. /\ at["start"] \in {"copy", "record"} /\ proc.pc = "boot"
        /\ spent' \in [hands: 0..MaxHands, faults: 0..MaxFaults]
        /\ Moved("idle", at["watch"], at["install"], at["hand"])
        /\ Runs("open", proc.ver)
        /\ UNCHANGED <<exe, prev, db, wired, file, late, has>>
    BY <1>0, <1>2, BoundsAssumption, VersionsAssumption, GoesIs, OpensDataIs, RunsBinaryIs
       DEF Fails, ActorsInTurn, CopiesFresh, disk, Actors, Steps, InstalledInOrder
  <2>1. TypeOK' BY <1>0, <2>s DEF TypeOK
  <2>2. ActorsInTurn' BY <1>0, <2>s DEF ActorsInTurn, CopiesFresh
  <2>3. CopiesFresh' BY <1>0, <2>s DEF CopiesFresh, ActorsInTurn, BackupUsable, DataFits
  <2>4. BackupUsable' BY <1>0, <2>s DEF BackupUsable, CopiesFresh, ActorsInTurn, DataFits
  <2>5. DataFits' BY <1>0, <2>s DEF DataFits, BackupUsable, CopiesFresh, ActorsInTurn
  <2> QED BY <2>1, <2>2, <2>3, <2>4, <2>5 DEF IInv
<1>3. CASE a = "watch"
  <2>s. /\ at["watch"] = "copy"
        /\ spent' \in [hands: 0..MaxHands, faults: 0..MaxFaults]
        /\ Moved(at["start"], "idle", at["install"], at["hand"])
        /\ UNCHANGED <<exe, prev, db, wired, file, late, proc, has>>
    BY <1>0, <1>3, BoundsAssumption, VersionsAssumption, GoesIs, OpensDataIs, RunsBinaryIs
       DEF Fails, ActorsInTurn, CopiesFresh, disk, Actors, Steps, InstalledInOrder
  <2>1. TypeOK' BY <1>0, <2>s DEF TypeOK
  <2>2. ActorsInTurn' BY <1>0, <2>s DEF ActorsInTurn, CopiesFresh
  <2>3. CopiesFresh' BY <1>0, <2>s DEF CopiesFresh, ActorsInTurn, BackupUsable, DataFits
  <2>4. BackupUsable' BY <1>0, <2>s DEF BackupUsable, CopiesFresh, ActorsInTurn, DataFits
  <2>5. DataFits' BY <1>0, <2>s DEF DataFits, BackupUsable, CopiesFresh, ActorsInTurn
  <2> QED BY <2>1, <2>2, <2>3, <2>4, <2>5 DEF IInv
<1>4. CASE a = "hand"
  <2>s. /\ at["hand"] = "copy"
        /\ spent' \in [hands: 0..MaxHands, faults: 0..MaxFaults]
        /\ Moved(at["start"], at["watch"], at["install"], "idle")
        /\ UNCHANGED <<exe, prev, db, wired, file, late, proc, has>>
    BY <1>0, <1>4, BoundsAssumption, VersionsAssumption, GoesIs, OpensDataIs, RunsBinaryIs
       DEF Fails, ActorsInTurn, CopiesFresh, disk, Actors, Steps, InstalledInOrder
  <2>1. TypeOK' BY <1>0, <2>s DEF TypeOK
  <2>2. ActorsInTurn' BY <1>0, <2>s DEF ActorsInTurn, CopiesFresh
  <2>3. CopiesFresh' BY <1>0, <2>s DEF CopiesFresh, ActorsInTurn, BackupUsable, DataFits
  <2>4. BackupUsable' BY <1>0, <2>s DEF BackupUsable, CopiesFresh, ActorsInTurn, DataFits
  <2>5. DataFits' BY <1>0, <2>s DEF DataFits, BackupUsable, CopiesFresh, ActorsInTurn
  <2> QED BY <2>1, <2>2, <2>3, <2>4, <2>5 DEF IInv
<1> QED
  BY <1>0, <1>1, <1>2, <1>3, <1>4, GoesIs, OpensDataIs, RunsBinaryIs
     DEF Fails, ActorsInTurn, CopiesFresh, disk, Actors, Steps, InstalledInOrder

\* The migrations bring the data to where the binary can open it.
LEMMA OpenStep ==
  ASSUME InstalledInOrder, IInv, Open
  PROVE  IInv'
<1>0. Known
  BY KnownIs
<1>1. CASE db.schema < Schema[proc.ver]
  <2>s. /\ proc.pc = "open" /\ db.schema < Schema[proc.ver] /\ Schema[proc.ver] \in Nat
        /\ db' \in Database /\ db'.schema = db.schema + 1
        /\ UNCHANGED <<exe, prev, wired, file, late, spent, proc, at, has>>
    BY <1>0, <1>1, BoundsAssumption, VersionsAssumption, GoesIs
       DEF Open, Tried, Database, disk, Actors, Steps, InstalledInOrder
  <2>1. TypeOK' BY <1>0, <2>s DEF TypeOK
  <2>2. ActorsInTurn' BY <1>0, <2>s DEF ActorsInTurn, CopiesFresh
  <2>3. CopiesFresh' BY <1>0, <2>s DEF CopiesFresh, ActorsInTurn, BackupUsable, DataFits
  <2>4. BackupUsable' BY <1>0, <2>s DEF BackupUsable, CopiesFresh, ActorsInTurn, DataFits
  <2>5. DataFits' BY <1>0, <2>s DEF DataFits, BackupUsable, CopiesFresh, ActorsInTurn
  <2> QED BY <2>1, <2>2, <2>3, <2>4, <2>5 DEF IInv
<1>2. CASE ~(db.schema < Schema[proc.ver]) /\ at' = at
  <2>s. /\ proc.pc = "open" /\ db.schema >= Schema[proc.ver]
        /\ wired' = proc.ver
        /\ Runs("serve", proc.ver)
        /\ UNCHANGED <<exe, prev, db, file, late, spent, at, has>>
    BY <1>0, <1>2, BoundsAssumption, VersionsAssumption, GoesIs
       DEF Open, Tried, Database, disk, Actors, Steps, InstalledInOrder
  <2>1. TypeOK' BY <1>0, <2>s DEF TypeOK
  <2>2. ActorsInTurn' BY <1>0, <2>s DEF ActorsInTurn, CopiesFresh
  <2>3. CopiesFresh' BY <1>0, <2>s DEF CopiesFresh, ActorsInTurn, BackupUsable, DataFits
  <2>4. BackupUsable' BY <1>0, <2>s DEF BackupUsable, CopiesFresh, ActorsInTurn, DataFits
  <2>5. DataFits' BY <1>0, <2>s DEF DataFits, BackupUsable, CopiesFresh, ActorsInTurn
  <2> QED BY <2>1, <2>2, <2>3, <2>4, <2>5 DEF IInv
<1>3. CASE ~(db.schema < Schema[proc.ver]) /\ at' # at
  <2>s. /\ proc.pc = "open" /\ db.schema >= Schema[proc.ver] /\ Phase = "verifying"
           /\ proc.ver = file.to
        /\ wired' = proc.ver
        /\ Moved(at["start"], "load", at["install"], at["hand"])
        /\ Runs("serve", proc.ver)
        /\ UNCHANGED <<exe, prev, db, file, late, spent, has>>
    BY <1>0, <1>3, BoundsAssumption, VersionsAssumption, GoesIs
       DEF Open, Tried, Database, disk, Actors, Steps, InstalledInOrder
  <2>1. TypeOK' BY <1>0, <2>s DEF TypeOK
  <2>2. ActorsInTurn' BY <1>0, <2>s DEF ActorsInTurn, CopiesFresh
  <2>3. CopiesFresh' BY <1>0, <2>s DEF CopiesFresh, ActorsInTurn, BackupUsable, DataFits
  <2>4. BackupUsable' BY <1>0, <2>s DEF BackupUsable, CopiesFresh, ActorsInTurn, DataFits
  <2>5. DataFits' BY <1>0, <2>s DEF DataFits, BackupUsable, CopiesFresh, ActorsInTurn
  <2> QED BY <2>1, <2>2, <2>3, <2>4, <2>5 DEF IInv
<1> QED
  BY <1>0, <1>1, <1>2, <1>3, GoesIs
     DEF Open, Tried, Database, disk, Actors, Steps, InstalledInOrder

\* Writes leave the schema.
LEMMA WriteDataStep ==
  ASSUME InstalledInOrder, IInv, WriteData
  PROVE  IInv'
<1>0. Known
  BY KnownIs
<1>s. /\ db' \in Database /\ db'.schema = db.schema
      /\ UNCHANGED <<exe, prev, wired, file, late, spent, proc, at, has>>
  BY <1>0, BoundsAssumption, VersionsAssumption
     DEF WriteData, Database, disk, Actors, Steps, InstalledInOrder
<1>1. TypeOK' BY <1>0, <1>s DEF TypeOK
<1>2. ActorsInTurn' BY <1>0, <1>s DEF ActorsInTurn, CopiesFresh
<1>3. CopiesFresh' BY <1>0, <1>s DEF CopiesFresh, ActorsInTurn, BackupUsable, DataFits
<1>4. BackupUsable' BY <1>0, <1>s DEF BackupUsable, CopiesFresh, ActorsInTurn, DataFits
<1>5. DataFits' BY <1>0, <1>s DEF DataFits, BackupUsable, CopiesFresh, ActorsInTurn
<1> QED BY <1>1, <1>2, <1>3, <1>4, <1>5 DEF IInv

\* watchUpdate has read the state of the update it watches.
LEMMA WatchLoadStep ==
  ASSUME InstalledInOrder, IInv, WatchLoad
  PROVE  IInv'
<1>0. Known
  BY KnownIs
<1>1. CASE at'["watch"] = "healthy"
  <2>s. /\ Quiet
        /\ at["watch"] = "load" /\ Phase = "verifying" /\ proc.ver = file.to
        /\ Moved(at["start"], "healthy", at["install"], at["hand"])
        /\ Holds(has["start"], file, has["install"], has["hand"])
        /\ UNCHANGED <<exe, prev, db, wired, file, late, spent, proc>>
    BY <1>0, <1>1, BoundsAssumption, VersionsAssumption, GoesIs, ReadsIs
       DEF WatchLoad, Tried, Whole, ActorsInTurn, BackupUsable, disk, Actors, Steps,
           InstalledInOrder
  <2>1. TypeOK' BY <1>0, <2>s DEF TypeOK
  <2>2. ActorsInTurn' BY <1>0, <2>s DEF ActorsInTurn, CopiesFresh
  <2>3. CopiesFresh' BY <1>0, <2>s DEF CopiesFresh, ActorsInTurn, BackupUsable, DataFits
  <2>4. BackupUsable' BY <1>0, <2>s DEF BackupUsable, CopiesFresh, ActorsInTurn, DataFits
  <2>5. DataFits' BY <1>0, <2>s DEF DataFits, BackupUsable, CopiesFresh, ActorsInTurn
  <2> QED BY <2>1, <2>2, <2>3, <2>4, <2>5 DEF IInv
<1>2. CASE at'["watch"] = "idle"
  <2>s. /\ Quiet
        /\ at["watch"] = "load"
        /\ Moved(at["start"], "idle", at["install"], at["hand"])
        /\ Holds(has["start"], file, has["install"], has["hand"])
        /\ UNCHANGED <<exe, prev, db, wired, file, late, spent, proc>>
    BY <1>0, <1>2, BoundsAssumption, VersionsAssumption, GoesIs, ReadsIs
       DEF WatchLoad, Tried, Whole, ActorsInTurn, BackupUsable, disk, Actors, Steps,
           InstalledInOrder
  <2>1. TypeOK' BY <1>0, <2>s DEF TypeOK
  <2>2. ActorsInTurn' BY <1>0, <2>s DEF ActorsInTurn, CopiesFresh
  <2>3. CopiesFresh' BY <1>0, <2>s DEF CopiesFresh, ActorsInTurn, BackupUsable, DataFits
  <2>4. BackupUsable' BY <1>0, <2>s DEF BackupUsable, CopiesFresh, ActorsInTurn, DataFits
  <2>5. DataFits' BY <1>0, <2>s DEF DataFits, BackupUsable, CopiesFresh, ActorsInTurn
  <2> QED BY <2>1, <2>2, <2>3, <2>4, <2>5 DEF IInv
<1>3. CASE at'["watch"] = "copy"
  <2>s. /\ Quiet
        /\ at["watch"] = "load" /\ Named
        /\ Moved(at["start"], "copy", at["install"], at["hand"])
        /\ Holds(has["start"], file, has["install"], has["hand"])
        /\ UNCHANGED <<exe, prev, db, wired, file, late, spent, proc>>
    BY <1>0, <1>3, BoundsAssumption, VersionsAssumption, GoesIs, ReadsIs
       DEF WatchLoad, Tried, Whole, ActorsInTurn, BackupUsable, disk, Actors, Steps,
           InstalledInOrder
  <2>1. TypeOK' BY <1>0, <2>s DEF TypeOK
  <2>2. ActorsInTurn' BY <1>0, <2>s DEF ActorsInTurn, CopiesFresh
  <2>3. CopiesFresh' BY <1>0, <2>s DEF CopiesFresh, ActorsInTurn, BackupUsable, DataFits
  <2>4. BackupUsable' BY <1>0, <2>s DEF BackupUsable, CopiesFresh, ActorsInTurn, DataFits
  <2>5. DataFits' BY <1>0, <2>s DEF DataFits, BackupUsable, CopiesFresh, ActorsInTurn
  <2> QED BY <2>1, <2>2, <2>3, <2>4, <2>5 DEF IInv
<1> QED
  BY <1>0, <1>1, <1>2, <1>3, GoesIs
     DEF WatchLoad, Tried, Whole, ActorsInTurn, BackupUsable, disk, Actors, Steps,
         InstalledInOrder

\* The update is over: its binary has the data.
LEMMA HealthyStep ==
  ASSUME InstalledInOrder, IInv, Healthy
  PROVE  IInv'
<1>0. Known
  BY KnownIs
<1>f. file \in State /\ file' = [file EXCEPT !.phase = "done"]
  BY <1>0
     DEF Healthy, CopiesFresh, ActorsInTurn, Goes, Reads, disk, Actors, Steps, InstalledInOrder
<1>g. /\ file' \in State /\ file' # None
      /\ file'.phase = "done" /\ file'.from = file.from /\ file'.to = file.to
         /\ file'.backup = file.backup
  BY <1>f, PhaseIs DEF Phases
<1>s. /\ at["watch"] = "healthy" /\ Named /\ has["watch"] = file /\ Phase = "verifying"
      /\ Moved(at["start"], "idle", at["install"], at["hand"])
      /\ UNCHANGED <<exe, prev, db, wired, late, spent, proc, has>>
  BY <1>0, BoundsAssumption, VersionsAssumption, <1>g, GoesIs
     DEF Healthy, CopiesFresh, ActorsInTurn, disk, Actors, Steps, InstalledInOrder
<1>1. TypeOK' BY <1>0, <1>s, <1>g DEF TypeOK
<1>2. ActorsInTurn' BY <1>0, <1>s, <1>g DEF ActorsInTurn, CopiesFresh
<1>3. CopiesFresh' BY <1>0, <1>s, <1>g DEF CopiesFresh, ActorsInTurn, BackupUsable, DataFits
<1>4. BackupUsable' BY <1>0, <1>s, <1>g DEF BackupUsable, CopiesFresh, ActorsInTurn, DataFits
<1>5. DataFits' BY <1>0, <1>s, <1>g DEF DataFits, BackupUsable, CopiesFresh, ActorsInTurn
<1> QED BY <1>1, <1>2, <1>3, <1>4, <1>5 DEF IInv

\* An install starts from the binary that serves.
LEMMA StartInstallStep ==
  ASSUME InstalledInOrder, IInv, NEW v \in Versions, StartInstall(v)
  PROVE  IInv'
<1>0. Known
  BY KnownIs
<1>r. Released(v) \in State /\ Released(v).phase = "failed" /\ Released(v).from = proc.ver
      /\ Released(v).to = v /\ Released(v).backup = None
  BY <1>0, BoundsAssumption DEF Released, State, Phases
<1>q. Released(v) # None
  BY <1>r, StateIs
<1>e. exe = proc.ver
  BY <1>0 DEF StartInstall, DataFits, ActorsInTurn, InstalledInOrder
<1>s. /\ at["install"] = "idle" /\ at["hand"] = "idle" /\ ~Pending /\ proc.pc = "serve"
      /\ has'["install"] # None /\ has'["install"].phase = "failed"
         /\ has'["install"].from = proc.ver /\ proc.ver < has'["install"].to
      /\ Moved(at["start"], at["watch"], "preflight", at["hand"])
      /\ Holds(has["start"], has["watch"], Released(v), has["hand"])
      /\ UNCHANGED <<exe, prev, db, wired, file, late, spent, proc>>
  BY <1>0, BoundsAssumption, VersionsAssumption, <1>r, <1>q, <1>e, GoesIs, ReadsIs
     DEF StartInstall, DataFits, BackupUsable, disk, Actors, Steps, InstalledInOrder
<1>1. TypeOK' BY <1>0, <1>s, <1>r, <1>q, <1>e DEF TypeOK
<1>2. ActorsInTurn' BY <1>0, <1>s, <1>r, <1>q, <1>e DEF ActorsInTurn, CopiesFresh
<1>3. CopiesFresh' BY <1>0, <1>s, <1>r, <1>q, <1>e DEF CopiesFresh, ActorsInTurn, BackupUsable,
   DataFits
<1>4. BackupUsable' BY <1>0, <1>s, <1>r, <1>q, <1>e DEF BackupUsable, CopiesFresh, ActorsInTurn,
   DataFits
<1>5. DataFits' BY <1>0, <1>s, <1>r, <1>q, <1>e DEF DataFits, BackupUsable, CopiesFresh,
   ActorsInTurn
<1> QED BY <1>1, <1>2, <1>3, <1>4, <1>5 DEF IInv

\* The release is checked.
LEMMA PreflightStep ==
  ASSUME InstalledInOrder, IInv, Preflight
  PROVE  IInv'
<1>0. Known
  BY KnownIs
<1>s. /\ at["install"] = "preflight"
      /\ Moved(at["start"], at["watch"], "backup", at["hand"])
      /\ UNCHANGED <<exe, prev, db, wired, file, late, spent, proc, has>>
  BY <1>0, BoundsAssumption, VersionsAssumption, GoesIs
     DEF Preflight, disk, Actors, Steps, InstalledInOrder
<1>1. TypeOK' BY <1>0, <1>s DEF TypeOK
<1>2. ActorsInTurn' BY <1>0, <1>s DEF ActorsInTurn, CopiesFresh
<1>3. CopiesFresh' BY <1>0, <1>s DEF CopiesFresh, ActorsInTurn, BackupUsable, DataFits
<1>4. BackupUsable' BY <1>0, <1>s DEF BackupUsable, CopiesFresh, ActorsInTurn, DataFits
<1>5. DataFits' BY <1>0, <1>s DEF DataFits, BackupUsable, CopiesFresh, ActorsInTurn
<1> QED BY <1>1, <1>2, <1>3, <1>4, <1>5 DEF IInv

\* The backup is of the data the serving binary has open.
LEMMA BackUpStep ==
  ASSUME InstalledInOrder, IInv, BackUp
  PROVE  IInv'
<1>0. Known
  BY KnownIs
<1>h. has["install"] \in State /\ has["install"] # None /\ has["install"].from < has["install"].to
      /\ has["install"].from \in Nat /\ has["install"].to \in Nat
      /\ Schema[has["install"].from] \in Nat /\ Schema[has["install"].to] \in Nat
      /\ Schema[has["install"].from] <= Schema[has["install"].to]
      /\ has["install"].to \in Versions
  BY <1>0, ReadInstall DEF BackUp, Actors, CopiesFresh
<1>w. [db |-> db, wired |-> wired] \in Backup
  BY <1>0 DEF Backup
<1>r. Reads("install", [has["install"] EXCEPT !.backup = [db |-> db, wired |-> wired]])
  BY DEF BackUp
<1>m. \A new : new = [has["install"] EXCEPT !.backup = [db |-> db, wired |-> wired]] => new \in State
       /\ new # None /\ new.phase = has["install"].phase /\ new.from = has["install"].from
       /\ new.to = has["install"].to /\ new.backup = [db |-> db, wired |-> wired]
  BY <1>h, <1>w, WithBackupIs
<1>b. has'["install"] \in State /\ has'["install"].phase = has["install"].phase
      /\ has'["install"].from = has["install"].from /\ has'["install"].to = has["install"].to
      /\ has'["install"].backup = [db |-> db, wired |-> wired] /\ has'["install"] # None
      /\ has' \in [Actors -> State \cup {None}] /\ has'["start"] = has["start"]
      /\ has'["watch"] = has["watch"] /\ has'["hand"] = has["hand"]
  BY <1>0, <1>r, <1>m, ReadsIs DEF Actors
<1>k. has'["install"].backup # None /\ has'["install"].backup.db = db
      /\ has'["install"].backup.wired = wired
  BY <1>b, <1>w, BackupIs
<1>s. /\ at["install"] = "backup"
      /\ Moved(at["start"], at["watch"], "prev", at["hand"])
      /\ UNCHANGED <<exe, prev, db, wired, file, late, spent, proc>>
  BY <1>0, GoesIs, ReadsIs DEF BackUp, Backup, disk, Actors, Steps, InstalledInOrder
<1>1. TypeOK' BY <1>0, <1>s, <1>h, <1>w, <1>r, <1>m, <1>b, <1>k DEF TypeOK
<1>2. ActorsInTurn' BY <1>0, <1>s, <1>h, <1>w, <1>r, <1>m, <1>b, <1>k DEF ActorsInTurn, CopiesFresh
<1>3. CopiesFresh' BY <1>0, <1>s, <1>h, <1>w, <1>r, <1>m, <1>b, <1>k DEF CopiesFresh,
   ActorsInTurn, BackupUsable, DataFits
<1>4. BackupUsable' BY <1>0, <1>s, <1>h, <1>w, <1>r, <1>m, <1>b, <1>k DEF BackupUsable,
   CopiesFresh, ActorsInTurn, DataFits
<1>5. DataFits' BY <1>0, <1>s, <1>h, <1>w, <1>r, <1>m, <1>b, <1>k DEF DataFits, BackupUsable,
   CopiesFresh, ActorsInTurn
<1> QED BY <1>1, <1>2, <1>3, <1>4, <1>5 DEF IInv

\* The binary kept is the one the backup is of.
LEMMA KeepPreviousStep ==
  ASSUME InstalledInOrder, IInv, KeepPrevious
  PROVE  IInv'
<1>0. Known
  BY KnownIs
<1>s. /\ at["install"] = "prev"
      /\ prev' = exe
      /\ Moved(at["start"], at["watch"], "note", at["hand"])
      /\ UNCHANGED <<exe, db, wired, file, late, spent, proc, has>>
  BY <1>0, BoundsAssumption, VersionsAssumption, GoesIs
     DEF KeepPrevious, disk, Actors, Steps, InstalledInOrder
<1>1. TypeOK' BY <1>0, <1>s DEF TypeOK
<1>2. ActorsInTurn' BY <1>0, <1>s DEF ActorsInTurn, CopiesFresh
<1>3. CopiesFresh' BY <1>0, <1>s DEF CopiesFresh, ActorsInTurn, BackupUsable, DataFits
<1>4. BackupUsable' BY <1>0, <1>s DEF BackupUsable, CopiesFresh, ActorsInTurn, DataFits
<1>5. DataFits' BY <1>0, <1>s DEF DataFits, BackupUsable, CopiesFresh, ActorsInTurn
<1> QED BY <1>1, <1>2, <1>3, <1>4, <1>5 DEF IInv

\* The state names the backup, and the binary it is for is kept.
LEMMA NoteStep ==
  ASSUME InstalledInOrder, IInv, Note
  PROVE  IInv'
<1>0. Known
  BY KnownIs
<1>h. has["install"] \in State /\ has["install"] # None /\ has["install"].from < has["install"].to
      /\ has["install"].from \in Nat /\ has["install"].to \in Nat
      /\ Schema[has["install"].from] \in Nat /\ Schema[has["install"].to] \in Nat
      /\ Schema[has["install"].from] <= Schema[has["install"].to]
      /\ has["install"].to \in Versions
  BY <1>0, ReadInstall DEF Note, Actors, CopiesFresh
<1>f. has["install"] \in State /\ file' = [has["install"] EXCEPT !.phase = "restarting"]
  BY <1>0, <1>h DEF Note, CopiesFresh, Goes, Reads, disk, Actors, Steps, InstalledInOrder
<1>g. /\ file' \in State /\ file' # None
      /\ file'.phase = "restarting" /\ file'.from = has["install"].from
         /\ file'.to = has["install"].to /\ file'.backup = has["install"].backup
  BY <1>f, PhaseIs DEF Phases
<1>s. /\ at["install"] = "note" /\ has["install"] \in State /\ has["install"] # None
      /\ file' = [has["install"] EXCEPT !.phase = "restarting"]
      /\ late' = FALSE
      /\ Moved(at["start"], at["watch"], "swap", at["hand"])
      /\ UNCHANGED <<exe, prev, db, wired, spent, proc, has>>
  BY <1>0, BoundsAssumption, VersionsAssumption, <1>h, <1>g, GoesIs
     DEF Note, CopiesFresh, disk, Actors, Steps, InstalledInOrder
<1>1. TypeOK' BY <1>0, <1>s, <1>h, <1>g DEF TypeOK
<1>2. ActorsInTurn' BY <1>0, <1>s, <1>h, <1>g DEF ActorsInTurn, CopiesFresh
<1>3. CopiesFresh' BY <1>0, <1>s, <1>h, <1>g DEF CopiesFresh, ActorsInTurn, BackupUsable, DataFits
<1>4. BackupUsable' BY <1>0, <1>s, <1>h, <1>g DEF BackupUsable, CopiesFresh, ActorsInTurn, DataFits
<1>5. DataFits' BY <1>0, <1>s, <1>h, <1>g DEF DataFits, BackupUsable, CopiesFresh, ActorsInTurn
<1> QED BY <1>1, <1>2, <1>3, <1>4, <1>5 DEF IInv

\* The new binary is in place.
LEMMA SwapStep ==
  ASSUME InstalledInOrder, IInv, Swap
  PROVE  IInv'
<1>0. Known
  BY KnownIs
<1>h. has["install"] \in State /\ has["install"] # None /\ has["install"].from < has["install"].to
      /\ has["install"].from \in Nat /\ has["install"].to \in Nat
      /\ Schema[has["install"].from] \in Nat /\ Schema[has["install"].to] \in Nat
      /\ Schema[has["install"].from] <= Schema[has["install"].to]
      /\ has["install"].to \in Versions
  BY <1>0, ReadInstall DEF Swap, Actors, CopiesFresh
<1>e. file = [has["install"] EXCEPT !.phase = "restarting"]
  BY <1>0 DEF Swap, CopiesFresh
<1>p. file \in State /\ file # None /\ file.phase = "restarting"
      /\ file.from = has["install"].from /\ file.to = has["install"].to
      /\ file.backup = has["install"].backup
  BY <1>h, <1>e, PhaseIs DEF Phases
<1>s. /\ at["install"] = "swap" /\ has["install"] \in State /\ has["install"] # None
      /\ file \in State /\ file # None /\ file.phase = "restarting"
         /\ file.from = has["install"].from /\ file.to = has["install"].to
         /\ file.backup = has["install"].backup
      /\ exe' = file.to /\ exe' \in Versions
      /\ Moved(at["start"], at["watch"], "exit", at["hand"])
      /\ UNCHANGED <<prev, db, wired, file, late, spent, proc, has>>
  BY <1>0, BoundsAssumption, VersionsAssumption, <1>h, <1>e, <1>p, GoesIs
     DEF Swap, CopiesFresh, disk, Actors, Steps, InstalledInOrder
<1>1. TypeOK' BY <1>0, <1>s, <1>h, <1>e, <1>p DEF TypeOK
<1>2. ActorsInTurn' BY <1>0, <1>s, <1>h, <1>e, <1>p DEF ActorsInTurn, CopiesFresh
<1>3. CopiesFresh' BY <1>0, <1>s, <1>h, <1>e, <1>p DEF CopiesFresh, ActorsInTurn, BackupUsable,
   DataFits
<1>4. BackupUsable' BY <1>0, <1>s, <1>h, <1>e, <1>p DEF BackupUsable, CopiesFresh, ActorsInTurn,
   DataFits
<1>5. DataFits' BY <1>0, <1>s, <1>h, <1>e, <1>p DEF DataFits, BackupUsable, CopiesFresh,
   ActorsInTurn
<1> QED BY <1>1, <1>2, <1>3, <1>4, <1>5 DEF IInv

\* An install that fails leaves the serving binary and its data.
LEMMA InstallFailsStep ==
  ASSUME InstalledInOrder, IInv, InstallFails
  PROVE  IInv'
<1>0. Known
  BY KnownIs
<1>1. CASE at["install"] = "swap"
  <2>h. has["install"] \in State /\ has["install"] # None
        /\ has["install"].from < has["install"].to /\ has["install"].from \in Nat
        /\ has["install"].to \in Nat /\ Schema[has["install"].from] \in Nat
        /\ Schema[has["install"].to] \in Nat
        /\ Schema[has["install"].from] <= Schema[has["install"].to]
        /\ has["install"].to \in Versions
    BY <1>1, <1>0, ReadInstall DEF Actors, CopiesFresh
  <2>e. file = [has["install"] EXCEPT !.phase = "restarting"]
    BY <1>1, <1>0 DEF CopiesFresh
  <2>p. file \in State /\ file # None /\ file.phase = "restarting"
        /\ file.from = has["install"].from /\ file.to = has["install"].to
        /\ file.backup = has["install"].backup
    BY <2>h, <2>e, PhaseIs DEF Phases
  <2>s. /\ at["install"] = "swap" /\ has["install"] \in State /\ has["install"] # None
        /\ file \in State /\ file # None /\ file.phase = "restarting"
           /\ file.from = has["install"].from /\ file.to = has["install"].to
           /\ file.backup = has["install"].backup
        /\ file' = has["install"]
        /\ Moved(at["start"], at["watch"], "idle", at["hand"])
        /\ UNCHANGED <<exe, prev, db, wired, late, spent, proc, has>>
    BY <1>0, <1>1, BoundsAssumption, VersionsAssumption, <2>h, <2>e, <2>p, GoesIs
       DEF InstallFails, CopiesFresh, Refused, disk, Actors, Steps, InstalledInOrder
  <2>1. TypeOK' BY <1>0, <2>s, <2>h, <2>e, <2>p DEF TypeOK
  <2>2. ActorsInTurn' BY <1>0, <2>s, <2>h, <2>e, <2>p DEF ActorsInTurn, CopiesFresh
  <2>3. CopiesFresh' BY <1>0, <2>s, <2>h, <2>e, <2>p DEF CopiesFresh, ActorsInTurn, BackupUsable,
     DataFits
  <2>4. BackupUsable' BY <1>0, <2>s, <2>h, <2>e, <2>p DEF BackupUsable, CopiesFresh, ActorsInTurn,
     DataFits
  <2>5. DataFits' BY <1>0, <2>s, <2>h, <2>e, <2>p DEF DataFits, BackupUsable, CopiesFresh,
     ActorsInTurn
  <2> QED BY <2>1, <2>2, <2>3, <2>4, <2>5 DEF IInv
<1>2. CASE at["install"] # "swap" /\ Refused
  <2>s. /\ at["install"] # "swap" /\ at["install"] # "idle" /\ file.phase = "failed" /\ file # None
        /\ Moved(at["start"], at["watch"], "idle", at["hand"])
        /\ UNCHANGED <<exe, prev, db, wired, file, late, spent, proc, has>>
    BY <1>0, <1>2, BoundsAssumption, VersionsAssumption, GoesIs
       DEF InstallFails, CopiesFresh, Refused, disk, Actors, Steps, InstalledInOrder
  <2>1. TypeOK' BY <1>0, <2>s DEF TypeOK
  <2>2. ActorsInTurn' BY <1>0, <2>s DEF ActorsInTurn, CopiesFresh
  <2>3. CopiesFresh' BY <1>0, <2>s DEF CopiesFresh, ActorsInTurn, BackupUsable, DataFits
  <2>4. BackupUsable' BY <1>0, <2>s DEF BackupUsable, CopiesFresh, ActorsInTurn, DataFits
  <2>5. DataFits' BY <1>0, <2>s DEF DataFits, BackupUsable, CopiesFresh, ActorsInTurn
  <2> QED BY <2>1, <2>2, <2>3, <2>4, <2>5 DEF IInv
<1>3. CASE at["install"] # "swap" /\ ~Refused
  <2>h. has["install"] \in State /\ has["install"] # None
        /\ has["install"].from < has["install"].to /\ has["install"].from \in Nat
        /\ has["install"].to \in Nat /\ Schema[has["install"].from] \in Nat
        /\ Schema[has["install"].to] \in Nat
        /\ Schema[has["install"].from] <= Schema[has["install"].to]
        /\ has["install"].to \in Versions
    BY <1>3, <1>0, ReadInstall DEF InstallFails, InstalledInOrder, Actors, CopiesFresh
  <2>e. file' = [has["install"] EXCEPT !.backup = None]
    BY <1>3 DEF InstallFails
  <2>p. file' \in State /\ file' # None /\ file'.phase = has["install"].phase /\ file'.backup = None
    BY <2>h, <2>e, WithBackupIs
  <2>s. /\ at["install"] \in {"preflight", "backup", "prev", "note"}
        /\ file' \in State /\ file' # None /\ file'.phase = "failed" /\ file'.backup = None
        /\ Moved(at["start"], at["watch"], "idle", at["hand"])
        /\ UNCHANGED <<exe, prev, db, wired, late, spent, proc, has>>
    BY <1>0, <1>3, BoundsAssumption, VersionsAssumption, <2>h, <2>e, <2>p, GoesIs
       DEF InstallFails, CopiesFresh, Refused, disk, Actors, Steps, InstalledInOrder
  <2>1. TypeOK' BY <1>0, <2>s, <2>h, <2>e, <2>p DEF TypeOK
  <2>2. ActorsInTurn' BY <1>0, <2>s, <2>h, <2>e, <2>p DEF ActorsInTurn, CopiesFresh
  <2>3. CopiesFresh' BY <1>0, <2>s, <2>h, <2>e, <2>p DEF CopiesFresh, ActorsInTurn, BackupUsable,
     DataFits
  <2>4. BackupUsable' BY <1>0, <2>s, <2>h, <2>e, <2>p DEF BackupUsable, CopiesFresh, ActorsInTurn,
     DataFits
  <2>5. DataFits' BY <1>0, <2>s, <2>h, <2>e, <2>p DEF DataFits, BackupUsable, CopiesFresh,
     ActorsInTurn
  <2> QED BY <2>1, <2>2, <2>3, <2>4, <2>5 DEF IInv
<1> QED
  BY <1>0, <1>1, <1>2, <1>3, GoesIs
     DEF InstallFails, CopiesFresh, Refused, disk, Actors, Steps, InstalledInOrder

\* A rollback by hand has read the state.
LEMMA RollbackByHandStep ==
  ASSUME InstalledInOrder, IInv, RollbackByHand
  PROVE  IInv'
<1>0. Known
  BY KnownIs
<1>s. /\ at["hand"] = "idle" /\ Named /\ proc.pc = "serve" /\ at["install"] = "idle"
         /\ at["watch"] \in {"idle", "load"}
      /\ spent' \in [hands: 0..MaxHands, faults: 0..MaxFaults]
      /\ Moved(at["start"], at["watch"], at["install"], "copy")
      /\ Holds(has["start"], has["watch"], has["install"], file)
      /\ UNCHANGED <<exe, prev, db, wired, file, late, proc>>
  BY <1>0, BoundsAssumption, VersionsAssumption, GoesIs, ReadsIs
     DEF RollbackByHand, disk, Actors, Steps, InstalledInOrder
<1>1. TypeOK' BY <1>0, <1>s DEF TypeOK
<1>2. ActorsInTurn' BY <1>0, <1>s DEF ActorsInTurn, CopiesFresh
<1>3. CopiesFresh' BY <1>0, <1>s DEF CopiesFresh, ActorsInTurn, BackupUsable, DataFits
<1>4. BackupUsable' BY <1>0, <1>s DEF BackupUsable, CopiesFresh, ActorsInTurn, DataFits
<1>5. DataFits' BY <1>0, <1>s DEF DataFits, BackupUsable, CopiesFresh, ActorsInTurn
<1> QED BY <1>1, <1>2, <1>3, <1>4, <1>5 DEF IInv

\* The deadline changes nothing else.
LEMMA LatenessStep ==
  ASSUME InstalledInOrder, IInv, Lateness
  PROVE  IInv'
<1>0. Known
  BY KnownIs
<1>s. /\ late' = TRUE
      /\ UNCHANGED <<exe, prev, db, wired, file, spent, proc, at, has>>
  BY <1>0, BoundsAssumption, VersionsAssumption
     DEF Lateness, disk, Actors, Steps, InstalledInOrder
<1>1. TypeOK' BY <1>0, <1>s DEF TypeOK
<1>2. ActorsInTurn' BY <1>0, <1>s DEF ActorsInTurn, CopiesFresh
<1>3. CopiesFresh' BY <1>0, <1>s DEF CopiesFresh, ActorsInTurn, BackupUsable, DataFits
<1>4. BackupUsable' BY <1>0, <1>s DEF BackupUsable, CopiesFresh, ActorsInTurn, DataFits
<1>5. DataFits' BY <1>0, <1>s DEF DataFits, BackupUsable, CopiesFresh, ActorsInTurn
<1> QED BY <1>1, <1>2, <1>3, <1>4, <1>5 DEF IInv

\* A process may die wherever nothing is half written.
LEMMA DieStep ==
  ASSUME InstalledInOrder, IInv, Die
  PROVE  IInv'
<1>0. Known
  BY KnownIs
<1>s. /\ Quiet
      /\ at["hand"] # "copy"
      /\ spent' \in [hands: 0..MaxHands, faults: 0..MaxFaults]
      /\ Moved("idle", "idle", "idle", at["hand"])
      /\ has' \in [Actors -> State \cup {None}]
      /\ Runs("down", proc.ver)
      /\ UNCHANGED <<exe, prev, db, wired, file, late>>
  BY <1>0, BoundsAssumption, VersionsAssumption, EndsIs
     DEF Die, Inside, Whole, disk, Actors, Steps, InstalledInOrder
<1>1. TypeOK' BY <1>0, <1>s DEF TypeOK
<1>2. ActorsInTurn' BY <1>0, <1>s DEF ActorsInTurn, CopiesFresh
<1>3. CopiesFresh' BY <1>0, <1>s DEF CopiesFresh, ActorsInTurn, BackupUsable, DataFits
<1>4. BackupUsable' BY <1>0, <1>s DEF BackupUsable, CopiesFresh, ActorsInTurn, DataFits
<1>5. DataFits' BY <1>0, <1>s DEF DataFits, BackupUsable, CopiesFresh, ActorsInTurn
<1> QED BY <1>1, <1>2, <1>3, <1>4, <1>5 DEF IInv

-----------------------------------------------------------------------------
(* The theorems.                                                           *)

\* A fresh server: nothing is installed and the first release runs.
LEMMA InitInv ==
  ASSUME Init PROVE IInv
<1>1. /\ 1 \in Versions /\ 1 \in Nat /\ Schema[1] \in Nat
      /\ 0 \in 0..MaxWrites /\ 0 \in 0..MaxHands /\ 0 \in 0..MaxFaults
  BY VersionsAssumption, BoundsAssumption
<1>2. TypeOK
  BY <1>1 DEF Init, TypeOK, Database, Actors, Steps
<1>3. ActorsInTurn
  BY DEF Init, ActorsInTurn, Actors, Pending, InTrial, Phase, InProgress
<1>4. CopiesFresh
  BY DEF Init, CopiesFresh, Actors
<1>5. BackupUsable
  BY DEF Init, BackupUsable, Named, Pending, InTrial, Phase, InProgress
<1>6. DataFits
  BY <1>1 DEF Init, DataFits, DataFor, Actors, Phase, Saving
<1> QED BY <1>2, <1>3, <1>4, <1>5, <1>6 DEF IInv

\* A step of nobody keeps it.
LEMMA StutterInv ==
  ASSUME IInv, UNCHANGED vars PROVE IInv'
BY DEF IInv, vars, TypeOK, ActorsInTurn, CopiesFresh, BackupUsable, DataFits, DataFor, Named,
   Saving, Pending, InTrial, Phase, InProgress

\* IInv is inductive.
LEMMA StepInv ==
  ASSUME InstalledInOrder, IInv, [Next]_vars PROVE IInv'
<1>1. ASSUME NEW a \in Actors, RollbackCopy(a) \/ RollbackSave(a) \/ Exit(a) \/ Fails(a)
      PROVE  IInv'
  BY <1>1, RollbackCopyStep, RollbackSaveStep, ExitStep, FailsStep
<1>2. ASSUME NEW v \in Versions, StartInstall(v) PROVE IInv'
  BY <1>2, StartInstallStep
<1> QED
  BY <1>1, <1>2, StutterInv, StartStep, GuardLoadStep, BootLoadStep, RestoreDatabaseStep,
     RestoreWiredStep, RestoreRecordStep, OpenStep, WriteDataStep, WatchLoadStep, HealthyStep,
     PreflightStep, BackUpStep, KeepPreviousStep, NoteStep, SwapStep, InstallFailsStep,
     RollbackByHandStep, LatenessStep, DieStep
     DEF Next

\* IInv holds at all times.
LEMMA InvHolds ==
  ASSUME InstalledInOrder PROVE Spec => []IInv
<1>1. Init => IInv
  BY InitInv
<1>2. IInv /\ [Next]_vars => IInv'
  BY StepInv
<1> QED BY <1>1, <1>2, PTL DEF Spec

\* RollbackSound: the data is never open in a binary older than what wrote it,
\* and an update recorded as rolled back left the previous binary, whatever dies
\* or fails between the writes of an install and of a rollback (install.go).
THEOREM RollbackStaysSound ==
  ASSUME InstalledInOrder PROVE Spec => []RollbackSound
<1>1. IInv => RollbackSound
  <2>1. SUFFICES ASSUME IInv PROVE RollbackSound
    OBVIOUS
  <2>2. OldOpensOnlyOld
    BY <2>1, KnownIs DEF Known, DataFits, DataFor, OldOpensOnlyOld
  <2>3. RolledBackMeansOld
    <3>1. SUFFICES ASSUME Phase = "rolled_back" PROVE exe = file.from
      BY DEF RolledBackMeansOld
    <3> QED BY <2>1, <3>1 DEF IInv, BackupUsable, Phase
  <2> QED BY <2>1, <2>2, <2>3 DEF RollbackSound, IInv
<1>2. QED BY <1>1, InvHolds, PTL

\* SameSchemaKeepsWrites: a rollback takes data written since away only if the
\* update changed the schema ("otherwise newer data is kept", install.go).
THEOREM WritesOutliveRollbacks ==
  ASSUME InstalledInOrder PROVE Spec => SameSchemaKeepsWrites
<1>1. IInv /\ [Next]_vars => [db'.writes < db.writes => Schema[file.from] # Schema[file.to]]_vars
  <2>1. SUFFICES ASSUME IInv, Next, db'.writes < db.writes
                 PROVE  Schema[file.from] # Schema[file.to]
    OBVIOUS
  <2>2. Known
    BY <2>1, KnownIs
  <2>3. db.writes \in Nat
    BY <2>2, DatabaseIs, BoundsAssumption DEF Known
  <2>4. CASE RestoreDatabase
    BY <2>1, <2>2, <2>3, <2>4
       DEF Known, RestoreDatabase, CopiesFresh, BackupUsable, Named, Numbers
  <2>5. CASE Open
    <3>1. db' = [db EXCEPT !.schema = @ + 1] \/ db' = db
      BY <2>5 DEF Open
    <3> QED BY <2>1, <2>2, <2>3, <3>1, DatabaseIs DEF Known, Database
  <2>6. CASE WriteData
    <3>1. db' = [db EXCEPT !.writes = @ + 1]
      BY <2>6 DEF WriteData
    <3> QED BY <2>1, <2>2, <2>3, <3>1 DEF Known, Database
  <2>7. CASE UNCHANGED db
    BY <2>1, <2>3, <2>7
  <2>8. ASSUME NEW a \in Actors, RollbackCopy(a) \/ RollbackSave(a) \/ Exit(a) \/ Fails(a)
        PROVE  UNCHANGED db
    BY <2>8 DEF RollbackCopy, RollbackSave, Exit, Fails, disk
  <2>9. ASSUME NEW v \in Versions, StartInstall(v) PROVE UNCHANGED db
    BY <2>9 DEF StartInstall, disk
  <2> QED
    BY <2>1, <2>4, <2>5, <2>6, <2>7, <2>8, <2>9
       DEF Next, disk, Start, GuardLoad, BootLoad, RestoreWired, RestoreRecord, WatchLoad,
           Healthy, Preflight, BackUp, KeepPrevious, Note, Swap, InstallFails, RollbackByHand,
           Lateness, Die
<1>2. QED BY <1>1, InvHolds, PTL DEF Spec, SameSchemaKeepsWrites
=============================================================================
