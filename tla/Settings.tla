------------------------------ MODULE Settings ------------------------------
(***************************************************************************)
(* The configuration file, which four programs read, change and write back *)
(* whole, and the backups the server makes by itself: internal/config,     *)
(* internal/app/autobackup.go, internal/backup/rotate.go, internal/setup,  *)
(* and the settings of internal/ui and internal/cli.                       *)
(*                                                                         *)
(* A save truncates the file and then writes it.  An archive appears whole *)
(* under its name, which is the time of its making.  The server looks once *)
(* a minute whether a backup is due; the clock may be set back.            *)
(*                                                                         *)
(* An operator Name_Slip is a wrong variant of the operator Name after it; *)
(* the specification uses none of them.                                    *)
(***************************************************************************)
EXTENDS Integers, FiniteSets, FiniteSetsExt

CONSTANTS
  Values,   \* of a setting
  Keeps,    \* how many archives to keep
  Interval, \* between backups
  MaxClock, MaxSaves, MaxDeaths, MaxBack, \* bounds: time, saves, ends of the server,
                                         \* times the clock is set back
  Off       \* no process, or nothing to do

Body == [public : Values, tls : Values, on : BOOLEAN, keep : Keeps, last : 0..MaxClock]
Jobs ==
  [step : {"prune", "create", "prune again", "save"}, cfg : Body, torn : BOOLEAN, base : Body]

\* RotateCreate takes another number for a keep that is not positive.
ASSUME SettingsAssumption ==
  /\ Keeps \subseteq Nat \ {0} /\ MaxClock \in Nat \ {0}
  /\ Off \notin Body \cup Jobs \cup [cfg : Body, base : Body] \cup [body : Body, base : Body]

VARIABLES
  file,     \* config.json: [torn, body]; the body is the last one written whole
  server,   \* the configuration the server has in memory (RT.Cfg), or Off
  page,     \* the one the administration page has, or Off
  job,      \* what AutoBackup is doing, or Off
  command,  \* the command that changes settings: [cfg, base], or Off
  saving,   \* [Writers -> what one has truncated the file for, or Off]
  archives, \* [at, made]: the time in its name, and its number
  clock, used \* used: [saves, kills, back]

settingsVars == <<file, server, page, job, command, saving, archives, clock, used>>

Writers == {"server", "page", "command"}
Uses(what, max) == used[what] < max /\ used' = [used EXCEPT ![what] = @ + 1]

-----------------------------------------------------------------------------
(* Load and Save.                                                          *)

\* WriteFile: truncate, then write; base is what the file said when it began.
SaveBegin(w, body, base) ==
  /\ saving[w] = Off /\ Uses("saves", MaxSaves)
  /\ saving' = [saving EXCEPT ![w] = [body |-> body, base |-> base]]
  /\ file' = [file EXCEPT !.torn = TRUE]

\* Two saves at once may leave the end of the longer one behind the shorter.
SaveEnd(w) ==
  /\ saving[w] # Off /\ saving' = [saving EXCEPT ![w] = Off]
  /\ \E torn \in {FALSE} \cup {\E v \in Writers \ {w} : saving[v] # Off} :
       file' = [torn |-> torn, body |-> saving[w].body]
  /\ UNCHANGED used

\* Commands read the file, do their work, and save it.
CommandReads ==
  /\ command = Off /\ ~file.torn /\ used.saves < MaxSaves
  /\ command' = [cfg |-> file.body, base |-> file.body]
  /\ UNCHANGED <<file, server, page, job, saving, archives, clock, used>>

StepReachability(v) == [command.cfg EXCEPT !.public = v]
EnableAutoBackup == [command.cfg EXCEPT !.on = TRUE]
RunTLS(v) == [command.cfg EXCEPT !.tls = v]

CommandSaves ==
  /\ command # Off
  /\ \E v \in Values : \E new \in {StepReachability(v), EnableAutoBackup, RunTLS(v)} :
       new # command.cfg /\ SaveBegin("command", new, command.base)
  /\ UNCHANGED <<server, page, job, command, archives, clock>>

CommandEnds ==
  /\ SaveEnd("command") /\ command' = Off
  /\ UNCHANGED <<server, page, job, archives, clock>>

CommandFails ==
  /\ command # Off /\ saving["command"] = Off /\ command' = Off
  /\ UNCHANGED <<file, server, page, job, saving, archives, clock, used>>

-----------------------------------------------------------------------------
(* The administration page, a process of its own.                          *)

PageStarts ==
  /\ page = Off /\ ~file.torn /\ page' = file.body
  /\ UNCHANGED <<file, server, job, command, saving, archives, clock, used>>

\* handleConfigPut, handleTLSRegen: from what the page has in memory.
ConfigPut(on, keep) ==
  [public |-> page.public, tls |-> page.tls, on |-> on, keep |-> keep, last |-> page.last]
TLSRegen(v) == [page EXCEPT !.tls = v]

PageSaves ==
  /\ page # Off
  /\ \E v \in Values, on \in BOOLEAN, keep \in Keeps : \E new \in {ConfigPut(on, keep), TLSRegen(v)} :
       new # page /\ SaveBegin("page", new, page)
  /\ UNCHANGED <<server, page, job, command, archives, clock>>

PageSaved ==
  /\ SaveEnd("page") /\ page' = saving["page"].body
  /\ UNCHANGED <<server, job, command, archives, clock>>

-----------------------------------------------------------------------------
(* The server.                                                             *)

ServerStarts ==
  /\ server = Off /\ ~file.torn /\ server' = file.body
  /\ UNCHANGED <<file, page, job, command, saving, archives, clock, used>>

ServerDies ==
  /\ server # Off /\ Uses("kills", MaxDeaths)
  /\ server' = Off /\ job' = Off /\ saving' = [saving EXCEPT !["server"] = Off]
  /\ UNCHANGED <<file, page, command, archives, clock>>

\* maybeRun reads the file; what cannot be read, it takes from memory.
Loaded_Memory == server
Loaded == IF file.torn THEN server ELSE file.body

Due(cfg) == cfg.on /\ (cfg.last = 0 \/ clock - cfg.last >= Interval)

MaybeRun ==
  /\ server # Off /\ job = Off /\ Due(Loaded) /\ used.saves < MaxSaves
  /\ job' = [step |-> "prune", cfg |-> Loaded, torn |-> file.torn, base |-> file.body]
  /\ UNCHANGED <<file, server, page, command, saving, archives, clock, used>>

JobAt(step) == job # Off /\ job.step = step
Does(step) == job' = [job EXCEPT !.step = step]

\* The passphrase file is missing, unreadable or empty.
NoPassphrase ==
  /\ JobAt("prune") /\ Does("save")
  /\ UNCHANGED <<file, server, page, command, saving, archives, clock, used>>

\* pruneBackups: the last in the order of their names stay.
Newer(a, b) == a.at > b.at \/ (a.at = b.at /\ a.made > b.made)
Pruned(keep) ==
  {a \in archives : Cardinality({b \in archives : Newer(b, a)}) < keep}

\* RotateCreate makes room before it makes the archive, and prunes again after.
PruneFirst ==
  /\ JobAt("prune") /\ Does("create") /\ archives' = Pruned(job.cfg.keep - 1)
  /\ UNCHANGED <<file, server, page, command, saving, clock, used>>

MakeArchive ==
  /\ JobAt("create") /\ Does("prune again")
  /\ archives' = archives \cup
       {[at |-> clock, made |-> 1 + Max({0} \cup {a.made : a \in archives})]}
  /\ UNCHANGED <<file, server, page, command, saving, clock, used>>

ArchiveFails ==
  /\ JobAt("create") /\ Does("save")
  /\ UNCHANGED <<file, server, page, command, saving, archives, clock, used>>

PruneAgain ==
  /\ JobAt("prune again") /\ archives' = Pruned(job.cfg.keep)
  /\ job' = [step |-> "save", cfg |-> [job.cfg EXCEPT !.last = clock],
             torn |-> job.torn, base |-> job.base]
  /\ UNCHANGED <<file, server, page, command, saving, clock, used>>

\* What was read is saved, with the time of the backup, or else its error.
JobSaves ==
  /\ JobAt("save") /\ SaveBegin("server", job.cfg, job.base)
  /\ UNCHANGED <<server, page, job, command, archives, clock>>

\* The server takes its backup settings, and no others, into its memory.
JobEnds ==
  /\ SaveEnd("server") /\ job' = Off
  /\ server' = [public |-> server.public, tls |-> server.tls,
                on |-> job.cfg.on, keep |-> job.cfg.keep, last |-> job.cfg.last]
  /\ UNCHANGED <<page, command, archives, clock>>

-----------------------------------------------------------------------------
Tick ==
  /\ clock < MaxClock /\ clock' = clock + 1
  /\ UNCHANGED <<file, server, page, job, command, saving, archives, used>>

ClockBack ==
  /\ clock > 1 /\ Uses("back", MaxBack) /\ clock' \in 1..clock - 1
  /\ UNCHANGED <<file, server, page, job, command, saving, archives>>

SettingsInit ==
  /\ \E v \in Values, keep \in Keeps :
       file = [torn |-> FALSE,
               body |-> [public |-> v, tls |-> v, on |-> TRUE, keep |-> keep, last |-> 0]]
  /\ server = file.body /\ page = Off /\ job = Off /\ command = Off
  /\ saving = [w \in Writers |-> Off] /\ archives = {} /\ clock = 1
  /\ used = [saves |-> 0, kills |-> 0, back |-> 0]

SettingsNext ==
  \/ CommandReads \/ CommandSaves \/ CommandEnds \/ CommandFails
  \/ PageStarts \/ PageSaves \/ PageSaved
  \/ ServerStarts \/ ServerDies \/ MaybeRun \/ NoPassphrase \/ PruneFirst \/ MakeArchive
  \/ ArchiveFails \/ PruneAgain \/ JobSaves \/ JobEnds
  \/ Tick \/ ClockBack

SettingsSpec == SettingsInit /\ [][SettingsNext]_settingsVars

-----------------------------------------------------------------------------
(* Properties.                                                             *)

\* The server and the commands write over a setting they do not mean to change
\* only when it was saved while they ran (autobackup.go:106), or the file could
\* not be read.  (The page does so with whatever was saved since it started.)
SettingsLostOnlyInOverlap ==
  [][\A w \in {"server", "command"} :
       /\ saving[w] # Off /\ saving'[w] = Off /\ file' # file
       /\ w = "server" => ~job.torn
       => \A k \in DOMAIN file.body :
            \/ file'.body[k] = file.body[k]
            \/ saving[w].base[k] # file.body[k]
            \/ k \in IF w = "server" THEN {"last"} ELSE {"public", "on", "tls"}]_settingsVars

\* The archive made last is removed only when one is to be kept, or the clock was
\* set back: a backup that fails does not take the last good one with it.
NewestArchiveKept ==
  [][\A a \in archives \ archives' :
       (\A b \in archives : b.made <= a.made) => job.cfg.keep = 1 \/ used.back > 0]_settingsVars

\* Neither settings nor archives are lost but in the ways above.
SettingsSound == SettingsLostOnlyInOverlap /\ NewestArchiveKept
=============================================================================
