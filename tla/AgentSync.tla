----------------------------- MODULE AgentSync -----------------------------
(***************************************************************************)
(* The desktop agent's sync of one selected folder (internal/agent):       *)
(* SyncOnce pulls the journal into the folder, then pushes what is new,    *)
(* changed or gone in it, and keeps in its map which object each file is.  *)
(* The user and other devices change files and objects meanwhile.          *)
(*                                                                         *)
(* The server is taken as modules SyncEngine and SyncFeed show it: a push  *)
(* is one step, a page of changes has every row after the cursor, the      *)
(* journal's revision and hash with the object's data of that moment.      *)
(* Folders are there on both sides; making one on the server may fail.     *)
(*                                                                         *)
(* An operator Name_Slip is a wrong variant of the operator Name after it; *)
(* the specification uses none of them.                                    *)
(***************************************************************************)
EXTENDS Integers, Sequences, FiniteSets

CONSTANTS
  Paths,     \* of files in the folder, the same names on the server
  InSub,     \* the paths in subfolders
  Bodies,    \* contents of files
  Objs,      \* object ids, numbered: a new object takes the least one left
  None,
  MaxLocal, MaxRemote, MaxFaults \* bounds: edits by the user, by others, faults

VARIABLES
  file,     \* [Paths -> Bodies \cup {None}]
  map,      \* idmap: [Paths -> [obj, rev, body] or None]
  cursor,   \* the cursor in the map
  object,   \* objects of the server: [path, body, rev, live] or None
  journal,  \* its journal: [obj, rev, body, mine]
  sync,     \* what SyncOnce is doing, or None
  used,     \* [local, remote, fault]: how often each happened
  blurred   \* history: paths of which a push was lost, or that two live objects had

agentVars == <<file, map, cursor, object, journal, sync, used, blurred>>

Mapping == [obj : Objs, rev : Nat, body : Bodies]
Alive(o) == object[o] # None /\ object[o].live
Fresh(o) == object[o] = None /\ \A m \in Objs : m < o => object[m] # None
At(p) == {o \in Objs : Alive(o) /\ object[o].path = p}
Uses(what, max) == used[what] < max /\ used' = [used EXCEPT ![what] = @ + 1]
Heard(heard) == IF heard THEN UNCHANGED used ELSE Uses("fault", MaxFaults)
In(step) == sync # None /\ sync.step = step

\* The server takes a push: object o becomes row, and the journal tells it.
Takes(o, row, mine) ==
  /\ object' = [object EXCEPT ![o] = row]
  /\ journal' = Append(journal, [obj |-> o, rev |-> row.rev, body |-> row.body, mine |-> mine])
Blurs(p) == blurred' = blurred \cup p \cup {q \in Paths : Cardinality(At(q)') > 1}

-----------------------------------------------------------------------------
(* The user, and the other devices.                                        *)

UserWrites(p, b) ==
  /\ file[p] # b /\ Uses("local", MaxLocal) /\ file' = [file EXCEPT ![p] = b]
  /\ UNCHANGED <<map, cursor, object, journal, sync, blurred>>

OtherPuts(o, p, b) ==
  /\ Fresh(o) \/ Alive(o)
  /\ Uses("remote", MaxRemote)
  /\ LET rev == IF object[o] = None THEN 1 ELSE object[o].rev + 1
     IN Takes(o, [path |-> p, body |-> b, rev |-> rev, live |-> TRUE], FALSE)
  /\ Blurs({}) /\ UNCHANGED <<file, map, cursor, sync>>

OtherDeletes(o) ==
  /\ Alive(o) /\ Uses("remote", MaxRemote)
  /\ Takes(o, [path |-> object[o].path, body |-> object[o].body,
               rev |-> object[o].rev + 1, live |-> FALSE], FALSE)
  /\ Blurs({}) /\ UNCHANGED <<file, map, cursor, sync>>

-----------------------------------------------------------------------------
(* SyncOnce: hello and pull.                                               *)

\* Nothing in the map or the folder is written before the first change.
PullBegin ==
  /\ sync = None
  /\ LET row(n) == [obj |-> journal[n].obj, rev |-> journal[n].rev, body |-> journal[n].body,
                    now |-> object[journal[n].obj]]
     IN sync' = [step |-> "pull", next |-> Len(journal), failed |-> FALSE,
                 rows |-> [n \in 1..Len(journal) - cursor |-> row(cursor + n)]]
  /\ UNCHANGED <<file, map, cursor, object, journal, used, blurred>>

\* Put: an object that was another file's is rebound.
MapPut(p, o, rev, body) ==
  [q \in Paths |-> IF q = p THEN [obj |-> o, rev |-> rev, body |-> body]
                   ELSE IF map[q] # None /\ map[q].obj = o THEN None ELSE map[q]]
ByObject(o) == {p \in Paths : map[p] # None /\ map[p].obj = o}
MapDelete(o) == [p \in Paths |-> IF map[p] # None /\ map[p].obj = o THEN None ELSE map[p]]

\* applyChange: what the map has is skipped.
Known(ch) == \E p \in ByObject(ch.obj) : map[p].rev >= ch.rev /\ map[p].body = ch.body

ApplyChange ==
  /\ In("pull") /\ sync.rows # <<>>
  /\ LET ch == Head(sync.rows)
         p == ch.now.path
     IN IF ~ch.now.live
        THEN /\ file' = [q \in Paths |-> IF q \in ByObject(ch.obj) THEN None ELSE file[q]]
             /\ map' = MapDelete(ch.obj)
        ELSE IF Known(ch) THEN UNCHANGED <<file, map>>
        ELSE /\ file' = [file EXCEPT ![p] = ch.now.body]
             /\ map' = MapPut(p, ch.obj, ch.rev, ch.body)
  /\ sync' = [sync EXCEPT !.rows = Tail(@)]
  /\ UNCHANGED <<cursor, object, journal, used, blurred>>

\* The blob cannot be fetched, or the file not written: the others are applied.
ApplyFails ==
  /\ In("pull") /\ sync.rows # <<>> /\ Uses("fault", MaxFaults)
  /\ sync' = [sync EXCEPT !.rows = Tail(@), !.failed = TRUE]
  /\ UNCHANGED <<file, map, cursor, object, journal, blurred>>

\* Acknowledged, and the cursor set; then the folder is listed, and read.
PullEnds_Anyway ==
  /\ In("pull") /\ sync.rows = <<>>
  /\ cursor' = sync.next
  /\ sync' = [step |-> "push", todo |-> {p \in Paths : file[p] # None}, listed |-> file,
              seen |-> {}, failed |-> {}]
  /\ UNCHANGED <<file, map, object, journal, used, blurred>>
PullEnds ==
  /\ In("pull") /\ sync.rows = <<>>
  /\ IF sync.failed THEN sync' = None /\ UNCHANGED cursor
     ELSE /\ cursor' = sync.next
          /\ sync' = [step |-> "push", todo |-> {p \in Paths : file[p] # None},
                      listed |-> file, seen |-> {}, failed |-> {}]
  /\ UNCHANGED <<file, map, object, journal, used, blurred>>

-----------------------------------------------------------------------------
(* SyncOnce: push.                                                         *)

\* ensureFileDirCollection fails: the file is not pushed, and not seen.
FolderFails(p) ==
  /\ In("push") /\ p \in sync.todo \cap InSub /\ Uses("fault", MaxFaults)
  /\ sync' = [sync EXCEPT !.todo = @ \ {p}, !.failed = @ \cup {p}]
  /\ UNCHANGED <<file, map, cursor, object, journal, blurred>>

Seen_IfPushed(p, pushed) == IF pushed THEN sync.seen \cup {p} ELSE sync.seen
Seen(p, pushed) == sync.seen \cup {p}
PushNext(p, pushed) == sync' = [sync EXCEPT !.todo = @ \ {p}, !.seen = Seen(p, pushed)]

\* The map has it.
PushKnown(p) ==
  /\ In("push") /\ p \in sync.todo /\ map[p] # None /\ map[p].body = sync.listed[p]
  /\ PushNext(p, TRUE) /\ UNCHANGED <<file, map, cursor, object, journal, used, blurred>>

NewRow(p) == [path |-> p, body |-> sync.listed[p], rev |-> 1, live |-> TRUE]

\* A new file is a new object; heard: the answer comes, and the map is written.
PushCreate(p, o, heard) ==
  /\ In("push") /\ p \in sync.todo /\ map[p] = None /\ Fresh(o)
  /\ Heard(heard)
  /\ Takes(o, NewRow(p), TRUE) /\ PushNext(p, heard)
  /\ map' = IF heard THEN MapPut(p, o, 1, sync.listed[p]) ELSE map
  /\ Blurs(IF heard THEN {} ELSE {p}) /\ UNCHANGED <<file, cursor>>

\* A changed one is a forced update; an object deleted meanwhile is a conflict.
PushUpdate(p, heard) ==
  /\ In("push") /\ p \in sync.todo /\ map[p] # None /\ map[p].body # sync.listed[p]
  /\ Heard(heard)
  /\ LET o == map[p].obj
         rev == object[o].rev + 1
     IN IF object[o].live
        THEN /\ Takes(o, [path |-> p, body |-> sync.listed[p], rev |-> rev, live |-> TRUE], TRUE)
             /\ PushNext(p, heard)
             /\ map' = IF heard THEN MapPut(p, o, rev, sync.listed[p]) ELSE map
        ELSE PushNext(p, FALSE) /\ UNCHANGED <<map, object, journal>>
  /\ Blurs(IF heard THEN {} ELSE {p}) /\ UNCHANGED <<file, cursor>>

\* The push does not reach the server.
PushFails(p) ==
  /\ In("push") /\ p \in sync.todo /\ Uses("fault", MaxFaults) /\ PushNext(p, FALSE)
  /\ UNCHANGED <<file, map, cursor, object, journal, blurred>>

Gone == {p \in Paths : map[p] # None /\ p \notin sync.seen}

\* A file the map has and this pass has not seen is gone.
PushDelete(p, heard) ==
  /\ In("push") /\ sync.todo = {} /\ p \in Gone
  /\ Heard(heard)
  /\ LET o == map[p].obj IN
       IF object[o].live
       THEN Takes(o, [path |-> object[o].path, body |-> object[o].body,
                      rev |-> object[o].rev + 1, live |-> FALSE], TRUE)
       ELSE UNCHANGED <<object, journal>>
  /\ map' = IF heard THEN MapDelete(map[p].obj) ELSE map
  /\ sync' = [sync EXCEPT !.seen = @ \cup {p}]
  /\ Blurs(IF heard THEN {} ELSE {p}) /\ UNCHANGED <<file, cursor>>

SyncEnds ==
  /\ In("push") /\ sync.todo = {} /\ Gone = {} /\ sync' = None
  /\ UNCHANGED <<file, map, cursor, object, journal, used, blurred>>

\* The agent dies, or the server cannot be reached.
Aborts ==
  /\ sync # None /\ Uses("fault", MaxFaults) /\ sync' = None
  /\ UNCHANGED <<file, map, cursor, object, journal, blurred>>

-----------------------------------------------------------------------------
AgentInit ==
  /\ file = [p \in Paths |-> None] /\ map = [p \in Paths |-> None] /\ cursor = 0
  /\ object = [o \in Objs |-> None] /\ journal = <<>> /\ sync = None
  /\ used = [local |-> 0, remote |-> 0, fault |-> 0] /\ blurred = {}

\* A pass that meets no trouble; a ticker starts one after another (sync.go:511),
\* so that an instance may assume they go on.
AgentStep ==
  \/ PullBegin \/ ApplyChange \/ PullEnds \/ SyncEnds
  \/ \E p \in Paths :
       \/ PushKnown(p) \/ PushUpdate(p, TRUE) \/ PushDelete(p, TRUE)
       \/ \E o \in Objs : PushCreate(p, o, TRUE)

Trouble ==
  \/ ApplyFails \/ Aborts
  \/ \E p \in Paths :
       \/ FolderFails(p) \/ PushFails(p) \/ PushUpdate(p, FALSE) \/ PushDelete(p, FALSE)
       \/ \E o \in Objs : PushCreate(p, o, FALSE)

AgentNext ==
  \/ AgentStep \/ Trouble
  \/ \E p \in Paths, b \in Bodies \cup {None} : UserWrites(p, b)
  \/ \E o \in Objs :
       \/ OtherDeletes(o)
       \/ \E p \in Paths, b \in Bodies : OtherPuts(o, p, b)

-----------------------------------------------------------------------------
(* Properties.                                                             *)

\* The map is one file per object, of an object of the server.
MapOK ==
  /\ map \in [Paths -> Mapping \cup {None}]
  /\ \A p, q \in Paths : map[p] # None =>
       /\ object[map[p].obj] # None
       /\ map[q] # None /\ map[q].obj = map[p].obj => p = q

\* Not pushed: the file is not what the map says.
Unpushed(p) == file[p] # None /\ (map[p] = None \/ map[p].body # file[p])
OthersChanged(o) == \E n \in cursor + 1..Len(journal) : journal[n].obj = o /\ ~journal[n].mine

\* The agent writes over what the user has changed and it has not pushed only
\* when another device changed the object since the agent's cursor, or a push of
\* the file was lost: what the agent itself pushed never comes back over it.
EditsOverwrittenOnlyByOthers ==
  [][\A p \in Paths :
       /\ In("pull") /\ file'[p] # file[p] /\ used' = used /\ Unpushed(p)
       => \/ OthersChanged(Head(sync.rows).obj) \/ p \in blurred]_agentVars

\* The agent deletes the object of a file that was there when it listed the
\* folder only when making its folder on the server had failed (sync.go:232).
DeletesOnlyGone ==
  [][\A o \in Objs, p \in Paths :
       /\ In("push") /\ Alive(o) /\ ~Alive(o)'
       /\ map[p] # None /\ map[p].obj = o /\ sync'.seen # sync.seen
       => sync.listed[p] = None \/ p \in sync.failed]_agentVars

\* The agent makes a second object of one name only when a push was lost, or
\* another device changed the first since the agent's cursor (sync.go:339).
DoublesOnlyAfterLoss ==
  [][\A o, n \in Objs :
       /\ object[n] = None /\ object'[n] # None /\ In("push") /\ sync' # sync
       /\ Alive(o) /\ object[o].path = object'[n].path
       => object'[n].path \in blurred \/ OthersChanged(o)]_agentVars

\* Once nobody changes anything any more, the folder and the server agree, but
\* for paths that two objects had or of which a push was lost.
Agree(p) ==
  IF file[p] = None THEN At(p) = {} ELSE \E o \in At(p) : object[o].body = file[p]
FolderConverges == <>[](\A p \in Paths \ blurred : Agree(p))

\* The agent loses no work of the user, and doubles none, but in the ways above.
AgentSound ==
  []MapOK /\ EditsOverwrittenOnlyByOthers /\ DeletesOnlyGone /\ DoublesOnlyAfterLoss
=============================================================================
