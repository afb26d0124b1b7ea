---------------------------- MODULE MCDavFiles ----------------------------
(* Instances for TLC of what the DAV front ends serve: DavFiles with the    *)
(* folders under it, and Calendars, in one run.  They share no variable; a  *)
(* behaviour steps in the one that `part' names.                            *)
EXTENDS DavFiles, Calendars, TLC

\* Two roots of u1, the first shared for writing with u2; in it a folder with a
\* file, beside a file of its own.
CONSTANTS a, b, sub, t, u1, u2, m, n, x, y, h1, h2

Root(f, name) == [owner |-> u1, parent |-> Top, root |-> f, name |-> name, live |-> TRUE, rev |-> 1]

MCStartFolders ==
  a :> Root(a, m) @@ b :> Root(b, n) @@ t :> NoRow @@
  sub :> [owner |-> u1, parent |-> a, root |-> a, name |-> m, live |-> TRUE, rev |-> 1]

File(f, name) == [folder |-> f, name |-> name, content |-> x, rev |-> 1, live |-> TRUE]
MCStartFiles == 1 :> File(a, n) @@ 2 :> File(sub, n) @@ 3 :> NoRow

NoShares == [u \in {u1, u2} |-> 0]
MCStartShares ==
  a :> [NoShares EXCEPT ![u2] = 2] @@ b :> NoShares @@ sub :> NoShares @@ t :> NoShares

AllKinds == {"ensure", "update", "delete", "operator", "share", "unshare", "list",
             "put", "copy file", "mkcol", "remove tree", "remove", "move file",
             "move folder", "copy"}

-----------------------------------------------------------------------------
\* A calendar of u1, shared for writing with u2, with one event; u1 has a phone and
\* a mac, u2 one device.  Two more collections may be made.
CONSTANTS p, q, q2, phone, mac, guest, v, w, z, red
VARIABLE part

HomeAt(kind, name) ==
  [kind |-> kind, owner |-> u1, name |-> name, live |-> TRUE, slug |-> w, color |-> None,
   mirror |-> FALSE, writer |-> None, stamp |-> 1, seq |-> 1]
EventAt(c) == [home |-> c, name |-> v, uid |-> v, content |-> x, live |-> TRUE, rev |-> 1]

MCOwner == phone :> u1 @@ mac :> u1 @@ guest :> u2
MCShareLevel ==
  p :> (u1 :> 0 @@ u2 :> 2) @@ q :> (u1 :> 0 @@ u2 :> 1) @@ q2 :> (u1 :> 0 @@ u2 :> 1)
MCStartHomes == p :> HomeAt("calendar", v) @@ q :> None @@ q2 :> None
MCStartItems == 1 :> EventAt(p) @@ 2 :> None

-----------------------------------------------------------------------------
DavInit == part \in {"files", "calendars"} /\ Init /\ CalInit

StepFiles == part = "files" /\ Next /\ UNCHANGED <<part, calVars>>
StepCalendars == part = "calendars" /\ CalNext /\ UNCHANGED <<part, vars>>

DavSpec == DavInit /\ [][StepFiles \/ StepCalendars]_<<part, vars, calVars>>

Symmetric == Permutations({h1, h2}) \cup Permutations({q, q2})
=============================================================================
