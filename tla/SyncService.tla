---------------------------- MODULE SyncService ----------------------------
(***************************************************************************)
(* What the sync engine promises a client, without handlers, transactions, *)
(* journal or history: objects advance one revision at a time and end with *)
(* a tombstone, and each keyed push is served once, as one step, with      *)
(* answers that name exactly the revisions it made.                        *)
(***************************************************************************)
EXTENDS Integers, Sequences

CONSTANTS Devices, Objects, Keys, NoResult

VARIABLES
  value,     \* revision, content and tombstone of each object id; revision 0: never created
  answered   \* the answers to each (device, key), or NoResult

svars == <<value, answered>>

\* The revisions of object o that a list of answers claims to have made.
Made(results, o) ==
  {results[i].rev : i \in {n \in DOMAIN results : results[n].obj = o /\ results[n].seq # 0}}

\* An object goes from v to w by the revisions in `made', in order.
Advances(v, w, made) ==
  /\ made = v.rev + 1 .. w.rev
  /\ w.rev >= v.rev
  /\ w.rev = v.rev => w = v
  /\ v.deleted => w = v

Init ==
  /\ \A o \in Objects : value[o].rev = 0 /\ ~value[o].deleted
  /\ \A d \in Devices, k \in Keys : answered[d][k] = NoResult

\* One push, whole.
Serve(d, k) ==
  /\ answered[d][k] = NoResult
  /\ answered'[d][k] # NoResult
  /\ \A e \in Devices, l \in Keys : e # d \/ l # k => answered'[e][l] = answered[e][l]
  /\ \A o \in Objects : Advances(value[o], value'[o], Made(answered'[d][k], o))

\* The server tombstones an object itself when it deletes a collection.
ServerDelete(o) ==
  /\ value[o].rev > 0 /\ ~value[o].deleted
  /\ value'[o].deleted /\ value'[o].rev = value[o].rev + 1
  /\ \A p \in Objects \ {o} : value'[p] = value[p]
  /\ UNCHANGED answered

Next ==
  \/ \E d \in Devices, k \in Keys : Serve(d, k)
  \/ \E o \in Objects : ServerDelete(o)

Spec == Init /\ [][Next]_svars
=============================================================================
