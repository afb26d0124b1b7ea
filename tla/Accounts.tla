----------------------------- MODULE Accounts -----------------------------
(***************************************************************************)
(* Users, invites and pairing (internal/identity: users.go, invites.go,    *)
(* identity.go).  A device is paired in three requests: a code opens a     *)
(* session, Begin takes the device's key and gives a challenge, Complete   *)
(* takes the signed challenge.  An invite makes a user and opens a session *)
(* past Begin.  Each request reads outside the transaction it ends with,   *)
(* except where the code reads inside it.                                  *)
(*                                                                         *)
(* A user is its username, which is unique.  Codes and keys are right      *)
(* except for Complete's signature; invites and sessions expire at any     *)
(* time.                                                                   *)
(***************************************************************************)
EXTENDS Naturals, FiniteSets

CONSTANTS
  People,
  Owner,       \* OwnerUsername: a reserved name
  Invites, Sessions,
  Callers,     \* requests being served at once
  MaxAttempts, \* Service.MaxAttempts
  MaxActive,   \* Service.MaxActive
  MaxUses,     \* max_uses of any invite at most
  Absent,
  Gone         \* the row was deleted, or has expired

Roles == {"admin", "member"}
User == [role : Roles, status : {"active", "disabled"}]
Session == [user : People, tries : Nat, begun : BOOLEAN,
            completed : BOOLEAN, expired : BOOLEAN]
Invite == [for : People \cup {Absent}, role : Roles, max : 1..MaxUses, uses : 0..MaxUses]

ASSUME AccountsAssumption ==
  /\ Owner \in People /\ Gone # Absent
  /\ Absent \notin People \cup Invites \cup Sessions \cup User \cup Invite \cup Session
  /\ Gone \notin Invite
  /\ MaxAttempts \in Nat \ {0} /\ MaxActive \in Nat \ {0} /\ MaxUses \in Nat \ {0}
  /\ IsFiniteSet(Callers)

VARIABLES
  users,    \* the row of each user, or Absent
  invites,  \* the row of each invite, Absent before it is made, or Gone
  pairings,\* the row of each pairing session, or Absent
  paired,   \* how many devices each session has paired
  served,   \* what each handler has read
  opened    \* how many sessions each invite has opened (history)

accountVars == <<users, invites, pairings, paired, served, opened>>

Pcs == {"idle", "owner", "redeem", "start", "begin", "bad", "complete"}

Unserved == [pc |-> "idle", of |-> Absent]

AccountsInit ==
  /\ users = [u \in People |-> Absent]
  /\ invites = [i \in Invites |-> Absent]
  /\ pairings = [s \in Sessions |-> Absent]
  /\ paired = [s \in Sessions |-> 0]
  /\ served = [h \in Callers |-> Unserved]
  /\ opened = [i \in Invites |-> 0]

Serving(h, pc) == served[h].pc = pc
Begins(h, pc, x) == Serving(h, "idle") /\ served' = [served EXCEPT ![h] = [pc |-> pc, of |-> x]]
Ends(h) == served' = [served EXCEPT ![h] = Unserved]

Active(u) == users[u] # Absent /\ users[u].status = "active"
ActiveAdmins == {u \in People : Active(u) /\ users[u].role = "admin"}

-----------------------------------------------------------------------------
(* Users: single transactions.                                             *)

\* EnsureOwner finds no active administrator, and creates the owner.
EnsureOwner(h) ==
  /\ ActiveAdmins = {}
  /\ Begins(h, "owner", Absent)
  /\ UNCHANGED <<users, invites, pairings, paired, opened>>

CreateOwner(h) ==
  /\ Serving(h, "owner")
  /\ users' = IF users[Owner] # Absent THEN users
              ELSE [users EXCEPT ![Owner] = [role |-> "admin", status |-> "active"]]
  /\ Ends(h)
  /\ UNCHANGED <<invites, pairings, paired, opened>>

\* CreateUser, by an administrator; reserved names are refused.
CreateUser(u, role) ==
  /\ users[u] = Absent /\ u # Owner
  /\ users' = [users EXCEPT ![u] = [role |-> role, status |-> "active"]]
  /\ UNCHANGED <<invites, pairings, paired, served, opened>>

OtherAdmin_Any(u) == ActiveAdmins # {}

\* ensureOtherAdminTx: u is not the last active administrator.
OtherAdmin(u) == ActiveAdmins # {u}

SetUserStatus(u, status) ==
  /\ users[u] # Absent
  /\ status = "disabled" => OtherAdmin(u)
  /\ users' = [users EXCEPT ![u].status = status]
  /\ UNCHANGED <<invites, pairings, paired, served, opened>>

SetUserRole(u, role) ==
  /\ users[u] # Absent
  /\ role # "admin" => OtherAdmin(u)
  /\ users' = [users EXCEPT ![u].role = role]
  /\ UNCHANGED <<invites, pairings, paired, served, opened>>

-----------------------------------------------------------------------------
(* Invites.                                                                *)

Present(i) == invites[i] \notin {Absent, Gone}

\* CreateInvite, for a new user or an active one (who may be disabled by the
\* time the row is inserted, as at any time later).
CreateInvite(i, u, role, m) ==
  /\ invites[i] = Absent
  /\ u # Absent => Active(u) /\ role = users[u].role
  /\ invites' = [invites EXCEPT ![i] = [for |-> u, role |-> role, max |-> m, uses |-> 0]]
  /\ UNCHANGED <<users, pairings, paired, served, opened>>

\* RevokeInvite; an invite expires.
RevokeInvite(i) ==
  /\ Present(i)
  /\ invites' = [invites EXCEPT ![i] = Gone]
  /\ UNCHANGED <<users, pairings, paired, served, opened>>

Usable(i) == Present(i) /\ invites[i].uses < invites[i].max

FindInvite(h, i) ==
  /\ Usable(i)
  /\ Begins(h, "redeem", i)
  /\ UNCHANGED <<users, invites, pairings, paired, opened>>

\* The user an invite brings in, if the transaction succeeds: a new one, or the
\* active one it is for.
Joins(i, u) ==
  IF invites[i].for = Absent THEN users[u] = Absent /\ u # Owner ELSE u = invites[i].for /\ Active(u)

OpensFor(i, u, s) ==
  /\ pairings[s] = Absent
  /\ pairings' = [pairings EXCEPT ![s] =
       [user |-> u, tries |-> 1, begun |-> TRUE, completed |-> FALSE, expired |-> FALSE]]
  /\ users' = IF users[u] # Absent THEN users
              ELSE [users EXCEPT ![u] = [role |-> invites[i].role, status |-> "active"]]
  /\ opened' = [opened EXCEPT ![i] = @ + 1]

Redeem_AsFound(h, u, s) ==
  LET i == served[h].of IN
  /\ Serving(h, "redeem")
  /\ Present(i) /\ Joins(i, u) /\ OpensFor(i, u, s)
  /\ invites' = [invites EXCEPT ![i].uses = @ + 1]
  /\ Ends(h)
  /\ UNCHANGED paired

Redeem_Unchecked(h, u, s) ==
  LET i == served[h].of IN
  /\ Serving(h, "redeem")
  /\ pairings[s] = Absent /\ Active(u)
  /\ pairings' = [pairings EXCEPT ![s] =
       [user |-> u, tries |-> 1, begun |-> TRUE, completed |-> FALSE, expired |-> FALSE]]
  /\ opened' = [opened EXCEPT ![i] = @ + 1]
  /\ invites' = IF Usable(i) THEN [invites EXCEPT ![i].uses = @ + 1] ELSE invites
  /\ Ends(h)
  /\ UNCHANGED <<users, paired>>

\* RedeemInvite's transaction: the use, the user and the session, or nothing.
Redeem(h, u, s) ==
  LET i == served[h].of IN
  /\ Serving(h, "redeem")
  /\ Usable(i) /\ Joins(i, u) /\ OpensFor(i, u, s)
  /\ invites' = [invites EXCEPT ![i].uses = @ + 1]
  /\ Ends(h)
  /\ UNCHANGED paired

-----------------------------------------------------------------------------
(* Pairing.                                                                *)

\* The session waits to be completed.
Waits(s) == pairings[s] # Absent /\ ~pairings[s].completed /\ ~pairings[s].expired

\* The sessions of u that StartPairing counts.
Waiting(u) == {s \in Sessions : Waits(s) /\ pairings[s].user = u}

StartPairing(h, u) ==
  /\ Active(u) /\ Cardinality(Waiting(u)) < MaxActive
  /\ Begins(h, "start", u)
  /\ UNCHANGED <<users, invites, pairings, paired, opened>>

OpenSession(h, s) ==
  /\ Serving(h, "start")
  /\ pairings[s] = Absent
  /\ pairings' = [pairings EXCEPT ![s] =
       [user |-> served[h].of, tries |-> 0, begun |-> FALSE, completed |-> FALSE,
        expired |-> FALSE]]
  /\ Ends(h)
  /\ UNCHANGED <<users, invites, paired, opened>>

BeginRead_Always(h, s) ==
  /\ Waits(s)
  /\ Begins(h, "begin", s)
  /\ UNCHANGED <<users, invites, pairings, paired, opened>>

\* Begin: the session of the code, not tried too often.
BeginRead(h, s) ==
  /\ Waits(s) /\ pairings[s].tries < MaxAttempts
  /\ Begins(h, "begin", s)
  /\ UNCHANGED <<users, invites, pairings, paired, opened>>

\* The update asks for nothing but the row.
BeginWrite(h) ==
  LET s == served[h].of IN
  /\ Serving(h, "begin")
  /\ pairings' = [pairings EXCEPT ![s].tries = @ + 1, ![s].begun = TRUE]
  /\ Ends(h)
  /\ UNCHANGED <<users, invites, paired, opened>>

\* Complete: the session waits for a signature, which is good or bad.
CompleteRead(h, s) ==
  /\ Waits(s) /\ pairings[s].tries <= MaxAttempts /\ pairings[s].begun
  /\ \/ Begins(h, "bad", s)
     \/ Active(pairings[s].user) /\ Begins(h, "complete", s)
  /\ UNCHANGED <<users, invites, pairings, paired, opened>>

CompleteBad(h) ==
  LET s == served[h].of IN
  /\ Serving(h, "bad")
  /\ pairings' = [pairings EXCEPT ![s].tries = @ + 1]
  /\ Ends(h)
  /\ UNCHANGED <<users, invites, paired, opened>>

\* The device and the end of the session are one transaction.
CompleteWrite(h) ==
  LET s == served[h].of IN
  /\ Serving(h, "complete")
  /\ paired' = [paired EXCEPT ![s] = @ + 1]
  /\ pairings' = [pairings EXCEPT ![s].completed = TRUE, ![s].begun = FALSE]
  /\ Ends(h)
  /\ UNCHANGED <<users, invites, opened>>

\* The session expires: no request finds it any more.
Expire(s) ==
  /\ Waits(s)
  /\ pairings' = [pairings EXCEPT ![s].expired = TRUE]
  /\ UNCHANGED <<users, invites, paired, served, opened>>

\* A request fails before its write, its client leaves, or the server stops.
GiveUp(h) ==
  /\ ~Serving(h, "idle") /\ Ends(h)
  /\ UNCHANGED <<users, invites, pairings, paired, opened>>

AccountsNext ==
  \/ \E u \in People, role \in Roles : CreateUser(u, role) \/ SetUserRole(u, role)
  \/ \E u \in People, status \in {"active", "disabled"} : SetUserStatus(u, status)
  \/ \E i \in Invites, u \in People \cup {Absent}, role \in Roles, m \in 1..MaxUses :
       CreateInvite(i, u, role, m)
  \/ \E i \in Invites : RevokeInvite(i)
  \/ \E s \in Sessions : Expire(s)
  \/ \E h \in Callers :
       \/ EnsureOwner(h) \/ CreateOwner(h)
       \/ \E i \in Invites : FindInvite(h, i)
       \/ \E u \in People : StartPairing(h, u) \/ \E s \in Sessions : Redeem(h, u, s)
       \/ \E s \in Sessions : OpenSession(h, s) \/ BeginRead(h, s) \/ CompleteRead(h, s)
       \/ BeginWrite(h) \/ CompleteBad(h) \/ CompleteWrite(h) \/ GiveUp(h)

AccountsSpec == AccountsInit /\ [][AccountsNext]_accountVars

-----------------------------------------------------------------------------
(* Properties.                                                             *)

\* Every variable has its type.
AccountsTypeOK ==
  /\ users \in [People -> User \cup {Absent}]
  /\ invites \in [Invites -> Invite \cup {Absent, Gone}]
  /\ pairings \in [Sessions -> Session \cup {Absent}]
  /\ paired \in [Sessions -> Nat]
  /\ served \in [Callers ->
       [pc : {"idle", "owner"}, of : {Absent}] \cup [pc : {"redeem"}, of : Invites]
         \cup [pc : {"start"}, of : People]
         \cup [pc : {"begin", "bad", "complete"}, of : Sessions]]
  /\ opened \in [Invites -> Nat]

\* The last active administrator is neither disabled nor demoted, whoever
\* disables and demotes whom at once (ensureOtherAdminTx).
AdminRemains == [][ActiveAdmins # {} => ActiveAdmins' # {}]_accountVars

\* An invite opens as many sessions as it has uses counted, and never more
\* than it allows: what finds it usable at once cannot all use it.
InvitesWithinUses ==
  \A i \in Invites :
    Present(i) => opened[i] = invites[i].uses /\ opened[i] <= invites[i].max

\* No session is opened by an invite that has been revoked.
RevokedInvitesOpenNothing ==
  [][\A i \in Invites : invites[i] = Gone => opened'[i] = opened[i]]_accountVars

\* A code is tried at most MaxAttempts times, and once more for every request
\* that was served at the same time.
AttemptsBounded ==
  \A s \in Sessions :
    pairings[s] # Absent => pairings[s].tries <= MaxAttempts + Cardinality(Callers)
=============================================================================
