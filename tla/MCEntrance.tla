----------------------------- MODULE MCEntrance -----------------------------
(* Instances for TLC, in one run, of the three modules about who comes in:   *)
(* RequestAuth, Logins and Accounts.  They share no variable; a behaviour    *)
(* steps in the one that `part' names, Accounts in two halves: one person    *)
(* with every session, and everybody with one session.                       *)
EXTENDS RequestAuth, Logins, Accounts, TLC

CONSTANTS u2, s1
VARIABLE part

parts == <<authVars, vars, accountVars>>

EntranceInit ==
  /\ part \in {"requests", "logins", "pairing", "people"}
  /\ AuthInit /\ Init /\ AccountsInit

OnePerson == INSTANCE Accounts WITH People <- {Owner}
OneSession == INSTANCE Accounts WITH Sessions <- {s1}

StepRequests == part = "requests" /\ AuthNext /\ UNCHANGED <<part, vars, accountVars>>
StepLogins == part = "logins" /\ Next /\ UNCHANGED <<part, authVars, accountVars>>
StepPairing == part = "pairing" /\ OnePerson!AccountsNext /\ UNCHANGED <<part, authVars, vars>>
StepPeople == part = "people" /\ OneSession!AccountsNext /\ UNCHANGED <<part, authVars, vars>>

EntranceNext == StepRequests \/ StepLogins \/ StepPairing \/ StepPeople
EntranceSpec == EntranceInit /\ [][EntranceNext]_<<part, parts>>

\* The three have their elements in common, so that one permutation serves all.
Symmetric ==
  Permutations(Requests \cup Devices) \cup Permutations(Workers \cup Handlers \cup Callers)
=============================================================================
