------------------------------ MODULE Logins ------------------------------
(***************************************************************************)
(* How a device proves itself after it was paired, and how that ends       *)
(* (internal/identity: password.go, weblogin.go, identity.go, users.go).   *)
(* Devices sign requests, app passwords are devices of their own with a    *)
(* ten-minute cache of what was verified, upload tokens and web sessions   *)
(* act for a device.  Revoking a device takes several statements;          *)
(* disabling a user is one transaction that leaves the cache alone.        *)
(*                                                                         *)
(* A device is created once.  Secrets are right: a wrong one is refused    *)
(* and changes nothing here.  Expiry of tokens, logins, sessions and cache *)
(* entries may come at any time.  That an administrator remains is         *)
(* Accounts's.                                                             *)
(***************************************************************************)
EXTENDS Naturals, FiniteSets

CONSTANTS
  Users, Devices,
  WebLogins,        \* web sign-ins
  Handlers,         \* requests being served at once
  MaxAppPasswords,  \* active app passwords per user
  None

Device == [user : Users, dav : BOOLEAN]

ASSUME LoginsAssumption ==
  /\ MaxAppPasswords \in Nat
  /\ None \notin Users \cup Devices \cup WebLogins \cup Device

VARIABLES
  disabled,   \* the disabled users
  devices,    \* the row of each device, or None: its user, whether it is an app password
  revoked,    \* the devices with revoked_at
  passwords,  \* the devices whose app_passwords row is not revoked
  tokens,     \* the devices with an upload token
  logins,     \* each web login: None, "pending", or the device that approved it
  sessions,   \* the web session made of each login: its device, or None
  cache,      \* the devices whose Basic credentials are cached
  handler,    \* what each handler is doing
  ended       \* devices revoked, or whose user was disabled, since they exist (history)

rows == <<disabled, devices, revoked, passwords, tokens, logins, sessions, ended>>
vars == <<rows, cache, handler>>

Steps == {"idle", "pair", "password", "revoke", "forget", "key", "bearer",
          "hit", "miss", "verify", "put", "ok", "signed"}

Idle == [pc |-> "idle", of |-> None, began |-> "live"]

Init ==
  /\ disabled = {}
  /\ devices = [d \in Devices |-> None]
  /\ revoked = {} /\ passwords = {} /\ tokens = {}
  /\ logins = [l \in WebLogins |-> None]
  /\ sessions = [l \in WebLogins |-> None]
  /\ cache = {}
  /\ handler = [h \in Handlers |-> Idle]
  /\ ended = {}

Known == {d \in Devices : devices[d] # None}
OfUser(u) == {d \in Known : devices[d].user = u}

\* Device.Revoked is false: the row is not revoked and its user is active.
Live(d) == d \in Known \ revoked /\ devices[d].user \notin disabled

At(h, pc) == handler[h].pc = pc

\* The handler takes its request as one of the device's.
Accepted(h) == handler[h].pc \in {"ok", "signed"}

\* Whether a request that begins now is of a device that has ended (history).
When(d) == IF d \in ended THEN "ended" ELSE "live"

\* Handler h goes on to pc with the same device; begins; ends.
Goto(h, pc) == handler' = [handler EXCEPT ![h].pc = pc]
Begin(h, pc, x, when) ==
  At(h, "idle") /\ handler' = [handler EXCEPT ![h] = [pc |-> pc, of |-> x, began |-> when]]
End(h) == handler' = [handler EXCEPT ![h] = Idle]

-----------------------------------------------------------------------------
(* Devices come and go.                                                    *)

\* Complete and Enroll, CreateAppPassword: the user is looked up and active,
\* then the rows are inserted.
Resolve(h, u, pc) ==
  /\ pc \in {"pair", "password"}
  /\ u \notin disabled
  /\ Begin(h, pc, u, "live")
  /\ UNCHANGED <<rows, cache>>

\* The device row; Complete's session is Accounts's.
Pair(h, d) ==
  /\ At(h, "pair") /\ devices[d] = None
  /\ devices' = [devices EXCEPT ![d] = [user |-> handler[h].of, dav |-> FALSE]]
  /\ End(h)
  /\ UNCHANGED <<disabled, revoked, passwords, tokens, logins, sessions, ended, cache>>

ActiveOf(u) == {d \in passwords : devices[d].user = u}

CreateAppPassword_AtCap(h, d) ==
  LET u == handler[h].of IN
  /\ At(h, "password") /\ devices[d] = None
  /\ Cardinality(ActiveOf(u)) <= MaxAppPasswords
  /\ devices' = [devices EXCEPT ![d] = [user |-> u, dav |-> TRUE]]
  /\ passwords' = passwords \cup {d}
  /\ End(h)
  /\ UNCHANGED <<disabled, revoked, tokens, logins, sessions, ended, cache>>

\* CreateAppPassword's transaction: the cap is counted in it.
CreateAppPassword(h, d) ==
  LET u == handler[h].of IN
  /\ At(h, "password") /\ devices[d] = None
  /\ Cardinality(ActiveOf(u)) < MaxAppPasswords
  /\ devices' = [devices EXCEPT ![d] = [user |-> u, dav |-> TRUE]]
  /\ passwords' = passwords \cup {d}
  /\ End(h)
  /\ UNCHANGED <<disabled, revoked, tokens, logins, sessions, ended, cache>>

\* ErrTooManyPasswords, or any failure before the rows are written.
Refuse(h) ==
  /\ handler[h].pc \in {"pair", "password"}
  /\ End(h)
  /\ UNCHANGED <<rows, cache>>

\* Revoke: the device first, then its app password, then the cache.
Revoke(h, d) ==
  /\ d \in Known
  /\ Begin(h, "revoke", d, "live")
  /\ revoked' = revoked \cup {d} /\ ended' = ended \cup {d}
  /\ UNCHANGED <<disabled, devices, passwords, tokens, logins, sessions, cache>>

\* An error of this statement is ignored.
RevokePassword(h) ==
  /\ At(h, "revoke")
  /\ passwords' \in {passwords, passwords \ {handler[h].of}}
  /\ Goto(h, "forget")
  /\ UNCHANGED <<disabled, devices, revoked, tokens, logins, sessions, ended, cache>>

ForgetDevice(h) ==
  /\ At(h, "forget")
  /\ cache' = cache \ {handler[h].of}
  /\ End(h)
  /\ UNCHANGED rows

\* SetUserStatus disabled: every device and app password, in the transaction.
Disable(u) ==
  /\ disabled' = disabled \cup {u}
  /\ revoked' = revoked \cup OfUser(u)
  /\ passwords' = passwords \ OfUser(u)
  /\ ended' = ended \cup OfUser(u)
  /\ UNCHANGED <<devices, tokens, logins, sessions, cache, handler>>

\* SetUserStatus active: nothing is given back.
Enable(u) ==
  /\ u \in disabled
  /\ disabled' = disabled \ {u}
  /\ UNCHANGED <<devices, revoked, passwords, tokens, logins, sessions, ended, cache, handler>>

-----------------------------------------------------------------------------
(* Web sign-in.                                                            *)

\* StartWebLogin.
StartWebLogin(l) ==
  /\ logins[l] = None /\ sessions[l] = None
  /\ logins' = [logins EXCEPT ![l] = "pending"]
  /\ UNCHANGED <<disabled, devices, revoked, passwords, tokens, sessions, ended, cache, handler>>

\* ApproveWebLogin, of a signed request (the handler goes on with the device it
\* read).
ApproveWebLogin(h, l) ==
  /\ At(h, "signed")
  /\ logins[l] = "pending"
  /\ logins' = [logins EXCEPT ![l] = handler[h].of]
  /\ End(h)
  /\ UNCHANGED <<disabled, devices, revoked, passwords, tokens, sessions, ended, cache>>

\* PollWebLogin's transaction: the device is looked up again.
PollWebLogin(l) ==
  /\ logins[l] \in Devices /\ Live(logins[l])
  /\ logins' = [logins EXCEPT ![l] = None]
  /\ sessions' = [sessions EXCEPT ![l] = logins[l]]
  /\ UNCHANGED <<disabled, devices, revoked, passwords, tokens, ended, cache, handler>>

\* EndWebSession; a login or a session expires.
EndWebSession(l) ==
  /\ \/ sessions[l] # None /\ sessions' = [sessions EXCEPT ![l] = None] /\ UNCHANGED logins
     \/ logins[l] # None /\ logins' = [logins EXCEPT ![l] = None] /\ UNCHANGED sessions
  /\ UNCHANGED <<disabled, devices, revoked, passwords, tokens, ended, cache, handler>>

\* CreateUploadToken, of a signed request; a token expires.
CreateUploadToken(h) ==
  /\ At(h, "signed")
  /\ tokens' = tokens \cup {handler[h].of}
  /\ End(h)
  /\ UNCHANGED <<disabled, devices, revoked, passwords, logins, sessions, ended, cache>>

ExpireToken(d) ==
  /\ d \in tokens
  /\ tokens' = tokens \ {d}
  /\ UNCHANGED <<disabled, devices, revoked, passwords, logins, sessions, ended, cache, handler>>

-----------------------------------------------------------------------------
(* Requests that authenticate.                                             *)

\* AuthenticateRequest: the device whose key signed it.
Signed(h, d) ==
  /\ d \in Known /\ ~devices[d].dav
  /\ Begin(h, "key", d, When(d))
  /\ UNCHANGED <<rows, cache>>

\* AuthenticateUploadToken, AuthenticateWebSession: a token or a session whose
\* row was found.
Bearer(h, d) ==
  /\ d \in tokens \/ \E l \in WebLogins : sessions[l] = d
  /\ Begin(h, "bearer", d, When(d))
  /\ UNCHANGED <<rows, cache>>

\* The device is looked up, with its user.
Found(h) ==
  /\ handler[h].pc \in {"key", "bearer"}
  /\ IF Live(handler[h].of)
     THEN Goto(h, IF At(h, "key") THEN "signed" ELSE "ok")
     ELSE End(h)
  /\ UNCHANGED <<rows, cache>>

\* AuthenticateBasic looks in the cache.
Basic(h, d) ==
  /\ d \in Known /\ devices[d].dav
  /\ Begin(h, IF d \in cache THEN "hit" ELSE "miss", d, When(d))
  /\ UNCHANGED <<rows, cache>>

Hit_Trusted(h) ==
  /\ At(h, "hit")
  /\ Goto(h, "ok")
  /\ UNCHANGED <<rows, cache>>

\* A cached device is looked up again; forgotten if it ended.
Hit(h) ==
  /\ At(h, "hit")
  /\ IF Live(handler[h].of)
     THEN Goto(h, "ok") /\ UNCHANGED cache
     ELSE Goto(h, "miss") /\ cache' = cache \ {handler[h].of}
  /\ UNCHANGED rows

\* The candidates: active passwords of devices of an active user, not revoked.
Candidate(h) ==
  LET d == handler[h].of IN
  /\ At(h, "miss")
  /\ IF Live(d) /\ d \in passwords THEN Goto(h, "verify") ELSE End(h)
  /\ UNCHANGED <<rows, cache>>

\* The hash takes long.  authenticateUserPassword then looks the device up
\* again, AuthenticatePassword does not.
Verify(h) ==
  /\ At(h, "verify")
  /\ \/ Goto(h, "put")
     \/ ~Live(handler[h].of) /\ End(h)
  /\ UNCHANGED <<rows, cache>>

Put(h) ==
  /\ At(h, "put")
  /\ cache' = cache \cup {handler[h].of}
  /\ Goto(h, "ok")
  /\ UNCHANGED rows

\* The request is done; a cache entry expires.
Done(h) ==
  /\ Accepted(h) /\ End(h)
  /\ UNCHANGED <<rows, cache>>

Evict(d) ==
  /\ d \in cache
  /\ cache' = cache \ {d}
  /\ UNCHANGED <<rows, handler>>

\* The server stops: the cache and its requests are gone.
Crash ==
  /\ cache' = {}
  /\ handler' = [h \in Handlers |-> Idle]
  /\ UNCHANGED rows

Next ==
  \/ \E u \in Users : Disable(u) \/ Enable(u)
  \/ \E l \in WebLogins : StartWebLogin(l) \/ PollWebLogin(l) \/ EndWebSession(l)
  \/ \E d \in Devices : ExpireToken(d) \/ Evict(d)
  \/ \E h \in Handlers :
       \/ \E u \in Users : Resolve(h, u, "pair") \/ Resolve(h, u, "password")
       \/ \E d \in Devices :
            \/ Pair(h, d) \/ CreateAppPassword(h, d) \/ Revoke(h, d)
            \/ Signed(h, d) \/ Bearer(h, d) \/ Basic(h, d)
       \/ Refuse(h) \/ RevokePassword(h) \/ ForgetDevice(h)
       \/ \E l \in WebLogins : ApproveWebLogin(h, l)
       \/ CreateUploadToken(h)
       \/ Found(h) \/ Hit(h) \/ Candidate(h) \/ Verify(h) \/ Put(h) \/ Done(h)
  \/ Crash

Spec == Init /\ [][Next]_vars

-----------------------------------------------------------------------------
(* Properties.                                                             *)

\* Every variable has its type, and rows refer to rows.
TypeOK ==
  /\ disabled \subseteq Users
  /\ devices \in [Devices -> Device \cup {None}]
  /\ revoked \subseteq Known /\ ended \subseteq Known
  /\ passwords \subseteq {d \in Known : devices[d].dav}
  /\ cache \subseteq {d \in Known : devices[d].dav}
  /\ tokens \subseteq {d \in Known : ~devices[d].dav}
  /\ logins \in [WebLogins -> Known \cup {None, "pending"}]
  /\ sessions \in [WebLogins -> {d \in Known : ~devices[d].dav} \cup {None}]
  /\ handler \in [Handlers -> [pc : Steps, of : Users \cup Known \cup {None},
                               began : {"live", "ended"}]]

\* Once a device is revoked or its user disabled, no request that begins later
\* is taken as that device's: not by its key, token, password, cached password
\* or web session, and not after the user is enabled again (users.go, "so
\* sessions end immediately"; weblogin.go, "it ends when that device is
\* revoked or the user is disabled").
EndedStaysOut == \A h \in Handlers : Accepted(h) => handler[h].began = "live"

\* A user has no more active app passwords than the cap that bounds the cost
\* of verifying one, whatever runs at once.
PasswordsCapped == \A u \in Users : Cardinality(ActiveOf(u)) <= MaxAppPasswords
=============================================================================
