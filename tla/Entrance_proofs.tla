-------------------------- MODULE Entrance_proofs --------------------------
(***************************************************************************)
(* Proofs about who comes in: RequestAuth, Logins and Accounts, for all    *)
(* requests, people, devices, invites, sessions, handlers and bounds.      *)
(***************************************************************************)
EXTENDS RequestAuth, Logins, Accounts, FiniteSetTheorems, TLAPS

-----------------------------------------------------------------------------
(* RequestAuth: every signed request is accepted at most once, and the     *)
(* cache stays within its bound.                                           *)

\* A worker runs on a server that is up; it found the time within the window,
\* no longer ago than a body takes.
HandlersInTime ==
  \A h \in Workers :
    LET r == worker[h].req IN
    Busy(h) => /\ Up
               /\ ts[r] # Nothing
               /\ worker[h].at <= now /\ now <= worker[h].at + BodyTime
               /\ worker[h].at <= ts[r] + Skew

\* No clock is further ahead than Ahead, and no stop lies in the future.
ClocksBounded ==
  /\ ~Up => downAt <= now
  /\ \A r \in Requests : ts[r] # Nothing => ts[r] <= now + Ahead

\* Why an accepted request is not accepted again: its nonce is remembered, or
\* it is too old for any worker, or it was signed before the start; and what
\* was accepted before a stop was signed little later than the stop.
Remembered ==
  \A r \in Requests :
    accepted[r] > 0 =>
      /\ ts[r] # Nothing
      /\ Up => r \in nonces \/ ts[r] < now - 2 * Skew \/ ts[r] < startedAt
      /\ ~Up => ts[r] <= downAt + Ahead

\* The cache is finite and within its bound.
NoncesBounded == IsFiniteSet(nonces) /\ CacheBounded

RequestsInv == AuthTypeOK /\ HandlersInTime /\ ClocksBounded /\ Remembered /\ SignedOnce /\ NoncesBounded

\* The sweep keeps a part of the cache, and everything that a worker may
\* still look for.
LEMMA KeptFacts ==
  ASSUME AuthTypeOK, NoncesBounded
  PROVE  /\ Kept \subseteq nonces
         /\ \A r \in nonces : r \in Kept \/ ts[r] < now - 2 * Skew \/ ts[r] = Nothing
         /\ IsFiniteSet(Kept) /\ Cardinality(Kept) <= Cardinality(nonces)
         /\ Cardinality(Kept) \in Nat /\ Cardinality(nonces) \in Nat
<1>1. Kept \subseteq nonces
  BY DEF Kept
<1>2. ASSUME NEW r \in nonces, ts[r] # Nothing, r \notin Kept PROVE ts[r] < now - 2 * Skew
  <2>1. ts[r] \in Nat /\ now \in Nat
    BY <1>2 DEF AuthTypeOK
  <2>2. Skew \in Nat
    BY AuthAssumption
  <2> QED BY <1>2, <2>1, <2>2 DEF Kept
<1>3. IsFiniteSet(Kept) /\ Cardinality(Kept) <= Cardinality(nonces)
  BY <1>1, FS_Subset DEF NoncesBounded
<1>4. Cardinality(Kept) \in Nat /\ Cardinality(nonces) \in Nat
  BY <1>3, FS_CardinalityType DEF NoncesBounded
<1> QED BY <1>1, <1>2, <1>3, <1>4

\* A request a worker has looked at is signed and was in time when it is
\* accepted: at most two windows old.
LEMMA HandledRequest ==
  ASSUME RequestsInv, NEW h \in Workers, Busy(h)
  PROVE  LET r == worker[h].req IN
         r \in Requests /\ ts[r] \in Nat /\ now - 2 * Skew <= ts[r]
<1> DEFINE r == worker[h].req
<1>1. r \in Requests /\ worker[h].at \in Nat
  BY DEF RequestsInv, AuthTypeOK, Busy
<1>2. /\ ts[r] # Nothing
      /\ now <= worker[h].at + BodyTime
      /\ worker[h].at <= ts[r] + Skew
  BY DEF RequestsInv, HandlersInTime
<1>3. ts[r] \in Nat /\ now \in Nat
  BY <1>1, <1>2 DEF RequestsInv, AuthTypeOK
<1>4. Skew \in Nat /\ BodyTime \in Nat /\ BodyTime <= Skew
  BY AuthAssumption
<1> QED BY <1>1, <1>2, <1>3, <1>4

\* The initial state satisfies the invariant.
LEMMA RequestsInit == AuthInit => RequestsInv
<1> SUFFICES ASSUME AuthInit PROVE RequestsInv
  OBVIOUS
<1>1. AuthTypeOK
  BY AuthAssumption DEF AuthInit, AuthTypeOK, Free
<1>2. HandlersInTime /\ ClocksBounded /\ Remembered /\ SignedOnce
  BY AuthAssumption DEF AuthInit, HandlersInTime, ClocksBounded, Remembered, SignedOnce, Busy, Free, Up
<1>3. NoncesBounded
  BY FS_EmptySet, AuthAssumption DEF AuthInit, NoncesBounded, CacheBounded
<1> QED BY <1>1, <1>2, <1>3 DEF RequestsInv

\* A request that a worker accepts was not accepted before.
LEMMA AcceptsNew ==
  ASSUME RequestsInv, NEW h \in Workers, Accept(h)
  PROVE  accepted[worker[h].req] = 0
<1> DEFINE r == worker[h].req
<1>1. /\ r \in Requests /\ ts[r] \in Nat /\ now - 2 * Skew <= ts[r]
  BY HandledRequest DEF Accept
<1>2. Up
  BY DEF RequestsInv, HandlersInTime, Accept
<1>3. now \in Nat /\ startedAt \in Nat /\ accepted[r] \in Nat /\ Skew \in Nat
  BY <1>1, AuthAssumption DEF RequestsInv, AuthTypeOK
<1>4. ~(ts[r] < now - 2 * Skew)
  BY <1>1, <1>3
<1>5. ~(ts[r] < startedAt)
  BY <1>1, <1>3 DEF Accept, SignedBeforeStart
<1>6. r \notin nonces
  BY <1>1, <1>4, KeptFacts, AuthAssumption DEF Accept, RequestsInv
<1> QED BY <1>1, <1>2, <1>3, <1>4, <1>5, <1>6 DEF RequestsInv, Remembered

\* Every step keeps the invariant.
LEMMA RequestsStep == RequestsInv /\ [AuthNext]_authVars => RequestsInv'
<1> SUFFICES ASSUME RequestsInv, [AuthNext]_authVars PROVE RequestsInv'
  OBVIOUS
<1> USE AuthAssumption
<1>a. /\ now \in Nat /\ startedAt \in 0..now /\ lastSweep \in 0..now
      /\ ts \in [Requests -> Nat \cup {Nothing}]
      /\ nonces \subseteq Requests
      /\ downAt \in Nat \cup {Nothing}
      /\ worker \in [Workers -> [req : Requests \cup {Nothing}, at : Nat]]
      /\ accepted \in [Requests -> Nat]
  BY DEF RequestsInv, AuthTypeOK
<1>1. CASE Tick
  <2>1. AuthTypeOK'
    BY <1>1, <1>a DEF Tick, AuthTypeOK
  <2>2. HandlersInTime'
    <3> SUFFICES ASSUME NEW h \in Workers, Busy(h)
                 PROVE  /\ Up /\ ts[worker[h].req] # Nothing
                        /\ worker[h].at <= now + 1 /\ now + 1 <= worker[h].at + BodyTime
                        /\ worker[h].at <= ts[worker[h].req] + Skew
      BY <1>1 DEF Tick, HandlersInTime, Busy, Up
    <3>1. worker[h].at \in Nat
      BY <1>a
    <3> QED BY <1>1, <1>a, <3>1 DEF Tick, RequestsInv, HandlersInTime
  <2>3. ClocksBounded'
    BY <1>1, <1>a DEF Tick, RequestsInv, ClocksBounded, Up
  <2>4. Remembered'
    BY <1>1, <1>a DEF Tick, RequestsInv, Remembered, Up
  <2>5. SignedOnce' /\ NoncesBounded'
    BY <1>1 DEF Tick, RequestsInv, SignedOnce, NoncesBounded, CacheBounded
  <2> QED BY <2>1, <2>2, <2>3, <2>4, <2>5 DEF RequestsInv
<1>2. CASE Stop
  <2>1. AuthTypeOK'
    BY <1>2, <1>a DEF Stop, AuthTypeOK, Free
  <2>2. HandlersInTime'
    BY <1>2 DEF Stop, HandlersInTime, Busy, Free
  <2>3. ClocksBounded'
    BY <1>2, <1>a DEF Stop, RequestsInv, ClocksBounded
  <2>4. Remembered'
    BY <1>2, <1>a DEF Stop, RequestsInv, Remembered, ClocksBounded, Up
  <2>5. SignedOnce'
    BY <1>2 DEF Stop, RequestsInv, SignedOnce
  <2>6. NoncesBounded'
    BY <1>2, FS_EmptySet DEF Stop, NoncesBounded, CacheBounded
  <2> QED BY <2>1, <2>2, <2>3, <2>4, <2>5, <2>6 DEF RequestsInv
<1>3. CASE Start
  <2>1. AuthTypeOK'
    BY <1>3, <1>a DEF Start, AuthTypeOK
  <2>2. HandlersInTime'
    BY <1>3 DEF Start, RequestsInv, HandlersInTime, Busy, Up
  <2>3. ClocksBounded'
    BY <1>3, <1>a DEF Start, RequestsInv, ClocksBounded, Up
  <2>4. Remembered'
    <3> SUFFICES ASSUME NEW r \in Requests, accepted[r] > 0
                 PROVE  ts[r] # Nothing /\ ts[r] < now
      BY <1>3 DEF Start, Remembered, Up
    <3>1. ts[r] # Nothing /\ ts[r] <= downAt + Ahead
      BY <1>3 DEF Start, RequestsInv, Remembered
    <3>2. downAt \in Nat /\ ts[r] \in Nat
      BY <1>3, <1>a, <3>1 DEF Start, Up
    <3> QED BY <1>3, <1>a, <3>1, <3>2 DEF Start
  <2>5. SignedOnce' /\ NoncesBounded'
    BY <1>3 DEF Start, RequestsInv, SignedOnce, NoncesBounded, CacheBounded
  <2> QED BY <2>1, <2>2, <2>3, <2>4, <2>5 DEF RequestsInv
<1>4. ASSUME NEW r \in Requests, NEW t \in 0..MaxTime + Ahead, Sign(r, t) PROVE RequestsInv'
  <2>1. AuthTypeOK'
    BY <1>4, <1>a DEF Sign, AuthTypeOK
  <2>2. HandlersInTime'
    BY <1>4, <1>a DEF Sign, RequestsInv, HandlersInTime, Busy, Up
  <2>3. ClocksBounded'
    BY <1>4, <1>a DEF Sign, RequestsInv, ClocksBounded, Up
  <2>4. Remembered'
    BY <1>4, <1>a DEF Sign, RequestsInv, Remembered, Up
  <2>5. SignedOnce' /\ NoncesBounded'
    BY <1>4 DEF Sign, RequestsInv, SignedOnce, NoncesBounded, CacheBounded
  <2> QED BY <2>1, <2>2, <2>3, <2>4, <2>5 DEF RequestsInv
<1>5. ASSUME NEW h \in Workers, NEW r \in Requests, Check(h, r) PROVE RequestsInv'
  <2>1. AuthTypeOK'
    BY <1>5, <1>a DEF Check, AuthTypeOK
  <2>2. HandlersInTime'
    BY <1>5, <1>a DEF Check, RequestsInv, HandlersInTime, Busy, Up
  <2>3. ClocksBounded' /\ Remembered'
    BY <1>5 DEF Check, RequestsInv, ClocksBounded, Remembered, Up
  <2>4. SignedOnce' /\ NoncesBounded'
    BY <1>5 DEF Check, RequestsInv, SignedOnce, NoncesBounded, CacheBounded
  <2> QED BY <2>1, <2>2, <2>3, <2>4 DEF RequestsInv
<1>6. ASSUME NEW h \in Workers, Fail(h) \/ RefuseEarly(h) PROVE RequestsInv'
  <2>1. AuthTypeOK'
    BY <1>6, <1>a DEF Fail, RefuseEarly, AuthTypeOK, Free
  <2>2. HandlersInTime'
    BY <1>6, <1>a DEF Fail, RefuseEarly, RequestsInv, HandlersInTime, Busy, Up, Free
  <2>3. ClocksBounded' /\ Remembered'
    BY <1>6 DEF Fail, RefuseEarly, RequestsInv, ClocksBounded, Remembered, Up
  <2>4. SignedOnce' /\ NoncesBounded'
    BY <1>6 DEF Fail, RefuseEarly, RequestsInv, SignedOnce, NoncesBounded, CacheBounded
  <2> QED BY <2>1, <2>2, <2>3, <2>4 DEF RequestsInv
<1>7. ASSUME NEW h \in Workers, RefuseNonce(h) PROVE RequestsInv'
  <2>0. /\ nonces' = Kept /\ lastSweep' \in 0..now
        /\ worker' = [worker EXCEPT ![h] = Free]
        /\ UNCHANGED <<now, ts, startedAt, downAt, accepted>>
    BY <1>7, <1>a DEF RefuseNonce, Sweep
  <2>k. /\ Kept \subseteq nonces
        /\ \A q \in nonces : q \in Kept \/ ts[q] < now - 2 * Skew \/ ts[q] = Nothing
        /\ IsFiniteSet(Kept) /\ Cardinality(Kept) <= Cardinality(nonces)
        /\ Cardinality(Kept) \in Nat /\ Cardinality(nonces) \in Nat
    BY KeptFacts DEF RequestsInv
  <2>1. AuthTypeOK'
    BY <2>0, <2>k, <1>a DEF AuthTypeOK, Free
  <2>2. HandlersInTime'
    BY <2>0, <1>a DEF RequestsInv, HandlersInTime, Busy, Up, Free
  <2>3. ClocksBounded'
    BY <2>0 DEF RequestsInv, ClocksBounded, Up
  <2>4. Remembered'
    BY <2>0, <2>k DEF RequestsInv, Remembered, Up
  <2>5. SignedOnce'
    BY <2>0 DEF RequestsInv, SignedOnce
  <2>6. NoncesBounded'
    BY <2>0, <2>k DEF RequestsInv, NoncesBounded, CacheBounded
  <2> QED BY <2>1, <2>2, <2>3, <2>4, <2>5, <2>6 DEF RequestsInv
<1>8. ASSUME NEW h \in Workers, Accept(h) PROVE RequestsInv'
  <2> DEFINE r == worker[h].req
  <2>0. /\ nonces' = Kept \cup {r} /\ lastSweep' \in 0..now
        /\ accepted' = [accepted EXCEPT ![r] = @ + 1]
        /\ worker' = [worker EXCEPT ![h] = Free]
        /\ UNCHANGED <<now, ts, startedAt, downAt>>
        /\ r \notin Kept /\ Cardinality(Kept) < MaxNonces
    BY <1>8, <1>a DEF Accept, Sweep
  <2>r. r \in Requests /\ ts[r] \in Nat /\ accepted[r] = 0 /\ Up
    BY <1>8, HandledRequest, AcceptsNew DEF Accept, RequestsInv, HandlersInTime
  <2>k. /\ Kept \subseteq nonces
        /\ \A q \in nonces : q \in Kept \/ ts[q] < now - 2 * Skew \/ ts[q] = Nothing
        /\ IsFiniteSet(Kept) /\ Cardinality(Kept) \in Nat
    BY KeptFacts DEF RequestsInv
  <2> HIDE DEF r
  <2>1. AuthTypeOK'
    BY <2>0, <2>k, <2>r, <1>a DEF AuthTypeOK, Free
  <2>2. HandlersInTime'
    BY <2>0, <1>a DEF RequestsInv, HandlersInTime, Busy, Up, Free
  <2>3. ClocksBounded'
    BY <2>0 DEF RequestsInv, ClocksBounded, Up
  <2>4. Remembered'
    <3> SUFFICES ASSUME NEW q \in Requests, accepted'[q] > 0
                 PROVE  /\ ts[q] # Nothing
                        /\ q \in nonces' \/ ts[q] < now - 2 * Skew \/ ts[q] < startedAt
      BY <2>0, <2>r DEF Remembered, Up
    <3>1. CASE q = r
      BY <3>1, <2>0, <2>r, <1>a
    <3>2. CASE q # r
      <4>1. accepted[q] > 0
        BY <3>2, <2>0, <2>r, <1>a
      <4> QED BY <4>1, <2>0, <2>k, <2>r DEF RequestsInv, Remembered
    <3> QED BY <3>1, <3>2
  <2>5. SignedOnce'
    BY <2>0, <2>r, <1>a DEF RequestsInv, SignedOnce
  <2>6. NoncesBounded'
    <3>1. IsFiniteSet(Kept \cup {r}) /\ Cardinality(Kept \cup {r}) = Cardinality(Kept) + 1
      BY <2>0, <2>k, FS_AddElement
    <3> QED BY <2>0, <2>k, <3>1 DEF NoncesBounded, CacheBounded
  <2> QED BY <2>1, <2>2, <2>3, <2>4, <2>5, <2>6 DEF RequestsInv
<1>9. CASE UNCHANGED authVars
  BY <1>9 DEF authVars, RequestsInv, AuthTypeOK, HandlersInTime, ClocksBounded, Remembered, SignedOnce,
              NoncesBounded, CacheBounded, Busy, Up
<1> QED BY <1>1, <1>2, <1>3, <1>4, <1>5, <1>6, <1>7, <1>8, <1>9 DEF AuthNext

\* The invariant holds throughout.
LEMMA RequestsHold == AuthSpec => []RequestsInv
BY RequestsInit, RequestsStep, PTL DEF AuthSpec

\* Every signed request is accepted at most once, whatever its deliveries,
\* the server's restarts and the sweeps (consumeNonce).
THEOREM RequestsAcceptedOnce == AuthSpec => []SignedOnce
<1>1. RequestsInv => SignedOnce
  BY DEF RequestsInv
<1> QED BY <1>1, RequestsHold, PTL

\* The cache of nonces never outgrows maxNonces (consumeNonce).
THEOREM CacheStaysBounded == AuthSpec => []CacheBounded
<1>1. RequestsInv => CacheBounded
  BY DEF RequestsInv, NoncesBounded
<1> QED BY <1>1, RequestsHold, PTL

-----------------------------------------------------------------------------
(* Logins: what has ended stays out, and app passwords stay within the cap. *)

\* Types, as far as the proofs need them: rows refer to rows.
Rows ==
  /\ devices \in [Devices -> Device \cup {None}]
  /\ passwords \subseteq Known
  /\ handler \in [Handlers -> [pc : Steps, of : Users \cup Devices \cup {None},
                              began : {"live", "ended"}]]
  /\ \A h \in Handlers : handler[h].pc \in {"pair", "password"} => handler[h].of \in Users

\* What ended has revoked_at, and a late request is of an ended device.
EndedIsRevoked ==
  /\ ended \subseteq revoked
  /\ \A h \in Handlers : handler[h].began = "ended" => handler[h].of \in ended

\* No late request gets past the lookups.
LateStopped ==
  \A h \in Handlers : handler[h].pc \in {"verify", "put", "ok", "signed"} => handler[h].began = "live"

EInv == Rows /\ EndedIsRevoked /\ LateStopped

LEMMA EndedInit == Init => EInv
BY DEF Init, EInv, Rows, EndedIsRevoked, LateStopped, Idle, Known, Steps

\* A step of a handler that neither begins nor accepts a request.
LEMMA EndStep ==
  ASSUME EInv, NEW h \in Handlers, End(h),
         UNCHANGED <<devices, passwords>>, ended \subseteq ended', ended' \subseteq revoked'
  PROVE  EInv'
BY DEF EInv, Rows, EndedIsRevoked, LateStopped, End, Idle, Known, Steps

\* A handler that goes on with a request that is not late, or is not accepted.
LEMMA GotoStep ==
  ASSUME EInv, NEW h \in Handlers, NEW pc \in Steps, Goto(h, pc), pc \notin {"pair", "password"},
         UNCHANGED <<devices, ended, revoked>>, passwords' \subseteq passwords,
         pc \in {"verify", "put", "ok", "signed"} => handler[h].began = "live"
  PROVE  EInv'
<1>1. Rows'
  BY DEF EInv, Rows, Goto, Known
<1>2. EndedIsRevoked'
  BY DEF EInv, Rows, EndedIsRevoked, Goto
<1>3. LateStopped'
  BY DEF EInv, Rows, LateStopped, Goto
<1> QED BY <1>1, <1>2, <1>3 DEF EInv

\* A handler that begins a request.
LEMMA BeginStep ==
  ASSUME EInv, NEW h \in Handlers, NEW pc \in Steps, NEW x \in Users \cup Devices,
         NEW when \in {"live", "ended"}, Begin(h, pc, x, when), pc \notin {"verify", "put", "ok", "signed"},
         pc \in {"pair", "password"} => x \in Users,
         UNCHANGED <<devices, passwords>>, ended \subseteq ended', ended' \subseteq revoked',
         when = "ended" => x \in ended'
  PROVE  EInv'
<1>1. Rows'
  BY DEF EInv, Rows, Begin, Known
<1>2. EndedIsRevoked'
  BY DEF EInv, Rows, EndedIsRevoked, Begin
<1>3. LateStopped'
  BY DEF EInv, Rows, LateStopped, Begin
<1> QED BY <1>1, <1>2, <1>3 DEF EInv

\* A step that leaves the handlers alone.
LEMMA RowStep ==
  ASSUME EInv, UNCHANGED <<devices, handler>>, passwords' \subseteq passwords,
         ended \subseteq ended', ended' \subseteq revoked'
  PROVE  EInv'
BY DEF EInv, Rows, EndedIsRevoked, LateStopped, Known

\* A live device has not ended.
LEMMA LiveNotLate ==
  ASSUME EInv, NEW h \in Handlers, Live(handler[h].of)
  PROVE  handler[h].began = "live"
BY DEF EInv, Rows, EndedIsRevoked, Live

LEMMA EndedStep == EInv /\ [Next]_vars => EInv'
<1> SUFFICES ASSUME EInv, [Next]_vars PROVE EInv'
  OBVIOUS
<1>e. ended \subseteq revoked
  BY DEF EInv, EndedIsRevoked
<1>1. ASSUME NEW u \in Users, Disable(u) PROVE EInv'
  BY <1>1, <1>e, RowStep DEF Disable
<1>2. ASSUME NEW u \in Users, Enable(u) PROVE EInv'
  BY <1>2, <1>e, RowStep DEF Enable
<1>3. ASSUME NEW l \in WebLogins, StartWebLogin(l) \/ PollWebLogin(l) \/ EndWebSession(l) PROVE EInv'
  BY <1>3, <1>e, RowStep DEF StartWebLogin, PollWebLogin, EndWebSession
<1>4. ASSUME NEW d \in Devices, ExpireToken(d) \/ Evict(d) PROVE EInv'
  BY <1>4, <1>e, RowStep DEF ExpireToken, Evict, rows
<1>5. ASSUME NEW h \in Handlers, NEW u \in Users, NEW pc \in {"pair", "password"}, Resolve(h, u, pc)
      PROVE  EInv'
  BY <1>5, <1>e, BeginStep DEF Steps, When, Resolve, rows
<1>6. ASSUME NEW h \in Handlers, NEW d \in Devices, Pair(h, d) PROVE EInv'
  <2>1. Rows'
    <3>0. handler[h].of \in Users
      BY <1>6 DEF Pair, At, EInv, Rows
    <3>1. [user |-> handler[h].of, dav |-> FALSE] \in Device
      BY <3>0 DEF Device
    <3>2. devices' = [devices EXCEPT ![d] = [user |-> handler[h].of, dav |-> FALSE]]
      BY <1>6 DEF Pair
    <3>3. devices' \in [Devices -> Device \cup {None}]
      BY <3>1, <3>2 DEF EInv, Rows
    <3>4. passwords' \subseteq Known'
      BY <1>6, <3>2 DEF Pair, EInv, Rows, Known
    <3> QED BY <1>6, <3>3, <3>4 DEF Pair, End, Idle, EInv, Rows, Steps
  <2>2. EndedIsRevoked' /\ LateStopped'
    BY <1>6 DEF Pair, End, Idle, EInv, Rows, EndedIsRevoked, LateStopped
  <2> QED BY <2>1, <2>2 DEF EInv
<1>7. ASSUME NEW h \in Handlers, NEW d \in Devices, CreateAppPassword(h, d) PROVE EInv'
  <2>1. Rows'
    <3>0. handler[h].of \in Users
      BY <1>7 DEF CreateAppPassword, At, EInv, Rows
    <3>1. [user |-> handler[h].of, dav |-> TRUE] \in Device
      BY <3>0 DEF Device
    <3>2. devices' = [devices EXCEPT ![d] = [user |-> handler[h].of, dav |-> TRUE]]
      BY <1>7 DEF CreateAppPassword
    <3>3. devices' \in [Devices -> Device \cup {None}]
      BY <3>1, <3>2 DEF EInv, Rows
    <3>4. passwords' \subseteq Known'
      <4> DEFINE row == [user |-> handler[h].of, dav |-> TRUE]
      <4>1. row # None
        BY <3>1, LoginsAssumption
      <4>2. passwords' = passwords \cup {d} /\ passwords \subseteq Known
        BY <1>7 DEF CreateAppPassword, EInv, Rows
      <4>3. devices \in [Devices -> Device \cup {None}] /\ devices' = [devices EXCEPT ![d] = row]
        BY <3>2 DEF EInv, Rows
      <4> HIDE DEF row
      <4> QED BY <4>1, <4>2, <4>3 DEF Known
    <3> QED BY <1>7, <3>3, <3>4 DEF CreateAppPassword, End, Idle, EInv, Rows, Steps
  <2>2. EndedIsRevoked' /\ LateStopped'
    BY <1>7 DEF CreateAppPassword, End, Idle, EInv, Rows, EndedIsRevoked, LateStopped
  <2> QED BY <2>1, <2>2 DEF EInv
<1>8. ASSUME NEW h \in Handlers, NEW d \in Devices, Revoke(h, d) PROVE EInv'
  BY <1>8, <1>e, BeginStep DEF Steps, When, Revoke
<1>9. ASSUME NEW h \in Handlers, NEW d \in Devices, Signed(h, d) \/ Bearer(h, d) \/ Basic(h, d)
      PROVE  EInv'
  <2>1. PICK pc \in {"key", "bearer", "hit", "miss"} : Begin(h, pc, d, When(d))
    BY <1>9 DEF Signed, Bearer, Basic
  <2> QED BY <1>9, <1>e, <2>1, BeginStep DEF Steps, When, Signed, Bearer, Basic, rows
<1>10. ASSUME NEW h \in Handlers, Refuse(h) \/ ForgetDevice(h) \/ Done(h) PROVE EInv'
  BY <1>10, <1>e, EndStep DEF Refuse, ForgetDevice, Done, rows
<1>11. ASSUME NEW h \in Handlers, RevokePassword(h) PROVE EInv'
  BY <1>11, GotoStep DEF Steps, RevokePassword
<1>12. ASSUME NEW h \in Handlers, NEW l \in WebLogins, ApproveWebLogin(h, l) PROVE EInv'
  BY <1>12, <1>e, EndStep DEF ApproveWebLogin
<1>13. ASSUME NEW h \in Handlers, CreateUploadToken(h) PROVE EInv'
  BY <1>13, <1>e, EndStep DEF CreateUploadToken
<1>14. ASSUME NEW h \in Handlers, Found(h) PROVE EInv'
  <2>1. CASE Live(handler[h].of)
    <3>1. PICK pc \in {"signed", "ok"} : Goto(h, pc)
      BY <1>14, <2>1 DEF Found
    <3>2. handler[h].began = "live"
      BY <2>1, LiveNotLate
    <3> QED BY <1>14, <3>1, <3>2, GotoStep DEF Steps, Found, rows
  <2>2. CASE ~Live(handler[h].of)
    BY <1>14, <1>e, <2>2, EndStep DEF Found, rows
  <2> QED BY <2>1, <2>2
<1>15. ASSUME NEW h \in Handlers, Hit(h) PROVE EInv'
  <2>1. CASE Live(handler[h].of)
    BY <1>15, <2>1, LiveNotLate, GotoStep DEF Steps, Hit, rows
  <2>2. CASE ~Live(handler[h].of)
    BY <1>15, <2>2, GotoStep DEF Steps, Hit, rows
  <2> QED BY <2>1, <2>2
<1>16. ASSUME NEW h \in Handlers, Candidate(h) PROVE EInv'
  <2>1. CASE Live(handler[h].of) /\ handler[h].of \in passwords
    BY <1>16, <2>1, LiveNotLate, GotoStep DEF Steps, Candidate, rows
  <2>2. CASE ~(Live(handler[h].of) /\ handler[h].of \in passwords)
    BY <1>16, <1>e, <2>2, EndStep DEF Candidate, rows
  <2> QED BY <2>1, <2>2
<1>17. ASSUME NEW h \in Handlers, Verify(h) PROVE EInv'
  <2>1. handler[h].began = "live"
    BY <1>17 DEF Verify, At, EInv, LateStopped
  <2>2. CASE Goto(h, "put")
    BY <1>17, <2>1, <2>2, GotoStep DEF Steps, Verify, rows
  <2>3. CASE End(h)
    BY <1>17, <1>e, <2>3, EndStep DEF Verify, rows
  <2> QED BY <1>17, <2>2, <2>3 DEF Verify
<1>18. ASSUME NEW h \in Handlers, Put(h) PROVE EInv'
  <2>1. handler[h].began = "live"
    BY <1>18 DEF Put, At, EInv, LateStopped
  <2> QED BY <1>18, <2>1, GotoStep DEF Steps, Put, rows
<1>19. CASE Crash
  BY <1>19 DEF Crash, rows, Idle, EInv, Rows, EndedIsRevoked, LateStopped, Known, Steps
<1>20. CASE UNCHANGED vars
  BY <1>20, <1>e, RowStep DEF vars, rows
<1> QED
  BY <1>1, <1>2, <1>3, <1>4, <1>5, <1>6, <1>7, <1>8, <1>9, <1>10, <1>11, <1>12, <1>13, <1>14,
     <1>15, <1>16, <1>17, <1>18, <1>19, <1>20 DEF Next

\* The active app passwords of each user are finitely many, within the cap.
Capped == IsFiniteSet(passwords) /\ PasswordsCapped

\* Fewer passwords, or none added, of the same devices.
LEMMA CappedStep ==
  ASSUME Capped, UNCHANGED devices, passwords' \subseteq passwords
  PROVE  Capped'
<1>1. IsFiniteSet(passwords')
  BY FS_Subset DEF Capped
<1>2. ASSUME NEW u \in Users PROVE Cardinality(ActiveOf(u)') <= MaxAppPasswords
  <2>1. ActiveOf(u)' \subseteq ActiveOf(u) /\ IsFiniteSet(ActiveOf(u))
    BY FS_Subset DEF Capped, ActiveOf
  <2>2. /\ Cardinality(ActiveOf(u)') <= Cardinality(ActiveOf(u))
        /\ IsFiniteSet(ActiveOf(u)')
    BY <2>1, FS_Subset
  <2>3. Cardinality(ActiveOf(u)') \in Nat /\ Cardinality(ActiveOf(u)) \in Nat
    BY <2>1, <2>2, FS_CardinalityType
  <2>4. Cardinality(ActiveOf(u)) <= MaxAppPasswords
    BY DEF Capped, PasswordsCapped
  <2> QED BY <2>2, <2>3, <2>4, LoginsAssumption
<1> QED BY <1>1, <1>2 DEF Capped, PasswordsCapped

LEMMA CappedInit == Init => Capped
<1> SUFFICES ASSUME Init PROVE Capped
  OBVIOUS
<1>1. IsFiniteSet(passwords)
  BY FS_EmptySet DEF Init
<1>2. ASSUME NEW u \in Users PROVE Cardinality(ActiveOf(u)) <= MaxAppPasswords
  <2>1. ActiveOf(u) = {}
    BY DEF Init, ActiveOf
  <2> QED BY <2>1, FS_EmptySet, LoginsAssumption
<1> QED BY <1>1, <1>2 DEF Capped, PasswordsCapped

\* A password row is only added by the transaction that counts them.
LEMMA CappedNext == EInv /\ Capped /\ [Next]_vars => Capped'
<1> SUFFICES ASSUME EInv, Capped, [Next]_vars PROVE Capped'
  OBVIOUS
<1>k. passwords \subseteq Known
  BY DEF EInv, Rows
<1>1. ASSUME NEW h \in Handlers, NEW d \in Devices, CreateAppPassword(h, d) PROVE Capped'
  <2>0. /\ devices[d] = None /\ d \notin passwords
        /\ devices' = [devices EXCEPT ![d] = [user |-> handler[h].of, dav |-> TRUE]]
        /\ passwords' = passwords \cup {d}
    BY <1>1, <1>k DEF CreateAppPassword, Known
  <2>d. devices \in [Devices -> Device \cup {None}]
    BY DEF EInv, Rows
  <2>1. IsFiniteSet(passwords')
    BY <2>0, FS_AddElement DEF Capped
  <2>2. ASSUME NEW u \in Users PROVE Cardinality(ActiveOf(u)') <= MaxAppPasswords
    <3>f. IsFiniteSet(ActiveOf(u)) /\ Cardinality(ActiveOf(u)) \in Nat
      BY FS_Subset, FS_CardinalityType DEF Capped, ActiveOf
    <3>1. CASE u = handler[h].of
      <4>1. ActiveOf(u)' = ActiveOf(u) \cup {d} /\ d \notin ActiveOf(u)
        BY <3>1, <2>0, <2>d, <1>k DEF ActiveOf, Known
      <4>2. Cardinality(ActiveOf(u)') = Cardinality(ActiveOf(u)) + 1
        BY <4>1, <3>f, FS_AddElement
      <4>3. Cardinality(ActiveOf(u)) < MaxAppPasswords
        BY <1>1, <3>1 DEF CreateAppPassword
      <4> QED BY <4>2, <4>3, <3>f, LoginsAssumption
    <3>2. CASE u # handler[h].of
      <4>1. ActiveOf(u)' = ActiveOf(u)
        BY <3>2, <2>0, <2>d, <1>k DEF ActiveOf, Known
      <4> QED BY <4>1 DEF Capped, PasswordsCapped
    <3> QED BY <3>1, <3>2
  <2> QED BY <2>1, <2>2 DEF Capped, PasswordsCapped
<1>2. ASSUME NEW h \in Handlers, NEW d \in Devices, Pair(h, d) PROVE Capped'
  <2>0. /\ d \notin passwords /\ passwords' = passwords
        /\ devices' = [devices EXCEPT ![d] = [user |-> handler[h].of, dav |-> FALSE]]
    BY <1>2, <1>k DEF Pair, Known
  <2>1. ASSUME NEW u \in Users PROVE ActiveOf(u)' = ActiveOf(u)
    BY <2>0, <1>k DEF ActiveOf, Known, EInv, Rows
  <2> QED BY <2>0, <2>1 DEF Capped, PasswordsCapped
<1>3. CASE /\ \A h \in Handlers, d \in Devices : ~CreateAppPassword(h, d) /\ ~Pair(h, d)
  <2>1. UNCHANGED devices /\ passwords' \subseteq passwords
    BY <1>3 DEF Next, vars, rows, Disable, Enable, StartWebLogin, PollWebLogin, EndWebSession,
                ExpireToken, Evict, Resolve, Revoke, Signed, Bearer, Basic, Refuse,
                RevokePassword, ForgetDevice, ApproveWebLogin, CreateUploadToken, Found, Hit,
                Candidate, Verify, Put, Done, Crash
  <2> QED BY <2>1, CappedStep
<1> QED BY <1>1, <1>2, <1>3

\* A user never has more active app passwords than MaxAppPasswords: the count
\* and the insertion are one transaction (CreateAppPassword).
THEOREM PasswordsStayCapped == Spec => []PasswordsCapped
<1>1. Capped => PasswordsCapped
  BY DEF Capped
<1> QED BY <1>1, EndedInit, EndedStep, CappedInit, CappedNext, PTL DEF Spec

\* A device that was revoked, or whose user was disabled, is never again taken
\* as itself by a request that begins later (Device.Revoked at every lookup,
\* and SetUserStatus's transaction).
THEOREM WhatEndedStaysOut == Spec => []EndedStaysOut
<1>1. EInv => EndedStaysOut
  BY DEF EInv, LateStopped, EndedStaysOut, Accepted
<1> QED BY <1>1, EndedInit, EndedStep, PTL DEF Spec

-----------------------------------------------------------------------------
(* Accounts: an administrator remains, invites open what they allow and    *)
(* nothing once revoked, and the attempts at a code are bounded.           *)

\* The types these proofs need; and that an invite has opened what it counts.
InvitesInv ==
  /\ users \in [People -> User \cup {Absent}]
  /\ invites \in [Invites -> Invite \cup {Absent, Gone}]
  /\ opened \in [Invites -> Nat]
  /\ \A h \in Callers : served[h].pc = "redeem" => served[h].of \in Invites
  /\ served \in [Callers -> [pc : Pcs, of : {Absent} \cup People \cup Invites \cup Sessions]]
  /\ \A i \in Invites : invites[i] = Absent => opened[i] = 0
  /\ InvitesWithinUses

\* No administrator is lost while there is one: users only change one at a
\* time, and the last one does not cease to be an active administrator.
LEMMA AdminStep ==
  ASSUME users \in [People -> User \cup {Absent}], [AccountsNext]_accountVars, ActiveAdmins # {}
  PROVE  ActiveAdmins' # {}
<1>0. Absent \notin User
  BY AccountsAssumption
<1>v. PICK v \in ActiveAdmins : TRUE
  OBVIOUS
<1>1. CASE UNCHANGED users
  BY <1>1 DEF ActiveAdmins, Active
<1>2. ASSUME NEW u \in People, NEW role \in Roles, CreateUser(u, role) PROVE ActiveAdmins' # {}
  <2>1. v # u /\ users'[v] = users[v]
    BY <1>2, <1>v DEF CreateUser, ActiveAdmins, Active
  <2> QED BY <2>1 DEF ActiveAdmins, Active
<1>3. ASSUME NEW u \in People, NEW status \in {"active", "disabled"}, SetUserStatus(u, status)
      PROVE  ActiveAdmins' # {}
  <2>1. CASE status = "active"
    <3>1. v \in ActiveAdmins'
      BY <1>3, <2>1, <1>v DEF SetUserStatus, ActiveAdmins, Active, User
    <3> QED BY <3>1
  <2>2. CASE status = "disabled"
    <3>1. PICK w \in ActiveAdmins : w # u
      BY <1>3, <2>2 DEF SetUserStatus, OtherAdmin
    <3>2. users'[w] = users[w]
      BY <1>3, <3>1 DEF SetUserStatus, ActiveAdmins
    <3> QED BY <3>1, <3>2 DEF ActiveAdmins, Active
  <2> QED BY <2>1, <2>2
<1>4. ASSUME NEW u \in People, NEW role \in Roles, SetUserRole(u, role) PROVE ActiveAdmins' # {}
  <2>1. CASE role = "admin"
    <3>1. v \in ActiveAdmins'
      BY <1>4, <2>1, <1>v DEF SetUserRole, ActiveAdmins, Active, User
    <3> QED BY <3>1
  <2>2. CASE role # "admin"
    <3>1. PICK w \in ActiveAdmins : w # u
      BY <1>4, <2>2 DEF SetUserRole, OtherAdmin
    <3>2. users'[w] = users[w]
      BY <1>4, <3>1 DEF SetUserRole, ActiveAdmins
    <3> QED BY <3>1, <3>2 DEF ActiveAdmins, Active
  <2> QED BY <2>1, <2>2
<1>5. ASSUME NEW h \in Callers, CreateOwner(h) PROVE ActiveAdmins' # {}
  <2>1. users'[v] = users[v]
    BY <1>5, <1>v DEF CreateOwner, ActiveAdmins, Active
  <2> QED BY <2>1 DEF ActiveAdmins, Active
<1>6. ASSUME NEW h \in Callers, NEW u \in People, NEW s \in Sessions, Redeem(h, u, s)
      PROVE  ActiveAdmins' # {}
  <2>1. users'[v] = users[v]
    BY <1>6, <1>v DEF Redeem, OpensFor, ActiveAdmins, Active
  <2> QED BY <2>1 DEF ActiveAdmins, Active
<1> QED
  BY <1>1, <1>2, <1>3, <1>4, <1>5, <1>6
  DEF AccountsNext, accountVars, CreateInvite, RevokeInvite, Expire, EnsureOwner, FindInvite,
      StartPairing,
      OpenSession, BeginRead, CompleteRead, BeginWrite, CompleteBad, CompleteWrite, GiveUp

LEMMA InvitesInit == AccountsInit => InvitesInv
BY AccountsAssumption DEF AccountsInit, InvitesInv, InvitesWithinUses, Present, Unserved, Pcs

\* Every step keeps the invariant.
LEMMA InvitesStep == InvitesInv /\ [AccountsNext]_accountVars => InvitesInv'
<1> SUFFICES ASSUME InvitesInv, [AccountsNext]_accountVars PROVE InvitesInv'
  OBVIOUS
<1>a. /\ users \in [People -> User \cup {Absent}]
      /\ invites \in [Invites -> Invite \cup {Absent, Gone}]
      /\ opened \in [Invites -> Nat]
      /\ \A h \in Callers : served[h].pc = "redeem" => served[h].of \in Invites
      /\ served \in [Callers -> [pc : Pcs, of : {Absent} \cup People \cup Invites \cup Sessions]]
      /\ \A i \in Invites : invites[i] = Absent => opened[i] = 0
      /\ InvitesWithinUses
  BY DEF InvitesInv
<1>1. CASE UNCHANGED <<users, invites, opened, served>>
  BY <1>1, <1>a DEF InvitesInv, InvitesWithinUses, Present
<1>2. ASSUME UNCHANGED <<invites, opened, served>>, users' \in [People -> User \cup {Absent}]
      PROVE  InvitesInv'
  BY <1>2, <1>a DEF InvitesInv, InvitesWithinUses, Present
<1>3. ASSUME NEW h \in Callers, NEW pc \in Pcs \ {"redeem"},
             NEW x \in {Absent} \cup People \cup Invites \cup Sessions,
             Begins(h, pc, x), UNCHANGED <<users, invites, opened>>
      PROVE  InvitesInv'
  BY <1>3, <1>a DEF InvitesInv, InvitesWithinUses, Present, Begins
<1>4. ASSUME NEW h \in Callers, Ends(h), UNCHANGED <<invites, opened>>,
             users' \in [People -> User \cup {Absent}]
      PROVE  InvitesInv'
  BY <1>4, <1>a DEF InvitesInv, InvitesWithinUses, Present, Ends, Unserved, Pcs
<1>5. ASSUME NEW u \in People, NEW role \in Roles, CreateUser(u, role) \/ SetUserRole(u, role)
      PROVE  InvitesInv'
  <2>1. users' \in [People -> User \cup {Absent}]
    BY <1>5, <1>a DEF CreateUser, SetUserRole, User
  <2> QED BY <1>2, <1>5, <2>1 DEF CreateUser, SetUserRole
<1>6. ASSUME NEW u \in People, NEW status \in {"active", "disabled"}, SetUserStatus(u, status)
      PROVE  InvitesInv'
  <2>1. users' \in [People -> User \cup {Absent}]
    BY <1>6, <1>a DEF SetUserStatus, User
  <2> QED BY <1>2, <1>6, <2>1 DEF SetUserStatus
<1>7. ASSUME NEW i \in Invites, NEW u \in People \cup {Absent}, NEW role \in Roles,
             NEW m \in 1..MaxUses, CreateInvite(i, u, role, m)
      PROVE  InvitesInv'
  <2> DEFINE row == [for |-> u, role |-> role, max |-> m, uses |-> 0]
  <2>1. row \in Invite /\ row.uses = 0 /\ row.max = m /\ m \in Nat
    BY AccountsAssumption DEF Invite
  <2>2. /\ invites[i] = Absent /\ invites' = [invites EXCEPT ![i] = row]
        /\ UNCHANGED <<users, opened, served>>
    BY <1>7 DEF CreateInvite
  <2>3. row # Absent
    BY <2>1, AccountsAssumption
  <2> HIDE DEF row
  <2>4. invites' \in [Invites -> Invite \cup {Absent, Gone}]
    BY <2>1, <2>2, <1>a
  <2>5. InvitesWithinUses'
    BY <2>1, <2>2, <1>a DEF InvitesWithinUses, Present
  <2> QED BY <2>2, <2>3, <2>4, <2>5, <1>a DEF InvitesInv
<1>8. ASSUME NEW i \in Invites, RevokeInvite(i) PROVE InvitesInv'
  <2>1. invites' = [invites EXCEPT ![i] = Gone] /\ UNCHANGED <<users, opened, served>>
    BY <1>8 DEF RevokeInvite
  <2>2. Gone # Absent
    BY AccountsAssumption
  <2>3. InvitesWithinUses'
    BY <2>1, <1>a DEF InvitesWithinUses, Present
  <2> QED BY <2>1, <2>2, <2>3, <1>a DEF InvitesInv
<1>9. ASSUME NEW h \in Callers, NEW i \in Invites, FindInvite(h, i) PROVE InvitesInv'
  BY <1>9, <1>a DEF FindInvite, InvitesInv, InvitesWithinUses, Present, Begins, Pcs
<1>10. ASSUME NEW h \in Callers, NEW u \in People, NEW s \in Sessions, Redeem(h, u, s)
       PROVE  InvitesInv'
  <2> DEFINE i == served[h].of
  <2>1. i \in Invites
    BY <1>10, <1>a DEF Redeem, Serving
  <2>2. /\ invites[i] \in Invite /\ invites[i].uses < invites[i].max
        /\ invites' = [invites EXCEPT ![i].uses = @ + 1]
        /\ opened' = [opened EXCEPT ![i] = @ + 1]
        /\ served' = [served EXCEPT ![h] = Unserved]
    BY <1>10, <1>a, <2>1 DEF Redeem, Usable, Present, OpensFor, Ends
  <2>3. users' \in [People -> User \cup {Absent}]
    BY <1>10, <1>a, <2>2 DEF Redeem, OpensFor, User, Invite
  <2> DEFINE row == [invites[i] EXCEPT !.uses = @ + 1]
  <2>4. row \in Invite /\ row.uses = invites[i].uses + 1 /\ row.max = invites[i].max
    BY <2>2, AccountsAssumption DEF Invite
  <2>5. invites' = [invites EXCEPT ![i] = row]
    BY <2>2
  <2>6. /\ opened[i] = invites[i].uses /\ invites[i].uses \in Nat /\ invites[i].max \in Nat
    BY <1>10, <1>a, <2>1, <2>2, AccountsAssumption DEF Redeem, Usable, InvitesWithinUses, Invite
  <2>7. row # Absent
    BY <2>4, AccountsAssumption
  <2> HIDE DEF row, i
  <2>8. InvitesWithinUses'
    BY <2>1, <2>2, <2>4, <2>5, <2>6, <1>a DEF InvitesWithinUses, Present
  <2>9. \A j \in Invites : invites'[j] = Absent => opened'[j] = 0
    BY <2>1, <2>2, <2>5, <2>7, <1>a
  <2> QED BY <2>1, <2>2, <2>3, <2>4, <2>5, <2>8, <2>9, <1>a DEF InvitesInv, Unserved, Pcs
<1>11. ASSUME NEW h \in Callers, CreateOwner(h) PROVE InvitesInv'
  <2>1. users' \in [People -> User \cup {Absent}]
    BY <1>11, <1>a, AccountsAssumption DEF CreateOwner, User, Roles
  <2> QED BY <1>4, <1>11, <2>1 DEF CreateOwner
<1>12. ASSUME NEW h \in Callers, GiveUp(h) \/ BeginWrite(h) \/ CompleteBad(h) \/ CompleteWrite(h)
       PROVE  InvitesInv'
  BY <1>4, <1>12, <1>a DEF GiveUp, BeginWrite, CompleteBad, CompleteWrite
<1>13. ASSUME NEW h \in Callers, NEW s \in Sessions, OpenSession(h, s) PROVE InvitesInv'
  BY <1>4, <1>13, <1>a DEF OpenSession
<1>14. ASSUME NEW h \in Callers, EnsureOwner(h) PROVE InvitesInv'
  BY <1>3, <1>14 DEF EnsureOwner, Pcs
<1>15. ASSUME NEW h \in Callers, NEW u \in People, StartPairing(h, u) PROVE InvitesInv'
  BY <1>3, <1>15 DEF StartPairing, Pcs
<1>16. ASSUME NEW h \in Callers, NEW s \in Sessions, BeginRead(h, s) \/ CompleteRead(h, s)
       PROVE  InvitesInv'
  BY <1>3, <1>16 DEF BeginRead, CompleteRead, Pcs
<1>17. ASSUME NEW s \in Sessions, Expire(s) PROVE InvitesInv'
  BY <1>1, <1>17 DEF Expire
<1>18. CASE UNCHANGED accountVars
  BY <1>1, <1>18 DEF accountVars
<1> QED
  BY <1>5, <1>6, <1>7, <1>8, <1>9, <1>10, <1>11, <1>12, <1>13, <1>14, <1>15, <1>16, <1>17, <1>18
  DEF AccountsNext

\* Once there is an active administrator there is always one: ensureOtherAdminTx
\* looks inside the transaction that disables or demotes.
THEOREM AnAdminRemains == AccountsSpec => AdminRemains
<1>1. InvitesInv /\ [AccountsNext]_accountVars => (ActiveAdmins # {} => ActiveAdmins' # {})
  BY AdminStep DEF InvitesInv
<1> QED BY <1>1, InvitesInit, InvitesStep, PTL DEF AccountsSpec, AdminRemains

\* An invite never opens more sessions than it allows: RedeemInvite's update
\* counts the use only while there is one left.
THEOREM InvitesStayWithinUses == AccountsSpec => []InvitesWithinUses
<1>1. InvitesInv => InvitesWithinUses
  BY DEF InvitesInv
<1> QED BY <1>1, InvitesInit, InvitesStep, PTL DEF AccountsSpec

-----------------------------------------------------------------------------
(* Types.                                                                  *)

\* What a handler has read is of the kind its request reads.
Reading ==
  [pc : {"idle", "owner"}, of : {Absent}] \cup [pc : {"redeem"}, of : Invites]
    \cup [pc : {"start"}, of : People]
    \cup [pc : {"begin", "bad", "complete"}, of : Sessions]

\* The sessions that requests have read are there.
PairingsRead ==
  \A h \in Callers :
    served[h].pc \in {"begin", "bad", "complete"} => pairings[served[h].of] # Absent

\* What a request does to a session's row.
LEMMA SessionMoves ==
  ASSUME NEW r \in Session
  PROVE  /\ [r EXCEPT !.tries = @ + 1, !.begun = TRUE] \in Session
         /\ [r EXCEPT !.tries = @ + 1] \in Session
         /\ [r EXCEPT !.completed = TRUE, !.begun = FALSE] \in Session
<1>1. [r EXCEPT !.tries = @ + 1] \in Session
  BY DEF Session
<1>2. \A q \in Session : [q EXCEPT !.begun = TRUE] \in Session
  BY DEF Session
<1>3. [r EXCEPT !.completed = TRUE, !.begun = FALSE] \in Session
  BY DEF Session
<1>4. [r EXCEPT !.tries = @ + 1, !.begun = TRUE] = [[r EXCEPT !.tries = @ + 1] EXCEPT !.begun = TRUE]
  BY DEF Session
<1> QED BY <1>1, <1>2, <1>3, <1>4

\* Every step keeps the type of what it changes; InvitesInv has the rest.
LEMMA TypeStep ==
  InvitesInv /\ AccountsTypeOK /\ PairingsRead /\ [AccountsNext]_accountVars => AccountsTypeOK'
<1> SUFFICES ASSUME InvitesInv, AccountsTypeOK, PairingsRead, [AccountsNext]_accountVars
             PROVE  AccountsTypeOK'
  OBVIOUS
<1>1. /\ users' \in [People -> User \cup {Absent}]
      /\ invites' \in [Invites -> Invite \cup {Absent, Gone}]
      /\ opened' \in [Invites -> Nat]
  BY InvitesStep DEF InvitesInv
<1>2. /\ pairings \in [Sessions -> Session \cup {Absent}] /\ paired \in [Sessions -> Nat]
      /\ served \in [Callers -> Reading]
  BY DEF AccountsTypeOK, Reading
<1>3. \A h \in Callers :
        /\ served[h].pc = "start" => served[h].of \in People
        /\ served[h].pc \in {"begin", "bad", "complete"} => served[h].of \in Sessions
  BY <1>2 DEF Reading
<1>4. \A h \in Callers : Ends(h) => served' \in [Callers -> Reading]
  BY <1>2 DEF Ends, Unserved, Reading
<1>5. \A h \in Callers : \A pc, x :
        Begins(h, pc, x) /\ [pc |-> pc, of |-> x] \in Reading => served' \in [Callers -> Reading]
  BY <1>2 DEF Begins
<1>6. ASSUME /\ pairings' \in [Sessions -> Session \cup {Absent}] /\ paired' \in [Sessions -> Nat]
             /\ served' \in [Callers -> Reading]
      PROVE  AccountsTypeOK'
  BY <1>1, <1>6 DEF AccountsTypeOK, Reading
<1>7. CASE UNCHANGED <<pairings, paired, served>>
  BY <1>2, <1>6, <1>7
<1>8. ASSUME NEW h \in Callers, NEW pc, NEW x, Begins(h, pc, x), [pc |-> pc, of |-> x] \in Reading,
             UNCHANGED <<pairings, paired>>
      PROVE  AccountsTypeOK'
  BY <1>2, <1>5, <1>6, <1>8
<1>9. ASSUME NEW h \in Callers, Ends(h), pairings' \in [Sessions -> Session \cup {Absent}],
             paired' \in [Sessions -> Nat]
      PROVE  AccountsTypeOK'
  BY <1>4, <1>6, <1>9
<1>10. ASSUME NEW h \in Callers, GiveUp(h) \/ CreateOwner(h) PROVE AccountsTypeOK'
  BY <1>2, <1>9, <1>10 DEF GiveUp, CreateOwner
<1>11. ASSUME NEW h \in Callers, NEW u \in People, NEW s \in Sessions, Redeem(h, u, s)
       PROVE  AccountsTypeOK'
  <2>1. pairings' \in [Sessions -> Session \cup {Absent}]
    BY <1>2, <1>11 DEF Redeem, OpensFor, Session
  <2> QED BY <1>2, <1>9, <1>11, <2>1 DEF Redeem
<1>12. ASSUME NEW h \in Callers, NEW s \in Sessions, OpenSession(h, s) PROVE AccountsTypeOK'
  <2>1. served[h].of \in People
    BY <1>3, <1>12 DEF OpenSession, Serving
  <2>2. pairings' \in [Sessions -> Session \cup {Absent}]
    BY <1>2, <1>12, <2>1 DEF OpenSession, Session
  <2> QED BY <1>2, <1>9, <1>12, <2>2 DEF OpenSession
<1>13. ASSUME NEW h \in Callers, BeginWrite(h) \/ CompleteBad(h) \/ CompleteWrite(h)
       PROVE  AccountsTypeOK'
  <2> DEFINE s == served[h].of
  <2>1. s \in Sessions
    BY <1>3, <1>13 DEF BeginWrite, CompleteBad, CompleteWrite, Serving
  <2>2. Ends(h) /\ paired' \in [Sessions -> Nat]
    BY <1>2, <1>13, <2>1 DEF BeginWrite, CompleteBad, CompleteWrite
  <2>3. pairings[s] \in Session
    BY <1>2, <1>13, <2>1 DEF PairingsRead, BeginWrite, CompleteBad, CompleteWrite, Serving
  <2>4. pairings' \in [Sessions -> Session \cup {Absent}]
    <3> DEFINE row == pairings[s]
    <3>1. /\ [row EXCEPT !.tries = @ + 1, !.begun = TRUE] \in Session
          /\ [row EXCEPT !.tries = @ + 1] \in Session
          /\ [row EXCEPT !.completed = TRUE, !.begun = FALSE] \in Session
      BY <2>3, SessionMoves
    <3>2. \/ pairings' = [pairings EXCEPT ![s] = [row EXCEPT !.tries = @ + 1, !.begun = TRUE]]
          \/ pairings' = [pairings EXCEPT ![s] = [row EXCEPT !.tries = @ + 1]]
          \/ pairings' = [pairings EXCEPT ![s] = [row EXCEPT !.completed = TRUE, !.begun = FALSE]]
      BY <1>2, <1>13, <2>1 DEF BeginWrite, CompleteBad, CompleteWrite
    <3> HIDE DEF row, s
    <3> QED BY <1>2, <2>1, <3>1, <3>2
  <2> QED BY <1>9, <2>2, <2>4
<1>14. ASSUME NEW s \in Sessions, Expire(s) PROVE AccountsTypeOK'
  <2>1. pairings' \in [Sessions -> Session \cup {Absent}]
    BY <1>2, <1>14 DEF Expire, Waits, Session
  <2> QED BY <1>2, <1>6, <1>14, <2>1 DEF Expire
<1>15. ASSUME NEW h \in Callers, EnsureOwner(h) PROVE AccountsTypeOK'
  BY <1>8, <1>15 DEF EnsureOwner, Reading
<1>16. ASSUME NEW h \in Callers, NEW i \in Invites, FindInvite(h, i) PROVE AccountsTypeOK'
  BY <1>8, <1>16 DEF FindInvite, Reading
<1>17. ASSUME NEW h \in Callers, NEW u \in People, StartPairing(h, u) PROVE AccountsTypeOK'
  BY <1>8, <1>17 DEF StartPairing, Reading
<1>18. ASSUME NEW h \in Callers, NEW s \in Sessions, BeginRead(h, s) \/ CompleteRead(h, s)
       PROVE  AccountsTypeOK'
  BY <1>8, <1>18 DEF BeginRead, CompleteRead, Reading
<1> QED
  BY <1>7, <1>10, <1>11, <1>12, <1>13, <1>14, <1>15, <1>16, <1>17, <1>18
  DEF AccountsNext, accountVars, CreateUser, SetUserRole, SetUserStatus, CreateInvite, RevokeInvite

-----------------------------------------------------------------------------
(* Attempts.                                                               *)

\* The requests that are about to count an attempt at session s.
Trying(s) == {h \in Callers : served[h].pc \in {"begin", "bad"} /\ served[h].of = s}

\* What is counted and what is about to be: the reads look at the attempts that
\* are counted, so each handler may add one.
AttemptsAhead ==
  \A s \in Sessions : pairings[s] # Absent =>
    pairings[s].tries + Cardinality(Trying(s)) <= MaxAttempts + Cardinality(Callers)

AttemptsInv == InvitesInv /\ AccountsTypeOK /\ PairingsRead /\ AttemptsAhead

\* No more requests try a session than are served at once.
LEMMA TryingFinite ==
  /\ IsFiniteSet(Callers) /\ Cardinality(Callers) \in Nat
  /\ \A s : /\ IsFiniteSet(Trying(s)) /\ Cardinality(Trying(s)) \in Nat
            /\ Cardinality(Trying(s)) <= Cardinality(Callers)
<1>1. IsFiniteSet(Callers) /\ Cardinality(Callers) \in Nat
  BY AccountsAssumption, FS_CardinalityType
<1>2. \A s : Trying(s) \in SUBSET Callers
  BY DEF Trying
<1> QED BY <1>1, <1>2, FS_Subset, FS_CardinalityType

\* How the sessions of a request that is not about to count an attempt any more,
\* or never was, may have changed.
LEMMA AttemptsEnd ==
  ASSUME AttemptsInv, NEW h \in Callers, NEW v,
         served' = [served EXCEPT ![h] = v], v.pc \notin {"begin", "bad"},
         \A s \in Sessions :
           \/ pairings'[s] = pairings[s]
           \/ pairings[s] = Absent /\ pairings'[s].tries \in {0, 1}
           \/ /\ pairings[s] # Absent
              /\ \/ pairings'[s].tries = pairings[s].tries
                 \/ h \in Trying(s) /\ pairings'[s].tries = pairings[s].tries + 1
  PROVE  AttemptsAhead'
<1> SUFFICES ASSUME NEW s \in Sessions, pairings'[s] # Absent
             PROVE  pairings'[s].tries + Cardinality(Trying(s)') <= MaxAttempts + Cardinality(Callers)
  BY DEF AttemptsAhead
<1> DEFINE T == Trying(s)
<1>0. served \in [Callers -> Reading] /\ pairings \in [Sessions -> Session \cup {Absent}]
  BY DEF AttemptsInv, AccountsTypeOK, Reading
<1>1. Trying(s)' = T \ {h}
  BY <1>0 DEF Trying
<1>2. IsFiniteSet(T) /\ Cardinality(T) \in Nat /\ Cardinality(Callers) \in Nat
      /\ Cardinality(T) <= Cardinality(Callers)
  BY TryingFinite
<1>3. pairings[s] = Absent => T = {}
  BY <1>0 DEF AttemptsInv, PairingsRead, Trying
<1>4. pairings[s] # Absent => /\ T = Trying(s) /\ pairings[s].tries \in Nat
                              /\ pairings[s].tries + Cardinality(T) <= MaxAttempts + Cardinality(Callers)
  BY <1>0 DEF AttemptsInv, AttemptsAhead, Session
<1> HIDE DEF T
<1>5. Cardinality(T \ {h}) = IF h \in T THEN Cardinality(T) - 1 ELSE Cardinality(T)
  BY <1>2, FS_RemoveElement
<1>6. MaxAttempts \in Nat \ {0}
  BY AccountsAssumption
<1>7. CASE pairings'[s] = pairings[s]
  BY <1>1, <1>2, <1>4, <1>5, <1>6, <1>7
<1>8. CASE pairings[s] = Absent /\ pairings'[s].tries \in {0, 1}
  <2>1. Cardinality(T \ {h}) = 0
    BY <1>3, <1>8, FS_EmptySet
  <2> QED BY <1>1, <1>2, <1>6, <1>8, <2>1
<1>9. CASE /\ pairings[s] # Absent
           /\ \/ pairings'[s].tries = pairings[s].tries
              \/ h \in T /\ pairings'[s].tries = pairings[s].tries + 1
  BY <1>1, <1>2, <1>4, <1>5, <1>6, <1>9
<1> QED BY <1>7, <1>8, <1>9 DEF T

\* A request begins; only one that has found attempts left counts one.
LEMMA AttemptsBegin ==
  ASSUME AttemptsInv, NEW h \in Callers, NEW pc, NEW x, Begins(h, pc, x), pairings' = pairings,
         pc \in {"begin", "bad"} =>
           x \in Sessions /\ pairings[x] # Absent /\ pairings[x].tries <= MaxAttempts
  PROVE  AttemptsAhead'
<1> SUFFICES ASSUME NEW s \in Sessions, pairings[s] # Absent
             PROVE  pairings[s].tries + Cardinality(Trying(s)') <= MaxAttempts + Cardinality(Callers)
  BY DEF AttemptsAhead
<1>0. served \in [Callers -> Reading] /\ pairings[s] \in Session
  BY DEF AttemptsInv, AccountsTypeOK, Reading
<1>1. Trying(s)' \subseteq Callers
  BY DEF Trying
<1> DEFINE T == Trying(s)'
<1> HIDE DEF T
<1>2. Cardinality(T) <= Cardinality(Callers) /\ Cardinality(T) \in Nat /\ Cardinality(Callers) \in Nat
  BY <1>1, TryingFinite, FS_Subset, FS_CardinalityType DEF T
<1>3. pairings[s].tries \in Nat /\ MaxAttempts \in Nat
  BY <1>0, AccountsAssumption DEF Session
<1>4. CASE pc \in {"begin", "bad"} /\ x = s
  BY <1>2, <1>3, <1>4 DEF T
<1>5. CASE ~(pc \in {"begin", "bad"} /\ x = s)
  <2>1. T = Trying(s)
    BY <1>0, <1>5 DEF T, Trying, Begins, Serving
  <2> QED BY <2>1 DEF T, AttemptsInv, AttemptsAhead
<1> QED BY <1>4, <1>5

\* Every step keeps the attempts, and the sessions read, in place.
LEMMA AttemptsStep == AttemptsInv /\ [AccountsNext]_accountVars => AttemptsInv'
<1> SUFFICES ASSUME AttemptsInv, [AccountsNext]_accountVars PROVE PairingsRead' /\ AttemptsAhead'
  BY InvitesStep, TypeStep DEF AttemptsInv
<1>1. served \in [Callers -> Reading] /\ pairings \in [Sessions -> Session \cup {Absent}]
  BY DEF AttemptsInv, AccountsTypeOK, Reading
<1>2. \A h \in Callers : served[h].pc \in {"begin", "bad", "complete"} =>
        served[h].of \in Sessions /\ pairings[served[h].of] # Absent
        /\ pairings[served[h].of] \in Session
  BY <1>1 DEF Reading, AttemptsInv, PairingsRead
<1>3. CASE UNCHANGED <<pairings, served>>
  BY <1>3 DEF AttemptsInv, PairingsRead, AttemptsAhead, Trying
<1>4. ASSUME NEW h \in Callers, NEW pc, NEW x, Begins(h, pc, x), pairings' = pairings,
             pc \in {"begin", "bad"} =>
               x \in Sessions /\ pairings[x] # Absent /\ pairings[x].tries <= MaxAttempts,
             pc = "complete" => pairings[x] # Absent
      PROVE  PairingsRead' /\ AttemptsAhead'
  <2>1. PairingsRead'
    BY <1>1, <1>4 DEF AttemptsInv, PairingsRead, Begins
  <2> QED BY <1>4, <2>1, AttemptsBegin
<1>5. ASSUME NEW h \in Callers, Ends(h),
             \A s \in Sessions :
               \/ pairings'[s] = pairings[s]
               \/ pairings[s] = Absent /\ pairings'[s] # Absent /\ pairings'[s].tries \in {0, 1}
               \/ /\ pairings[s] # Absent /\ pairings'[s] # Absent
                  /\ \/ pairings'[s].tries = pairings[s].tries
                     \/ h \in Trying(s) /\ pairings'[s].tries = pairings[s].tries + 1
      PROVE  PairingsRead' /\ AttemptsAhead'
  <2>1. PairingsRead'
    BY <1>1, <1>2, <1>5 DEF PairingsRead, Ends, Unserved
  <2>2. AttemptsAhead'
    BY <1>5, AttemptsEnd DEF Ends, Unserved
  <2> QED BY <2>1, <2>2
<1>6. ASSUME NEW h \in Callers, GiveUp(h) \/ CreateOwner(h) PROVE PairingsRead' /\ AttemptsAhead'
  BY <1>5, <1>6 DEF GiveUp, CreateOwner
<1>7. ASSUME NEW h \in Callers, NEW u \in People, NEW s \in Sessions, Redeem(h, u, s)
      PROVE  PairingsRead' /\ AttemptsAhead'
  <2> DEFINE row == [user |-> u, tries |-> 1, begun |-> TRUE, completed |-> FALSE, expired |-> FALSE]
  <2>1. pairings' = [pairings EXCEPT ![s] = row] /\ pairings[s] = Absent /\ Ends(h)
    BY <1>7 DEF Redeem, OpensFor
  <2>2. row \in Session /\ row.tries = 1
    BY DEF Session
  <2>3. row # Absent
    BY <2>2, AccountsAssumption
  <2> HIDE DEF row
  <2> QED BY <1>1, <1>5, <2>1, <2>2, <2>3
<1>8. ASSUME NEW h \in Callers, NEW s \in Sessions, OpenSession(h, s)
      PROVE  PairingsRead' /\ AttemptsAhead'
  <2> DEFINE row == [user |-> served[h].of, tries |-> 0, begun |-> FALSE, completed |-> FALSE,
                     expired |-> FALSE]
  <2>1. pairings' = [pairings EXCEPT ![s] = row] /\ pairings[s] = Absent /\ Ends(h)
    BY <1>8 DEF OpenSession
  <2>2. row \in Session /\ row.tries = 0
    BY <1>1, <1>8 DEF Session, OpenSession, Serving, Reading
  <2>3. row # Absent
    BY <2>2, AccountsAssumption
  <2> HIDE DEF row
  <2> QED BY <1>1, <1>5, <2>1, <2>2, <2>3
<1>9. ASSUME NEW h \in Callers, BeginWrite(h) \/ CompleteBad(h) \/ CompleteWrite(h)
      PROVE  PairingsRead' /\ AttemptsAhead'
  <2> DEFINE x == served[h].of
  <2>1. x \in Sessions /\ pairings[x] \in Session /\ pairings[x] # Absent /\ Ends(h)
    BY <1>2, <1>9 DEF BeginWrite, CompleteBad, CompleteWrite, Serving
  <2>2. \A s \in Sessions : s # x => pairings'[s] = pairings[s]
    BY <1>1, <1>9 DEF BeginWrite, CompleteBad, CompleteWrite
  <2>3. pairings'[x] \in Session
    <3> DEFINE row == pairings[x]
    <3>1. \/ pairings'[x] = [row EXCEPT !.tries = @ + 1, !.begun = TRUE]
          \/ pairings'[x] = [row EXCEPT !.tries = @ + 1]
          \/ pairings'[x] = [row EXCEPT !.completed = TRUE, !.begun = FALSE]
      BY <1>1, <1>9, <2>1 DEF BeginWrite, CompleteBad, CompleteWrite
    <3> HIDE DEF x
    <3> QED BY <2>1, <3>1, SessionMoves
  <2>4. pairings'[x] # Absent
    BY <2>3, AccountsAssumption
  <2>5. \/ pairings'[x].tries = pairings[x].tries
        \/ h \in Trying(x) /\ pairings'[x].tries = pairings[x].tries + 1
    BY <1>1, <1>9, <2>1 DEF BeginWrite, CompleteBad, CompleteWrite, Session, Trying, Serving
  <2> HIDE DEF x
  <2> QED BY <1>5, <2>1, <2>2, <2>4, <2>5
<1>11. ASSUME NEW s \in Sessions, Expire(s) PROVE PairingsRead' /\ AttemptsAhead'
  <2> DEFINE row == [pairings[s] EXCEPT !.expired = TRUE]
  <2>1. pairings[s] \in Session /\ pairings' = [pairings EXCEPT ![s] = row] /\ served' = served
    BY <1>1, <1>11 DEF Expire, Waits
  <2>2. row \in Session /\ row.tries = pairings[s].tries
    BY <2>1 DEF Session
  <2>3. row # Absent /\ pairings[s] # Absent
    BY <2>1, <2>2, AccountsAssumption
  <2> HIDE DEF row
  <2>4. PairingsRead'
    BY <1>1, <2>1, <2>3 DEF AttemptsInv, PairingsRead
  <2>5. \A t : Trying(t)' = Trying(t)
    BY <2>1 DEF Trying
  <2>6. AttemptsAhead'
    BY <1>1, <2>1, <2>2, <2>3, <2>5 DEF AttemptsInv, AttemptsAhead
  <2> QED BY <2>4, <2>6
<1>12. ASSUME NEW h \in Callers, EnsureOwner(h) PROVE PairingsRead' /\ AttemptsAhead'
  BY <1>4, <1>12 DEF EnsureOwner
<1>13. ASSUME NEW h \in Callers, NEW i \in Invites, FindInvite(h, i)
       PROVE  PairingsRead' /\ AttemptsAhead'
  BY <1>4, <1>13 DEF FindInvite
<1>14. ASSUME NEW h \in Callers, NEW u \in People, StartPairing(h, u)
       PROVE  PairingsRead' /\ AttemptsAhead'
  BY <1>4, <1>14 DEF StartPairing
<1>15. ASSUME NEW h \in Callers, NEW s \in Sessions, BeginRead(h, s) \/ CompleteRead(h, s)
       PROVE  PairingsRead' /\ AttemptsAhead'
  <2>1. pairings[s] # Absent /\ pairings[s].tries <= MaxAttempts
    BY <1>1, <1>15, AccountsAssumption DEF BeginRead, CompleteRead, Waits, Session
  <2> QED BY <1>4, <1>15, <2>1 DEF BeginRead, CompleteRead
<1> QED
  BY <1>3, <1>6, <1>7, <1>8, <1>9, <1>11, <1>12, <1>13, <1>14, <1>15
  DEF AccountsNext, accountVars, CreateUser, SetUserRole, SetUserStatus, CreateInvite, RevokeInvite

\* Every reachable state is well typed.
THEOREM AccountsTypeCorrect == AccountsSpec => []AccountsTypeOK
<1>1. AccountsInit => AttemptsInv
  <2>1. AccountsInit => AccountsTypeOK /\ PairingsRead /\ AttemptsAhead
    BY DEF AccountsInit, AccountsTypeOK, PairingsRead, AttemptsAhead, Unserved
  <2> QED BY <2>1, InvitesInit DEF AttemptsInv
<1>2. AttemptsInv => AccountsTypeOK
  BY DEF AttemptsInv
<1> QED BY <1>1, <1>2, AttemptsStep, PTL DEF AccountsSpec

\* A code is tried no more often than MaxAttempts and once for every request
\* served at once: Begin and Complete look at the count before they add to it.
THEOREM AttemptsStayBounded == AccountsSpec => []AttemptsBounded
<1>1. AccountsInit => AttemptsInv
  <2>1. AccountsInit => AccountsTypeOK /\ PairingsRead /\ AttemptsAhead
    BY DEF AccountsInit, AccountsTypeOK, PairingsRead, AttemptsAhead, Unserved
  <2> QED BY <2>1, InvitesInit DEF AttemptsInv
<1>2. AttemptsInv => AttemptsBounded
  <2> SUFFICES ASSUME AttemptsInv, NEW s \in Sessions, pairings[s] # Absent
               PROVE  pairings[s].tries <= MaxAttempts + Cardinality(Callers)
    BY DEF AttemptsBounded
  <2>1. pairings[s].tries \in Nat /\ MaxAttempts \in Nat
    BY AccountsAssumption DEF AttemptsInv, AccountsTypeOK, Session
  <2> QED BY <2>1, TryingFinite DEF AttemptsInv, AttemptsAhead
<1> QED BY <1>1, <1>2, AttemptsStep, PTL DEF AccountsSpec

\* A revoked invite opens nothing: the update that counts a use finds no row.
THEOREM RevokedInvitesStayShut == AccountsSpec => RevokedInvitesOpenNothing
<1>1. InvitesInv /\ [AccountsNext]_accountVars =>
        \A i \in Invites : invites[i] = Gone => opened'[i] = opened[i]
  BY ZenonT(40)
  DEF InvitesInv, AccountsNext, accountVars, CreateUser, SetUserRole, SetUserStatus, CreateInvite,
         RevokeInvite, Expire, EnsureOwner, CreateOwner, FindInvite, StartPairing, Redeem, Usable,
         Present, OpensFor, OpenSession, BeginRead, CompleteRead, BeginWrite, CompleteBad,
         CompleteWrite, GiveUp
<1> QED BY <1>1, InvitesInit, InvitesStep, PTL DEF AccountsSpec, RevokedInvitesOpenNothing
=============================================================================
