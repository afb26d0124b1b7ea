---------------------------- MODULE RequestAuth ----------------------------
(***************************************************************************)
(* Signed requests and the nonces the server remembers                     *)
(* (internal/auth/auth.go).  A request carries the time it was signed at   *)
(* and a nonce; networks and clients may deliver it any number of times.   *)
(* The time is checked first, then the body is read, then the nonce is     *)
(* consumed.  The nonces live in memory: a restart forgets them.           *)
(*                                                                         *)
(* A request stands for its device and nonce, signatures are valid.  Time  *)
(* is the server's clock.  A client's clock may be late by any amount and  *)
(* early by Ahead at most.                                                 *)
(***************************************************************************)
EXTENDS Integers, FiniteSets

CONSTANTS
  Requests,   \* signed requests, one nonce each
  Workers,    \* requests being served at once
  Skew,       \* SkewMS: how old a request may be
  BodyTime,   \* the longest a body takes to arrive
  Ahead,      \* how far clients' clocks may be early; a restart takes longer
  SweepEvery, \* nonceSweepEveryMS
  MaxNonces,  \* maxNonces
  Nothing,    \* not signed; no request
  MaxTime     \* bound of the clock

\* A body arrives within the skew window: nothing in the code says so (the
\* server has a timeout for headers only), and SignedOnce depends on it.
ASSUME AuthAssumption ==
  /\ Skew \in Nat \ {0} /\ BodyTime \in 0..Skew /\ Ahead \in Nat
  /\ SweepEvery \in Nat /\ MaxNonces \in Nat /\ MaxTime \in Nat
  /\ Nothing \notin Requests \cup Nat

VARIABLES
  now,       \* the clock
  ts,        \* the time each request was signed at, or Nothing
  nonces,    \* the requests whose nonce is remembered
  startedAt, \* when the server started remembering
  lastSweep, \* when it last dropped old nonces
  downAt,    \* when it stopped, or Nothing while it runs
  worker,    \* [req, at]: what each worker serves and when it checked the time
  accepted   \* how often each request was accepted (history variable)

authVars == <<now, ts, nonces, startedAt, lastSweep, downAt, worker, accepted>>

Free == [req |-> Nothing, at |-> 0]

AuthInit ==
  /\ now = 1
  /\ ts = [r \in Requests |-> Nothing]
  /\ nonces = {}
  /\ startedAt = 1 /\ lastSweep = 1
  /\ downAt = Nothing
  /\ worker = [h \in Workers |-> Free]
  /\ accepted = [r \in Requests |-> 0]

Up == downAt = Nothing

Busy(h) == worker[h].req # Nothing

-----------------------------------------------------------------------------

\* Time passes, but not while a body is overdue.
Tick ==
  /\ now < MaxTime
  /\ \A h \in Workers : Busy(h) => now < worker[h].at + BodyTime
  /\ now' = now + 1
  /\ UNCHANGED <<ts, nonces, startedAt, lastSweep, downAt, worker, accepted>>

\* A client signs a request, by its own clock.
Sign(r, t) ==
  /\ ts[r] = Nothing
  /\ t <= now + Ahead
  /\ ts' = [ts EXCEPT ![r] = t]
  /\ UNCHANGED <<now, nonces, startedAt, lastSweep, downAt, worker, accepted>>

\* AuthenticateRequest up to the body: the time is within the window.
Check(h, r) ==
  /\ Up /\ ~Busy(h)
  /\ ts[r] # Nothing /\ ts[r] \in now - Skew .. now + Skew
  /\ worker' = [worker EXCEPT ![h] = [req |-> r, at |-> now]]
  /\ UNCHANGED <<now, ts, nonces, startedAt, lastSweep, downAt, accepted>>

\* The body does not arrive, is too large, or its signature is wrong.
Fail(h) ==
  /\ Busy(h)
  /\ worker' = [worker EXCEPT ![h] = Free]
  /\ UNCHANGED <<now, ts, nonces, startedAt, lastSweep, downAt, accepted>>

SignedBeforeStart_Never(r) == FALSE

\* Within two windows of the start, a request signed before the start may have
\* been accepted by the process that ran then.
SignedBeforeStart(r) == now - startedAt < 2 * Skew /\ ts[r] < startedAt

Due == now - lastSweep >= SweepEvery \/ Cardinality(nonces) >= MaxNonces

\* What is remembered after the sweep that consumeNonce starts with.
Kept == IF Due THEN {r \in nonces : ts[r] >= now - 2 * Skew} ELSE nonces

\* consumeNonce, under its mutex.  Refused before the start: nothing changes.
RefuseEarly(h) ==
  /\ Busy(h)
  /\ SignedBeforeStart(worker[h].req)
  /\ worker' = [worker EXCEPT ![h] = Free]
  /\ UNCHANGED <<now, ts, nonces, startedAt, lastSweep, downAt, accepted>>

\* The sweep happens whatever becomes of the request.
Sweep == lastSweep' = IF Due THEN now ELSE lastSweep

\* A nonce that is remembered (ErrReplay), or no room for one more (ErrBusy).
RefuseNonce(h) ==
  /\ Busy(h)
  /\ ~SignedBeforeStart(worker[h].req)
  /\ worker[h].req \in Kept \/ Cardinality(Kept) >= MaxNonces
  /\ Sweep /\ nonces' = Kept
  /\ worker' = [worker EXCEPT ![h] = Free]
  /\ UNCHANGED <<now, ts, startedAt, downAt, accepted>>

Accept_Unbounded(h) ==
  LET r == worker[h].req IN
  /\ Busy(h)
  /\ ~SignedBeforeStart(r)
  /\ r \notin Kept
  /\ Sweep /\ nonces' = Kept \cup {r}
  /\ accepted' = [accepted EXCEPT ![r] = @ + 1]
  /\ worker' = [worker EXCEPT ![h] = Free]
  /\ UNCHANGED <<now, ts, startedAt, downAt>>

Accept(h) ==
  LET r == worker[h].req IN
  /\ Busy(h)
  /\ ~SignedBeforeStart(r)
  /\ r \notin Kept /\ Cardinality(Kept) < MaxNonces
  /\ Sweep /\ nonces' = Kept \cup {r}
  /\ accepted' = [accepted EXCEPT ![r] = @ + 1]
  /\ worker' = [worker EXCEPT ![h] = Free]
  /\ UNCHANGED <<now, ts, startedAt, downAt>>

\* The process ends; what it remembered and was serving is gone.
Stop ==
  /\ Up
  /\ downAt' = now
  /\ nonces' = {}
  /\ worker' = [h \in Workers |-> Free]
  /\ UNCHANGED <<now, ts, startedAt, lastSweep, accepted>>

\* Start: a restart takes time.
Start ==
  /\ ~Up /\ now - downAt > Ahead
  /\ downAt' = Nothing
  /\ startedAt' = now /\ lastSweep' = now
  /\ UNCHANGED <<now, ts, nonces, worker, accepted>>

AuthNext ==
  \/ Tick \/ Stop \/ Start
  \/ \E r \in Requests : \E t \in 0..MaxTime + Ahead : Sign(r, t)
  \/ \E h \in Workers :
       \/ \E r \in Requests : Check(h, r)
       \/ Fail(h) \/ RefuseEarly(h) \/ RefuseNonce(h) \/ Accept(h)

AuthSpec == AuthInit /\ [][AuthNext]_authVars

-----------------------------------------------------------------------------
(* Properties.                                                             *)

\* Every variable has its type.
AuthTypeOK ==
  /\ now \in Nat /\ startedAt \in 0..now /\ lastSweep \in 0..now
  /\ ts \in [Requests -> Nat \cup {Nothing}]
  /\ nonces \subseteq Requests
  /\ downAt \in Nat \cup {Nothing}
  /\ worker \in [Workers -> [req : Requests \cup {Nothing}, at : Nat]]
  /\ accepted \in [Requests -> Nat]

\* A signed request is accepted at most once, restarts included (SECURITY.md,
\* "Nonce has not been seen for that device"; docs/API.md, "a nonce is accepted
\* once per device").
SignedOnce == \A r \in Requests : accepted[r] <= 1

\* The cache never outgrows its bound.
CacheBounded == Cardinality(nonces) <= MaxNonces
=============================================================================
