----------------------------- MODULE ThumbCache -----------------------------
(***************************************************************************)
(* Thumbnails of files, made on demand and cached (internal/server/        *)
(* thumbs.go).  Handlers run at once and share the cache and the two slots *)
(* for decoding; what they are asked for may lose its blob meanwhile.      *)
(*                                                                         *)
(* A key of the cache is a blob: sizes are left out.  Whether a device may *)
(* read the object is decided before (modules RequestAuth, SyncEngine).    *)
(*                                                                         *)
(* An operator Name_Slip is a wrong variant of the operator Name after it; *)
(* the specification uses none of them.                                    *)
(***************************************************************************)
EXTENDS Integers, Sequences, FiniteSets, SequencesExt, FiniteSetsExt

CONSTANTS
  Asks,      \* the requests the server may work on at the same time
  Blobs,
  Pictures,  \* the blobs that can be decoded
  Cost,      \* [Blobs -> Nat]: of the entry of a blob's thumbnail
  EmptyCost, \* of an entry that says there is none
  Limit,     \* of the costs together
  Slots,     \* how many decode at once
  MaxAsks,   \* bound: on asks
  NoAsk

VARIABLES
  cache,    \* the entries, most recent first: [blob, full]
  cost,     \* the cache's count of their costs
  there,    \* the blobs the store has
  ask,      \* [Asks -> [blob, step] or NoAsk]
  asks      \* requests made, and blobs gone or come back, so far

thumbVars == <<cache, cost, there, ask, asks>>

Entry == [blob : Blobs, full : BOOLEAN]
CostOf(e) == IF e.full THEN Cost[e.blob] ELSE EmptyCost
Total(s) == FoldSeq(LAMBDA e, n : n + CostOf(e), 0, s)
Cached(b) == {n \in DOMAIN cache : cache[n].blob = b}
Without(b) == SelectSeq(cache, LAMBDA e : e.blob # b)

\* The longest part of s, from the most recent on, within the limit.
Evicted(s) ==
  SubSeq(s, 1, Max({n \in 0..Len(s) : Total(SubSeq(s, 1, n)) <= Limit}))

\* put: an entry beyond the limit is not kept; one that is there is replaced.
Put(e) ==
  IF CostOf(e) > Limit THEN UNCHANGED <<cache, cost>>
  ELSE LET all == <<e>> \o Without(e.blob)
           replaced == Total(cache) - Total(Without(e.blob))
       IN /\ cache' = Evicted(all)
          /\ cost' = cost - replaced + CostOf(e) - (Total(all) - Total(Evicted(all)))

-----------------------------------------------------------------------------
At(k, step) == ask[k] # NoAsk /\ ask[k].step = step
Goes(k, step) == ask' = [ask EXCEPT ![k].step = step]
Answers(k) == ask' = [ask EXCEPT ![k] = NoAsk]

\* handleThumb: a hit is moved to the front and served.
Request(k, b) ==
  /\ ask[k] = NoAsk /\ asks < MaxAsks /\ asks' = asks + 1
  /\ IF Cached(b) = {}
     THEN /\ ask' = [ask EXCEPT ![k] = [blob |-> b, step |-> "wait"]]
          /\ UNCHANGED cache
     ELSE /\ cache' = <<cache[CHOOSE n \in Cached(b) : TRUE]>> \o Without(b)
          /\ UNCHANGED ask
  /\ UNCHANGED <<cost, there>>

Holders == {k \in Asks : ask[k] # NoAsk /\ ask[k].step # "wait"}

\* Whoever waits on the channel of slots gets one in its turn: Go's channels serve
\* in order, and making a thumbnail ends (the fairness an instance may assume).
Acquire(k) ==
  /\ At(k, "wait") /\ Cardinality(Holders) < Slots
  /\ Goes(k, "make") /\ UNCHANGED <<cache, cost, there, asks>>

\* The client goes away while it waits.
GiveUp(k) ==
  /\ At(k, "wait") /\ ask' = [ask EXCEPT ![k] = NoAsk]
  /\ UNCHANGED <<cache, cost, there, asks>>

\* makeThumb, and the slot is free.  A missing blob is not remembered; one that
\* cannot be decoded is.
Make_Kept(k) ==
  /\ At(k, "make")
  /\ ask[k].blob \in there /\ Put([blob |-> ask[k].blob, full |-> ask[k].blob \in Pictures])
  /\ Answers(k)
  /\ UNCHANGED <<there, asks>>
Make(k) ==
  /\ At(k, "make")
  /\ IF ask[k].blob \notin there
     THEN UNCHANGED <<cache, cost>>
     ELSE Put([blob |-> ask[k].blob, full |-> ask[k].blob \in Pictures])
  /\ Answers(k)
  /\ UNCHANGED <<there, asks>>

\* Garbage collection takes a blob, or a client uploads it again.
BlobComesOrGoes(b) ==
  /\ there' = IF b \in there THEN there \ {b} ELSE there \cup {b}
  /\ asks < MaxAsks /\ asks' = asks + 1
  /\ UNCHANGED <<cache, cost, ask>>

-----------------------------------------------------------------------------
ThumbInit ==
  /\ cache = <<>> /\ cost = 0 /\ there = Blobs
  /\ ask = [k \in Asks |-> NoAsk] /\ asks = 0

ThumbNext ==
  \/ \E k \in Asks : Acquire(k) \/ GiveUp(k) \/ Make(k) \/ \E b \in Blobs : Request(k, b)
  \/ \E b \in Blobs : BlobComesOrGoes(b)

-----------------------------------------------------------------------------
(* Properties.                                                             *)

\* The cache counts what it has, stays within its limit ("a byte-bounded LRU
\* cache", thumbs.go:167) and has one entry per key; an entry that says there is
\* no picture is never of a blob that could be decoded.
CacheExact ==
  /\ cost = Total(cache) /\ cost <= Limit
  /\ \A m, n \in DOMAIN cache : cache[m].blob = cache[n].blob => m = n
  /\ \A n \in DOMAIN cache : cache[n].full <=> cache[n].blob \in Pictures

\* Every request is answered or given up, whatever becomes of the blobs of those
\* that decode: a slot always comes back (thumbs.go:103).
EveryAskEnds == \A k \in Asks : ask[k] # NoAsk ~> ask[k] = NoAsk

\* The cache is exact, and nobody waits for it for ever.
ThumbsServed == []CacheExact /\ EveryAskEnds
=============================================================================
