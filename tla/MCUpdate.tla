----------------------------- MODULE MCUpdate -----------------------------
(* Instances for TLC of what must go on by itself, in one run: Update, and   *)
(* beside it Relay, RelayUpdate, AgentSync and ThumbCache.  They share no    *)
(* variable; a behaviour steps in the one that `part' names, and only that   *)
(* one is given its fairness.                                                *)
EXTENDS Update, TLC

\* Update: the second release migrates the database in two steps, the third does not.
MCSchema == [v \in {1, 2, 3} |-> IF v = 1 THEN 1 ELSE 3]

\* An Update that has nothing to do: the server runs, and no update is recorded.
Quiet ==
  /\ exe = 1 /\ prev = None /\ wired = 1 /\ file = None /\ late = FALSE
  /\ db = [schema |-> Schema[1], writes |-> 0]
  /\ proc = [pc |-> "serve", ver |-> 1]
  /\ at = [x \in Actors |-> "idle"] /\ has = [x \in Actors |-> None]
  /\ spent = [hands |-> 0, faults |-> 0]

CONSTANTS a, b, c, k1, k2
VARIABLE part

\* Relay: one client, requests and replies of two parts.
VARIABLES relay, told, joiner, node, known, serving, stopper, conn, faults
relayVars == <<relay, told, joiner, node, known, serving, stopper, conn, faults>>
Link == INSTANCE Relay WITH Conns <- {c}, Parts <- 2, MaxFaults <- 2

\* RelayUpdate: three releases, each of one of two protocols.
VARIABLES proto, newest, homeHost, relayHost, split, used
pairVars == <<proto, newest, homeHost, relayHost, split, used>>
Pair == INSTANCE RelayUpdate WITH
  home <- homeHost, relay <- relayHost,
  Protocols <- {1, 2}, MaxAttempts <- 2, MaxInstalls <- 2, MaxFaults <- 1

\* AgentSync: a file in the folder, and one in a folder below.
VARIABLES fileOf, map, cursor, object, journal, sync, usedUp, blurred
agentVars == <<fileOf, map, cursor, object, journal, sync, usedUp, blurred>>
Agent == INSTANCE AgentSync WITH
  file <- fileOf, used <- usedUp,
  Paths <- {a, b}, InSub <- {b}, Bodies <- {k1, k2}, Objs <- {1, 2, 3, 4},
  MaxLocal <- 2, MaxRemote <- 1, MaxFaults <- 1

\* ThumbCache: two pictures, of which one fills most of the cache, and a blob that
\* is none; one may decode at a time.
VARIABLES cache, cost, there, ask, asks
thumbVars == <<cache, cost, there, ask, asks>>
Thumbs == INSTANCE ThumbCache WITH
  Asks <- {k1, k2}, Blobs <- {a, b, c}, Pictures <- {a, b}, Cost <- a :> 2 @@ b :> 3 @@ c :> 2,
  EmptyCost <- 1, Limit <- 4, Slots <- 1, MaxAsks <- 4, NoAsk <- None

-----------------------------------------------------------------------------
otherVars == <<relayVars, pairVars, agentVars, thumbVars>>

OnlyInit ==
  /\ part \in {"update", "link", "pair", "agent", "thumbs"}
  /\ IF part = "update" THEN Init ELSE Quiet
  /\ Link!RelayInit /\ Agent!AgentInit /\ Thumbs!ThumbInit
  /\ Pair!RelayUpdateInit
  /\ part # "pair" => \A v \in Versions : proto[v] = 1

StepUpdate == part = "update" /\ Next /\ UNCHANGED <<part, otherVars>>
StepLink ==
  part = "link" /\ Link!RelayNext /\ UNCHANGED <<part, vars, pairVars, agentVars, thumbVars>>
StepPair ==
  part = "pair" /\ Pair!RelayUpdateNext
  /\ UNCHANGED <<part, vars, relayVars, agentVars, thumbVars>>
StepAgent ==
  part = "agent" /\ Agent!AgentNext /\ UNCHANGED <<part, vars, relayVars, pairVars, thumbVars>>
StepThumbs ==
  part = "thumbs" /\ Thumbs!ThumbNext
  /\ UNCHANGED <<part, vars, relayVars, pairVars, agentVars>>

\* The fairness of each, of which its module says why the code has it.
OnlyFairness ==
  /\ Fairness
  /\ WF_relayVars(part = "link" /\ Link!HomeStep)
  /\ SF_relayVars(part = "link" /\ Link!JoinWorks)
  /\ WF_pairVars(part = "pair" /\ Pair!HomeActs)
  /\ WF_pairVars(part = "pair" /\ Pair!RelayActs)
  /\ WF_pairVars(part = "pair" /\ Pair!Join)
  /\ WF_agentVars(part = "agent" /\ Agent!AgentStep)
  /\ \A k \in {k1, k2} :
       /\ SF_thumbVars(part = "thumbs" /\ Thumbs!Acquire(k))
       /\ WF_thumbVars(part = "thumbs" /\ Thumbs!Make(k))

OnlyNext == StepUpdate \/ StepLink \/ StepPair \/ StepAgent \/ StepThumbs
OnlySpec == OnlyInit /\ [][OnlyNext]_<<part, vars, otherVars>> /\ OnlyFairness

-----------------------------------------------------------------------------
\* Relay: reached soundly, and again after every end of the relay.
RelayServes == [](part = "link" => Link!RelaySound) /\ (part = "link" => Link!HomeServedAgain)

\* RelayUpdate: an update of the two keeps them together.
UpdatedTogether ==
  [](part = "pair" => Pair!NeverPartedByTimeouts) /\ (part = "pair" => Pair!TogetherAgain)

\* AgentSync: the agent loses no work of the user, and doubles none.
AgentSound == Agent!AgentSound

\* AgentSync: the folder and the server agree in the end.
FolderConverges == part = "agent" => Agent!FolderConverges

\* ThumbCache: the cache is exact, and nobody waits for it for ever.
ThumbsServed == Thumbs!ThumbsServed
=============================================================================
