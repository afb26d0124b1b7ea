---------------------------- MODULE RelayUpdate ----------------------------
(***************************************************************************)
(* How a home server and its relay are updated: the home server tells the  *)
(* relay to go first, over the overlay, and follows.  Versions whose       *)
(* overlay protocols differ cannot reach each other.  internal/update      *)
(* (manager.go), relay/admin.go, server/relaylink.go, server/update.go,    *)
(* watchUpdate and watchRelayUpdate of internal/cli.                       *)
(*                                                                         *)
(* What an installation does to one host is module Update; here it works,  *)
(* fails, or is taken back whole: by the watch of the new binary when it   *)
(* is not healthy in time, or by Boot after too many starts.               *)
(*                                                                         *)
(* An operator Name_Slip is a wrong variant of the operator Name after it; *)
(* the specification uses none of them.                                    *)
(***************************************************************************)
EXTENDS Integers

CONSTANTS
  Versions,    \* releases: numbers from 1
  Protocols,   \* of the overlay
  MaxAttempts, \* starts of a new binary before it is taken back
  MaxInstalls, MaxFaults, \* bounds: installs of the home server; deaths and lost answers
  None

VARIABLES
  proto,  \* [Versions -> its protocol]
  newest, \* the newest signed release
  home, relay,
  split,  \* one was taken back from a version the other had found good
  used    \* [installs, faults]

relayUpdateVars == <<proto, newest, home, relay, split, used>>

\* ver: the version that runs; from: the one it may go back to; step: see below;
\* last: how the last update ended; tries: starts of a binary on trial.
\* The home server's manager: man, the release it has seen; reach, whether the
\* relay answered; before, the relay's last outcome when it was asked; joined:
\* this process has joined the overlay.
Outcome(host, to, result) ==
  [to |-> to, result |-> result, at |-> IF host.last = None THEN 1 ELSE host.last.at + 1]

Same(v) == proto[v] = proto[home.ver]
Linked == proto[home.ver] = proto[relay.ver]
Fault == used.faults < MaxFaults /\ used' = [used EXCEPT !.faults = @ + 1]

\* A question to the relay: it may be unreachable, and an answer may be lost.
Answers == Linked /\ UNCHANGED used
NoAnswer == (~Linked /\ UNCHANGED used) \/ (Linked /\ Fault)

-----------------------------------------------------------------------------
(* The home server's manager.                                              *)

\* A process that starts has forgotten what its manager had seen.
Started(host, ver, step) == [host EXCEPT !.ver = ver, !.step = step, !.man = None, !.reach = FALSE,
                                         !.before = None, !.joined = FALSE]
Failed(host) == [host EXCEPT !.step = "idle", !.last = Outcome(host, host.man, "failed")]

\* Check: the newest release, and the relay's status.
Check ==
  /\ home.step = "idle"
  /\ \E reach \in BOOLEAN :
       /\ IF reach THEN Answers ELSE NoAnswer
       /\ home' = [home EXCEPT !.man = newest, !.reach = reach]
  /\ UNCHANGED <<proto, newest, relay, split>>

\* blockedLocked: the relay has to update first, and cannot be told to.
Blocked == ~Same(home.man) /\ ~home.reach

\* StartInstall, by an admin or at night (maybeAutoInstall, which leaves a
\* release that did not work here to an admin).
StartInstall ==
  /\ home.step = "idle" /\ home.man # None /\ home.man > home.ver /\ ~Blocked
  /\ used.installs < MaxInstalls /\ used' = [used EXCEPT !.installs = @ + 1]
  /\ home' = [home EXCEPT !.step = "relay first"]
  /\ UNCHANGED <<proto, newest, relay, split>>

\* updateRelay: it is asked how it is.
AskStatus ==
  /\ home.step = "relay first"
  /\ \/ /\ NoAnswer
        /\ home' = IF Same(home.man) THEN [home EXCEPT !.step = "install"] ELSE Failed(home)
     \/ /\ Answers
        /\ home' = [home EXCEPT !.before = relay.last,
                                !.step = IF home.man <= relay.ver THEN "install" ELSE "tell"]
  /\ UNCHANGED <<proto, newest, relay, split>>

\* ServeAdmin on the relay: it installs only what it sees as the newest itself,
\* and may be unable to.  (An install over one on trial: see module Update.)
Accepts == relay.step # "trial" /\ home.man = newest
Told == IF relay.step = "idle" THEN [relay EXCEPT !.step = "install", !.man = newest] ELSE relay

TellRelay ==
  /\ home.step = "tell" /\ relay.step # "trial" /\ Answers
  /\ \/ Accepts /\ relay' = Told /\ home' = [home EXCEPT !.step = "wait"]
     \/ relay' = relay /\ home' = Failed(home)
  /\ UNCHANGED <<proto, newest, split>>

\* It may have been told, even so.
TellLost ==
  /\ home.step = "tell" /\ NoAnswer /\ home' = Failed(home)
  /\ relay' = relay \/ (Linked /\ Accepts /\ relay' = Told)
  /\ UNCHANGED <<proto, newest, split>>

\* Asked every 3 seconds how it goes.  An outcome is new when it is not the one
\* from before.
IsNew(last) == last # None /\ last.to = home.man /\ last # home.before
PollAnswered ==
  /\ home.step = "wait" /\ Answers
  /\ \/ /\ IsNew(relay.last) /\ relay.last.result # "updated"
        /\ home' = Failed(home)
     \/ /\ IF Same(home.man) THEN IsNew(relay.last) /\ relay.last.result = "updated"
           ELSE relay.step = "restart"
        /\ home' = [home EXCEPT !.step = "install"]
  /\ UNCHANGED <<proto, newest, relay, split>>

\* Across protocols no answer is taken to mean that the relay has restarted.
PollUnanswered ==
  /\ home.step = "wait" /\ ~Same(home.man) /\ NoAnswer
  /\ home' = [home EXCEPT !.step = "install"]
  /\ UNCHANGED <<proto, newest, relay, split>>

\* It did not come back within 10 minutes; the home server stays.
WaitTimesOut ==
  /\ home.step = "wait" /\ home' = Failed(home)
  /\ UNCHANGED <<proto, newest, relay, split, used>>

\* Download and Install fail, or the new binary is started.
InstallHome ==
  /\ home.step = "install"
  /\ \/ home' = Failed(home)
     \/ home' = [Started(home, home.man, "trial") EXCEPT !.from = home.ver, !.tries = 1]
  /\ UNCHANGED <<proto, newest, relay, split, used>>

\* A process joins the overlay once it reaches the relay; it tries for ever.
Join ==
  /\ ~home.joined /\ Linked /\ home' = [home EXCEPT !.joined = TRUE]
  /\ UNCHANGED <<proto, newest, relay, split, used>>

-----------------------------------------------------------------------------
(* The trial of a new binary, on either host.                              *)

TookBack(host) ==
  [Started(host, host.from, "idle") EXCEPT !.last = Outcome(host, host.ver, "rolled back")]
Good(host) == [host EXCEPT !.step = "idle", !.last = Outcome(host, host.ver, "updated")]
\* What host goes back to cannot reach the other, nor what that would go back to.
Parts(host, other) ==
  /\ proto[host.from] # proto[other.ver]
  /\ other.step = "trial" => proto[host.from] # proto[other.from]

\* watchUpdate: Server.Healthy once this process has joined; else it goes back.
HomeHealthy ==
  /\ home.step = "trial" /\ home.joined /\ home' = Good(home)
  /\ UNCHANGED <<proto, newest, relay, split, used>>
HomeTakenBack ==
  /\ home.step = "trial" /\ ~home.joined /\ home' = TookBack(home)
  /\ split' = (split \/ Parts(home, relay))
  /\ UNCHANGED <<proto, newest, relay, used>>

\* watchRelayUpdate: Reconnected, within 10 minutes.
RelayHealthy_OnceUp ==
  /\ relay.step = "trial" /\ relay' = Good(relay)
  /\ UNCHANGED <<proto, newest, home, split, used>>
RelayHealthy ==
  /\ relay.step = "trial" /\ Linked /\ home.joined /\ relay' = Good(relay)
  /\ UNCHANGED <<proto, newest, home, split, used>>
RelayTakenBack ==
  /\ relay.step = "trial" /\ ~(Linked /\ home.joined) /\ relay' = TookBack(relay)
  /\ split' = (split \/ Parts(relay, home))
  /\ UNCHANGED <<proto, newest, home, used>>

\* The relay's own install: fails, or restarts as the new version.
RelayInstalls ==
  /\ relay.step = "install"
  /\ relay' \in {Failed(relay), [relay EXCEPT !.step = "restart"]}
  /\ UNCHANGED <<proto, newest, home, split, used>>
RelayRestarts ==
  /\ relay.step = "restart"
  /\ relay' = [Started(relay, relay.man, "trial") EXCEPT !.from = relay.ver, !.tries = 1]
  /\ UNCHANGED <<proto, newest, home, split, used>>

\* A process dies and is started again; Boot counts the starts of a trial.
Restarted(host) ==
  IF host.step # "trial" THEN Started(host, host.ver, "idle")
  ELSE IF host.tries = MaxAttempts THEN TookBack(host)
  ELSE [Started(host, host.ver, "trial") EXCEPT !.tries = @ + 1]

HomeDies ==
  /\ Fault /\ home' = Restarted(home)
  /\ split' = (split \/ (home'.ver # home.ver /\ Parts(home, relay)))
  /\ UNCHANGED <<proto, newest, relay>>
RelayDies ==
  /\ Fault /\ relay' = Restarted(relay)
  /\ split' = (split \/ (relay'.ver # relay.ver /\ Parts(relay, home)))
  /\ UNCHANGED <<proto, newest, home>>

Release ==
  /\ newest + 1 \in Versions /\ newest' = newest + 1
  /\ UNCHANGED <<proto, home, relay, split, used>>

-----------------------------------------------------------------------------
Host == [ver |-> 1, from |-> 1, step |-> "idle", last |-> None, tries |-> 0, man |-> None,
         reach |-> FALSE, before |-> None, joined |-> FALSE]

RelayUpdateInit ==
  /\ proto \in [Versions -> Protocols] /\ \A v, w \in Versions : v <= w => proto[v] <= proto[w]
  /\ newest = 1 /\ home = Host /\ relay = Host /\ split = FALSE
  /\ used = [installs |-> 0, faults |-> 0]

\* What each of the two does by itself, with a timeout on every wait: an instance
\* may assume that it goes on, as both are services that are started again.
HomeActs ==
  \/ AskStatus \/ TellRelay \/ TellLost \/ PollAnswered \/ PollUnanswered \/ WaitTimesOut
  \/ InstallHome \/ HomeHealthy \/ HomeTakenBack
RelayActs == RelayInstalls \/ RelayRestarts \/ RelayHealthy \/ RelayTakenBack
RelayUpdateNext ==
  \/ Check \/ StartInstall \/ HomeActs \/ Join \/ RelayActs
  \/ HomeDies \/ RelayDies \/ Release

-----------------------------------------------------------------------------
(* Properties.                                                             *)

\* The two are never parted for good by an update that meets no crash and no lost
\* answer, however their timeouts fall: who cannot reach the other goes back too.
NeverPartedByTimeouts == split => used.faults > 0

\* However an update ends, the home server is behind its relay again, unless one
\* went back from a version the other had already found good.
TogetherAgain == <>[](Linked \/ split)

\* An update of the two keeps them together.
UpdatedTogether == []NeverPartedByTimeouts /\ TogetherAgain
=============================================================================
