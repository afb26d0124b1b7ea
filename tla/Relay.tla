------------------------------- MODULE Relay -------------------------------
(***************************************************************************)
(* The way from the public network to the home server: a relay on a small  *)
(* host forwards connections into the overlay the home server joins.       *)
(* internal/relay, internal/wiredx, and Run, rejoinRelay, serveRelay and   *)
(* Shutdown of internal/server.                                            *)
(*                                                                         *)
(* The overlay is an external library: joining fails, or works while the   *)
(* relay is up; a joined node finds a restarted relay again by itself, and *)
(* the listeners of a closed node end.  Who is a member is its business.   *)
(*                                                                         *)
(* An operator Name_Slip is a wrong variant of the operator Name after it; *)
(* the specification uses none of them.                                    *)
(***************************************************************************)
EXTENDS Integers, Sequences, SequencesExt

CONSTANTS
  Conns,     \* connections of clients
  Parts,     \* a request, and a reply, has so many parts
  MaxFaults, \* bound: ends of the relay and of the home server, broken streams
  None       \* no node

VARIABLES
  relay,  \* "down", "up", "stopping": told to, waiting for its connections
  told,   \* the home server was told to stop
  joiner, \* the step of joinRelay, or of the goroutine that tries again
  node,   \* the node it made: None, "open", "closed"
  known,  \* s.node is that node
  serving,\* servers on the overlay: [extra: in s.extra, on: accepting]
  stopper,\* Shutdown: "idle", what it has copied, or "done"
  conn,   \* [Conns -> its state]
  faults

relayVars == <<relay, told, joiner, node, known, serving, stopper, conn, faults>>
Fault == faults < MaxFaults /\ faults' = faults + 1

-----------------------------------------------------------------------------
(* Whose address a request comes with.  A client can put any address in    *)
(* the header of the edge, in X-Forwarded-For, and at the start of what it *)
(* sends; "near" is the address of the process next to the server.         *)

Vias == {"lan", "direct", "funnel", "relay", "edge"}

\* edgeClientIP: the last entry is the one the proxy in front added.
EdgeClientIP(forwardedFor) == Last(forwardedFor)

\* proxyConn: a PROXY line is read where it is awaited, at the start, once.
\* Without one the connection keeps its own address, or fails where required.
ProxyAddr(stream, own, require) ==
  IF Head(stream) \in {"client", "claimed"} THEN Head(stream) ELSE IF require THEN None ELSE own

\* What clientIP sees; claim is what the client sends of its own.
Seen(via, claim) ==
  CASE via \in {"lan", "direct"} -> "client"
    [] via = "relay" -> ProxyAddr(<<"client", claim>>, "near", FALSE)
    [] via = "funnel" -> ProxyAddr(<<"client", claim>>, "near", TRUE)
    [] via = "edge" -> EdgeClientIP(IF claim = None THEN <<"client">> ELSE <<claim, "client">>)

-----------------------------------------------------------------------------
(* The home server joins the relay.                                        *)

IsUp == joiner # "none"

\* Run: the other listeners are up; joinRelay is tried at once.
HomeStarts ==
  /\ ~IsUp /\ joiner' = "first"
  /\ UNCHANGED <<relay, told, node, known, serving, stopper, conn, faults>>

\* joinRelay, in Run or after a wait of 5 seconds and more; s.node is set.
JoinWorks ==
  /\ joiner \in {"first", "wait"} /\ relay = "up"
  /\ joiner' = IF joiner = "first" THEN "serve in Run" ELSE "look"
  /\ node' = "open" /\ known' = TRUE
  /\ UNCHANGED <<relay, told, serving, stopper, conn, faults>>

JoinFails ==
  /\ joiner = "first" /\ joiner' = "wait"
  /\ (relay # "up" /\ UNCHANGED faults) \/ Fault
  /\ UNCHANGED <<relay, told, node, known, serving, stopper, conn>>

\* The wait for the next try ends with the context; a try begun may outlast it.
WaitEnds ==
  /\ joiner = "wait" /\ told /\ joiner' = "over"
  /\ UNCHANGED <<relay, told, node, known, serving, stopper, conn, faults>>

\* Shut down while joining: Shutdown may have missed the node.
LookAtContext_Never ==
  /\ joiner = "look" /\ joiner' = "serve" /\ node' = node
  /\ UNCHANGED <<relay, told, known, serving, stopper, conn, faults>>
LookAtContext ==
  /\ joiner = "look"
  /\ joiner' = IF told THEN "over" ELSE "serve"
  /\ node' = IF told THEN "closed" ELSE node
  /\ UNCHANGED <<relay, told, known, serving, stopper, conn, faults>>

\* serveRelay; a closed node has no listeners.  Run has its own call of Shutdown
\* only after this.
ServeRelay ==
  /\ joiner \in {"serve", "serve in Run"} /\ joiner' = "over"
  /\ serving' = [extra |-> TRUE, on |-> node = "open"]
  /\ stopper' = IF joiner = "serve in Run" THEN "idle" ELSE stopper
  /\ UNCHANGED <<relay, told, node, known, conn, faults>>

\* A signal; the goroutine of Run and the command itself call Shutdown.
ToldToStop ==
  /\ IsUp /\ ~told /\ told' = TRUE
  /\ UNCHANGED <<relay, joiner, node, known, serving, stopper, conn, faults>>

ShutdownCopies ==
  /\ told /\ stopper = "idle"
  /\ stopper' = IF known THEN "with node" ELSE "no node"
  /\ UNCHANGED <<relay, told, joiner, node, known, serving, conn, faults>>

\* Servers stop accepting and finish what they serve (10 seconds at most);
\* then the node is closed.
ShutdownEnds ==
  /\ stopper \in {"with node", "no node"} /\ stopper' = "done"
  /\ node' = IF stopper = "with node" THEN "closed" ELSE node
  /\ serving' = [serving EXCEPT !.on = @ /\ node' = "open"]
  /\ UNCHANGED <<relay, told, joiner, known, conn, faults>>

\* The process ends, in order or not; streams through it break.
HomeEnds ==
  /\ IsUp
  /\ (stopper = "done" /\ UNCHANGED faults) \/ Fault
  /\ joiner' = "none" /\ told' = FALSE /\ node' = None /\ known' = FALSE
  /\ serving' = [extra |-> FALSE, on |-> FALSE] /\ stopper' = "idle"
  /\ conn' = [c \in Conns |-> [conn[c] EXCEPT !.broken = @ \/ conn[c].stage = "piped"]]
  /\ UNCHANGED relay

-----------------------------------------------------------------------------
(* The relay: RunWith, Forward, Pipe.  A connection has two directions of  *)
(* two links each: parts in it, and its end.                               *)

Links == {"up1", "up2", "down1", "down2"}
Fresh == [stage |-> "new", sent |-> 0, got |-> 0, back |-> 0, read |-> 0, broken |-> FALSE,
          link |-> [l \in Links |-> [n |-> 0, end |-> FALSE]]]

\* The anchor, the listeners, and then the control socket and the admin service.
RelayStarts ==
  /\ relay = "down" /\ relay' = "up"
  /\ UNCHANGED <<told, joiner, node, known, serving, stopper, conn, faults>>

\* The context ends: the listeners close.
RelayToldToStop ==
  /\ relay = "up" /\ Fault /\ relay' = "stopping"
  /\ UNCHANGED <<told, joiner, node, known, serving, stopper, conn>>

\* Forward returns when its connections have ended; then the node is closed.
Busy(c) == conn[c].stage \in {"accepted", "piped"}
RelayMayEnd == relay = "stopping" /\ \A c \in Conns : ~Busy(c)
RelayEnds ==
  /\ RelayMayEnd /\ relay' = "down"
  /\ conn' = [c \in Conns |-> IF Busy(c) THEN [conn[c] EXCEPT !.stage = "cut"] ELSE conn[c]]
  /\ UNCHANGED <<told, joiner, node, known, serving, stopper, faults>>

Accept(c) ==
  /\ conn[c].stage = "new" /\ relay = "up"
  /\ conn' = [conn EXCEPT ![c].stage = "accepted"]
  /\ UNCHANGED <<relay, told, joiner, node, known, serving, stopper, faults>>

\* A dial into the overlay; it gives up after 15 seconds.
Dial(c) ==
  /\ conn[c].stage = "accepted"
  /\ conn' = [conn EXCEPT ![c].stage = IF serving.on /\ node = "open" THEN "piped" ELSE "refused"]
  /\ UNCHANGED <<relay, told, joiner, node, known, serving, stopper, faults>>

Put(c, l) == [conn[c].link EXCEPT ![l].n = @ + 1]
End(link, l) == [link EXCEPT ![l].end = TRUE]

\* The client sends its request and closes its side; the home server answers
\* once it has read it all, and closes.
ClientSends(c) ==
  /\ conn[c].stage = "piped" /\ conn[c].sent < Parts
  /\ conn' = [conn EXCEPT ![c].sent = @ + 1,
                          ![c].link = IF conn[c].sent + 1 = Parts THEN End(Put(c, "up1"), "up1")
                                      ELSE Put(c, "up1")]
  /\ UNCHANGED <<relay, told, joiner, node, known, serving, stopper, faults>>

HomeReads(c) ==
  /\ conn[c].stage = "piped" /\ ~conn[c].broken /\ conn[c].link["up2"].n > 0
  /\ conn' = [conn EXCEPT ![c].got = @ + 1, ![c].link["up2"].n = @ - 1]
  /\ UNCHANGED <<relay, told, joiner, node, known, serving, stopper, faults>>

HomeAnswers(c) ==
  /\ conn[c].stage = "piped" /\ ~conn[c].broken /\ conn[c].back < Parts
  /\ conn[c].link["up2"].end /\ conn[c].link["up2"].n = 0
  /\ conn' = [conn EXCEPT ![c].back = @ + 1,
                          ![c].link = IF conn[c].back + 1 = Parts THEN End(Put(c, "down1"), "down1")
                                      ELSE Put(c, "down1")]
  /\ UNCHANGED <<relay, told, joiner, node, known, serving, stopper, faults>>

ClientReads(c) ==
  /\ conn[c].stage = "piped" /\ conn[c].link["down2"].n > 0
  /\ conn' = [conn EXCEPT ![c].read = @ + 1, ![c].link["down2"].n = @ - 1]
  /\ UNCHANGED <<relay, told, joiner, node, known, serving, stopper, faults>>

\* One copy of Pipe: a part, or the end of it, which is all that is passed on
\* (CloseWrite).  What a broken stream still held is lost.
Copies == {<<"up1", "up2">>, <<"down1", "down2">>}
Copied(link, from, to) ==
  IF link[from].n > 0 THEN [link EXCEPT ![from].n = @ - 1, ![to].n = @ + 1]
  ELSE [link EXCEPT ![from].end = TRUE, ![to].end = TRUE]

PipeCopies(c) ==
  /\ conn[c].stage = "piped"
  /\ \E cp \in Copies :
       /\ ~conn[c].link[cp[2]].end
       /\ conn[c].link[cp[1]].n > 0 \/ conn[c].link[cp[1]].end \/ conn[c].broken
       /\ conn' = [conn EXCEPT ![c].link = Copied(@, cp[1], cp[2])]
  /\ UNCHANGED <<relay, told, joiner, node, known, serving, stopper, faults>>

\* Both directions have ended: both connections are closed.
PipeEnds(c) ==
  /\ conn[c].stage = "piped" /\ \A cp \in Copies : conn[c].link[cp[2]].end
  /\ conn[c].link["down2"].n = 0
  /\ conn' = [conn EXCEPT ![c].stage = "closed"]
  /\ UNCHANGED <<relay, told, joiner, node, known, serving, stopper, faults>>

-----------------------------------------------------------------------------
RelayInit ==
  /\ relay = "down" /\ told = FALSE /\ joiner = "none" /\ node = None /\ known = FALSE
  /\ serving = [extra |-> FALSE, on |-> FALSE] /\ stopper = "idle"
  /\ conn = [c \in Conns |-> Fresh] /\ faults = 0

\* What the home server's own goroutine does, which runs as long as the process;
\* a join that may work does in the end (the fairness an instance may assume).
HomeStep ==
  HomeStarts \/ JoinWorks \/ JoinFails \/ WaitEnds \/ LookAtContext \/ ServeRelay
ConnStep(c) ==
  Accept(c) \/ Dial(c) \/ ClientSends(c) \/ HomeReads(c) \/ HomeAnswers(c) \/ ClientReads(c)
  \/ PipeCopies(c) \/ PipeEnds(c)
RelayNext ==
  \/ HomeStep \/ ToldToStop \/ ShutdownCopies \/ ShutdownEnds \/ HomeEnds
  \/ RelayStarts \/ RelayToldToStop \/ RelayEnds
  \/ \E c \in Conns : ConnStep(c)

-----------------------------------------------------------------------------
(* Properties.                                                             *)

\* The address a request is counted and logged under is the client's, whatever
\* way it came and whatever the client says of itself.
ClientsTold == \A via \in Vias, claim \in {None, "claimed"} : Seen(via, claim) = "client"

\* Once the home server has shut down and its goroutine is over, it is neither
\* in the overlay nor served there, however the two ran past each other.
StoppedMeansCut ==
  stopper = "done" /\ joiner = "over" => node # "open" /\ ~serving.on

\* A client that has read to the end of the reply has read all of it, unless the
\* stream broke: stopping the relay cuts nobody off.
RepliesWhole ==
  \A c \in Conns :
    /\ conn[c].stage = "cut" => conn[c].broken
    /\ conn[c].link["down2"].end /\ conn[c].link["down2"].n = 0 /\ ~conn[c].broken
         => conn[c].read = Parts /\ conn[c].got = Parts

RelaySound == ClientsTold /\ StoppedMeansCut /\ RepliesWhole

\* A relay that comes up and stays up has the home server behind it again.
HomeServedAgain ==
  <>[](relay = "up" /\ IsUp /\ ~told) => <>[](serving.on)

\* The home server is reached through its relay: soundly, and again after every
\* end of the relay.
RelayServes == []RelaySound /\ HomeServedAgain
=============================================================================
