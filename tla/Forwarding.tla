----------------------------- MODULE Forwarding -----------------------------
(***************************************************************************)
(* The connections of one tunnel (tunnel/local_forward.rs,                 *)
(* dynamic_forward.rs, remote_forward.rs, bridge.rs).  A worker task       *)
(* accepts connections and has a task for each, which opens the other end, *)
(* under the lock of the SSH session, and then copies both directions      *)
(* until both are done.  SessionServices has the registry of the tunnels.  *)
(***************************************************************************)
EXTENDS Integers, FiniteSets

CONSTANTS Conns,     \* connections that come to the tunnel
          MaxActive, \* the limit on simultaneous connections, 256 in the code
          MaxChunks  \* bound: chunks each end of a connection sends

ASSUME ForwardingAssumption ==
    /\ MaxChunks \in Nat /\ MaxActive \in Nat
    /\ {"worker", "nobody"} \cap Conns = {}

Kinds == {"local", "dynamic", "remote"}
Ways == {"up", "down"}  \* from the one that connected to the one it is connected to, and back

VARIABLES kind,    \* the type of the tunnel
          worker,  \* what its task does
          stop,    \* the shutdown signal was sent
          route,   \* a remote forward's entry in the registry of its SSH client
          served,  \* the server has the remote forward
          link,    \* the SSH connection: up, broken, or given up by disconnect
          lock,    \* who holds the SSH session: the worker, a connection, or nobody
          conn,    \* how far each connection has come
          replies, \* what a SOCKS client was told
          flow,    \* each direction: chunks sent and copied, closed by its sender, passed on
          gaveUp   \* history: a request to the server went unanswered

fwdVars == <<kind, worker, stop, route, served, link, lock, conn, replies, flow, gaveUp>>

Nobody == "nobody"
Flow == [sent : 0..MaxChunks, got : 0..MaxChunks, fin : BOOLEAN, shut : BOOLEAN]
Opening == {"queued", "greeting", "request", "waiting", "opening", "dialing"}
Tasks == {"greeting", "request", "waiting", "opening", "dialing", "bridged"}

FwdTypeOK ==
    /\ kind \in Kinds /\ link \in {"up", "broken", "gone"}
    /\ worker \in {"starting", "asking", "granted", "accepting", "draining", "cancelling", "ended"}
    /\ {stop, route, served, gaveUp} \subseteq BOOLEAN
    /\ lock \in Conns \cup {"worker", Nobody}
    /\ conn \in [Conns -> Opening \cup {"new", "bridged", "done", "failed", "refused", "aborted"}]
    /\ replies \in [Conns -> SUBSET {"method", "no method", "granted", "failure", "unsupported"}]
    /\ flow \in [Conns -> [Ways -> Flow]]
    /\ Cardinality({c \in Conns : conn[c] \in Tasks}) <= MaxActive

NewFlow == [sent |-> 0, got |-> 0, fin |-> FALSE, shut |-> FALSE]

FwdInit ==
    /\ kind \in Kinds
    /\ worker = "starting" /\ link = "up" /\ lock = Nobody
    /\ stop = FALSE /\ route = FALSE /\ served = FALSE /\ gaveUp = FALSE
    /\ conn = [c \in Conns |-> "new"] /\ replies = [c \in Conns |-> {}]
    /\ flow = [c \in Conns |-> [w \in Ways |-> NewFlow]]

-----------------------------------------------------------------------------
Active == {c \in Conns : conn[c] \in Tasks}  \* ActiveConnection: one for each task

Server == <<route, served, link>>
Data == <<replies, flow>>

\* The tasks of C end as `how`; a lock that one of them held is free again.
Ends(C, how) ==
    /\ conn' = [c \in Conns |-> IF c \in C THEN how ELSE conn[c]]
    /\ lock' = IF lock \in C THEN Nobody ELSE lock

Advances(c, from, to) == conn[c] = from /\ conn' = [conn EXCEPT ![c] = to]

\* The worker returns: its listener or queue goes, and the tasks of its JoinSet.
Returns ==
    /\ worker' = "ended"
    /\ conn' = [c \in Conns |-> CASE conn[c] \in Tasks -> "aborted"
                                  [] conn[c] = "queued" -> "refused"
                                  [] OTHER -> conn[c]]
    /\ lock' = IF lock = "worker" \/ lock \in Active THEN Nobody ELSE lock
    /\ route' = FALSE

-----------------------------------------------------------------------------
(* The worker. *)

\* A listener of its own, or a forward that the server is asked for.
StartListener ==
    /\ worker = "starting" /\ kind # "remote"
    /\ worker' = "accepting"
    /\ UNCHANGED <<kind, stop, lock, conn, gaveUp, Server, Data>>

BindFails ==
    /\ worker = "starting" /\ kind # "remote"
    /\ Returns /\ UNCHANGED <<kind, stop, served, link, gaveUp, Data>>

AskForward ==
    /\ worker = "starting" /\ kind = "remote" /\ lock = Nobody /\ link # "gone"
    /\ worker' = "asking" /\ lock' = "worker"
    /\ UNCHANGED <<kind, stop, conn, gaveUp, Server, Data>>

ForwardGranted ==
    /\ worker = "asking" /\ link = "up"
    /\ worker' = "granted" /\ lock' = Nobody /\ served' = TRUE
    /\ UNCHANGED <<kind, stop, route, link, conn, gaveUp, Data>>

\* Refused, disconnected, or not answered in fifteen seconds: the server may have it or not.
ForwardFails ==
    /\ worker \in {"starting", "asking"} /\ kind = "remote"
    /\ Returns
    /\ \E late \in {FALSE, worker = "asking" /\ link = "up"} :
         served' = late /\ gaveUp' = (gaveUp \/ late)
    /\ UNCHANGED <<kind, stop, link, Data>>

\* From here on the handler of the SSH client passes channels on.
RegisterRoute ==
    /\ worker = "granted"
    /\ worker' = "accepting" /\ route' = TRUE
    /\ UNCHANGED <<kind, stop, served, link, lock, conn, gaveUp, Data>>

\* TunnelManager: the tunnel is stopped, or did not start in time.
StopWorker ==
    /\ ~stop /\ stop' = TRUE
    /\ UNCHANGED <<kind, worker, lock, conn, gaveUp, Server, Data>>

\* Mutant of SeeStop: the tasks go on.
SeeStopOnly ==
    /\ worker = "accepting" /\ stop
    /\ worker' = IF kind = "remote" THEN "cancelling" ELSE "ended"
    /\ route' = FALSE
    /\ UNCHANGED <<kind, stop, served, link, conn, lock, gaveUp, Data>>

\* The signal comes before everything else that is ready.
SeeStop ==
    /\ worker = "accepting" /\ stop
    /\ worker' = "draining" /\ route' = FALSE
    /\ UNCHANGED <<kind, stop, served, link, conn, lock, gaveUp, Data>>

AbortTask(c) ==
    /\ worker = "draining" /\ c \in Active
    /\ Ends({c}, "aborted")
    /\ UNCHANGED <<kind, worker, stop, gaveUp, Server, Data>>

Drained ==
    /\ worker = "draining" /\ Active = {}
    /\ IF kind = "remote" THEN worker' = "cancelling" /\ UNCHANGED <<conn, lock, route>> ELSE Returns
    /\ UNCHANGED <<kind, stop, served, link, gaveUp, Data>>

\* cancel_tcpip_forward, as soon as the session is free; a session that is given up needs none.
CancelForward ==
    /\ worker = "cancelling" /\ lock = Nobody
    /\ Returns /\ served' = FALSE
    /\ UNCHANGED <<kind, stop, link, gaveUp, Data>>

\* The cancellation takes more than three seconds, or the connection is broken.
CancelFails ==
    /\ worker = "cancelling"
    /\ Returns /\ gaveUp' = TRUE
    /\ UNCHANGED <<kind, stop, served, link, Data>>

\* An error of accept ends the tunnel.
AcceptFails ==
    /\ worker = "accepting" /\ ~stop /\ kind # "remote"
    /\ Returns /\ UNCHANGED <<kind, stop, served, link, gaveUp, Data>>

\* TunnelManager::finish: four seconds after the signal the task is aborted where it is.
AbortWorker ==
    /\ stop /\ worker # "ended"
    /\ Returns /\ gaveUp' = TRUE
    /\ UNCHANGED <<kind, stop, served, link, Data>>

-----------------------------------------------------------------------------
(* Connections. *)

\* A client connects to the listener, or the server opens a channel for one of its own:
\* server_channel_open_forwarded_tcpip takes only what has a route.
Arrive(c) ==
    /\ IF kind = "remote" THEN served /\ link = "up" ELSE worker \in {"accepting", "draining"}
    /\ Advances(c, "new", IF kind = "remote" /\ ~route THEN "refused" ELSE "queued")
    /\ UNCHANGED <<kind, worker, stop, lock, gaveUp, Server, Data>>

Accept(c) ==
    /\ worker = "accepting" /\ ~stop /\ Cardinality(Active) < MaxActive
    /\ Advances(c, "queued", CASE kind = "local" -> "waiting" [] kind = "dynamic" -> "greeting"
                            [] OTHER -> "dialing")
    /\ UNCHANGED <<kind, worker, stop, lock, gaveUp, Server, Data>>

Tells(c, words) == replies' = [replies EXCEPT ![c] = @ \cup words]

\* read_target. Whatever goes wrong there is answered with a failure too.
Greet(c, acceptable) ==
    /\ conn[c] = "greeting"
    /\ IF acceptable THEN Advances(c, "greeting", "request") /\ Tells(c, {"method"}) /\ UNCHANGED lock
       ELSE Ends({c}, "failed") /\ \E told \in {{"no method"}, {}} : Tells(c, told \cup {"failure"})
    /\ UNCHANGED <<kind, worker, stop, flow, gaveUp, Server>>

AskTarget(c, answer) ==
    /\ conn[c] = "request"
    /\ IF answer = "fine" THEN Advances(c, "request", "waiting") /\ UNCHANGED <<lock, replies>>
       ELSE Ends({c}, "failed") /\ Tells(c, {"failure"} \cup ({"unsupported"} \cap {answer}))
    /\ UNCHANGED <<kind, worker, stop, flow, gaveUp, Server>>

\* The lock of the session is held while the server opens the channel.
LockSession(c) ==
    /\ lock = Nobody /\ link # "gone"
    /\ Advances(c, "waiting", "opening") /\ lock' = c
    /\ UNCHANGED <<kind, worker, stop, gaveUp, Server, Data>>

ChannelOpens(c) ==
    /\ Advances(c, "opening", "bridged") /\ link = "up" /\ lock' = Nobody
    /\ IF kind = "dynamic" THEN Tells(c, {"granted"}) ELSE UNCHANGED replies
    /\ UNCHANGED <<kind, worker, stop, flow, gaveUp, Server>>

\* A remote forward connects to its destination here.
Dialed(c) ==
    /\ Advances(c, "dialing", "bridged")
    /\ UNCHANGED <<kind, worker, stop, lock, gaveUp, Server, Data>>

\* Refused by the other end, a session that is gone, or fifteen seconds (ten for a dial). A
\* client whose time is over is not told.
OpenFails(c, told) ==
    /\ conn[c] \in Tasks \ {"bridged"} /\ Ends({c}, "failed")
    /\ IF told THEN conn[c] \in {"waiting", "opening"} /\ kind = "dynamic" /\ Tells(c, {"failure"})
               ELSE UNCHANGED replies
    /\ UNCHANGED <<kind, worker, stop, flow, gaveUp, Server>>

\* An end sends, and closes its side.
Sends(c, w) ==
    /\ conn[c] = "bridged" /\ ~flow[c][w].fin
    /\ \/ flow[c][w].sent < MaxChunks /\ flow' = [flow EXCEPT ![c][w].sent = @ + 1]
       \/ flow' = [flow EXCEPT ![c][w].fin = TRUE]
    /\ UNCHANGED <<kind, worker, stop, lock, conn, replies, gaveUp, Server>>

\* copy: what was read is written and counted; at the end of the input the output is shut down.
Copy(c, w) ==
    /\ conn[c] = "bridged" /\ ~flow[c][w].shut
    /\ LET f == flow[c][w]
       IN  \/ f.got < f.sent /\ flow' = [flow EXCEPT ![c][w].got = @ + 1]
           \/ f.got = f.sent /\ f.fin /\ flow' = [flow EXCEPT ![c][w].shut = TRUE]
    /\ UNCHANGED <<kind, worker, stop, lock, conn, replies, gaveUp, Server>>

\* Mutant of Bridged: the end of one direction ends the connection.
BridgedEither(c) ==
    /\ conn[c] = "bridged" /\ \E w \in Ways : flow[c][w].shut
    /\ Ends({c}, "done")
    /\ UNCHANGED <<kind, worker, stop, gaveUp, Server, Data>>

\* "A request-side FIN is not the end of its response": both directions end.
Bridged(c) ==
    /\ conn[c] = "bridged" /\ \A w \in Ways : flow[c][w].shut
    /\ Ends({c}, "done")
    /\ UNCHANGED <<kind, worker, stop, gaveUp, Server, Data>>

\* An end is reset, or the SSH connection breaks: the error of one direction ends both.
BridgeFails(c) ==
    /\ conn[c] = "bridged" /\ Ends({c}, "failed")
    /\ UNCHANGED <<kind, worker, stop, gaveUp, Server, Data>>

-----------------------------------------------------------------------------
LinkBreaks ==
    /\ link = "up" /\ link' = "broken" /\ served' = FALSE
    /\ UNCHANGED <<kind, worker, stop, route, lock, conn, gaveUp, Data>>

\* SshClient::disconnect waits for the lock like everybody else.
DisconnectClient ==
    /\ link # "gone" /\ lock = Nobody
    /\ link' = "gone" /\ served' = FALSE
    /\ UNCHANGED <<kind, worker, stop, route, lock, conn, gaveUp, Data>>

FwdNext ==
    \/ StartListener \/ BindFails \/ AskForward \/ ForwardGranted \/ ForwardFails
    \/ RegisterRoute \/ StopWorker \/ SeeStop \/ Drained \/ CancelForward \/ CancelFails
    \/ AcceptFails \/ AbortWorker \/ LinkBreaks \/ DisconnectClient
    \/ \E c \in Conns :
         \/ AbortTask(c) \/ Arrive(c) \/ Accept(c) \/ LockSession(c) \/ ChannelOpens(c) \/ Dialed(c)
         \/ Bridged(c) \/ BridgeFails(c)
         \/ \E told \in BOOLEAN : Greet(c, told) \/ OpenFails(c, told)
         \/ \E answer \in {"fine", "unsupported", "wrong"} : AskTarget(c, answer)
         \/ \E w \in Ways : Sends(c, w) \/ Copy(c, w)

FwdSpec == FwdInit /\ [][FwdNext]_fwdVars

-----------------------------------------------------------------------------
\* A connection that ended in good order has passed on everything that both its ends sent,
\* also what came after the other side had closed; one whose client was told that it is
\* granted was told nothing else, and one that was told so has the channel.
FullyDelivered ==
    \A c \in Conns :
      /\ conn[c] = "done" =>
           \A w \in Ways : flow[c][w].fin /\ flow[c][w].got = flow[c][w].sent
      /\ "granted" \in replies[c] => /\ replies[c] = {"method", "granted"}
                                     /\ conn[c] \notin Opening

\* A tunnel whose worker has ended is quiet: no task is left, nobody holds the session for it,
\* its clients are not kept waiting, and channels are not taken for it any more. The server has
\* been told, unless it does not answer.
StoppedIsQuiet ==
    worker = "ended" =>
        /\ Active = {} /\ \A c \in Conns : conn[c] # "queued"
        /\ ~route /\ lock = Nobody
        /\ served => gaveUp

\* What a tunnel carries arrives whole, and a tunnel that is stopped leaves nothing behind.
ForwardsAreWhole == FullyDelivered /\ StoppedIsQuiet
=============================================================================
