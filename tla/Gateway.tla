------------------------------ MODULE Gateway ------------------------------
(***************************************************************************)
(* The agent gateway (mcp/gateway.rs, mcp/server.rs) and the script that   *)
(* finds it (install/gateway-client.mjs).  Every start of the application  *)
(* serves on a port the system picks, under a token of its own, and writes *)
(* both to a manifest; a client reads the manifest, starts the application *)
(* when nobody answers, and asks again once when it was sent away.  The    *)
(* manifest outlives the application, which seldom ends in an orderly way. *)
(***************************************************************************)
EXTENDS Integers

CONSTANTS Clients,   \* runs of the script, each with one call
          Ports,     \* ports the system gives out
          MaxStarts, \* bound: starts of the application
          MaxLooks   \* bound: looks at the manifest before the 15 seconds are over

ASSUME GatewayAssumption == MaxStarts \in Nat /\ MaxLooks \in Nat

VARIABLES app,      \* the one instance: how far it is, its port and its token
          starts,   \* how often it was started, which numbers the tokens
          manifest, \* agent-gateway.json
          client    \* of each run: where it is and what it knows

gatewayVars == <<app, starts, manifest, client>>

NoPort == "none"
NoManifest == [status |-> "missing", port |-> NoPort, token |-> 0]
Down == [at |-> "down", port |-> NoPort, token |-> 0]
Begin == [at |-> "look", goal |-> "initialize", seen |-> NoManifest, launched |-> FALSE,
          polls |-> 0, retried |-> FALSE, ran |-> 0]

GatewayTypeOK ==
    /\ app.at \in {"down", "starting", "bound", "published", "serving", "draining", "stopped"}
    /\ app.port \in Ports \cup {NoPort} /\ app.token \in 0..MaxStarts
    /\ manifest.status \in {"missing", "running", "stopped"}
    /\ \A c \in Clients :
         /\ client[c].at \in {"idle", "look", "check", "ask", "in flight", "done", "failed"}
         /\ client[c].goal \in {"initialize", "initialized", "call"}
         /\ client[c].polls \in 0..MaxLooks

GatewayInit ==
    /\ app = Down /\ starts = 0 /\ manifest = NoManifest
    /\ client = [c \in Clients |-> [Begin EXCEPT !.at = "idle"]]

-----------------------------------------------------------------------------
(* The application. *)

\* What starts it takes effect when it is not running: there is one instance.
Started == IF app.at = "down" /\ starts < MaxStarts
             THEN /\ app' = [at |-> "starting", port |-> NoPort, token |-> starts + 1]
                  /\ starts' = starts + 1
             ELSE UNCHANGED <<app, starts>>

OpenApp == app.at = "down" /\ starts < MaxStarts /\ Started /\ UNCHANGED <<manifest, client>>

BindGateway ==
    /\ app.at = "starting"
    /\ \E p \in Ports : app' = [app EXCEPT !.at = "bound", !.port = p]
    /\ UNCHANGED <<starts, manifest, client>>

\* write_manifest_atomic: a rename, so that nobody reads half of it.
PublishManifest ==
    /\ app.at = "bound" /\ app' = [app EXCEPT !.at = "published"]
    /\ manifest' = [status |-> "running", port |-> app.port, token |-> app.token]
    /\ UNCHANGED <<starts, client>>

\* Clients that connected since the bind are answered from now on.
ServeGateway ==
    /\ app.at = "published" /\ app' = [app EXCEPT !.at = "serving"]
    /\ UNCHANGED <<starts, manifest, client>>

\* Dropping the gateway: no new requests, those at work are finished, and the manifest says so.
ShutdownGateway ==
    /\ app.at = "serving" /\ app' = [app EXCEPT !.at = "draining"]
    /\ UNCHANGED <<starts, manifest, client>>

GatewayStops ==
    /\ app.at = "draining" /\ \A c \in Clients : client[c].at # "in flight"
    /\ app' = [app EXCEPT !.at = "stopped"]
    /\ manifest' = [status |-> "stopped", port |-> NoPort, token |-> 0]
    /\ UNCHANGED <<starts, client>>

\* Mutant of Unanswered: whatever went wrong, the call is made again.
UnansweredRetried(cl) ==
    IF cl.retried THEN [cl EXCEPT !.at = "failed"]
                  ELSE [Begin EXCEPT !.retried = TRUE, !.ran = cl.ran]

\* No answer may mean that the call was made: the script gives up.
Unanswered(cl) == [cl EXCEPT !.at = "failed"]

\* The process ends, as it mostly does without dropping anything: a quit, an update, a crash, a
\* start that took more than five seconds. Whoever waits for an answer gets none.
AppEnds ==
    /\ app.at # "down" /\ app' = Down
    /\ client' = [c \in Clients |->
                    IF client[c].at = "in flight" THEN Unanswered(client[c]) ELSE client[c]]
    /\ UNCHANGED <<starts, manifest>>

-----------------------------------------------------------------------------
(* The script. *)

RunScript(c) ==
    /\ client[c].at = "idle" /\ client' = [client EXCEPT ![c] = Begin]
    /\ UNCHANGED <<app, starts, manifest>>

ReadManifest(c) ==
    /\ client[c].at = "look" /\ client[c].polls < MaxLooks
    /\ client' = [client EXCEPT ![c].at = "check", ![c].seen = manifest, ![c].polls = @ + 1]
    /\ UNCHANGED <<app, starts, manifest>>

NotReady(c) ==
    /\ client[c].at = "look" /\ client[c].polls = MaxLooks
    /\ client' = [client EXCEPT ![c].at = "failed"]
    /\ UNCHANGED <<app, starts, manifest>>

\* What listens where the client believes the gateway to be.
Listening(cl) == app.at \in {"bound", "published", "serving"} /\ app.port = cl.seen.port
\* require_bearer_token.
Authorized(cl) == app.token = cl.seen.token

\* ready: a gateway that knows its token, or else the application is started, once.
CheckHealth(c) ==
    LET cl == client[c]
        claimed == cl.seen.status = "running"
    IN  /\ cl.at = "check"
        /\ claimed /\ Listening(cl) => app.at = "serving" \* or it waits for the answer
        /\ IF claimed /\ Listening(cl) /\ Authorized(cl)
             THEN client' = [client EXCEPT ![c].at = "ask"] /\ UNCHANGED <<app, starts>>
             ELSE /\ client' = [client EXCEPT ![c].at = "look", ![c].launched = TRUE]
                  /\ IF cl.launched THEN UNCHANGED <<app, starts>> ELSE Started
        /\ UNCHANGED manifest

\* rpc, which the gateway works on.
AskGateway(c) ==
    LET cl == client[c]
    IN  /\ cl.at = "ask" /\ app.at = "serving" /\ Listening(cl) /\ Authorized(cl)
        /\ client' = [client EXCEPT ![c].at = "in flight",
                                    ![c].ran = IF cl.goal = "call" THEN @ + 1 ELSE @]
        /\ UNCHANGED <<app, starts, manifest>>

\* handle_jsonrpc has answered. The second time, the script says less.
AnsweredCall(c) ==
    LET cl == client[c]
    IN  /\ cl.at = "in flight"
        /\ client' = [client EXCEPT
             ![c].at = IF cl.goal = "call" THEN "done" ELSE "ask",
             ![c].goal = IF cl.goal = "initialize" /\ ~cl.retried THEN "initialized" ELSE "call"]
        /\ UNCHANGED <<app, starts, manifest>>

\* A gateway of a later start that got the same port: nothing was done, ask it again, once.
SentAway(c) ==
    LET cl == client[c]
    IN  /\ cl.at = "ask" /\ app.at = "serving" /\ Listening(cl) /\ ~Authorized(cl)
        /\ client' = [client EXCEPT ![c] =
                        IF cl.retried THEN [cl EXCEPT !.at = "failed"]
                                      ELSE [Begin EXCEPT !.retried = TRUE, !.ran = cl.ran]]
        /\ UNCHANGED <<app, starts, manifest>>

NobodyAnswers(c) ==
    /\ client[c].at = "ask" /\ ~Listening(client[c])
    /\ client' = [client EXCEPT ![c] = Unanswered(@)]
    /\ UNCHANGED <<app, starts, manifest>>

GatewayNext ==
    \/ OpenApp \/ BindGateway \/ PublishManifest \/ ServeGateway \/ ShutdownGateway
    \/ GatewayStops \/ AppEnds
    \/ \E c \in Clients : \/ RunScript(c) \/ ReadManifest(c) \/ NotReady(c) \/ CheckHealth(c)
                          \/ AskGateway(c) \/ AnsweredCall(c) \/ SentAway(c) \/ NobodyAnswers(c)

GatewaySpec == GatewayInit /\ [][GatewayNext]_gatewayVars

-----------------------------------------------------------------------------
\* However often the application goes away and comes back in between, a call is made at most
\* once, and one whose result is printed was made; its session has been opened first.
CalledOnce ==
    \A c \in Clients : /\ client[c].ran <= 1
                       /\ client[c].at = "done" => client[c].ran = 1

\* The manifest names the gateway that serves, never one of an earlier start, and an orderly
\* end is in it before the application is gone.
ManifestIsTrue ==
    /\ app.at \in {"published", "serving", "draining"} =>
         manifest = [status |-> "running", port |-> app.port, token |-> app.token]
    /\ app.at = "stopped" => manifest.status = "stopped"

\* Who passed the check and is still asking has seen the manifest of a gateway that served.
AsksOneThatServed ==
    \A c \in Clients : client[c].at \in {"ask", "in flight"} =>
        /\ client[c].seen.status = "running" /\ client[c].seen.token \in 1..starts
        /\ client[c].at = "in flight" => app.at \in {"serving", "draining"} /\ Authorized(client[c])

GatewayIsFound == CalledOnce /\ ManifestIsTrue /\ AsksOneThatServed
=============================================================================
