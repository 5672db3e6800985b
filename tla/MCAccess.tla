------------------------------ MODULE MCAccess ------------------------------
(***************************************************************************)
(* How a server is reached, for TLC: the socket file that leads to the     *)
(* process with the sessions, the trust in the keys of a host, the         *)
(* sessions that are made of connections to it, the connections of a       *)
(* tunnel, the gateway that agents find, and the commands that lease       *)
(* sessions.  The six share no state, so a behaviour has one of them at    *)
(* work and the others at rest, and one run checks all.                    *)
(***************************************************************************)
EXTENDS HostKeys, Connections, Endpoint, Forwarding, Gateway, CommandLine

CONSTANTS sess1, sess2, app1, app2, conn2, job1, job2

VARIABLE part

accessVars == <<part, keyVars, connVars, endVars, fwdVars, gatewayVars, leaseVars>>

AccessInit ==
    /\ part \in {"keys", "connections", "endpoint", "forwarding", "gateway", "commands"}
    /\ KeysInit /\ ConnInit /\ EndInit /\ FwdInit /\ GatewayInit /\ LeaseInit
    /\ part # "keys" => keyOf["jump"] = keyOf["target"] /\ keyOf["jump"] = CHOOSE k \in KeySet : TRUE
    /\ part # "connections" => jump /\ remote
    /\ part # "forwarding" => kind = "local"
    /\ part # "commands" => told = {} /\ daemon[1] = "none"
    \* The file is there from the start only for the commands that find a session.
    /\ text # Absent => told = {} /\ daemon[1] = "up"

KeysStep == part = "keys" /\ KeysNext /\ UNCHANGED <<part, connVars, endVars, fwdVars, gatewayVars, leaseVars>>
\* The sessions are alike: the first one is created first, and is the one that agents ask for and
\* clients attach to.
ConnectionsStep ==
    /\ part = "connections" /\ ConnNext
    /\ sess'[sess2] # NoSession =>
         sess'[sess1] # NoSession /\ ~sess'[sess2].byAgent /\ sess'[sess2].clients = 0
    /\ UNCHANGED <<part, keyVars, endVars, fwdVars, gatewayVars, leaseVars>>

\* The starts of the application are alike too: app1 is the first.
EndpointStep ==
    /\ part = "endpoint" /\ EndNext /\ (at'[app2] # "off" => at'[app1] # "off")
    /\ UNCHANGED <<part, keyVars, connVars, fwdVars, gatewayVars, leaseVars>>

\* The connections of a tunnel share its lock and its places, not their data: one of them carries
\* data, the other opens, waits and closes at any moment of the first.
ForwardingStep ==
    /\ part = "forwarding" /\ FwdNext /\ \A w \in Ways : flow'[conn2][w].sent = 0
    /\ UNCHANGED <<part, keyVars, connVars, endVars, gatewayVars, leaseVars>>

GatewayStep ==
    /\ part = "gateway" /\ GatewayNext
    /\ UNCHANGED <<part, keyVars, connVars, endVars, fwdVars, leaseVars>>

\* The commands are alike: job1 is the first.
CommandsStep ==
    /\ part = "commands" /\ LeaseNext /\ (job'[job2] # Waiting => job'[job1] # Waiting)
    /\ UNCHANGED <<part, keyVars, connVars, endVars, fwdVars, gatewayVars>>

AccessNext == KeysStep \/ ConnectionsStep \/ EndpointStep \/ ForwardingStep \/ GatewayStep \/ CommandsStep

AccessSpec == AccessInit /\ [][AccessNext]_accessVars

AccessTypeOK == KeysTypeOK /\ ConnTypeOK /\ EndTypeOK /\ FwdTypeOK /\ GatewayTypeOK /\ LeaseTypeOK
=============================================================================
