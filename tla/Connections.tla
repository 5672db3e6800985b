---------------------------- MODULE Connections ----------------------------
(***************************************************************************)
(* How the sessions of a saved server come about and who uses them         *)
(* (session/manager.rs, commands/session.rs, mcp/server.rs, ipc/socket.rs, *)
(* cli commands/ssh.rs).  Windows, agents and `vibeshell ssh` look for a   *)
(* session to reuse and otherwise have one created, through the jump host  *)
(* that the server's row names.  A command of `vibeshell ssh` runs on a    *)
(* channel of its own.                                                     *)
(*                                                                         *)
(* Every await of a creation is the end of a step, and an agent's tool     *)
(* call can be dropped there.  Left out: authentication and host keys      *)
(* (HostKeys), attached terminals (Terminals, SessionLifecycle), the       *)
(* deletion of the server (ServerBook, SessionLifecycle), the aliases of   *)
(* sessions.                                                               *)
(***************************************************************************)
EXTENDS Integers, FiniteSets

CONSTANTS Sess,      \* sessions, each created at most once
          Calls,     \* runs of `vibeshell ssh <server> -- <command>`
          MaxTries   \* attempts of a call made with --wait

ASSUME ConnectionsAssumption == MaxTries \in Nat \ {0}

VARIABLES remote,    \* the windows reach the sessions through the daemon
          jump,      \* the server's row names a jump host
          sess,      \* the sessions and the connections they are made of
          calls,     \* the calls
          runs       \* history: how often the command of each call was started

connVars == <<remote, jump, sess, calls, runs>>

Creating == {"dial", "channel", "through", "accepted", "direct", "shell", "store"}
Hops == {"none", "dialled", "waiting", "copying", "closed"}
NoSession == [stage |-> "none"]
Idle == [stage |-> "idle"]

Listed(s) == sess[s].stage = "listed"
Usable(s) == Listed(s) /\ sess[s].state = "connected"
Running(s) == sess[s].stage \in Creating

ConnTypeOK ==
    /\ remote \in BOOLEAN
    /\ jump \in BOOLEAN
    /\ \A s \in Sess : sess[s] = NoSession \/
         sess[s] \in [stage : Creating \cup {"listed", "gone"}, byAgent : BOOLEAN,
                      state : {"connecting", "connected", "disconnected", "error"},
                      stale : BOOLEAN, hop : Hops, wire : BOOLEAN, clients : 0..1]
    /\ \A c \in Calls : calls[c] = Idle \/
         calls[c] \in [stage : {"list", "create", "creating", "exec", "ran", "refused", "count",
                                "killOld", "done", "failed"},
                       of : Sess \cup {"none"}, fresh : BOOLEAN, tries : 0..MaxTries]
    /\ runs \in [Calls -> Nat]

ConnInit ==
    /\ remote \in BOOLEAN
    /\ jump \in BOOLEAN
    /\ sess = [s \in Sess |-> NoSession] /\ calls = [c \in Calls |-> Idle]
    /\ runs = [c \in Calls |-> 0]

-----------------------------------------------------------------------------
(* Creation of a session. *)

\* create_with_credentials reads the row and makes the Session; an unknown server ends it there.
Begun(s, byAgent) ==
    /\ sess[s] = NoSession
    /\ sess' = [sess EXCEPT ![s] =
                  [stage |-> IF jump THEN "dial" ELSE "direct", state |-> "connecting",
                   byAgent |-> byAgent, stale |-> FALSE, hop |-> "none", wire |-> FALSE,
                   clients |-> 0]]

\* session_connect of a window whose process owns the sessions, and tool_session_create. One
\* that find_reusable_by_server_name finds, connected and not older than the row, is used as
\* it is.
Request(s, byAgent, force) ==
    /\ ~remote
    /\ force \/ \A q \in Sess : Usable(q) => sess[q].stale
    /\ Begun(s, byAgent)
    /\ UNCHANGED <<remote, jump, calls, runs>>

\* session_connect of a window that goes through the daemon (find_remote_reusable_session).
ConnectRemote(s, force) ==
    /\ remote
    /\ force \/ \A q \in Sess : ~Usable(q)
    /\ Begun(s, FALSE)
    /\ UNCHANGED <<remote, jump, calls, runs>>

\* create_for_server: a session that is listed without a connection.
CreateUnconnected(s) ==
    /\ ~remote /\ sess[s] = NoSession
    /\ sess' = [sess EXCEPT ![s] =
                  [stage |-> "listed", state |-> "connecting", byAgent |-> FALSE, stale |-> FALSE,
                   hop |-> "none", wire |-> FALSE, clients |-> 0]]
    /\ UNCHANGED <<remote, jump, calls, runs>>

Advance(s, from, to, change) ==
    /\ sess[s].stage = from
    /\ sess' = [sess EXCEPT ![s] = [change EXCEPT !.stage = to]]
    /\ UNCHANGED <<remote, jump, calls, runs>>

\* The jump host's row and secret are read and it is connected to;
DialJump(s) == Advance(s, "dial", "channel", [sess[s] EXCEPT !.hop = "dialled"])
\* a channel to the target is opened, and a task waits at a local port to copy into it;
OpenChannel(s) == Advance(s, "channel", "through", [sess[s] EXCEPT !.hop = "waiting"])
\* the client of the target arrives there.
ArriveAtBridge(s) ==
    Advance(s, "through", "accepted", [sess[s] EXCEPT !.hop = "copying", !.wire = TRUE])
TargetConnected(s) == Advance(s, "accepted", "shell", sess[s])
ConnectDirectly(s) == Advance(s, "direct", "shell", [sess[s] EXCEPT !.wire = TRUE])

\* The shell is open: the client is set and the bridge is left to itself (keep_alive),
OpenShell(s) ==
    Advance(s, "shell", "store", [sess[s] EXCEPT !.state = "connected"])
\* and the session goes to the map.
Store(s) == Advance(s, "store", "listed", [sess[s] EXCEPT !.byAgent = FALSE])

\* Mutant of Dropped: the task of the bridge is not aborted.
DroppedUnguarded(s) ==
    [sess[s] EXCEPT !.stage = "gone", !.wire = FALSE, !.state = "disconnected", !.byAgent = FALSE,
                    !.stale = FALSE,
                    !.hop = IF @ = "dialled" THEN "closed" ELSE @]

\* Whatever is dropped with the creation: its client, and the hop, which JumpBridgeGuard aborts
\* until it is disarmed.
Dropped(s) ==
    [sess[s] EXCEPT !.stage = "gone", !.wire = FALSE, !.state = "disconnected", !.byAgent = FALSE,
                    !.stale = FALSE,
                    !.hop = IF @ \in {"none", "closed"} \/ sess[s].stage = "store" THEN @ ELSE "closed"]

FailCreation(s) ==
    /\ Running(s) /\ sess[s].stage # "store"
    /\ sess' = [sess EXCEPT ![s] = Dropped(s)]
    /\ UNCHANGED <<remote, jump, calls, runs>>

\* The connection of an agent's tool call closes, and its future is dropped.
DropCreation(s) ==
    /\ Running(s) /\ sess[s].byAgent
    /\ sess' = [sess EXCEPT ![s] = Dropped(s)]
    /\ UNCHANGED <<remote, jump, calls, runs>>

\* The connection to the target ends,
BreakWire(s) ==
    /\ sess[s].stage \in {"store", "listed"} /\ sess[s].wire
    /\ sess' = [sess EXCEPT ![s].wire = FALSE]
    /\ UNCHANGED <<remote, jump, calls, runs>>
\* and the task of its bridge with it (copy_bidirectional), which drops the jump host's client.
EndBridge(s) ==
    /\ sess[s] # NoSession /\ sess[s].hop = "copying" /\ ~sess[s].wire
    /\ sess' = [sess EXCEPT ![s].hop = "closed"]
    /\ UNCHANGED <<remote, jump, calls, runs>>
\* The connection to the jump host breaks.
BreakJump(s) ==
    /\ sess[s].stage \in {"store", "listed"} /\ sess[s].hop = "copying"
    /\ sess' = [sess EXCEPT ![s].hop = "closed", ![s].wire = FALSE]
    /\ UNCHANGED <<remote, jump, calls, runs>>

-----------------------------------------------------------------------------
(* What happens to sessions. *)

\* kill: out of the map, and disconnected.
Removed(s) ==
    IF Listed(s) THEN [sess EXCEPT ![s] = [@ EXCEPT !.stage = "gone", !.wire = FALSE, !.stale = FALSE,
                                                   !.state = "disconnected", !.clients = 0]]
    ELSE sess
Kill(s) == Listed(s) /\ sess' = Removed(s) /\ UNCHANGED <<remote, jump, calls, runs>>

Attach(s) ==
    /\ Listed(s) /\ sess' = [sess EXCEPT ![s].clients = 1 - @]
    /\ UNCHANGED <<remote, jump, calls, runs>>

\* A command of a window or an agent on a channel of its own notices that the connection is gone.
\* (exec_command_with_stdin, exec_quick_command)
WireMissed(s) == IF Usable(s) /\ ~sess[s].wire THEN [sess EXCEPT ![s].state = "error"] ELSE sess
QuickCommand(s) ==
    /\ Usable(s) /\ ~sess[s].wire
    /\ sess' = WireMissed(s) /\ UNCHANGED <<remote, jump, calls, runs>>

\* The row is edited, in the second in which the sessions were made or in a later one.
EditServer(to, later) ==
    /\ jump' = to
    /\ sess' = [s \in Sess |-> IF sess[s].stage \in {"none", "gone"} \/ ~later THEN sess[s]
                               ELSE [sess[s] EXCEPT !.stale = TRUE]]
    /\ UNCHANGED <<remote, calls, runs>>

-----------------------------------------------------------------------------
(* vibeshell ssh <server> -- <command> *)

CallsGo(c, change) == calls' = [calls EXCEPT ![c] = change] /\ UNCHANGED <<remote, jump>>
Now(c, stage) == CallsGo(c, [calls[c] EXCEPT !.stage = stage])

Ssh(c, wait, force) ==
    /\ calls[c] = Idle
    /\ CallsGo(c, [stage |-> IF force THEN "create" ELSE "list", of |-> "none", fresh |-> FALSE,
                   tries |-> IF wait THEN MaxTries ELSE 1])
    /\ UNCHANGED <<sess, runs>>

\* pick_reusable_session: one that is connected, whatever became of the row since. (The oldest;
\* which one makes no difference here.)
ListReply(c) ==
    /\ calls[c].stage = "list"
    /\ \/ \E s \in Sess : Usable(s) /\ CallsGo(c, [calls[c] EXCEPT !.stage = "exec", !.of = s])
       \/ (\A s \in Sess : ~Usable(s)) /\ Now(c, "create")
    /\ UNCHANGED <<sess, runs>>

\* create_session_with_retry, and CreateSession of the server.
RequestSession(c, s) ==
    /\ calls[c].stage = "create"
    /\ Begun(s, FALSE)
    /\ CallsGo(c, [calls[c] EXCEPT !.stage = "creating", !.of = s, !.tries = @ - 1])
    /\ UNCHANGED runs
SessionCreated(c) ==
    /\ calls[c].stage = "creating" /\ Listed(calls[c].of)
    /\ CallsGo(c, [calls[c] EXCEPT !.stage = "exec", !.fresh = TRUE])
    /\ UNCHANGED <<sess, runs>>

\* Mutant of NoSessionYet: one attempt too many.
NoSessionYetAgain(c) ==
    /\ calls[c].stage = "creating"
    /\ Now(c, IF calls[c].tries >= 0 THEN "create" ELSE "failed")
    /\ UNCHANGED <<sess, runs>>

\* An error, or no reply at all: the creation may go on without its client.
NoSessionYet(c) ==
    /\ calls[c].stage = "creating"
    /\ Now(c, IF calls[c].tries > 0 THEN "create" ELSE "failed")
    /\ UNCHANGED <<sess, runs>>
\* No saved secret, or one that cannot be read.
Unconnectable(c) ==
    /\ calls[c].stage = "create"
    /\ IF calls[c].tries > 1 THEN CallsGo(c, [calls[c] EXCEPT !.tries = @ - 1]) ELSE Now(c, "failed")
    /\ UNCHANGED <<sess, runs>>

\* ExecCommand: the command starts on a channel of its own. It may then fail, take too long or
\* print too much, which are errors as well.
ExecStarts(c) ==
    LET s == calls[c].of
    IN  /\ calls[c].stage = "exec" /\ Usable(s) /\ sess[s].wire
        /\ \E answer \in {"ran", "refused"} : Now(c, answer)
        /\ runs' = [runs EXCEPT ![c] = @ + 1] /\ UNCHANGED sess
\* There is no such session, no client, or no channel.
ExecRefused(c) ==
    /\ calls[c].stage = "exec" /\ Now(c, "refused")
    /\ sess' = WireMissed(calls[c].of) /\ UNCHANGED runs
LoseReply(c) ==
    /\ calls[c].stage = "ran" /\ Now(c, "refused") /\ UNCHANGED <<sess, runs>>

\* run_isolated_command: the session that was created for the command ends with it, unless the
\* output looks like a question.
ExecAnswered(c) ==
    /\ calls[c].stage = "ran" /\ Now(c, "done")
    /\ sess' \in {sess, IF calls[c].fresh THEN Removed(calls[c].of) ELSE sess}
    /\ UNCHANGED runs

\* connect: a reused session that could not run the command is given up, and a fresh one tried.
ExecFailed(c) ==
    /\ calls[c].stage = "refused"
    /\ Now(c, IF calls[c].fresh THEN "failed" ELSE "count")
    /\ UNCHANGED <<sess, runs>>
CountClients(c) ==
    /\ calls[c].stage = "count"
    /\ \/ Now(c, "killOld")  \* nobody is attached, or the count cannot be had
       \/ Listed(calls[c].of) /\ sess[calls[c].of].clients > 0 /\ Now(c, "create")
    /\ UNCHANGED <<sess, runs>>
KillReused(c) ==
    /\ calls[c].stage = "killOld" /\ Now(c, "create")
    /\ sess' = Removed(calls[c].of) /\ UNCHANGED runs

ConnNext ==
    \/ \E s \in Sess :
         \/ \E force \in BOOLEAN :
              (\E byAgent \in BOOLEAN : Request(s, byAgent, force)) \/ ConnectRemote(s, force)
         \/ CreateUnconnected(s)
         \/ DialJump(s) \/ OpenChannel(s) \/ ArriveAtBridge(s) \/ TargetConnected(s)
         \/ ConnectDirectly(s) \/ OpenShell(s) \/ Store(s) \/ FailCreation(s) \/ DropCreation(s)
         \/ BreakWire(s) \/ EndBridge(s) \/ BreakJump(s) \/ Kill(s) \/ Attach(s) \/ QuickCommand(s)
    \/ \E to \in BOOLEAN, later \in BOOLEAN : EditServer(to, later)
    \/ \E c \in Calls :
         \/ \E wait \in BOOLEAN, force \in BOOLEAN : Ssh(c, wait, force)
         \/ ListReply(c) \/ (\E s \in Sess : RequestSession(c, s)) \/ SessionCreated(c)
         \/ NoSessionYet(c) \/ Unconnectable(c) \/ ExecStarts(c) \/ ExecRefused(c) \/ LoseReply(c)
         \/ ExecAnswered(c) \/ ExecFailed(c) \/ CountClients(c) \/ KillReused(c)

ConnSpec == ConnInit /\ [][ConnNext]_connVars

-----------------------------------------------------------------------------
\* A connection to a jump host is there for a creation that still needs it, or copies for a
\* session that was connected through it: whatever step of the creation fails, and wherever an
\* agent's call is dropped, none is left waiting for a client that never comes.
NoIdleHop ==
    \A s \in Sess : sess[s] # NoSession =>
        /\ sess[s].hop \in {"dialled", "waiting"} => Running(s)
        /\ (Usable(s) /\ sess[s].wire) => sess[s].hop \in {"none", "copying"}

\* "Never replay writes/commands/session creation": one call of `vibeshell ssh` starts its
\* command at most once. A command that ends with an error on a reused session is started again
\* on a fresh one.
CommandRunsOnce == \A c \in Calls : runs[c] <= 1
=============================================================================
