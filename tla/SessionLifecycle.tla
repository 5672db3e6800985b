--------------------------- MODULE SessionLifecycle ---------------------------
(***************************************************************************)
(* SSH sessions and the clients attached to them: the session map, the     *)
(* kill paths and the idle reaper of session/manager.rs, the client count  *)
(* of session/session.rs, the streaming attach and DetachSession handlers  *)
(* of ipc/socket.rs, the attach, detach, kill and delete tools of          *)
(* mcp/server.rs, and the two ways the command line attaches               *)
(* (cli/src/terminal.rs).                                                  *)
(*                                                                         *)
(* All of these run on different threads or tasks and meet only in the map *)
(* and in the shared Session objects; a handler keeps its Session alive    *)
(* after the map has forgotten it.  All sessions belong to one server.     *)
(***************************************************************************)
EXTENDS Integers, FiniteSets

CONSTANTS Sessions,   \* session ids, fresh UUIDs
          Terminals,  \* command-line processes that attach interactively
          Commands,   \* command-line processes that run one command and leave
          Agents,     \* connections that call the tools of the agent server
          MaxCalls    \* bound: attachments made by calls to one session, and
                      \* detaching calls to it that no attachment went before

Clients == Terminals \cup Commands
App == "app"                       \* delete_server called by a window
Callers == Agents \cup {App}

ASSUME LifecycleAssumption ==
    /\ IsFiniteSet(Clients) /\ MaxCalls \in Nat
    /\ Terminals \cap Commands = {}

VARIABLES sessions,  \* SessionManager.sessions
          life,      \* how far each session's creation or teardown has come
          client,    \* Session.ssh_client is set
          count,     \* Session.client_count
          idle,      \* nothing marked the session active for SESSION_IDLE_TTL
          row,       \* the server is in the database
          calls,     \* the kill or the deletion that each caller waits for
          reaper,    \* reap_inactive_sessions in progress
          stream,    \* the handler of each client's AttachSession
          cli,       \* each command-line process
          held,      \* history: attachments made by calls and not given up
          overdrawn  \* history: what calls and hand-offs took off a count
                     \* without an attachment of theirs

vars == <<sessions, life, client, count, idle, row, calls, reaper, stream, cli, held, overdrawn>>

Lives == {"absent", "connecting", "live", "cleaning", "disconnecting", "gone",
          "abandoned"}  \* out of the map, and the call that tore it down was dropped
Handlers == {"none", "found", "attached", "replaying", "streaming",
             "detaching", "ended", "failed"}
NoStream == [phase |-> "none", of |-> {}, due |-> FALSE]
NoReap == [check |-> {}, stale |-> {}, victim |-> {}]
NoCall == [task |-> "none", todo |-> {}, victims |-> {}]

TypeOK ==
    /\ sessions \subseteq Sessions
    /\ life \in [Sessions -> Lives]
    /\ client \in [Sessions -> BOOLEAN] /\ idle \in [Sessions -> BOOLEAN]
    /\ count \in [Sessions -> Nat]
    /\ row \in BOOLEAN
    /\ calls \in [Callers -> [task : {"none", "kill", "delete"}, todo : SUBSET Sessions,
                              victims : SUBSET Sessions]]
    /\ reaper \in [check : SUBSET Sessions, stale : SUBSET Sessions,
                   victim : SUBSET Sessions]
    /\ stream \in [Clients -> [phase : Handlers, of : SUBSET Sessions, due : BOOLEAN]]
    /\ cli \in [Clients -> {"off", "looked", "waiting", "open",
                            "leaving", "closed"}]
    /\ held \in [Sessions -> Nat] /\ overdrawn \in [Sessions -> Nat]

Init ==
    /\ sessions = {}
    /\ life = [s \in Sessions |-> "absent"]
    /\ client = [s \in Sessions |-> FALSE] /\ idle = [s \in Sessions |-> FALSE]
    /\ count = [s \in Sessions |-> 0]
    /\ row = TRUE
    /\ calls = [x \in Callers |-> NoCall]
    /\ reaper = NoReap
    /\ stream = [c \in Clients |-> NoStream]
    /\ cli = [c \in Clients |-> "off"]
    /\ held = [s \in Sessions |-> 0] /\ overdrawn = [s \in Sessions |-> 0]

-----------------------------------------------------------------------------
(* Creation and teardown. *)

\* create_with_credentials reads the server row, connects for as long as the
\* network takes, and only then stores the session.
BeginCreate(s) ==
    /\ life[s] = "absent" /\ row
    /\ life' = [life EXCEPT ![s] = "connecting"]
    /\ UNCHANGED <<sessions, client, count, idle, row, calls, reaper, stream, cli, held, overdrawn>>

FinishCreate(s) ==
    /\ life[s] = "connecting"
    /\ \/ /\ life' = [life EXCEPT ![s] = "live"]
          /\ sessions' = sessions \cup {s}
          /\ client' = [client EXCEPT ![s] = TRUE]
       \/ /\ life' = [life EXCEPT ![s] = "gone"]
          /\ UNCHANGED <<sessions, client>>
    /\ UNCHANGED <<count, idle, row, calls, reaper, stream, cli, held, overdrawn>>

\* Mutant of Killed: the session is looked up and stays in the map.
KilledStays(S) ==
    /\ sessions' = sessions
    /\ life' = [s \in Sessions |-> IF s \in S \cap sessions THEN "cleaning" ELSE life[s]]

\* kill: whoever removes the session from the map tears it down.
Killed(S) ==
    /\ sessions' = sessions \ S
    /\ life' = [s \in Sessions |-> IF s \in S \cap sessions THEN "cleaning" ELSE life[s]]

\* A kill by a window, by the IPC server or by a command, which runs to its end.
Kill(s) ==
    /\ s \in sessions
    /\ Killed({s})
    /\ UNCHANGED <<client, count, idle, row, calls, reaper, stream, cli, held, overdrawn>>

\* run_lifecycle_cleanup; SessionServices models what it stops.  kill_all tears its
\* sessions down one after the other.
Cleanup(s) ==
    /\ life[s] = "cleaning"
    /\ \A x \in Callers : s \in calls[x].victims =>
         \A v \in calls[x].victims : life[v] # "disconnecting"
    /\ life' = [life EXCEPT ![s] = "disconnecting"]
    /\ UNCHANGED <<sessions, client, count, idle, row, calls, reaper, stream, cli, held, overdrawn>>

\* Mutant of Disconnect: a transport that has failed keeps its client.
DisconnectKeepsFailed(s) ==
    /\ life[s] = "disconnecting"
    /\ life' = [life EXCEPT ![s] = "gone"]
    /\ client' = client \/ client' = [client EXCEPT ![s] = FALSE]
    /\ UNCHANGED <<sessions, count, idle, row, calls, reaper, stream, cli, held, overdrawn>>

Disconnect(s) ==
    /\ life[s] = "disconnecting"
    /\ life' = [life EXCEPT ![s] = "gone"]
    /\ client' = [client EXCEPT ![s] = FALSE]
    /\ UNCHANGED <<sessions, count, idle, row, calls, reaper, stream, cli, held, overdrawn>>

\* The owning process exits: its handlers' connections close.
Exit ==
    /\ sessions # {}
    /\ sessions' = {}
    /\ life' = [s \in Sessions |-> IF life[s] = "absent" THEN "absent" ELSE "gone"]
    /\ client' = [s \in Sessions |-> FALSE]
    /\ count' = [s \in Sessions |-> 0]
    /\ calls' = [x \in Callers |-> NoCall]
    /\ reaper' = NoReap
    /\ stream' = [c \in Clients |->
                    IF stream[c].phase = "none" THEN stream[c]
                    ELSE [stream[c] EXCEPT !.phase = "ended", !.due = FALSE]]
    /\ held' = [s \in Sessions |-> 0] /\ overdrawn' = [s \in Sessions |-> 0]
    /\ UNCHANGED <<idle, row, cli>>

-----------------------------------------------------------------------------
(* The kills that a caller waits for.  session_kill and server_delete of an   *)
(* agent run in the future that answers its request, and are dropped with the *)
(* agent's connection; delete_server of a window runs to its end.             *)

Torn(s) == life[s] = "gone"
Done(x) == \A s \in calls[x].victims : Torn(s)

\* session_kill: one session, or all of the map at one moment (kill_all).
AgentKill(a, S) ==
    /\ calls[a].task = "none" /\ S # {}
    /\ Killed(S)
    /\ calls' = [calls EXCEPT ![a] = [NoCall EXCEPT !.task = "kill", !.victims = S]]
    /\ UNCHANGED <<client, count, idle, row, reaper, stream, cli, held, overdrawn>>

AgentKills(a) == AgentKill(a, sessions) \/ \E s \in sessions : AgentKill(a, {s})

AgentKilled(a) ==
    /\ calls[a].task = "kill" /\ Done(a)
    /\ calls' = [calls EXCEPT ![a] = NoCall]
    /\ UNCHANGED <<sessions, life, client, count, idle, row, reaper, stream, cli, held, overdrawn>>

\* kill_by_server_id kills what the map holds at one moment, one session after the
\* other, and then the row is deleted.
BeginDelete(x) ==
    /\ row /\ calls[x].task = "none"
    /\ calls' = [calls EXCEPT ![x] = [NoCall EXCEPT !.task = "delete", !.todo = sessions]]
    /\ UNCHANGED <<sessions, life, client, count, idle, row, reaper, stream, cli, held, overdrawn>>

DeleteKill(x, s) ==
    /\ s \in calls[x].todo /\ Done(x)
    /\ Killed({s})
    /\ calls' = [calls EXCEPT ![x].todo = @ \ {s}, ![x].victims = {s} \cap sessions]
    /\ UNCHANGED <<client, count, idle, row, reaper, stream, cli, held, overdrawn>>

FinishDelete(x) ==
    /\ calls[x].task = "delete" /\ calls[x].todo = {} /\ Done(x)
    /\ row' = FALSE
    /\ calls' = [calls EXCEPT ![x] = NoCall]
    /\ UNCHANGED <<sessions, life, client, count, idle, reaper, stream, cli, held, overdrawn>>

\* The agent's connection closes: what its call has not torn down stays as it is,
\* with or without its client when disconnect had begun, and the row stays.
AgentDropped(a) ==
    /\ calls[a].task # "none"
    /\ calls' = [calls EXCEPT ![a] = NoCall]
    /\ life' = [s \in Sessions |-> IF s \in calls[a].victims /\ ~Torn(s)
                                   THEN "abandoned" ELSE life[s]]
    /\ \E taken \in SUBSET {s \in calls[a].victims : life[s] = "disconnecting"} :
         client' = [s \in Sessions |-> client[s] /\ s \notin taken]
    /\ UNCHANGED <<sessions, count, idle, row, reaper, stream, cli, held, overdrawn>>

-----------------------------------------------------------------------------
(* The reaper: a snapshot of the map, should_reap on each session, then one  *)
(* kill after the other, without asking again.                               *)

IdleElapses(s) ==
    /\ s \in sessions /\ ~idle[s]
    /\ idle' = [idle EXCEPT ![s] = TRUE]
    /\ UNCHANGED <<sessions, life, client, count, row, calls, reaper, stream, cli, held, overdrawn>>

ReapStart ==
    /\ reaper.check = {} /\ reaper.stale = {} /\ \A s \in reaper.victim : Torn(s)
    /\ sessions # {}
    /\ reaper' = [NoReap EXCEPT !.check = sessions]
    /\ UNCHANGED <<sessions, life, client, count, idle, row, calls, stream, cli, held, overdrawn>>

ReapCheck(s) ==
    /\ s \in reaper.check
    /\ reaper' = [reaper EXCEPT !.check = @ \ {s},
                                !.stale = IF count[s] = 0 /\ idle[s] THEN @ \cup {s} ELSE @]
    /\ UNCHANGED <<sessions, life, client, count, idle, row, calls, stream, cli, held, overdrawn>>

ReapKill(s) ==
    /\ reaper.check = {} /\ s \in reaper.stale /\ \A x \in reaper.victim : Torn(x)
    /\ Killed({s})
    /\ reaper' = [reaper EXCEPT !.stale = @ \ {s}, !.victim = {s} \cap sessions]
    /\ UNCHANGED <<client, count, idle, row, calls, stream, cli, held, overdrawn>>

-----------------------------------------------------------------------------
(* handle_streaming_attach, one blocking thread per connection.              *)

Streaming(c, s) == s \in stream[c].of

\* Session::attach and Session::detach change the count and then mark the session
\* active; here both happen at once.
Attached(s) ==
    /\ count' = [count EXCEPT ![s] = @ + 1]
    /\ idle' = [idle EXCEPT ![s] = FALSE]

Detached(s) ==
    /\ count' = [count EXCEPT ![s] = IF @ > 0 THEN @ - 1 ELSE 0]
    /\ idle' = [idle EXCEPT ![s] = FALSE]

\* A detach that gives up no attachment of its own.
Overdrawn(s) == overdrawn' = [overdrawn EXCEPT ![s] = IF count[s] > 0 THEN @ + 1 ELSE @]

Enter(c, phase) == stream' = [stream EXCEPT ![c].phase = phase]

Attach(c, s) ==
    /\ stream[c].phase = "found" /\ Streaming(c, s)
    /\ Attached(s)
    /\ Enter(c, "attached")
    /\ UNCHANGED <<sessions, life, client, row, calls, reaper, cli, held, overdrawn>>

\* When the reply cannot be written the handler returns without detaching.
Acknowledge(c) ==
    /\ stream[c].phase = "attached"
    /\ \/ /\ cli[c] = "waiting"
          /\ cli' = [cli EXCEPT ![c] = "open"]
          /\ Enter(c, "replaying")
       \/ /\ cli[c] = "closed"
          /\ Enter(c, "failed")
          /\ UNCHANGED cli
    /\ UNCHANGED <<sessions, life, client, count, idle, row, calls, reaper, held, overdrawn>>

\* Mutant of Replay: a failed write returns without detaching.
ReplayLeaks(c) ==
    /\ stream[c].phase = "replaying"
    /\ Enter(c, "streaming") \/ (cli[c] = "closed" /\ Enter(c, "ended"))
    /\ UNCHANGED <<sessions, life, client, count, idle, row, calls, reaper, cli, held, overdrawn>>

\* The buffered output, if there is any, then the subscription.
Replay(c) ==
    /\ stream[c].phase = "replaying"
    /\ Enter(c, "streaming") \/ (cli[c] = "closed" /\ Enter(c, "detaching"))
    /\ UNCHANGED <<sessions, life, client, count, idle, row, calls, reaper, cli, held, overdrawn>>

\* Mutant of Forward: a failed write is ignored.
ForwardIgnoresFailure(c) ==
    /\ stream[c].phase = "streaming" /\ stream[c].due
    /\ stream' = [stream EXCEPT ![c].due = FALSE]
    /\ UNCHANGED <<sessions, life, client, count, idle, row, calls, reaper, cli, held, overdrawn>>

\* A handler learns that its client is gone from a failed write, and from nothing
\* else: its own Session holds the sender of the channel it receives from, so
\* the channel is never closed under it.
Forward(c) ==
    /\ stream[c].phase = "streaming" /\ stream[c].due
    /\ stream' = [stream EXCEPT ![c].due = FALSE,
                                ![c].phase = IF cli[c] = "closed" THEN "detaching" ELSE @]
    /\ UNCHANGED <<sessions, life, client, count, idle, row, calls, reaper, cli, held, overdrawn>>

Detach(c, s) ==
    /\ stream[c].phase = "detaching" /\ Streaming(c, s)
    /\ Detached(s)
    /\ Enter(c, "ended")
    /\ UNCHANGED <<sessions, life, client, row, calls, reaper, cli, held, overdrawn>>

\* The remote shell writes something: publish_output, for as long as someone still
\* holds the Session.
Output(s) ==
    /\ client[s]
    /\ life[s] = "abandoned" =>
         \E c \in Clients : Streaming(c, s) /\ stream[c].phase \notin {"none", "ended", "failed"}
    /\ idle' = [idle EXCEPT ![s] = FALSE]
    /\ stream' = [c \in Clients |->
                    IF stream[c].phase = "streaming" /\ Streaming(c, s)
                    THEN [stream[c] EXCEPT !.due = TRUE] ELSE stream[c]]
    /\ UNCHANGED <<sessions, life, client, count, row, calls, reaper, cli, held, overdrawn>>

-----------------------------------------------------------------------------
(* Command-line processes. *)

\* A command first asks for the client count; if that is not zero it uses a
\* channel of its own and never attaches.
Look(c, s) ==
    /\ c \in Commands /\ cli[c] = "off" /\ s \in sessions /\ count[s] = 0
    /\ cli' = [cli EXCEPT ![c] = "looked"]
    /\ stream' = [stream EXCEPT ![c].of = {s}]
    /\ UNCHANGED <<sessions, life, client, count, idle, row, calls, reaper, held, overdrawn>>

\* AttachSession, and the handler finds the session in the map.
Connect(c, s) ==
    /\ s \in sessions
    /\ \/ c \in Terminals /\ cli[c] = "off"
       \/ c \in Commands /\ cli[c] = "looked" /\ Streaming(c, s)
    /\ cli' = [cli EXCEPT ![c] = "waiting"]
    /\ stream' = [stream EXCEPT ![c] = [phase |-> "found", of |-> {s}, due |-> FALSE]]
    /\ UNCHANGED <<sessions, life, client, count, idle, row, calls, reaper, held, overdrawn>>

\* run_command_with_handoff, once the output pauses: DetachSession, and the
\* process exits, which closes its stream.
HandOff(c, s) ==
    /\ c \in Commands /\ cli[c] = "open" /\ Streaming(c, s)
    /\ IF s \in sessions THEN Detached(s) /\ Overdrawn(s)
                        ELSE UNCHANGED <<count, idle, overdrawn>>
    /\ cli' = [cli EXCEPT ![c] = "closed"]
    /\ UNCHANGED <<sessions, life, client, row, calls, reaper, stream, held>>

\* Ctrl+]: the input loop ends and the process waits for its output thread.
Leave(c) ==
    /\ c \in Terminals /\ cli[c] = "open"
    /\ cli' = [cli EXCEPT ![c] = "leaving"]
    /\ UNCHANGED <<sessions, life, client, count, idle, row, calls, reaper, stream, held, overdrawn>>

\* The output thread reads the end of the stream.
StreamCloses(c) ==
    /\ cli[c] \in {"waiting", "open", "leaving"} /\ stream[c].phase = "ended"
    /\ cli' = [cli EXCEPT ![c] = "closed"]
    /\ UNCHANGED <<sessions, life, client, count, idle, row, calls, reaper, stream, held, overdrawn>>

\* The process is killed, or its terminal window closed.
Quit(c) ==
    /\ cli[c] \in {"waiting", "open", "leaving"}
    /\ cli' = [cli EXCEPT ![c] = "closed"]
    /\ UNCHANGED <<sessions, life, client, count, idle, row, calls, reaper, stream, held, overdrawn>>

-----------------------------------------------------------------------------
(* session_attach and session_detach, the calls of windows and agents and     *)
(* DetachSession: anyone may make any number of either, and nobody keeps      *)
(* track of whose they were.                                                  *)

CallAttach(s) ==
    /\ s \in sessions /\ held[s] < MaxCalls
    /\ Attached(s)
    /\ held' = [held EXCEPT ![s] = @ + 1]
    /\ UNCHANGED <<sessions, life, client, row, calls, reaper, stream, cli, overdrawn>>

CallDetach(s) ==
    /\ s \in sessions
    /\ Detached(s)
    /\ \/ held[s] > 0 /\ held' = [held EXCEPT ![s] = @ - 1] /\ UNCHANGED overdrawn
       \/ held[s] = 0 /\ overdrawn[s] < MaxCalls /\ Overdrawn(s) /\ UNCHANGED held
    /\ UNCHANGED <<sessions, life, client, row, calls, reaper, stream, cli>>

-----------------------------------------------------------------------------
Handler(c) ==
    \/ Acknowledge(c) \/ Replay(c) \/ Forward(c)
    \/ \E s \in Sessions : Attach(c, s) \/ Detach(c, s)

Next ==
    \/ \E s \in Sessions :
         \/ BeginCreate(s) \/ FinishCreate(s)
         \/ Kill(s) \/ Cleanup(s) \/ Disconnect(s)
         \/ IdleElapses(s) \/ ReapCheck(s) \/ ReapKill(s)
         \/ Output(s) \/ CallAttach(s) \/ CallDetach(s)
    \/ \E a \in Agents : AgentKills(a) \/ AgentKilled(a) \/ AgentDropped(a)
    \/ \E x \in Callers : \/ BeginDelete(x) \/ FinishDelete(x)
                          \/ \E s \in Sessions : DeleteKill(x, s)
    \/ ReapStart \/ Exit
    \/ \E c \in Clients :
         \/ Acknowledge(c) \/ Replay(c) \/ Forward(c)
         \/ Leave(c) \/ StreamCloses(c) \/ Quit(c)
         \/ \E s \in Sessions : Attach(c, s) \/ Detach(c, s)
                              \/ Look(c, s) \/ Connect(c, s) \/ HandOff(c, s)

Spec == Init /\ [][Next]_vars

\* Runtime tasks and handler threads run when they can, an agent's call for as long
\* as it is not dropped (AgentDropped, which nothing prevents), and every network
\* step of a teardown has a timeout.  Users, agents and remote shells owe nothing.
FairSpec ==
    /\ Spec
    /\ \A s \in Sessions : WF_vars(Cleanup(s)) /\ WF_vars(Disconnect(s))
    /\ \A c \in Clients : WF_vars(Handler(c)) /\ WF_vars(StreamCloses(c))

-----------------------------------------------------------------------------
\* The client count counts clients: for an open session, the handlers that stream
\* from it, the attachments made by calls, and the handlers that could not write
\* their first reply and returned without detaching, which is the one way a count
\* stays raised.  It falls short of them by no more than was taken off without an
\* attachment: by a detaching call that none went before, or by a hand-off, since
\* DetachSession and the end of the command's stream take the same client away.
Holding(c, s) ==
    Streaming(c, s) /\ stream[c].phase \in {"attached", "replaying", "streaming", "detaching"}
Leaked(c, s) == Streaming(c, s) /\ stream[c].phase = "failed"

CountExact ==
    \A s \in sessions :
      LET attachments == Cardinality({c \in Clients : Holding(c, s) \/ Leaked(c, s)}) + held[s]
      IN  count[s] \in attachments - overdrawn[s] .. attachments

\* A session that is torn down has no SSH client left and is not in the map:
\* nothing that still holds it can run a command on the server.
GoneIsRetired ==
    \A s \in Sessions :
      /\ s \in sessions <=> life[s] = "live"
      /\ life[s] = "gone" => ~client[s]

\* A handler that fails to write releases its attachment and ends.
BrokenStreamEnds ==
    \A c \in Clients :
      (stream[c].phase = "streaming" /\ stream[c].due /\ cli[c] = "closed")
        ~> stream[c].phase = "ended"

\* Every session is torn down at most once and for good, whoever kills it and
\* however many do; and to the end, unless the call of an agent that tears it down
\* is dropped.
StageOf == [absent |-> "absent", connecting |-> "absent", live |-> "open",
            cleaning |-> "closing", disconnecting |-> "closing",
            abandoned |-> "abandoned", gone |-> "closed"]
Asked(s) == \E a \in Agents : s \in calls[a].victims
Stage == [s \in Sessions |->
            IF StageOf[life[s]] = "closing" /\ Asked(s) THEN "asked" ELSE StageOf[life[s]]]
Teardown == INSTANCE SessionTeardown WITH life <- Stage
TeardownSpec == Teardown!Spec

\* "Press Ctrl+] to detach": the command line returns to its caller.
LeavingReturns ==
    \A c \in Terminals : cli[c] = "leaving" ~> cli[c] = "closed"
=============================================================================
