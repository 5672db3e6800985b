------------------------------ MODULE Terminals ------------------------------
(***************************************************************************)
(* The way of a session's output to the terminals that show it.            *)
(* A reader keeps recent output for a replay and broadcasts it; one bridge *)
(* per session emits it to every window; a terminal that appears asks for  *)
(* the replay. Sessions of this process (a local shell, an SSH session)    *)
(* are bridged from the broadcast channel, sessions of the daemon from a   *)
(* streaming attach over IPC, which is also what the command line uses.    *)
(*                                                                         *)
(* One session, whose output is numbered. What a terminal shows is the set *)
(* of chunks written to it: order and repetition are not told apart.       *)
(***************************************************************************)
EXTENDS Integers, FiniteSets

CONSTANTS Windows,    \* windows of the application that can show the session
          MaxOutput,  \* bound: chunks of output
          ReplayLimit, \* OUTPUT_REPLAY_LIMIT_BYTES, in chunks
          Capacity,   \* of the broadcast channel
          MaxAttaches \* bound: terminals opened, command lines attached, streams broken

ASSUME TermAssumption ==
    /\ MaxOutput \in Nat /\ ReplayLimit \in Nat /\ Capacity \in Nat /\ MaxAttaches \in Nat
    /\ "cli" \notin Windows

Chunks == 1..MaxOutput
Viewers == Windows \cup {"cli"}
Homes == {"shell", "app", "daemon"}
Streams == {"cli", "forwarder"}

VARIABLES home,    \* where the session lives: a local shell, this process, the daemon
          pushed,  \* output in the replay buffer so far
          sent,    \* output broadcast so far
          bridge,  \* the bridge of this process: started, last chunk received, batch
          streams, \* streaming attaches: stage, replay still to write, last chunk received
          terminal, \* per window: how far the Terminal component has come
          shown,   \* per viewer: the chunks written to it
          skipped, \* history: chunks a lagging receiver lost, or that came before the bridge
          attaches \* bound

termVars == <<home, pushed, sent, bridge, streams, terminal, shown, skipped,
              attaches>>

StreamStages == {"off", "attached", "replaying", "live"}
TerminalStages == {"closed", "listening", "replayed", "attached"}

TermTypeOK ==
    /\ home \in Homes
    /\ pushed \in 0..MaxOutput /\ sent \in 0..MaxOutput
    /\ sent <= pushed /\ pushed <= sent + 1
    /\ bridge \in [on : BOOLEAN, at : 0..MaxOutput, batch : SUBSET Chunks]
    /\ streams \in [Streams ->
         [stage : StreamStages, todo : SUBSET Chunks, at : 0..MaxOutput]]
    /\ terminal \in [Windows -> TerminalStages]
    /\ shown \in [Viewers -> SUBSET Chunks]
    /\ skipped \subseteq Chunks
    /\ attaches \in 0..MaxAttaches

NoStream == [stage |-> "off", todo |-> {}, at |-> 0]

\* A new session, listed by its manager: its reader runs, and no bridge is subscribed yet.
TermInit ==
    /\ home \in Homes
    /\ pushed = 0 /\ sent = 0
    /\ bridge = [on |-> FALSE, at |-> 0, batch |-> {}]
    /\ streams = [s \in Streams |-> NoStream]
    /\ terminal = [w \in Windows |-> "closed"]
    /\ shown = [v \in Viewers |-> {}]
    /\ skipped = {} /\ attaches = 0

-----------------------------------------------------------------------------
(* The session. *)

\* Mutant of PushOutput: the next output does not wait for the last to be sent.
PushOutputAhead ==
    /\ pushed < MaxOutput
    /\ pushed' = pushed + 1
    /\ UNCHANGED <<home, sent, bridge, streams, terminal, shown, skipped, attaches>>

\* publish_output: into the replay buffer first, which drops the oldest output,
PushOutput ==
    /\ sent = pushed /\ pushed < MaxOutput
    /\ pushed' = pushed + 1
    /\ UNCHANGED <<home, sent, bridge, streams, terminal, shown, skipped, attaches>>

\* then to whoever is subscribed.
SendOutput ==
    /\ sent < pushed
    /\ sent' = pushed
    /\ UNCHANGED <<home, pushed, bridge, streams, terminal, shown, skipped, attaches>>

Replay == {c \in Chunks : c <= pushed /\ c > pushed - ReplayLimit}

\* A receiver that fell behind by more than the channel holds goes on with the oldest
\* chunk there is; the others are lost to it.
Lags(at) == sent - at > Capacity
Lost(at) == (at + 1)..(sent - Capacity)

-----------------------------------------------------------------------------
(* Terminals in windows, and the bridge that writes to all of them. *)

Opened == attaches < MaxAttaches /\ attaches' = attaches + 1
Listening == {w \in Windows : terminal[w] # "closed"}

\* The terminal registers for the events before it attaches.
Listen(w) ==
    /\ terminal[w] = "closed" /\ Opened
    /\ terminal' = [terminal EXCEPT ![w] = "listening"]
    /\ UNCHANGED <<home, pushed, sent, bridge, streams, shown, skipped>>

\* session_attach and local_shell_attach: the replay goes to this window only.
AttachWindow(w) ==
    /\ terminal[w] = "listening" /\ home # "daemon"
    /\ terminal' = [terminal EXCEPT ![w] = "replayed"]
    /\ shown' = [shown EXCEPT ![w] = @ \cup Replay]
    /\ UNCHANGED <<home, pushed, sent, bridge, streams, skipped, attaches>>

\* What came between a terminal's replay and the subscription never gets to that terminal.
Between ==
    {c \in Chunks : /\ c <= sent
                    /\ \E w \in Windows : terminal[w] = "replayed" /\ \A d \in shown[w] : d < c}

\* try_start_output_forwarder, claim_output_bridge: once for the life of the session.
SubscribeBridge ==
    IF bridge.on THEN UNCHANGED <<bridge, skipped>>
    ELSE /\ bridge' = [on |-> TRUE, at |-> sent, batch |-> {}]
         /\ skipped' = skipped \cup Between

\* Mutant of EnsureBridge: every terminal that attaches subscribes the bridge anew.
EnsureBridgeAnew(w) ==
    /\ terminal[w] = "replayed"
    /\ terminal' = [terminal EXCEPT ![w] = "attached"]
    /\ bridge' = [on |-> TRUE, at |-> sent, batch |-> {}]
    /\ UNCHANGED <<home, pushed, sent, streams, shown, skipped, attaches>>

\* The last step of an attach, if nobody started the bridge before.
EnsureBridge(w) ==
    /\ terminal[w] = "replayed"
    /\ terminal' = [terminal EXCEPT ![w] = "attached"]
    /\ SubscribeBridge
    /\ UNCHANGED <<home, pushed, sent, streams, shown, attaches>>

\* The command that created the session comes to it after the manager listed the session,
\* so a terminal may be there first. A session that an agent created has no such command.
StartBridge ==
    /\ home # "daemon" /\ ~bridge.on
    /\ SubscribeBridge
    /\ UNCHANGED <<home, pushed, sent, streams, terminal, shown, attaches>>

\* A session of the daemon: one streaming attach for all windows, started if it is not
\* running. The replay comes through it, to whoever listens when it starts.
AttachRemote(w) ==
    /\ terminal[w] = "listening" /\ home = "daemon"
    /\ terminal' = [terminal EXCEPT ![w] = "attached"]
    /\ streams' = IF streams["forwarder"].stage = "off"
                    THEN [streams EXCEPT !["forwarder"].stage = "attached"] ELSE streams
    /\ UNCHANGED <<home, pushed, sent, bridge, shown, skipped, attaches>>

\* A pane that is closed, or created again somewhere else.
CloseTerminal(w) ==
    /\ terminal[w] \in {"listening", "attached"}
    /\ terminal' = [terminal EXCEPT ![w] = "closed"]
    /\ shown' = [shown EXCEPT ![w] = {}]
    /\ UNCHANGED <<home, pushed, sent, bridge, streams, skipped, attaches>>

\* A lagged receiver must not end the bridge: it skips, and goes on.
BridgeReceive ==
    /\ bridge.on /\ bridge.at < sent
    /\ IF Lags(bridge.at)
         THEN /\ skipped' = skipped \cup Lost(bridge.at)
              /\ bridge' = [bridge EXCEPT !.at = sent - Capacity]
         ELSE /\ bridge' = [bridge EXCEPT !.at = @ + 1, !.batch = @ \cup {bridge.at + 1}]
              /\ UNCHANGED skipped
    /\ UNCHANGED <<home, pushed, sent, streams, terminal, shown, attaches>>

\* What came within the window of 12 ms is one event.
BridgeEmit ==
    /\ bridge.batch # {}
    /\ shown' = [v \in Viewers |->
                   IF v \in Listening THEN shown[v] \cup bridge.batch ELSE shown[v]]
    /\ bridge' = [bridge EXCEPT !.batch = {}]
    /\ UNCHANGED <<home, pushed, sent, streams, terminal, skipped, attaches>>

-----------------------------------------------------------------------------
(* handle_streaming_attach, for the command line and for the windows of another process. *)

StepOfStream(s, stream) ==
    /\ streams' = [streams EXCEPT ![s] = stream]
    /\ UNCHANGED <<home, pushed, sent, bridge, terminal>>

AttachCli ==
    /\ streams["cli"].stage = "off" /\ home # "shell" /\ Opened
    /\ StepOfStream("cli", [NoStream EXCEPT !.stage = "attached"])
    /\ shown' = [shown EXCEPT !["cli"] = {}]
    /\ UNCHANGED skipped

SnapshotReplay(s) ==
    /\ streams[s].stage = "attached"
    /\ StepOfStream(s, [streams[s] EXCEPT !.stage = "replaying", !.todo = Replay])
    /\ UNCHANGED <<shown, skipped, attaches>>

Readers(s) == IF s = "cli" THEN {"cli"} ELSE Listening
WriteTo(s, c) ==
    shown' = [v \in Viewers |-> IF v \in Readers(s) THEN shown[v] \cup {c} ELSE shown[v]]

WriteReplay(s) ==
    /\ streams[s].stage = "replaying"
    /\ \E c \in streams[s].todo :
         /\ \A d \in streams[s].todo : c <= d
         /\ WriteTo(s, c)
         /\ StepOfStream(s, [streams[s] EXCEPT !.todo = @ \ {c}])
    /\ UNCHANGED <<skipped, attaches>>

\* Only when the replay is out does the stream subscribe.
Subscribe(s) ==
    /\ streams[s].stage = "replaying" /\ streams[s].todo = {}
    /\ StepOfStream(s, [streams[s] EXCEPT !.stage = "live", !.at = sent])
    /\ UNCHANGED <<shown, skipped, attaches>>

StreamReceive(s) ==
    /\ streams[s].stage = "live" /\ streams[s].at < sent
    /\ IF Lags(streams[s].at)
         THEN /\ skipped' = skipped \cup Lost(streams[s].at)
              /\ StepOfStream(s, [streams[s] EXCEPT !.at = sent - Capacity])
              /\ UNCHANGED shown
         ELSE /\ WriteTo(s, streams[s].at + 1)
              /\ StepOfStream(s, [streams[s] EXCEPT !.at = @ + 1])
              /\ UNCHANGED skipped
    /\ UNCHANGED attaches

\* The reader is gone, or the connection: clear_remote_forwarder lets the next attach
\* start another one.
EndStream(s) ==
    /\ streams[s].stage # "off" /\ Opened
    /\ StepOfStream(s, NoStream)
    /\ UNCHANGED <<shown, skipped>>

TermNext ==
    \/ PushOutput \/ SendOutput \/ StartBridge \/ BridgeReceive \/ BridgeEmit \/ AttachCli
    \/ \E w \in Windows :
         Listen(w) \/ AttachWindow(w) \/ EnsureBridge(w) \/ AttachRemote(w) \/ CloseTerminal(w)
    \/ \E s \in Streams :
         SnapshotReplay(s) \/ WriteReplay(s) \/ Subscribe(s) \/ StreamReceive(s) \/ EndStream(s)

\* A stream is one thread, of which one of these steps is next.
StreamStep(s) == SnapshotReplay(s) \/ WriteReplay(s) \/ Subscribe(s) \/ StreamReceive(s)

\* The bridge is a task of the runtime, and the producer's second step is not optional.
TermFairness ==
    /\ WF_termVars(BridgeReceive) /\ WF_termVars(BridgeEmit) /\ WF_termVars(SendOutput)
    /\ \A s \in Streams : WF_termVars(StreamStep(s))

TermSpec == TermInit /\ [][TermNext]_termVars /\ TermFairness

-----------------------------------------------------------------------------
(* Properties. *)

\* A terminal of a session of this process has no hole in its output: between the first and
\* the last chunk it shows, only what a lagging bridge skipped is missing, what was sent when a
\* terminal had its replay and no bridge was subscribed, and what is still on its way.
NoHoleInOutput ==
    \A w \in Windows :
        (terminal[w] = "attached" /\ home # "daemon") =>
            \A a, b \in shown[w] : \A c \in a..b :
                c \in shown[w] \cup skipped \cup bridge.batch \/ c > bridge.at

\* The bridge outlives a lag, and the reader's last output reaches the screen, however far the
\* bridge fell behind and whenever the terminal was opened, unless it came before the bridge.
LastOutputShown ==
    \A w \in Windows :
        (terminal[w] = "attached" /\ home # "daemon" /\ sent = MaxOutput)
            ~> (terminal[w] # "attached" \/ MaxOutput \in shown[w] \cup skipped)

\* Whatever step is made, a terminal shows all output, and in the end the last.
OutputIsWhole == [][NoHoleInOutput']_termVars /\ LastOutputShown
=============================================================================
