--------------------------- MODULE SessionServices ---------------------------
(***************************************************************************)
(* What a teardown stops: SessionManager::run_lifecycle_cleanup and the    *)
(* two registries it empties, the tunnels of tunnel/manager.rs and the     *)
(* recordings of logging/session_logger.rs.  Starting a tunnel or a        *)
(* recording takes several awaits between finding the session and          *)
(* registering the result; a teardown looks at the registries once.        *)
(*                                                                         *)
(* SessionLifecycle has the kill paths; here a session is simply killed,   *)
(* by somebody who may be an agent whose call is dropped.                  *)
(* A member of Tunnels or Recordings is one call that starts one, and the  *)
(* id the call makes up.                                                   *)
(***************************************************************************)
EXTENDS Integers, FiniteSets

CONSTANTS Sessions, Tunnels, Recordings,
          TunnelOf,    \* the session each tunnel is started for
          RecordingOf  \* the session each recording is started for

ASSUME ServicesAssumption ==
    /\ TunnelOf \in [Tunnels -> Sessions]
    /\ RecordingOf \in [Recordings -> Sessions]
    /\ Tunnels \cap Recordings = {}

VARIABLES life,       \* how far each session's teardown has come
          tunnel,     \* how far each tunnel has come
          recording,  \* how far each recording has come
          open,       \* recordings whose database row has no ended_at
          early       \* history: tunnels and recordings registered before the kill

vars == <<life, tunnel, recording, open, early>>

Lives == {"absent", "live", "tunnels", "finishing", "recordings", "disconnect", "gone",
          "abandoned"}  \* the teardown went away with the agent's call it ran in
TunnelStages == {"new", "called", "starting", "ready", "failed", "registered",
                 "stopping",  \* taken from the registry by the teardown
                 "closing",   \* taken from the registry by its user
                 "stopped"}
RecordingStages == {"new", "called", "checked", "added", "refused", "active", "ended"}

TypeOK ==
    /\ life \in [Sessions -> Lives]
    /\ tunnel \in [Tunnels -> TunnelStages]
    /\ recording \in [Recordings -> RecordingStages]
    /\ open \in SUBSET Recordings
    /\ early \in SUBSET (Tunnels \cup Recordings)

Init ==
    /\ life = [s \in Sessions |-> "absent"]
    /\ tunnel = [t \in Tunnels |-> "new"]
    /\ recording = [r \in Recordings |-> "new"]
    /\ open = {} /\ early = {}

Of(s) == {t \in Tunnels : TunnelOf[t] = s}
RecordingsOf(s) == {r \in Recordings : RecordingOf[r] = s}
InMap(s) == life[s] = "live"

-----------------------------------------------------------------------------
(* Sessions. *)

Moves(s, from, to) ==
    /\ life[s] = from
    /\ life' = [life EXCEPT ![s] = to]

Open(s) ==
    /\ Moves(s, "absent", "live")
    /\ UNCHANGED <<tunnel, recording, open, early>>

Kill(s) ==
    /\ Moves(s, "live", "tunnels")
    /\ UNCHANGED <<tunnel, recording, open, early>>

\* Mutant of KillTunnels: only one of the session's tunnels is taken.
KillTunnelsFirst(s) ==
    /\ Moves(s, "tunnels", "finishing")
    /\ \/ (\A t \in Of(s) : tunnel[t] # "registered") /\ UNCHANGED tunnel
       \/ \E t \in Of(s) : tunnel[t] = "registered" /\ tunnel' = [tunnel EXCEPT ![t] = "stopping"]
    /\ UNCHANGED <<recording, open, early>>

\* stop_all_for_session takes the handles of the session under one lock.
KillTunnels(s) ==
    /\ Moves(s, "tunnels", "finishing")
    /\ tunnel' = [t \in Tunnels |-> IF t \in Of(s) /\ tunnel[t] = "registered"
                                    THEN "stopping" ELSE tunnel[t]]
    /\ UNCHANGED <<recording, open, early>>

\* finish: the worker ends, within four seconds or by being aborted.
Finish(t) ==
    /\ tunnel[t] \in {"stopping", "closing"}
    /\ tunnel' = [tunnel EXCEPT ![t] = "stopped"]
    /\ UNCHANGED <<life, recording, open, early>>

TunnelsFinished(s) ==
    /\ Moves(s, "finishing", "recordings")
    /\ \A t \in Of(s) : tunnel[t] # "stopping"
    /\ UNCHANGED <<tunnel, recording, open, early>>

\* stop_for_session and stop_recording end what the registry holds, under its
\* lock; the update of the row may fail.
Ends(R) ==
    /\ recording' = [r \in Recordings |-> IF r \in R THEN "ended" ELSE recording[r]]
    /\ \E failed \in SUBSET R : open' = open \ (R \ failed)

Active(s) == {r \in RecordingsOf(s) : recording[r] = "active"}

StopRecordings(s) ==
    /\ Moves(s, "recordings", "disconnect")
    /\ Ends(Active(s))
    /\ UNCHANGED <<tunnel, early>>

Disconnect(s) ==
    /\ Moves(s, "disconnect", "gone")
    /\ UNCHANGED <<tunnel, recording, open, early>>

\* An agent's call is dropped with its connection, at any await of the teardown.
Abandon(s) ==
    /\ \E from \in {"tunnels", "finishing", "recordings", "disconnect"} : Moves(s, from, "abandoned")
    /\ UNCHANGED <<tunnel, recording, open, early>>

-----------------------------------------------------------------------------
(* Tunnels. *)

TunnelMoves(t, from, to) ==
    /\ tunnel[t] = from
    /\ tunnel' = [tunnel EXCEPT ![t] = to]

\* tunnel_start finds the session in the map and takes its SSH client.
TunnelCall(t) ==
    /\ InMap(TunnelOf[t])
    /\ TunnelMoves(t, "new", "called")
    /\ UNCHANGED <<life, recording, open, early>>

\* create_tunnel: one at a time, on a connection that is still up.
TunnelBegin(t) ==
    /\ \A u \in Tunnels : tunnel[u] \notin {"starting", "ready"}
    /\ life[TunnelOf[t]] # "gone"
    /\ TunnelMoves(t, "called", "starting")
    /\ UNCHANGED <<life, recording, open, early>>

\* The listener or the remote forward exists.
TunnelReady(t) ==
    /\ TunnelMoves(t, "starting", "ready")
    /\ UNCHANGED <<life, recording, open, early>>

\* The connection is down, a port is taken, or nothing answers in twenty seconds.
TunnelFails(t) ==
    /\ TunnelMoves(t, "called", "failed") \/ TunnelMoves(t, "starting", "failed")
    /\ UNCHANGED <<life, recording, open, early>>

\* The session is not looked at again.
TunnelRegister(t) ==
    /\ TunnelMoves(t, "ready", "registered")
    /\ early' = IF InMap(TunnelOf[t]) THEN early \cup {t} ELSE early
    /\ UNCHANGED <<life, recording, open>>

StopTunnel(t) ==
    /\ TunnelMoves(t, "registered", "closing")
    /\ UNCHANGED <<life, recording, open, early>>

\* tunnel_stop_all_for_session
StopSessionTunnels(s) ==
    /\ \E t \in Of(s) : tunnel[t] = "registered"
    /\ tunnel' = [t \in Tunnels |-> IF t \in Of(s) /\ tunnel[t] = "registered"
                                    THEN "closing" ELSE tunnel[t]]
    /\ UNCHANGED <<life, recording, open, early>>

-----------------------------------------------------------------------------
(* Recordings. *)

RecordingMoves(r, from, to) ==
    /\ recording[r] = from
    /\ recording' = [recording EXCEPT ![r] = to]

RecordingCall(r) ==
    /\ InMap(RecordingOf[r])
    /\ RecordingMoves(r, "new", "called")
    /\ UNCHANGED <<life, tunnel, open, early>>

\* "Check if already recording", under a lock that is given up again.
RecordingCheck(r) ==
    /\ RecordingMoves(r, "called", IF Active(RecordingOf[r]) = {} THEN "checked" ELSE "refused")
    /\ UNCHANGED <<life, tunnel, open, early>>

\* The directory and the row are made, or could not be.
RecordingAdd(r) ==
    /\ \/ RecordingMoves(r, "checked", "added") /\ open' = open \cup {r}
       \/ RecordingMoves(r, "checked", "refused") /\ UNCHANGED open
    /\ UNCHANGED <<life, tunnel, early>>

RecordingInsert(r) ==
    /\ RecordingMoves(r, "added", "active")
    /\ early' = IF InMap(RecordingOf[r]) THEN early \cup {r} ELSE early
    /\ UNCHANGED <<life, tunnel, open>>

StopRecording(r) ==
    /\ recording[r] = "active"
    /\ Ends({r})
    /\ UNCHANGED <<life, tunnel, early>>

-----------------------------------------------------------------------------
Next ==
    \/ \E s \in Sessions :
         \/ Open(s) \/ Kill(s) \/ KillTunnels(s) \/ TunnelsFinished(s)
         \/ StopRecordings(s) \/ Disconnect(s) \/ Abandon(s) \/ StopSessionTunnels(s)
    \/ \E t \in Tunnels :
         \/ TunnelCall(t) \/ TunnelBegin(t) \/ TunnelReady(t) \/ TunnelFails(t)
         \/ TunnelRegister(t) \/ StopTunnel(t) \/ Finish(t)
    \/ \E r \in Recordings :
         \/ RecordingCall(r) \/ RecordingCheck(r) \/ RecordingAdd(r)
         \/ RecordingInsert(r) \/ StopRecording(r)

Spec == Init /\ [][Next]_vars

-----------------------------------------------------------------------------
Past(s, stages) == life[s] \in stages

\* A tunnel registered while the session was in the map is not registered any
\* more once the teardown has emptied the registry of tunnels.
TunnelsTaken ==
    \A t \in Tunnels \cap early :
      Past(TunnelOf[t], {"finishing", "recordings", "disconnect", "gone"})
        => tunnel[t] \in {"stopping", "closing", "stopped"}

\* A session is not disconnected under a tunnel that the teardown is stopping.
TunnelsAwaited ==
    \A t \in Tunnels :
      Past(TunnelOf[t], {"recordings", "disconnect", "gone"}) => tunnel[t] # "stopping"

\* A recording registered while the session was in the map has ended before the
\* session is disconnected.
RecordingsEnded ==
    \A r \in Recordings \cap early :
      Past(RecordingOf[r], {"disconnect", "gone"}) => recording[r] = "ended"

\* A teardown stops what it finds, in the order run_lifecycle_cleanup states.
TeardownStopsServices == TunnelsTaken /\ TunnelsAwaited /\ RecordingsEnded

\* What SessionTeardown sees of it. Who asked for a kill is not told apart here, so every
\* teardown is one that an agent may have asked for.
StageOf == [absent |-> "absent", live |-> "open", tunnels |-> "asked",
            finishing |-> "asked", recordings |-> "asked",
            disconnect |-> "asked", gone |-> "closed", abandoned |-> "abandoned"]
Stage == [s \in Sessions |-> StageOf[life[s]]]
Teardown == INSTANCE SessionTeardown WITH life <- Stage

\* "session cleanup also tears down associated tunnels and recordings": nothing
\* is registered for a session that is gone.
GoneHasNoServices ==
    /\ \A t \in Tunnels : life[TunnelOf[t]] = "gone" => tunnel[t] # "registered"
    /\ \A r \in Recordings : life[RecordingOf[r]] = "gone" => recording[r] # "active"
=============================================================================
