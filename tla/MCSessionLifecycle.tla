-------------------------- MODULE MCSessionLifecycle --------------------------
(* Small instances of SessionLifecycle for TLC. *)
EXTENDS SessionLifecycle

\* One session with every kind of client and calls that attach and detach; or one
\* with a terminal, and agents and windows that kill and delete; or several sessions
\* without clients.  Creating a session, a call and starting a command are never
\* obligations, so leaving some of them out loses no liveness.
OneSession == \A s \in Sessions \ {CHOOSE x \in Sessions : TRUE} : life[s] = "absent"
NoCalls == \A x \in Callers : calls[x].task = "none"
NoAttachments == \A s \in Sessions : held[s] = 0 /\ overdrawn[s] = 0

MCScenarios ==
    \/ OneSession /\ NoCalls
    \/ OneSession /\ NoAttachments /\ \A c \in Commands : cli[c] = "off"
    \/ NoAttachments /\ \A c \in Clients : cli[c] = "off"
=============================================================================
