-------------------------- MODULE MCSessionServices --------------------------
(* Small instances of SessionServices for TLC. *)
EXTENDS SessionServices

CONSTANTS s1, s2, t1, t2, t3, r1, r2

\* Two tunnels and one recording for s1, one of each for s2.
MCTunnelOf == [t \in Tunnels |-> IF t = t3 THEN s2 ELSE s1]
MCRecordingOf == [r \in Recordings |-> IF r = r2 THEN s2 ELSE s1]
=============================================================================
