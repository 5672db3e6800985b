--------------------------- MODULE SessionTeardown ---------------------------
(***************************************************************************)
(* What session management promises about the life of a session: it is     *)
(* opened once, torn down at most once, never comes back, and a teardown   *)
(* that was begun is finished, unless it was an agent that asked for it    *)
(* and the agent's connection closed first.  SessionLifecycle and          *)
(* SessionServices implement this from their two sides.                    *)
(***************************************************************************)
CONSTANT Sessions

VARIABLE life

\* A session in an agent's call is "asked" to close; what a dropped call leaves
\* half torn down is "abandoned".
Stages == {"absent", "open", "closing", "asked", "abandoned", "closed"}

Init == life = [s \in Sessions |-> "absent"]

\* One session at a time, or all of them at once (kill_all).  A session that was
\* never opened is closed when its connection fails, and any session when the
\* application exits.
After == [absent    |-> {"absent", "open", "closed"},
          open      |-> {"open", "closing", "asked", "closed"},
          closing   |-> {"closing", "closed"},
          asked     |-> {"asked", "abandoned", "closed"},
          abandoned |-> {"abandoned", "closed"},
          closed    |-> {"closed"}]

Next == /\ life' \in [Sessions -> Stages]
        /\ \A s \in Sessions : life'[s] \in After[life[s]]

Finished ==
    \A s \in Sessions :
      /\ life[s] = "closing" ~> life[s] = "closed"
      /\ life[s] = "asked" ~> life[s] \in {"closed", "abandoned"}

SafetySpec == Init /\ [][Next]_life

Spec == SafetySpec /\ Finished
=============================================================================
