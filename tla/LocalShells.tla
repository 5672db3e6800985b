---------------------------- MODULE LocalShells ----------------------------
(***************************************************************************)
(* Local shells and coding agents (local_shell/manager.rs and session.rs,  *)
(* coding_agent/launcher.rs).  A session is a process on a pseudo          *)
(* terminal, with a thread that polls the process and one that reads its   *)
(* output; the manager keeps the sessions in a map whose lock a kill holds *)
(* until the process is gone, or two seconds have passed.                  *)
(***************************************************************************)
EXTENDS Integers, Sequences

CONSTANTS LocalIds,  \* sessions, as many as are created
          Killers,   \* commands that kill: one session, or all of them
          Launches,  \* the agent launches a user asks for
          Installed  \* programs that are found on the search path

NoOne == "nobody"

ASSUME ShellsAssumption == NoOne \notin Killers \cup LocalIds
UserShell == "shell"  \* what starts without a plan: a shell of the user

VARIABLES process,  \* of each session: none yet, alive, exited, or reaped
          tty,      \* a process has the terminal open
          child,    \* the session holds the process, so that it can be waited for
          shellState,    \* LocalShellState
          down,     \* the flag that tells the reader to end
          monitor, reader, \* the threads
          unlisted, \* created, and not in the manager's map yet
          mapped,   \* the manager's map
          holder,   \* who holds its lock
          killer,   \* what each kill is at
          started   \* what each session runs

shellVars == <<process, tty, child, shellState, down, monitor, reader, unlisted, mapped, holder,
               killer, started>>
threads == <<monitor, reader>>
ofProcess == <<process, tty>>
inMap == <<unlisted, mapped>>

NoKill == [stage |-> "idle", ended |-> {}, failed |-> {}]

ShellTypeOK ==
    /\ \A s \in LocalIds :
         /\ process[s] \in {"none", "alive", "exited", "reaped"}
         /\ monitor[s] \in {"off", "polling", "marking", "ended"}
         /\ reader[s] \in {"off", "reading", "marking", "ended"}
         /\ child[s] => process[s] \in {"alive", "exited"}
         /\ process[s] = "none" => ~tty[s] /\ s \notin mapped \cup unlisted
    /\ unlisted \cap mapped = {}
    /\ holder \in Killers \cup {NoOne}
    /\ \A k \in Killers : killer[k].stage \in {"locked", "flag", "state", "kill", "close", "wait",
                                               "stopped"} => holder = k

ShellsInit ==
    /\ process = [s \in LocalIds |-> "none"] /\ tty = [s \in LocalIds |-> FALSE]
    /\ child = [s \in LocalIds |-> FALSE] /\ shellState = [s \in LocalIds |-> "starting"]
    /\ down = [s \in LocalIds |-> FALSE]
    /\ monitor = [s \in LocalIds |-> "off"] /\ reader = [s \in LocalIds |-> "off"]
    /\ unlisted = {} /\ mapped = {} /\ holder = NoOne /\ killer = [k \in Killers |-> NoKill]
    /\ started = [s \in LocalIds |-> NoOne]

-----------------------------------------------------------------------------
(* Creation. *)

\* AGENTS: the programs an agent goes by, and what it can be asked for.
Agents ==
    LET any == {"default", "readOnly", "autoEdit"}
    IN  [claude   |-> [programs |-> <<"claude">>, starts |-> {"new", "continue", "resume"}, access |-> any],
         codex    |-> [programs |-> <<"codex">>, starts |-> {"new", "continue", "resume"}, access |-> any],
         opencode |-> [programs |-> <<"opencode">>, starts |-> {"new", "continue"}, access |-> any],
         pi       |-> [programs |-> <<"pi", "pi-agent">>, starts |-> {"new", "continue", "resume"},
                       access |-> any \ {"autoEdit"}]]

\* resolve_executable: the first of an agent's programs that is found.
ResolveExecutable(agent) ==
    LET there == SelectSeq(Agents[agent].programs, LAMBDA p : p \in Installed)
    IN  IF there = <<>> THEN NoOne ELSE Head(there)

\* build_args: these two ask which conversation to resume before they take a prompt, and the
\* others have no argument for one of the modes.
HasArguments(l) ==
    /\ ~(l.agent \in {"claude", "codex"} /\ l.start = "resume" /\ l.prompt # "none")
    /\ ~(l.agent = "opencode" /\ l.start = "resume") /\ ~(l.agent = "pi" /\ l.access = "autoEdit")

\* build_launch_plan.
Planned(l) ==
    /\ l.agent \in DOMAIN Agents
    /\ l.start \in Agents[l.agent].starts /\ l.access \in Agents[l.agent].access
    /\ l.prompt # "too long" /\ l.workspace
    /\ ResolveExecutable(l.agent) # NoOne /\ HasArguments(l)

\* spawn: the process runs, and both threads, before anybody knows of the session.
SpawnProcess(s, what) ==
    /\ process[s] = "none"
    /\ process' = [process EXCEPT ![s] = "alive"] /\ tty' = [tty EXCEPT ![s] = TRUE]
    /\ child' = [child EXCEPT ![s] = TRUE] /\ shellState' = [shellState EXCEPT ![s] = "running"]
    /\ monitor' = [monitor EXCEPT ![s] = "polling"] /\ reader' = [reader EXCEPT ![s] = "reading"]
    /\ started' = [started EXCEPT ![s] = what] /\ unlisted' = unlisted \cup {s}
    /\ UNCHANGED <<down, mapped, holder, killer>>

\* create_session and create_default_session, coding_agent_launch.
StartShell(s) == SpawnProcess(s, UserShell)
Launch(s, l) == Planned(l) /\ SpawnProcess(s, ResolveExecutable(l.agent))

\* register_session waits for the lock.
Register(s) ==
    /\ s \in unlisted /\ holder = NoOne
    /\ unlisted' = unlisted \ {s} /\ mapped' = mapped \cup {s}
    /\ UNCHANGED <<ofProcess, child, shellState, down, threads, holder, killer, started>>

-----------------------------------------------------------------------------
(* The process and the threads. *)

\* It ends by itself, or because it was killed; one it started may keep the terminal.
ProcessExits(s) ==
    /\ process[s] = "alive"
    /\ process' = [process EXCEPT ![s] = "exited"]
    /\ \E kept \in BOOLEAN : tty' = [tty EXCEPT ![s] = @ /\ kept]
    /\ UNCHANGED <<child, shellState, down, threads, inMap, holder, killer, started>>

\* The last process with the terminal closes it, even before it ends.
CloseTty(s) ==
    /\ tty[s] /\ tty' = [tty EXCEPT ![s] = FALSE]
    /\ UNCHANGED <<process, child, shellState, down, threads, inMap, holder, killer, started>>

Reap(s) ==
    /\ process' = [process EXCEPT ![s] = "reaped"] /\ child' = [child EXCEPT ![s] = FALSE]

\* start_child_monitor: one poll.
MonitorPoll(s) ==
    /\ monitor[s] = "polling"
    /\ \/ /\ ~child[s] /\ monitor' = [monitor EXCEPT ![s] = "ended"]
          /\ UNCHANGED <<process, child>>
       \/ /\ child[s] /\ process[s] = "exited" /\ Reap(s)
          /\ monitor' = [monitor EXCEPT ![s] = "marking"]
    /\ UNCHANGED <<tty, shellState, down, reader, inMap, holder, killer, started>>

Stopped(s) == shellState' = [shellState EXCEPT ![s] = IF @ = "running" THEN "stopped" ELSE @]

MonitorMark(s) ==
    /\ monitor[s] = "marking" /\ monitor' = [monitor EXCEPT ![s] = "ended"]
    /\ Stopped(s)
    /\ UNCHANGED <<ofProcess, child, down, reader, inMap, holder, killer, started>>

\* start_reader: the end of the output, or the flag, which it sees between two reads.
ReaderEnds(s) ==
    /\ reader[s] = "reading" /\ (~tty[s] \/ down[s])
    /\ reader' = [reader EXCEPT ![s] = "marking"]
    /\ UNCHANGED <<ofProcess, child, shellState, down, monitor, inMap, holder, killer, started>>

ReaderMark(s) ==
    /\ reader[s] = "marking" /\ reader' = [reader EXCEPT ![s] = "ended"]
    /\ Stopped(s)
    /\ UNCHANGED <<ofProcess, child, down, monitor, inMap, holder, killer, started>>

-----------------------------------------------------------------------------
(* kill_session and kill_all. *)

KillStep(k, stage) == killer' = [killer EXCEPT ![k].stage = stage]

TakeLock(k, stage, s, todo, all) ==
    /\ killer[k].stage = "idle" /\ holder = NoOne /\ holder' = k
    /\ killer' = [killer EXCEPT ![k] = [stage |-> stage, target |-> s, todo |-> todo, all |-> all,
                                        ended |-> {}, failed |-> {}]]

\* The session leaves the map at once.
KillLocal(k, s) ==
    /\ s \in mapped /\ TakeLock(k, "flag", s, {}, FALSE)
    /\ mapped' = mapped \ {s}
    /\ UNCHANGED <<ofProcess, child, shellState, down, threads, unlisted, started>>

KillAll(k) ==
    /\ mapped # {} /\ TakeLock(k, "locked", NoOne, mapped, TRUE)
    /\ UNCHANGED <<ofProcess, child, shellState, down, threads, inMap, started>>

NextOfAll(k) ==
    /\ killer[k].stage = "locked"
    /\ \E s \in killer[k].todo :
         killer' = [killer EXCEPT ![k].stage = "flag", ![k].target = s, ![k].todo = @ \ {s}]
    /\ UNCHANGED <<ofProcess, child, shellState, down, threads, inMap, holder, started>>

\* stop, step by step.
SetFlag(k) ==
    /\ killer[k].stage = "flag" /\ KillStep(k, "state")
    /\ down' = [down EXCEPT ![killer[k].target] = TRUE]
    /\ UNCHANGED <<ofProcess, child, shellState, threads, inMap, holder, started>>

SetStopped(k) ==
    /\ killer[k].stage = "state" /\ KillStep(k, "kill")
    /\ shellState' = [shellState EXCEPT ![killer[k].target] = "stopped"]
    /\ UNCHANGED <<ofProcess, child, down, threads, inMap, holder, started>>

\* Mutant of KillChild: the process is taken out of its slot to be killed.
KillChildTaken(k) ==
    /\ killer[k].stage = "kill" /\ KillStep(k, "wait")
    /\ child' = [child EXCEPT ![killer[k].target] = FALSE]
    /\ UNCHANGED <<ofProcess, shellState, down, threads, inMap, holder, started>>

\* The writer goes, the process gets its signal and dies when it can, the terminal is closed
\* on this side. The process stays where the monitor finds it.
KillChild(k) ==
    /\ killer[k].stage = "kill" /\ KillStep(k, "wait")
    /\ UNCHANGED <<ofProcess, child, shellState, down, threads, inMap, holder, started>>

\* One of the two waits for it, whoever is first.
SeeExit(k) ==
    /\ killer[k].stage = "wait"
    /\ LET s == killer[k].target
       IN  /\ \/ ~child[s] /\ UNCHANGED <<process, child>>
              \/ child[s] /\ process[s] = "exited" /\ Reap(s)
           /\ killer' = [killer EXCEPT ![k].stage = "stopped", ![k].ended = @ \cup {s}]
    /\ UNCHANGED <<tty, shellState, down, threads, inMap, holder, started>>

\* Two seconds are over.
StopTimesOut(k) ==
    /\ killer[k].stage = "wait" /\ child[killer[k].target]
    /\ killer' = [killer EXCEPT ![k].stage = "stopped", ![k].failed = @ \cup {killer[k].target}]
    /\ UNCHANGED <<ofProcess, child, shellState, down, threads, inMap, holder, started>>

\* Of all, the next; or the map is cleared, whatever could not be stopped, and unlocked.
FinishKill(k) ==
    /\ killer[k].stage = "stopped"
    /\ IF killer[k].all /\ killer[k].todo # {}
         THEN KillStep(k, "locked") /\ UNCHANGED <<mapped, holder>>
         ELSE /\ KillStep(k, "done") /\ holder' = NoOne
              /\ mapped' = IF killer[k].all THEN {} ELSE mapped
    /\ UNCHANGED <<ofProcess, child, shellState, down, threads, unlisted, started>>

ShellsNext ==
    \/ \E s \in LocalIds :
         \/ StartShell(s) \/ Register(s)
         \/ ProcessExits(s) \/ CloseTty(s) \/ MonitorPoll(s) \/ MonitorMark(s) \/ ReaderEnds(s) \/ ReaderMark(s)
         \/ \E l \in Launches : Launch(s, l)
         \/ \E k \in Killers : KillLocal(k, s)
    \/ \E k \in Killers :
         KillAll(k) \/ NextOfAll(k) \/ SetFlag(k) \/ SetStopped(k) \/ KillChild(k)
           \/ SeeExit(k) \/ StopTimesOut(k) \/ FinishKill(k)

ShellsSpec == ShellsInit /\ [][ShellsNext]_shellVars

-----------------------------------------------------------------------------
\* A kill that reports success left no process behind, and not in the map either.
KilledIsGone ==
    \A k \in Killers : \A s \in killer[k].ended : process[s] = "reaped" /\ ~child[s]

\* A process nobody has waited for is still held, and watched: neither the kill that gave up
\* on it nor a clearing of the map leaves it as a zombie for ever.
NobodyStaysUnwatched ==
    \A s \in LocalIds :
       process[s] \in {"alive", "exited"} => child[s] /\ monitor[s] = "polling"

\* A session whose process is gone does not stay on the list as a running one.
EndIsShown ==
    \A s \in LocalIds : (process[s] = "reaped" /\ shellState[s] = "running") => monitor[s] = "marking"

\* A running process outside the map is one that is being created, or that a kill failed to end.
NoStrayProcess ==
    \A s \in LocalIds : (process[s] = "alive" /\ s \notin mapped) =>
        \/ s \in unlisted
        \/ \E k \in Killers : s \in killer[k].failed \/ (holder = k /\ killer[k].target = s)

ShellsEndCleanly == KilledIsGone /\ NobodyStaysUnwatched /\ EndIsShown /\ NoStrayProcess
=============================================================================
