------------------------------ MODULE Endpoint ------------------------------
(***************************************************************************)
(* The socket file through which commands find the process that owns the   *)
(* sessions (ipc/socket.rs, cli daemon.rs, lib.rs), on systems where it is *)
(* a file.  The application and the daemon both try to serve it; commands  *)
(* look whether somebody does, and start a daemon if nobody does.  Nothing *)
(* is locked: each system call is a step, and the name of the file is all  *)
(* that the processes share.  To find out whether the name is free, a      *)
(* process binds it.                                                       *)
(***************************************************************************)
EXTENDS Integers

CONSTANTS Apps,      \* starts of the application
          Daemons,   \* daemon processes, started by commands
          Commands,  \* `vibeshell` commands that need a server
          MaxPolls   \* bound: how often a command polls for the server it waits for

Procs == Apps \cup Daemons \cup Commands
NoFile == "nofile"

ASSUME EndpointAssumption ==
    /\ Apps \cap Daemons = {} /\ Apps \cap Commands = {} /\ Daemons \cap Commands = {}
    /\ NoFile \notin Procs
    /\ MaxPolls \in Nat

VARIABLES socket,   \* whose listener the socket file names
          listener, \* the listener of each process
          at,       \* what each process does next
          why,      \* what it probes or binds for
          saw,      \* whether the file was there when it looked
          polls,    \* how often each command has polled
          heard,    \* history: the servers there were when a process last connected
          contended \* history: two processes were at the file at once

endVars == <<socket, listener, at, why, saw, polls, heard, contended>>

AtFile == {"connect", "look", "bind", "listen", "drop", "unlink", "recheck", "remove"}
Probes == {"start", "lost", "first", "spawn", "poll", "repoll"}
Runs == {"serve", "again"}

EndTypeOK ==
    /\ socket \in Procs \cup {NoFile}
    /\ listener \in [Procs -> {"none", "bound", "open"}]
    /\ at \in [Procs -> AtFile \cup {"off", "serving", "remote", "alone", "asking", "spawning",
                                     "waiting", "occupied", "served", "gone"}]
    /\ why \in [Procs -> Probes \cup Runs]
    /\ saw \in [Procs -> BOOLEAN] /\ contended \in BOOLEAN
    /\ polls \in [Commands -> 0..MaxPolls]
    /\ heard \in [Procs -> SUBSET Procs]

EndInit ==
    /\ socket = NoFile /\ listener = [p \in Procs |-> "none"]
    /\ at = [p \in Procs |-> "off"] /\ why = [p \in Procs |-> "start"]
    /\ saw = [p \in Procs |-> FALSE] /\ polls = [c \in Commands |-> 0]
    /\ heard = [p \in Procs |-> {}] /\ contended = FALSE

-----------------------------------------------------------------------------
(* The steps of a process at the file. *)

Opened == {p \in Procs : listener[p] = "open"}
Servers == {p \in Procs : at[p] = "serving"}
Answered == socket \in Opened  \* connect(2) succeeds, whatever the listener is for

\* Who goes to the next step for which purpose.
Turns(p, step, purpose) ==
    /\ at' = [at EXCEPT ![p] = step] /\ why' = [why EXCEPT ![p] = purpose]
Goes(p, step) == Turns(p, step, why[p])
Quietly == UNCHANGED <<saw, polls, heard>>

\* endpoint_status, by what it was asked for.
Reports(p, status) ==
    CASE why[p] = "start" -> IF status = "reachable" THEN Goes(p, "remote")
                             ELSE Turns(p, "bind", "serve")
      [] why[p] = "lost"  -> Goes(p, IF status = "reachable" THEN "remote" ELSE "alone")
      [] why[p] = "first" -> CASE status = "free" -> Turns(p, "connect", "spawn")
                               [] status = "occupied" -> Goes(p, "occupied")
                               [] OTHER -> Goes(p, "waiting")
      [] why[p] = "spawn" -> Goes(p, IF status = "free" THEN "spawning" ELSE "waiting")
      [] OTHER            -> Goes(p, CASE status = "reachable" -> "served"
                                       [] why[p] = "poll" -> "waiting"
                                       [] OTHER -> "occupied")

\* run ends without a listener: the application looks who has it, a daemon exits.
RunFails(p) ==
    IF p \in Apps THEN Turns(p, "connect", "lost") ELSE Goes(p, "gone")

Reach(p) ==
    /\ at[p] = "connect"
    /\ heard' = [heard EXCEPT ![p] = Servers]
    /\ IF Answered THEN Reports(p, "reachable") ELSE Goes(p, "look")
    /\ UNCHANGED <<socket, listener, saw, polls>>

\* Path::exists: before the bind of a probe, after the failed bind of a server.
Look(p) ==
    /\ at[p] = "look"
    /\ saw' = [saw EXCEPT ![p] = socket # NoFile]
    /\ IF why[p] \in Probes THEN Goes(p, "bind")
       ELSE IF socket # NoFile THEN Goes(p, "recheck") ELSE RunFails(p)
    /\ UNCHANGED <<socket, listener, polls, heard>>

\* bind(2) creates the file, or fails because there is one.
Bind(p) ==
    /\ at[p] = "bind"
    /\ IF socket = NoFile
       THEN socket' = p /\ listener' = [listener EXCEPT ![p] = "bound"] /\ Goes(p, "listen")
       ELSE /\ UNCHANGED <<socket, listener>>
            /\ CASE why[p] = "serve" -> Goes(p, "look")
                 [] why[p] = "again" -> RunFails(p)
                 [] OTHER -> IF saw[p] THEN Goes(p, "recheck") ELSE Reports(p, "occupied")
    /\ Quietly

\* Only after listen(2) are connections accepted.
Listen(p) ==
    /\ at[p] = "listen"
    /\ listener' = [listener EXCEPT ![p] = "open"]
    /\ Goes(p, IF why[p] \in Runs THEN "serving" ELSE "drop")
    /\ UNCHANGED socket /\ Quietly

\* A probe drops the listener it made, which removes the file of that name,
DropListener(p) ==
    /\ at[p] = "drop"
    /\ socket' = NoFile /\ listener' = [listener EXCEPT ![p] = "none"]
    /\ Goes(p, "unlink") /\ Quietly
\* and removes it once more.
UnlinkProbe(p) ==
    /\ at[p] = "unlink"
    /\ socket' = NoFile
    /\ Reports(p, "free")
    /\ UNCHANGED listener /\ Quietly

\* Mutant of Recheck: a file that was in the way is taken for stale.
RecheckNot(p) ==
    /\ at[p] = "recheck"
    /\ heard' = [heard EXCEPT ![p] = Servers]
    /\ Goes(p, "remove")
    /\ UNCHANGED <<socket, listener, saw, polls>>

\* cleanup_stale_socket_file: nobody may answer there,
Recheck(p) ==
    /\ at[p] = "recheck"
    /\ heard' = [heard EXCEPT ![p] = Servers]
    /\ IF ~Answered THEN Goes(p, "remove")
       ELSE IF why[p] \in Probes THEN Reports(p, "reachable") ELSE RunFails(p)
    /\ UNCHANGED <<socket, listener, saw, polls>>

\* then the file is removed, whosever it is by now. A server binds again, once.
RemoveStale(p) ==
    /\ at[p] = "remove"
    /\ socket' = NoFile
    /\ IF why[p] \in Probes THEN Reports(p, "free") ELSE Turns(p, "bind", "again")
    /\ UNCHANGED listener /\ Quietly

-----------------------------------------------------------------------------
(* The processes. *)

StartApp(a) ==
    /\ at[a] = "off" /\ \A b \in Apps : at[b] \in {"off", "gone"}
    /\ Turns(a, "connect", "start")
    /\ UNCHANGED <<socket, listener>> /\ Quietly

\* ensure_running: a request is sent first, which a server answers and a probe does not.
Served == socket \in Servers
Send(c) ==
    /\ at[c] = "off"
    /\ IF Served THEN Goes(c, "served") ELSE Turns(c, "connect", "first")
    /\ UNCHANGED <<socket, listener>> /\ Quietly

\* start_background_force
Spawn(c, d) ==
    /\ at[c] = "spawning" /\ at[d] = "off"
    /\ at' = [at EXCEPT ![c] = "waiting", ![d] = "bind"]
    /\ why' = [why EXCEPT ![d] = "serve"]
    /\ UNCHANGED <<socket, listener>> /\ Quietly

\* wait_for_reachable: a request again, and a probe again.
Poll(c) ==
    /\ at[c] \in {"waiting", "occupied"} /\ polls[c] < MaxPolls
    /\ polls' = [polls EXCEPT ![c] = @ + 1]
    /\ IF Served THEN Goes(c, "served")
       ELSE Turns(c, "connect", IF at[c] = "waiting" THEN "poll" ELSE "repoll")
    /\ UNCHANGED <<socket, listener, saw, heard>>

\* After five seconds it gives up; if the file was occupied at first, a daemon is started now.
StopWaiting(c) ==
    /\ at[c] \in {"waiting", "occupied"}
    /\ Goes(c, IF at[c] = "occupied" THEN "spawning" ELSE "gone")
    /\ UNCHANGED <<socket, listener>> /\ Quietly

\* A process is killed, or the application quits: nobody drops its listener, and the file stays.
Exit(p) ==
    /\ at[p] \notin {"off", "gone"}
    /\ listener' = [listener EXCEPT ![p] = "none"]
    /\ Goes(p, "gone") /\ UNCHANGED socket /\ Quietly

AtFileStep(p) ==
    \/ Reach(p) \/ Look(p) \/ Bind(p) \/ Listen(p) \/ DropListener(p) \/ UnlinkProbe(p)
    \/ Recheck(p) \/ RemoveStale(p)

EndNext ==
    \E p \in Procs :
      /\ \/ AtFileStep(p) \/ Exit(p)
         \/ p \in Apps /\ StartApp(p)
         \/ p \in Commands /\ (Send(p) \/ Poll(p) \/ StopWaiting(p) \/ \E d \in Daemons : Spawn(p, d))
      /\ contended' = (contended \/ \E q, r \in Procs : q # r /\ {at'[q], at'[r]} \subseteq AtFile)

EndSpec == EndInit /\ [][EndNext]_endVars

-----------------------------------------------------------------------------
\* "Never replace a live socket": whoever takes the file away from a server had looked for
\* one before that server was listening. One that was there is never displaced.
SettledServerStays ==
    [][\A p, q \in Procs :
         (p # q /\ at[p] # at'[p] /\ socket = q /\ q \in Servers /\ socket' # q)
           => q \notin heard[p]]_endVars

\* While no two processes are at the file at once, there is a single winner: whoever serves
\* has the file, also after crashes that left it behind, and the application is never left
\* without a service.
SingleWinner ==
    ~contended => \A p \in Procs : at[p] # "alone" /\ (at[p] = "serving" => socket = p)

\* Whatever step is made, the socket file leads to one server, and keeps leading to it.
OneServer == [][SingleWinner']_endVars /\ SettledServerStays
=============================================================================
