---------------------------- MODULE RemoteFiles ----------------------------
(***************************************************************************)
(* Work on the files of one server over SFTP.  The window's commands       *)
(* (commands/sftp.rs) share one SFTP session and the directory it is in,   *)
(* the daemon's clients (ipc/socket.rs) share a directory and open an SFTP *)
(* session per request, and an agent's tools (mcp/server.rs) start in the  *)
(* home directory.  The window's commands also serve a local shell, with   *)
(* a directory of its own; the server may be this machine.                 *)
(*                                                                         *)
(* Every SFTP request or file call is a step, and any of them may fail.    *)
(* Left out: symbolic links, and whole directories, which DirectorySync    *)
(* has.                                                                    *)
(***************************************************************************)
EXTENDS Integers, Sequences

CONSTANTS Home,      \* the directory an SFTP session starts in
          Sub,       \* a directory that may be in it
          InHome,    \* where a plain name leads from Home
          InSub,     \* and from Sub
          Ops,       \* requests, each made once
          MaxKills   \* bound: how often the session's owner kills it

VARIABLES tree,   \* the server's files: what is at each path
          connected,  \* the session is in its manager
          cwd,    \* current_path of the contexts, or none
          lock,   \* the request that holds the window's session mutex
          ops,    \* the requests
          kills

fileVars == <<tree, connected, cwd, lock, ops, kills>>

Absent == "absent"
Dir == "dir"
NoOp == "none"
Plain == "plain"   \* the file name of a request that names no directory
Paths == {Sub, InHome, InSub}
Dirs == {Home, Sub}
At(p) == IF p = Home THEN Dir ELSE tree[p]
IsDir(p) == At(p) = Dir
IsFile(p) == At(p) \notin {Absent, Dir}
ParentOf(p) == IF p = InSub THEN Sub ELSE Home
Below(p) == {q \in Paths : ParentOf(q) = p}

ASSUME FilesAssumption ==
    /\ Home # Sub /\ InHome # InSub /\ {InHome, InSub} \cap {Home, Sub} = {}
    /\ NoOp \notin {Home, Sub, InHome, InSub} /\ Plain \notin {Sub, InHome, InSub}
    /\ Ops \cap {Absent, Dir, NoOp} = {} /\ MaxKills \in Nat

\* A file holds what was there before, nothing, or what a request wrote.
Bodies == {"old", "empty"} \cup Ops

\* remote_parent_dir and the components that sftp_mkdir_recursive walks, from the home directory.
Chain(p) == IF p = Home THEN <<>> ELSE IF ParentOf(p) = Home THEN <<p>> ELSE <<ParentOf(p), p>>

\* join_remote_child of the one file name that plain requests and uploads have.
Join(d) == IF d = Sub THEN InSub ELSE InHome

\* resolve_remote_path: a request names a path, or a file in the directory it is made from.
Requested == Paths \cup {Plain}
Resolved(request, from) == IF request = Plain THEN Join(from) ELSE request

Contexts == {"window", "shell", "daemon"}
Places == Contexts \cup {"agent"}
Unasked == [stage |-> "idle"]
Done == [stage |-> "done"]
Running(o) == ops[o].stage \notin {"idle", "done"}

FilesTypeOK ==
    /\ tree \in [Paths -> {Absent, Dir} \cup Bodies]
    /\ \A p \in Paths : At(p) # Absent => IsDir(ParentOf(p))
    /\ connected \in BOOLEAN /\ kills \in 0..MaxKills
    /\ cwd \in [Contexts -> Dirs \cup {NoOp}]
    /\ lock \in Ops \cup {NoOp} /\ (lock # NoOp => Running(lock))
    /\ \A o \in Ops : Running(o) => ops[o].path \in Paths \cup Dirs /\ ops[o].place \in Places

\* A new server, or one whose contexts earlier requests have opened.
FilesInit ==
    /\ \/ /\ tree = [p \in Paths |-> Absent] /\ cwd = [w \in Contexts |-> NoOp]
       \/ /\ tree = [p \in Paths |-> IF p = Sub THEN Dir ELSE "old"]
          /\ cwd = [w \in Contexts |-> Home]
    /\ connected = TRUE /\ kills = 0 /\ lock = NoOp
    /\ ops = [o \in Ops |-> Unasked]

-----------------------------------------------------------------------------
(* Requests. A request starts with the path that it resolved to; `asked` remembers it. *)

\* What kinds of requests set apart, and what a request has that sets none of it.
Options == [overwrite : BOOLEAN, parents : BOOLEAN, keep : BOOLEAN, recursive : BOOLEAN, to : Paths \cup {NoOp}]
Plainly == [overwrite |-> TRUE, parents |-> TRUE, keep |-> FALSE, recursive |-> TRUE, to |-> NoOp]

Request(place, kind, stage, path, more) ==
    [place |-> place, kind |-> kind, stage |-> stage, path |-> path, asked |-> path,
     overwrite |-> more.overwrite, parents |-> more.parents, keep |-> more.keep,
     recursive |-> more.recursive, to |-> more.to, at |-> NoOp, todo |-> <<>>, entries |-> {}]

Start(o, place, kind, stage, path, more) ==
    /\ ops[o] = Unasked
    /\ ops' = [ops EXCEPT ![o] = Request(place, kind, stage, path, more)]
    /\ UNCHANGED <<tree, connected, cwd, kills>>

\* prepare_remote_file_access: the window's mutex is held to resolve the path, and by the
\* commands on a single entry until they end.
Window(o, kind, stage, path, more, holds) ==
    /\ cwd["window"] # NoOp /\ lock = NoOp
    /\ Start(o, "window", kind, stage, path, more)
    /\ lock' = IF holds THEN o ELSE lock
InWindow(q) == Resolved(q, cwd["window"])

WindowInit(o) == Start(o, "window", "init", "init", Home, Plainly) /\ UNCHANGED lock
WindowList(o) ==
    \E d \in Dirs \cup {cwd["window"]} : Window(o, "list", "list", d, Plainly, TRUE)
WindowRead(o) == \E q \in Requested : Window(o, "look", "look", InWindow(q), Plainly, TRUE)
WindowDownload(o) == \E q \in Requested : Window(o, "look", "look", InWindow(q), Plainly, FALSE)
WindowUpload(o) == \E q \in Requested : Window(o, "upload", "aim", InWindow(q), Plainly, FALSE)
WindowWrite(o) == \E q \in Requested : Window(o, "write", "open", InWindow(q), Plainly, FALSE)
WindowMkdir(o) == \E q \in Requested : Window(o, "mkdir", "mkdir", InWindow(q), Plainly, TRUE)
WindowDelete(o) ==
    \E q \in Requested, r \in BOOLEAN :
      Window(o, "delete", "delete", InWindow(q), [Plainly EXCEPT !.recursive = r], TRUE)
WindowRename(o) ==
    \E q \in Requested, q2 \in Requested :
      Window(o, "rename", "rename", InWindow(q), [Plainly EXCEPT !.to = InWindow(q2)], TRUE)

\* A local shell needs no session and no mutex. Without a context it is in the home directory.
Shell(o, kind, stage, path, more) == Start(o, "shell", kind, stage, path, more) /\ UNCHANGED lock
InShell(q) == Resolved(q, IF cwd["shell"] = NoOp THEN Home ELSE cwd["shell"])

ShellInit(o) == Shell(o, "init", "opened", Home, Plainly)
ShellList(o) == \E d \in Dirs : Shell(o, "list", "list", d, Plainly)
ShellRead(o) == \E q \in Requested : Shell(o, "look", "look", InShell(q), Plainly)
ShellCopy(o) == \E q \in Requested : Shell(o, "upload", "aim", InShell(q), Plainly)
ShellWrite(o) == \E q \in Requested : Shell(o, "write", "open", InShell(q), [Plainly EXCEPT !.parents = FALSE])
ShellMkdir(o) == \E q \in Requested : Shell(o, "mkdir", "mkdir", InShell(q), Plainly)
ShellDelete(o) ==
    \E q \in Requested, r \in BOOLEAN : Shell(o, "delete", "size", InShell(q), [Plainly EXCEPT !.recursive = r])
ShellRename(o) ==
    \E q \in Requested, q2 \in Requested :
      Shell(o, "rename", "mkdir", InShell(q), [Plainly EXCEPT !.to = InShell(q2)])

\* get_sftp_context: a copy of the context.
Daemon(o, kind, stage, path, more) ==
    /\ cwd["daemon"] # NoOp /\ Start(o, "daemon", kind, stage, path, more) /\ UNCHANGED lock
InDaemon(q) == Resolved(q, cwd["daemon"])

DaemonInit(o) == Start(o, "daemon", "init", "init", Home, Plainly) /\ UNCHANGED lock
DaemonList(o) ==
    \E d \in Dirs, keep \in BOOLEAN : Daemon(o, "list", "list", d, [Plainly EXCEPT !.keep = keep])
DaemonStat(o) == \E q \in Requested : Daemon(o, "look", "look", InDaemon(q), Plainly)
DaemonRead(o) == \E q \in Requested : Daemon(o, "look", "look", InDaemon(q), Plainly)
DaemonDownload(o) == \E q \in Requested : Daemon(o, "look", "look", InDaemon(q), Plainly)
DaemonUpload(o) == \E q \in Requested : Daemon(o, "upload", "aim", InDaemon(q), Plainly)
DaemonWrite(o) == \E q \in Requested : Daemon(o, "write", "open", InDaemon(q), Plainly)
DaemonAdd(o) ==
    \E q \in Requested, over \in BOOLEAN, par \in BOOLEAN :
      Daemon(o, "write", "open", InDaemon(q), [Plainly EXCEPT !.overwrite = over, !.parents = par])
DaemonMkdir(o) == \E q \in Requested : Daemon(o, "mkdir", "mkdir", InDaemon(q), Plainly)
DaemonDelete(o) ==
    \E q \in Requested, r \in BOOLEAN :
      Daemon(o, "delete", "delete", InDaemon(q), [Plainly EXCEPT !.recursive = r])
DaemonRename(o) ==
    \E q \in Requested, q2 \in Requested :
      Daemon(o, "rename", "rename", InDaemon(q), [Plainly EXCEPT !.to = InDaemon(q2)])

\* open_sftp_for_session: the session must be there, and paths start at its home directory.
Agent(o, kind, stage, path, more) ==
    /\ connected /\ Start(o, "agent", kind, stage, path, more) /\ UNCHANGED lock
AtHome(q) == Resolved(q, Home)

AgentList(o) == \E d \in Dirs : Agent(o, "list", "list", d, Plainly)
AgentRead(o) == \E q \in Requested : Agent(o, "look", "look", AtHome(q), Plainly)
AgentDownload(o) == \E q \in Requested : Agent(o, "look", "look", AtHome(q), Plainly)
AgentUpload(o) == \E q \in Requested : Agent(o, "upload", "aim", AtHome(q), Plainly)
AgentWrite(o) == \E q \in Requested : Agent(o, "write", "open", AtHome(q), Plainly)
AgentAdd(o) ==
    \E q \in Requested, over \in BOOLEAN, par \in BOOLEAN :
      Agent(o, "write", "open", AtHome(q), [Plainly EXCEPT !.overwrite = over, !.parents = par])
AgentEdit(o) == \E q \in Requested : Agent(o, "edit", "stat", AtHome(q), Plainly)
AgentMkdir(o) ==
    \E q \in Requested, par \in BOOLEAN :
      Agent(o, "mkdir", "mkdir", AtHome(q), [Plainly EXCEPT !.parents = par])
AgentRemove(o) ==
    \E q \in Requested, r \in BOOLEAN :
      Agent(o, "delete", "delete", AtHome(q), [Plainly EXCEPT !.recursive = r])
AgentMove(o) ==
    \E q \in Requested, q2 \in Requested :
      Agent(o, "rename", "rename", AtHome(q), [Plainly EXCEPT !.to = AtHome(q2)])

-----------------------------------------------------------------------------
(* What the requests do, one SFTP request at a time, while the session lives. *)

Local(o) == ops[o].place = "shell"
Doing(o, stage) == ops[o].stage = stage /\ (connected \/ Local(o))
Goto(o, stage) == ops' = [ops EXCEPT ![o].stage = stage] /\ UNCHANGED lock
Unlocked(o) == lock' = IF lock = o THEN NoOp ELSE lock
End(o) == ops' = [ops EXCEPT ![o] = Done] /\ Unlocked(o)
FilesKept == UNCHANGED tree
SessionKept == UNCHANGED <<connected, cwd, kills>>

\* A request that fails, or that the session's end cuts off, ends the operation there.
Fail(o) == Running(o) /\ End(o) /\ FilesKept /\ SessionKept

InitStep(o) == Doing(o, "init") /\ Goto(o, "opened") /\ FilesKept /\ SessionKept

\* A listing of the window that is under way has the data that goes now.
Detached(place, q) ==
    IF place = "window" /\ Running(q) /\ ops[q].place = place /\ ops[q].kind = "list"
    THEN [ops[q] EXCEPT !.keep = TRUE] ELSE ops[q]

\* The end of sftp_init: the context is stored, whatever became of the session meanwhile.
InitStore(o) ==
    /\ ops[o].stage = "opened"
    /\ cwd' = [cwd EXCEPT ![ops[o].place] = Home]
    /\ ops' = [q \in Ops |-> IF q = o THEN Done ELSE Detached(ops[o].place, q)]
    /\ FilesKept /\ UNCHANGED <<connected, lock, kills>>

\* A listing gives the lock back,
ListStep(o) ==
    /\ Doing(o, "list") /\ IsDir(ops[o].path)
    /\ IF ops[o].place = "agent" \/ (ops[o].place = "daemon" /\ ops[o].keep) THEN End(o)
       ELSE ops' = [ops EXCEPT ![o].stage = "listed"] /\ Unlocked(o)
    /\ FilesKept /\ SessionKept

\* and then moves the context to the directory that was listed.
MoveContext(o) ==
    /\ ops[o].stage = "listed" /\ (ops[o].place = "window" => lock = NoOp)
    /\ cwd' = IF ops[o].keep \/ (Local(o) /\ cwd["shell"] = NoOp) THEN cwd ELSE [cwd EXCEPT ![ops[o].place] = ops[o].path]
    /\ End(o) /\ FilesKept /\ UNCHANGED <<connected, kills>>

LookStep(o) == Doing(o, "look") /\ End(o) /\ FilesKept /\ SessionKept

\* sftp_mkdir_recursive tries the directory itself, then every component. It also prepares
\* the parent directory of a file that could not be opened (write_remote_file_with_options). A
\* local shell has create_dir_all, also before it copies and renames.
AfterDirs(o) ==
    CASE ops[o].kind = "mkdir" -> End(o)
      [] ops[o].kind = "rename" -> Goto(o, "rename")
      [] OTHER -> Goto(o, "reopen")
DirWanted(o) ==
    CASE ops[o].kind = "mkdir" -> ops[o].path
      [] ops[o].kind = "rename" -> ParentOf(ops[o].to)
      [] OTHER -> ParentOf(ops[o].path)
CanCreate(p) == p # Home /\ At(p) = Absent /\ IsDir(ParentOf(p))

MkdirStep(o) ==
    LET p == DirWanted(o)
    IN  /\ Doing(o, "mkdir")
        /\ IF CanCreate(p)
           THEN tree' = [tree EXCEPT ![p] = Dir] /\ AfterDirs(o)
           ELSE /\ ops[o].parents /\ UNCHANGED <<tree, lock>>
                /\ ops' = [ops EXCEPT ![o].stage = "walk", ![o].todo = Chain(p)]
        /\ SessionKept

WalkStep(o) ==
    /\ Doing(o, "walk")
    /\ IF ops[o].todo = <<>> THEN AfterDirs(o) /\ UNCHANGED tree
       ELSE LET next == Head(ops[o].todo)
            IN  /\ CanCreate(next) \/ IsDir(next)
                /\ tree' = IF CanCreate(next) THEN [tree EXCEPT ![next] = Dir] ELSE tree
                /\ ops' = [ops EXCEPT ![o].todo = Tail(@)] /\ UNCHANGED lock
    /\ SessionKept

\* Mutant of AimStep: the plain name is resolved when the upload looks at its target.
AimStepLate(o) ==
    LET p == IF ops[o].place # "agent" /\ ops[o].path \in {InHome, InSub} /\ cwd[ops[o].place] # NoOp
             THEN Join(cwd[ops[o].place]) ELSE ops[o].path
    IN  /\ Doing(o, "aim") /\ ~IsDir(p)
        /\ ops' = [ops EXCEPT ![o].stage = IF Local(o) THEN "mkdir" ELSE "open", ![o].path = p]
        /\ FilesKept /\ SessionKept /\ UNCHANGED lock

\* resolve_remote_upload_path: into a directory, or over a file.
AimStep(o) ==
    LET p == ops[o].path
    IN  /\ Doing(o, "aim") /\ (IsDir(p) => p \in Dirs)
        /\ ops' = [ops EXCEPT ![o].stage = IF Local(o) THEN "mkdir" ELSE "open",
                              ![o].path = IF IsDir(p) THEN Join(p) ELSE p]
        /\ FilesKept /\ SessionKept /\ UNCHANGED lock

\* tool_edit_file: the file must be there, and is read to replace a text in it.
EditStat(o) ==
    /\ Doing(o, "stat") /\ IsFile(ops[o].path)
    /\ \E next \in {"edit", "open"} : Goto(o, next)
    /\ FilesKept /\ SessionKept
EditRead(o) ==
    /\ Doing(o, "edit") /\ IsFile(ops[o].path)
    /\ Goto(o, "open") /\ FilesKept /\ SessionKept

CanOpen(p) == IsDir(ParentOf(p)) /\ ~IsDir(p)

Created(o, p) ==
    /\ tree' = [tree EXCEPT ![p] = "empty"]
    /\ ops' = [ops EXCEPT ![o].stage = "writing", ![o].at = p]
    /\ UNCHANGED lock

\* Mutant of OpenStep: the add looks whether the file is there, and then opens it.
OpenStepChecked(o) ==
    LET p == ops[o].path
    IN  /\ Doing(o, "open") \/ Doing(o, "reopen")
        /\ IF ops[o].stage = "open" /\ ~ops[o].overwrite
           THEN At(p) = Absent /\ Goto(o, "reopen") /\ FilesKept
           ELSE CanOpen(p) /\ Created(o, p)
        /\ SessionKept

\* write_remote_file_with_options opens the file, and once more after its parent was prepared.
\* CREATE with EXCLUDE is one request.
OpenStep(o) ==
    LET p == ops[o].path
    IN  /\ Doing(o, "open") \/ Doing(o, "reopen")
        /\ IF CanOpen(p) /\ (ops[o].overwrite \/ At(p) = Absent) THEN Created(o, p)
           ELSE /\ ops[o].stage = "open" /\ ops[o].parents
                /\ Goto(o, "mkdir") /\ FilesKept
        /\ SessionKept

\* The content goes to the file that was opened, wherever it is by now.
WriteStep(o) ==
    /\ Doing(o, "writing")
    /\ tree' = IF ops[o].at = NoOp THEN tree ELSE [tree EXCEPT ![ops[o].at] = o]
    /\ End(o) /\ SessionKept

\* Open handles follow a file that moves, and lose one that goes or is replaced.
Moved(from, to, q) ==
    IF Running(q) /\ ops[q].at = from THEN [ops[q] EXCEPT !.at = to] ELSE ops[q]
Removed(p) == tree' = [tree EXCEPT ![p] = Absent]

RenameStep(o) ==
    LET from == ops[o].path
        to == ops[o].to
    IN  /\ Doing(o, "rename") /\ At(from) # Absent /\ from # to
        /\ At(to) = Absent \/ (Local(o) /\ IsFile(from) /\ IsFile(to))
        /\ IsDir(ParentOf(to)) /\ ParentOf(to) # from
        /\ \A q \in Below(from) : At(q) = Absent
        /\ tree' = [tree EXCEPT ![from] = Absent, ![to] = tree[from]]
        /\ ops' = [q \in Ops |-> CASE q = o -> Done
                                   [] Running(q) /\ ops[q].at = to -> Moved(to, NoOp, q)
                                   [] OTHER -> Moved(from, to, q)]
        /\ Unlocked(o) /\ SessionKept

\* A local shell looks what there is to delete,
SizeStep(o) ==
    LET p == ops[o].path
    IN  /\ Doing(o, "size") /\ At(p) # Absent
        /\ Goto(o, CASE IsFile(p) -> "delete" [] ops[o].recursive -> "scan" [] OTHER -> "rmdir")
        /\ FilesKept /\ SessionKept

\* sftp_delete_path: REMOVE first; a directory is emptied when that was asked.
DeleteStep(o) ==
    LET p == ops[o].path
    IN  /\ Doing(o, "delete")
        /\ \/ /\ IsFile(p) /\ Removed(p) /\ Unlocked(o)
              /\ ops' = [q \in Ops |-> IF q = o THEN Done ELSE Moved(p, NoOp, q)]
           \/ /\ ~IsFile(p) /\ ~Local(o) /\ FilesKept
              /\ Goto(o, IF ops[o].recursive THEN "scan" ELSE "rmdir")
        /\ SessionKept

\* sftp_remove_recursive lists the directory,
ScanStep(o) ==
    /\ Doing(o, "scan") /\ IsDir(ops[o].path)
    /\ ops' = [ops EXCEPT ![o].stage = "clear",
                          ![o].entries = {q \in Below(ops[o].path) : At(q) # Absent}]
    /\ FilesKept /\ SessionKept /\ UNCHANGED lock

\* removes the entries that it listed, files and directories (the ones below have no entries
\* of their own),
ClearStep(o) ==
    /\ Doing(o, "clear")
    /\ \E p \in ops[o].entries :
         /\ At(p) # Absent /\ (\A q \in Below(p) : At(q) = Absent)
         /\ Removed(p)
         /\ ops' = [q \in Ops |-> IF q = o THEN [ops[o] EXCEPT !.entries = @ \ {p}]
                                   ELSE Moved(p, NoOp, q)]
    /\ UNCHANGED lock /\ SessionKept

\* and then the directory, which must be empty.
RmdirStep(o) ==
    LET p == ops[o].path
    IN  /\ Doing(o, "rmdir") \/ (Doing(o, "clear") /\ ops[o].entries = {})
        /\ p # Home /\ IsDir(p) /\ (\A q \in Below(p) : At(q) = Absent)
        /\ Removed(p) /\ End(o) /\ SessionKept

\* The session goes. session_kill and KillSession drop the context of their own process; an
\* agent's kill and the reaper drop neither.
KillSession ==
    /\ connected /\ connected' = FALSE /\ kills < MaxKills /\ kills' = kills + 1
    /\ \E place \in Places \ {"shell"} :
         /\ cwd' = [w \in Contexts |-> IF w = place THEN NoOp ELSE cwd[w]]
         /\ ops' = [q \in Ops |-> Detached(place, q)]
    /\ UNCHANGED <<tree, lock>>

\* A request starts once, and runs to its end or fails.
FilesNext ==
    \/ \E o \in Ops :
         /\ ops[o] = Unasked
         /\ \/ WindowInit(o) \/ WindowList(o) \/ WindowRead(o) \/ WindowDownload(o)
            \/ WindowUpload(o) \/ WindowWrite(o) \/ WindowMkdir(o) \/ WindowDelete(o) \/ WindowRename(o)
            \/ ShellInit(o) \/ ShellList(o) \/ ShellRead(o) \/ ShellCopy(o) \/ ShellWrite(o)
            \/ ShellMkdir(o) \/ ShellDelete(o) \/ ShellRename(o)
            \/ DaemonInit(o) \/ DaemonList(o) \/ DaemonStat(o) \/ DaemonRead(o) \/ DaemonDownload(o)
            \/ DaemonUpload(o) \/ DaemonWrite(o) \/ DaemonAdd(o) \/ DaemonMkdir(o) \/ DaemonDelete(o)
            \/ DaemonRename(o)
            \/ AgentList(o) \/ AgentRead(o) \/ AgentDownload(o) \/ AgentUpload(o) \/ AgentWrite(o)
            \/ AgentAdd(o) \/ AgentEdit(o) \/ AgentMkdir(o) \/ AgentRemove(o) \/ AgentMove(o)
    \/ \E o \in Ops :
         \/ InitStep(o) \/ InitStore(o) \/ ListStep(o) \/ MoveContext(o) \/ LookStep(o)
         \/ MkdirStep(o) \/ WalkStep(o) \/ AimStep(o) \/ EditStat(o) \/ EditRead(o)
         \/ OpenStep(o) \/ WriteStep(o) \/ RenameStep(o) \/ SizeStep(o) \/ DeleteStep(o)
         \/ ScanStep(o) \/ ClearStep(o) \/ RmdirStep(o) \/ Fail(o)
    \/ KillSession

FilesSpec == FilesInit /\ [][FilesNext]_fileVars

-----------------------------------------------------------------------------
\* What a request may touch, from the path it was asked for and the directory it was asked in.
Touches(o) ==
    LET target == ops[o].asked
        above == IF ops[o].parents THEN {ParentOf(target)} ELSE {}
    IN  CASE ops[o].kind = "write" -> {target} \cup above
          [] ops[o].kind = "upload" -> {target, ParentOf(target)} \cup (IF target \in Dirs THEN {Join(target)} ELSE {})
          [] ops[o].kind = "edit" -> {target} \cup above
          [] ops[o].kind = "mkdir" -> {target} \cup above
          [] ops[o].kind = "delete" -> {target} \cup Below(target)
          [] ops[o].kind = "rename" -> {target, ops[o].to, ParentOf(ops[o].to)}
          [] OTHER -> {}

\* Requests land where they were asked to: listings that move the shared directory, kills and
\* the other requests in between change neither the path of a transfer nor that of an edit. And
\* an addition that must not overwrite never empties a file, although it may have to create the
\* directory and open the file a second time while another request creates it.
LandsWhereAsked ==
    [][\A p \in Paths : tree'[p] # tree[p] =>
         \E o \in Ops : /\ Running(o) /\ ops'[o] # ops[o]
                        /\ p \in Touches(o) \cup {ops[o].at}
                        /\ (~ops[o].overwrite /\ ops[o].at = NoOp) => tree[p] = Absent]_fileVars
=============================================================================
