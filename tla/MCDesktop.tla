----------------------------- MODULE MCDesktop -----------------------------
(***************************************************************************)
(* What the application's windows show and what their users work on, for   *)
(* TLC: file tabs, the layout, a server's files, the input line that is    *)
(* shared with an agent, saved database connections, and the shells and    *)
(* agents of this computer.  They share no state, so a behaviour has one   *)
(* of them at work and the others at rest, and one run checks all of them. *)
(***************************************************************************)
EXTENDS FileTabs, Workspace, RemoteFiles, SharedLine, Databases, LocalShells

CONSTANTS text1, text2, win1, win2, remote1, shell1, poll1, op1, op2, conn1, conn2,
          tty1, tty2, kill1, kill2

VARIABLE part

desktopVars == <<part, tabsVars, wsVars, fileVars, lineVars, dbVars, shellVars>>

\* Databases: a listener, and a container that publishes two ports.
MCListings ==
    {<<[source |-> "tcp", host |-> "p1"],
       [source |-> "docker", published |-> <<"p2", "p1">>, default |-> "p1"]>>}

\* LocalShells: one launch that is refused at each place, and one that is not.
MCLaunches ==
    [agent : {"claude", "pi"}, start : {"resume"}, access : {"autoEdit", "readOnly"}, prompt : {"given"},
     workspace : {TRUE}]
      \cup [agent : {"codex", "opencode"}, start : {"new"}, access : {"default"},
            prompt : {"none", "too long"}, workspace : {FALSE}]

DesktopInit ==
    /\ part \in {"tabs", "layout", "files", "line", "databases", "shells"}
    /\ TabsInit /\ WsInit /\ FilesInit /\ LineInit /\ DbInit /\ ShellsInit
    /\ part # "tabs" => local
    /\ part # "files" => tree[Sub] = Absent

TabsStep == part = "tabs" /\ TabsNext /\ UNCHANGED <<part, wsVars, fileVars, lineVars, dbVars, shellVars>>
LayoutStep == part = "layout" /\ WsNext /\ UNCHANGED <<part, tabsVars, fileVars, lineVars, dbVars, shellVars>>
\* The requests are alike: the first one starts first.
FilesStep ==
    /\ part = "files" /\ FilesNext /\ (ops'[op2] # Unasked => ops'[op1] # Unasked)
    /\ UNCHANGED <<part, tabsVars, wsVars, lineVars, dbVars, shellVars>>
LineStep == part = "line" /\ LineNext /\ UNCHANGED <<part, tabsVars, wsVars, fileVars, dbVars, shellVars>>
DatabasesStep ==
    part = "databases" /\ DbNext /\ UNCHANGED <<part, tabsVars, wsVars, fileVars, lineVars, shellVars>>
\* The shells are alike, and the kills are.
ShellsStep ==
    /\ part = "shells" /\ ShellsNext /\ (process'[tty2] # "none" => process'[tty1] # "none")
    /\ (killer'[kill2].stage # "idle" => killer'[kill1].stage # "idle")
    /\ UNCHANGED <<part, tabsVars, wsVars, fileVars, lineVars, dbVars>>

DesktopNext == TabsStep \/ LayoutStep \/ FilesStep \/ LineStep \/ DatabasesStep \/ ShellsStep

DesktopSpec == DesktopInit /\ [][DesktopNext]_desktopVars

DesktopTypeOK == TabsTypeOK /\ WsTypeOK /\ FilesTypeOK /\ LineTypeOK /\ DbTypeOK /\ ShellTypeOK
=============================================================================
