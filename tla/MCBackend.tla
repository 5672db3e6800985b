----------------------------- MODULE MCBackend -----------------------------
(***************************************************************************)
(* Components of the two backend processes, for TLC. They share no state,  *)
(* so a behaviour has one of them at work and the others at rest, and one  *)
(* run checks all of them.                                                 *)
(***************************************************************************)
EXTENDS Terminals, DirectorySync, Plugins, SessionServices, ServerBook, SyncObject,
        ProfileImport

CONSTANTS rootPath,
          dir1, file1, file2, beside,  \* a directory with two files, and a file beside it
          session1, session2, tunnel1, tunnel2, recording1,
          id1, name1, window1, window2, vault1, device1

VARIABLE part

backendVars == <<part, termVars, syncVars, plugVars, vars, bookVars, objVars, importVars>>

\* DirectorySync: plain, linked and missing files, files where directories should be.
MCAbove == [p \in {dir1, file1, file2, beside} |-> IF p \in {file1, file2} THEN {dir1} ELSE {}]
Tree(atD, atX, atY, atZ) ==
    [p \in {dir1, file1, file2, beside} |->
       CASE p = dir1 -> atD [] p = file1 -> atX [] p = file2 -> atY [] OTHER -> atZ]
MCLocalTrees ==
    {Tree("dir", "c1", "absent", "c2"), Tree("dir", "link", "c1", "absent"),
     Tree("c2", "absent", "absent", "dir"), Tree("absent", "absent", "absent", "c1")}
MCRemoteTrees ==
    {Tree("absent", "absent", "absent", "absent"), Tree("dir", "c2", "absent", "c1"),
     Tree("dir", "c1", "c2", "c2"), Tree("c1", "absent", "absent", "dir"),
     Tree("dir", "absent", "absent", "absent")}
MCRules == {{}, {file2}, {dir1}}

\* Plugins: one that the guard would ask about, one that asks itself, one that is elevated.
Manifest(body, types, perms, asks, elevate, allowSudo) ==
    [body |-> body, types |-> types, perms |-> perms, asks |-> asks, elevate |-> elevate,
     allowSudo |-> allowSudo, native |-> FALSE]
MCManifests ==
    {Manifest("look", {"ssh"}, {"remote_exec"}, FALSE, FALSE, TRUE),
     Manifest("restart", {"ssh", "local"}, {"remote_exec", "local_exec"}, TRUE, FALSE, FALSE),
     Manifest("root", {"ssh"}, {"remote_exec"}, FALSE, TRUE, FALSE)}
MCCatalog ==
    [Manifest("status", {"ssh", "local"}, {"local_system_read"}, FALSE, FALSE, FALSE)
       EXCEPT !.native = TRUE]
MCRisky == {"restart", "look"}

\* SessionServices: every tunnel and recording is of the first session.
MCTunnelOf == [t \in Tunnels |-> session1]
MCRecordingOf == [r \in Recordings |-> session1]

\* ProfileImport: a host behind another, with defaults that come too late and an include that
\* leads back; a Match; includes that are nested too deep; Tabby profiles of one name.
Host(names, not) ==
    [key |-> "host", value |-> {[not |-> FALSE, of |-> n] : n \in names} \cup
                               {[not |-> TRUE, of |-> n] : n \in not}]
Line(key, value) == [key |-> key, value |-> value]
Session(name, protocol, host) == [name |-> name, protocol |-> protocol, host |-> host]
Profile(id, name, type, host, jump) ==
    [id |-> id, name |-> name, type |-> type, host |-> host, jump |-> jump]
MCPutty == <<Session("Default Settings", "ssh", "h9"), Session("app", "absent", "h2"),
             Session("db", "telnet", "h1")>>
MCTabby == <<Profile("i1", "app", "ssh", "h1", "i2"), Profile("i2", "jump", "ssh", "h3", "absent")>>
MCProfile1 ==
    [openssh |->
       [config |-> <<Line("include", "extra"), Host({"app"}, {}), Line("hostname", "h1"),
                     Line("proxyjump", "jump"), Host({"*"}, {"jump"}), Line("hostname", "h2"),
                     Line("proxyjump", "db")>>,
        extra |-> <<Host({"jump"}, {}), Line("hostname", "h3"), Line("include", "config")>>],
     putty |-> MCPutty,
     tabby |-> MCTabby \o <<Profile("i3", "jump", "ssh", "h2", "i1"),
                            Profile("i4", "jump", "ssh", "h3", "i3"),
                            Profile("i5", "db", "telnet", "h2", "absent")>>]
MCProfile2 ==
    [openssh |->
       [config |-> <<Line("proxyjump", "none"), Host({"app", "jump"}, {}), Line("proxyjump", "jump"),
                     Line("match", "user"), Line("hostname", "h1"), Line("include", "none")>>],
     putty |-> MCPutty, tabby |-> MCTabby]
MCProfile3 ==
    [openssh |-> [config |-> <<Line("include", "b")>>, b |-> <<Line("include", "c")>>,
                  c |-> <<Line("include", "d")>>, d |-> <<Host({"db"}, {})>>],
     putty |-> MCPutty, tabby |-> MCTabby]
MCProfiles == {MCProfile1, MCProfile2, MCProfile3}
MCAlphabet == <<"app", "db", "jump">>
MCFirstRows ==
    {NoRow, [name |-> Plain("jump"), host |-> "h0", jump |-> Nobody],
     [name |-> Plain("app"), host |-> "h1", jump |-> Nobody]}

BackendInit ==
    /\ part \in {"terminals", "transfer", "plugins", "services", "book", "object", "import"}
    /\ TermInit
    /\ part # "terminals" => home = "shell"
    /\ SyncInit
    /\ part # "transfer" =>
         /\ local = Tree("absent", "absent", "absent", "c1") /\ ignored = {} /\ mode = "upload"
         /\ remote = Tree("absent", "absent", "absent", "absent") /\ ~deleteExtra
    /\ PlugInit /\ Init
    /\ BookInit
    /\ known = {id1} /\ servers[id1].name = name1  \* one of the equivalent initial servers
    /\ ObjInit
    /\ vaultOf[device1] = vault1
    /\ part # "object" => /\ object = IF provider = "gist" THEN New(vault1) ELSE NoDocument
                          /\ provider = "gist" /\ tags /\ vaultOf = [e \in Devices |-> vault1]
    /\ ImportInit
    /\ part # "import" => disk = MCProfile1 /\ saved[1] = NoRow

TerminalsStep ==
    /\ part = "terminals" /\ TermNext
    /\ UNCHANGED <<part, syncVars, plugVars, vars, bookVars, objVars, importVars>>
TransferStep ==
    /\ part = "transfer" /\ SyncNext
    /\ UNCHANGED <<part, termVars, plugVars, vars, bookVars, objVars, importVars>>
PluginsStep ==
    /\ part = "plugins" /\ PlugNext
    /\ UNCHANGED <<part, termVars, syncVars, vars, bookVars, objVars, importVars>>
ServicesStep ==
    /\ part = "services" /\ Next
    /\ UNCHANGED <<part, termVars, syncVars, plugVars, bookVars, objVars, importVars>>
BookStep ==
    /\ part = "book" /\ BookNext
    /\ UNCHANGED <<part, termVars, syncVars, plugVars, vars, objVars, importVars>>
ObjectStep ==
    /\ part = "object" /\ ObjNext
    /\ UNCHANGED <<part, termVars, syncVars, plugVars, vars, bookVars, importVars>>
ImportStep ==
    /\ part = "import" /\ ImportNext
    /\ UNCHANGED <<part, termVars, syncVars, plugVars, vars, bookVars, objVars>>

BackendNext == TerminalsStep \/ TransferStep \/ PluginsStep \/ ServicesStep \/ BookStep
               \/ ObjectStep \/ ImportStep

BackendSpec == BackendInit /\ [][BackendNext]_backendVars /\ TermFairness

BackendTypeOK == TermTypeOK /\ SyncTypeOK /\ PlugTypeOK /\ TypeOK /\ BookTypeOK /\ ObjTypeOK
                 /\ ImportTypeOK
=============================================================================
