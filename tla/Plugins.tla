------------------------------ MODULE Plugins ------------------------------
(***************************************************************************)
(* Installed plugins, who enabled what, and their execution:               *)
(* commands/plugin.rs and the plugin_installations table, the rows a sync  *)
(* brings (storage/sync.rs), manifest validation and rendering             *)
(* (plugins/src/lib.rs), and prepare and execute (plugins/agent.rs) with   *)
(* the approval of mcp/server.rs in between.                               *)
(*                                                                         *)
(* The commands that read a row and write it back run one at a time on the *)
(* main thread (`main`), an import runs beside them (`importing`), and a   *)
(* sync applies a row whenever it likes.                                   *)
(***************************************************************************)
EXTENDS Integers, FiniteSets

CONSTANTS Manifests,  \* external manifests: [body, types, perms, asks, elevate, allowSudo, native]
          Catalog,    \* the manifest the application ships for the built-in plugin
          Risky,      \* the bodies the command guard would ask about
          Runs,       \* executions
          MaxChanges  \* bound: installs, imports, removals, toggles and synced rows

ASSUME PluginsAssumption == MaxChanges \in Nat

Extern == "extern"
Builtin == "builtin"
PluginIds == {Extern, Builtin}
Missing == [enabled |-> FALSE, grants |-> {}]
NoJob == [stage |-> "none"]
Callers == {"ui", "cli", "mcp"}

VARIABLES installed,  \* plugin_installations: the row of each plugin, or Missing
          main,       \* the read-modify-write of the main thread
          importing,  \* the import that runs beside it
          guard,      \* whether the command guard is on
          runs,       \* the state of each execution
          changes,
          reviewed,   \* history: manifests somebody enabled, here or on another device
          ran         \* history: what was executed

plugVars == <<installed, main, importing, guard, runs, changes, reviewed, ran>>

Row(m, enabled) == [manifest |-> m, enabled |-> enabled, grants |-> IF enabled THEN m.perms ELSE {}]
HasRow(p) == installed[p] # Missing

PlugTypeOK ==
    /\ \A p \in PluginIds : HasRow(p) =>
         /\ installed[p].manifest \in Manifests \cup {Catalog} /\ installed[p].enabled \in BOOLEAN
         /\ installed[p].grants \subseteq installed[p].manifest.perms
    /\ main = NoJob \/ (main.stage = "read" /\ main.plugin \in PluginIds /\ main.enabled \in BOOLEAN)
    /\ importing = NoJob \/ importing.manifest \in Manifests
    /\ guard \in BOOLEAN /\ changes \in 0..MaxChanges /\ reviewed \subseteq Manifests
    /\ \A r \in Runs : runs[r].stage \in {"idle", "asking", "ready", "running", "done"}

PlugInit ==
    /\ installed = [p \in PluginIds |-> Missing] /\ main = NoJob /\ importing = NoJob
    /\ guard = TRUE /\ runs = [r \in Runs |-> [stage |-> "idle"]]
    /\ changes = 0 /\ reviewed = {} /\ ran = {}

-----------------------------------------------------------------------------
(* Manifests and commands. *)

\* validate_manifest, with what it asks of an action: each session type comes with its
\* permission, an elevated action asks, and it does not offer sudo besides.
ValidManifest(m, external) ==
    /\ m.types # {}
    /\ external => m.perms \subseteq {"remote_exec", "local_exec"} /\ ~m.native
    /\ ~m.native => /\ "ssh" \in m.types => "remote_exec" \in m.perms
                    /\ "local" \in m.types => "local_exec" \in m.perms
    /\ m.elevate => m.asks /\ ~m.allowSudo

\* manifest_for_installation: a built-in plugin is what this build ships.
ManifestOf(p) == IF p = Builtin THEN Catalog ELSE installed[p].manifest

\* permission_satisfied: a built-in plugin has what its manifest declares, an external one
\* what was granted.
Satisfied(p, needed) ==
    needed \in (IF p = Builtin THEN Catalog.perms ELSE installed[p].grants)

\* render_command: unexpected, missing or malformed inputs are refused.
Rendered(m, request) == [body |-> m.body, sudo |-> m.elevate \/ request.sudo, inputs |-> request.inputs]

\* prepare: what an execution asked for would run now, and whether a person must agree.
Preparable(request) ==
    LET m == ManifestOf(request.plugin)
        needed == IF m.native THEN "local_system_read"
                  ELSE IF request.target = "local" THEN "local_exec" ELSE "remote_exec"
    IN  /\ HasRow(request.plugin) /\ installed[request.plugin].enabled
        /\ ValidManifest(m, request.plugin = Extern)
        /\ request.target \in m.types
        /\ needed \in m.perms /\ Satisfied(request.plugin, needed)
        /\ m.native => ~request.sudo /\ request.inputs = "none"
        /\ ~m.native => request.inputs # "bad" /\ (request.sudo => m.allowSudo)

Prepared(request) ==
    LET m == ManifestOf(request.plugin)
        command == Rendered(m, request)
    IN  [command |-> command,
         asks |-> ~m.native /\ (m.asks \/ command.sudo \/ (guard /\ command.body \in Risky))]

-----------------------------------------------------------------------------
(* Installation. Every change is a transaction; what was read before it may be old. *)

Changing == changes < MaxChanges /\ changes' = changes + 1

\* plugin_install of the built-in plugin: enabled at once, with all its permissions.
InstallBuiltin ==
    /\ Changing /\ main = NoJob
    /\ installed' = [installed EXCEPT ![Builtin] = Row(Catalog, TRUE)]
    /\ UNCHANGED <<main, importing, guard, runs, reviewed, ran>>

\* plugin_import: the file is read and validated, and the row of an earlier import read...
BeginImportPlugin(m) ==
    /\ Changing /\ importing = NoJob /\ ValidManifest(m, TRUE)
    /\ importing' = [stage |-> "read", manifest |-> m]
    /\ UNCHANGED <<installed, main, guard, runs, reviewed, ran>>

\* Mutant of FinishImportPlugin: a plugin that is enabled stays enabled.
FinishImportEnabled ==
    /\ importing # NoJob
    /\ installed' = [installed EXCEPT ![Extern] = Row(importing.manifest, @.enabled)]
    /\ importing' = NoJob
    /\ UNCHANGED <<main, guard, runs, changes, reviewed, ran>>

\* ... and then replaced, disabled and without grants.
FinishImportPlugin ==
    /\ importing # NoJob
    /\ installed' = [installed EXCEPT ![Extern] = Row(importing.manifest, FALSE)]
    /\ importing' = NoJob
    /\ UNCHANGED <<main, guard, runs, changes, reviewed, ran>>

Uninstall(p) ==
    /\ Changing /\ main = NoJob /\ HasRow(p)
    /\ installed' = [installed EXCEPT ![p] = Missing]
    /\ UNCHANGED <<main, importing, guard, runs, reviewed, ran>>

\* plugin_set_enabled reads the row...
BeginSetEnabled(p, enabled) ==
    /\ Changing /\ main = NoJob /\ HasRow(p) /\ ValidManifest(ManifestOf(p), p = Extern)
    /\ main' = [stage |-> "read", plugin |-> p, manifest |-> ManifestOf(p), enabled |-> enabled]
    /\ UNCHANGED <<installed, importing, guard, runs, reviewed, ran>>

\* ... and writes all of it back, over whatever an import or a sync has put there since.
FinishSetEnabled ==
    /\ main # NoJob
    /\ installed' = [installed EXCEPT ![main.plugin] = Row(main.manifest, main.enabled)]
    /\ reviewed' = IF main.plugin = Extern /\ main.enabled THEN reviewed \cup {main.manifest} ELSE reviewed
    /\ main' = NoJob
    /\ UNCHANGED <<importing, guard, runs, changes, ran>>

\* apply_remote_plugin_installation and the deletion of a row by a sync. Grants never travel:
\* an enabled plugin gets what its manifest declares, and one whose manifest this build
\* refuses arrives disabled. An enabled row was enabled by a person on the device it is from.
SyncPlugin(m, enabled) ==
    /\ Changing
    /\ installed' = [installed EXCEPT ![Extern] = Row(m, enabled /\ ValidManifest(m, TRUE))]
    /\ reviewed' = IF enabled THEN reviewed \cup {m} ELSE reviewed
    /\ UNCHANGED <<main, importing, guard, runs, ran>>

SyncBuiltin(enabled) ==
    /\ Changing
    /\ installed' = [installed EXCEPT ![Builtin] = Row(Catalog, enabled)]
    /\ UNCHANGED <<main, importing, guard, runs, reviewed, ran>>

SyncRemoval(p) ==
    /\ Changing /\ HasRow(p)
    /\ installed' = [installed EXCEPT ![p] = Missing]
    /\ UNCHANGED <<main, importing, guard, runs, reviewed, ran>>

SwitchGuard ==
    /\ Changing
    /\ guard' = ~guard
    /\ UNCHANGED <<installed, main, importing, runs, reviewed, ran>>

-----------------------------------------------------------------------------
(* Execution. *)

Requests == [plugin : PluginIds, target : {"ssh", "local"}, sudo : BOOLEAN, inputs : {"none", "good", "bad"}]

\* plugin_execute of mcp/server.rs prepares, whatever `confirmed` the model sent, and asks if
\* the command needs it.
BeginAgentRun(r, request) ==
    /\ runs[r].stage = "idle" /\ Preparable(request)
    /\ LET plan == Prepared(request)
       IN runs' = [runs EXCEPT ![r] =
            [stage |-> IF plan.asks THEN "asking" ELSE "ready", by |-> "mcp", request |-> request,
             confirmed |-> FALSE, command |-> plan.command]]
    /\ UNCHANGED <<installed, main, importing, guard, changes, reviewed, ran>>

AnswerRun(r) ==
    /\ runs[r].stage = "asking"
    /\ \/ runs' = [runs EXCEPT ![r].stage = "ready", ![r].confirmed = TRUE]
       \/ runs' = [runs EXCEPT ![r] = [stage |-> "done"]]
    /\ UNCHANGED <<installed, main, importing, guard, changes, reviewed, ran>>

\* plugin_execute of the desktop and the command line: the caller says whether a person
\* confirmed the action, and no command was reviewed.
BeginPersonRun(r, by, request, confirmed) ==
    /\ runs[r].stage = "idle"
    /\ runs' = [runs EXCEPT ![r] = [stage |-> "ready", by |-> by, request |-> request, confirmed |-> confirmed]]
    /\ UNCHANGED <<installed, main, importing, guard, changes, reviewed, ran>>

\* Mutant of StartRun: the command is not compared with the one that was reviewed.
StartUnreviewed(r) ==
    /\ runs[r].stage = "ready"
    /\ \/ /\ Preparable(runs[r].request)
          /\ LET plan == Prepared(runs[r].request)
             IN  /\ plan.asks => runs[r].confirmed
                 /\ runs' = [runs EXCEPT ![r] = [stage |-> "running"]]
                 /\ ran' = ran \cup {[by |-> runs[r].by, command |-> plan.command, asks |-> plan.asks,
                                      approved |-> IF runs[r].by = "mcp" /\ runs[r].confirmed
                                                   THEN {runs[r].command} ELSE {},
                                      confirmed |-> runs[r].confirmed]}
       \/ runs' = [runs EXCEPT ![r] = [stage |-> "done"]] /\ UNCHANGED ran
    /\ UNCHANGED <<installed, main, importing, guard, changes, reviewed>>

\* execute prepares again, and refuses a command that is not the one that was reviewed or
\* that needs a confirmation it does not have; the record of the start comes first, and if it
\* cannot be written, or the session is gone, nothing runs either.
StartRun(r) ==
    /\ runs[r].stage = "ready"
    /\ \/ /\ Preparable(runs[r].request)
          /\ LET plan == Prepared(runs[r].request)
             IN  /\ runs[r].by = "mcp" => runs[r].command = plan.command
                 /\ plan.asks => runs[r].confirmed
                 /\ runs' = [runs EXCEPT ![r] = [stage |-> "running"]]
                 /\ ran' = ran \cup {[by |-> runs[r].by, command |-> plan.command, asks |-> plan.asks,
                                      approved |-> IF runs[r].by = "mcp" /\ runs[r].confirmed
                                                   THEN {runs[r].command} ELSE {},
                                      confirmed |-> runs[r].confirmed]}
       \/ runs' = [runs EXCEPT ![r] = [stage |-> "done"]] /\ UNCHANGED ran
    /\ UNCHANGED <<installed, main, importing, guard, changes, reviewed>>

EndRun(r) ==
    /\ runs[r].stage = "running"
    /\ runs' = [runs EXCEPT ![r] = [stage |-> "done"]]
    /\ UNCHANGED <<installed, main, importing, guard, changes, reviewed, ran>>

PlugNext ==
    \/ InstallBuiltin \/ FinishImportPlugin \/ FinishSetEnabled \/ SwitchGuard
    \/ \E m \in Manifests : BeginImportPlugin(m) \/ \E e \in BOOLEAN : SyncPlugin(m, e)
    \/ \E e \in BOOLEAN : SyncBuiltin(e)
    \/ \E p \in PluginIds : Uninstall(p) \/ SyncRemoval(p) \/ \E e \in BOOLEAN : BeginSetEnabled(p, e)
    \/ \E r \in Runs :
         \/ AnswerRun(r) \/ StartRun(r) \/ EndRun(r)
         \/ \E request \in Requests :
              \/ BeginAgentRun(r, request)
              \/ \E by \in Callers \ {"mcp"}, c \in BOOLEAN : BeginPersonRun(r, by, request, c)

PlugSpec == PlugInit /\ [][PlugNext]_plugVars

-----------------------------------------------------------------------------

\* What an agent executes is the command a person was shown, if that command, or the
\* one the row gives now, needs a person: the row, the guard and the manifest may all change
\* while the dialog is open (plugins/agent.rs:158-162, "Plugin changed while approval was
\* pending; review the current action again").
RunsAsApproved ==
    \A x \in ran : (x.by = "mcp" /\ x.asks) => x.approved = {x.command}

\* An external plugin holds permissions only for a manifest that somebody enabled: an
\* import, a removal, a sync and a toggle that overlap never leave a row with grants for a
\* manifest that was only imported (commands/plugin.rs:214-218, "External manifests are
\* user-reviewed at enable time and can only change through a re-import (which revokes
\* grants)").
GrantedWasReviewed ==
    installed[Extern].grants # {} =>
        /\ installed[Extern].manifest \in reviewed
        /\ installed[Extern].grants = installed[Extern].manifest.perms

\* Nothing of a plugin runs or is granted beyond what a person has reviewed.
OnlyReviewed == RunsAsApproved /\ GrantedWasReviewed
=============================================================================
