# Vibeshell, modelled in TLA+

Vibeshell is an SSH workspace: a Tauri desktop application that owns SSH
sessions, local shells, tunnels, recordings and an encrypted database; a daemon
and a command line that share sessions over a local socket; a gateway through
which coding agents use them, under the user's approval; and encrypted sync of
the workspace between devices. This directory holds TLA+ modules for the parts
where interleaving, failure and ordering decide whether the program is right, the
TLC runs that check them, and TLAPS proofs of what should hold for any number of
requests, sessions, clients, tunnels, connections and files.

Run a model with `tlc -config <run>.cfg <MC module>`, check a proof module with
`tlapm <module>.tla`. `PROJECT.json` maps every definition to its source lines
and lists components, runs, mutants, hazards, findings and theorems.

Paths below are relative to `src/src-tauri/src/` unless they start with `cli/`
(`src/cli/src/`), `plugins/` (`src/plugins/src/`) or `front end` (`src/src/`).

## Inventory

| Component | State | Operations | What is hard | What makes it right | Where |
|---|---|---|---|---|---|
| Sync storage (`storage/sync.rs`, `storage/database.rs`) | rows, per-entity revision and hash, outbox, hybrid clock, saved upload and cursor per vault | local add, update, delete; export and acknowledgement of changes; applying a batch; activation of a vault; snapshot | last-writer-wins with unique names, tombstones that cross references, a batch that must be atomic, edits during a sync | a revision is minted once and has one content; an edit is in the outbox or in the vault; references and names stay clean; devices converge | `SyncStore`, `CloudSync` |
| Sync engine (`cloud_sync/mod.rs`, front end `CloudSyncLifecycle`) | unlocked vault, status, one sync at a time | create, join, lock, sync | a crash or a lost reply between any two of export, exchange, apply and acknowledge | nothing acknowledged that was not sent; progress once the network is back | `CloudSync` |
| Providers (`cloud_sync/providers.rs`), portable files (`portable_file.rs`) | one object per vault, a list of envelopes; a file | conditional read-modify-write with retries; export, import | two writers; a write whose reply is lost; servers without ETag; limits | envelopes are neither lost nor doubled, and read in order | `SyncObject` implements `SyncLog`; `CloudSync` |
| Device key (`storage/crypto.rs`) | key file, salt file, lock file, copy in memory | first use, load | a stop between the two files, two first users, loss and restore | what was encrypted stays readable | `Databases` |
| Agent approval (`mcp/approval.rs`, `commands/agent.rs`, front end `agentApprovalStore.ts`, `AgentApprovalDialog.tsx`) | pending map, a channel per request, auto-approve deadline in memory and in the settings, the store's queue | `gate`, `resolve`, `cancel_auto_approve`, `status`, events, snapshot | gates on many threads against commands on one; dropped futures; a front end that starts late; a failed settings write; a restart | a suspended request can always be answered, once; a denial is final; the user sees what waits; a cancelled window stays cancelled | `AgentApproval` |
| Command guard and input tracker (`mcp/guard.rs`, `mcp/server.rs`, `ipc/socket.rs`) | the unfinished input line of each session | classify, track, take back | several writers of one line; a future dropped while it waits | what is approved is what is submitted; a secret is never recorded | `SharedLine` |
| Agent gateway (`mcp/gateway.rs`, `install/gateway-client.mjs`) | listener, token, manifest | start, stop, find | the manifest outlives the application; a restart between look and call | a call is made once, with the gateway that is there | `Gateway` |
| Session manager (`session/manager.rs`, `session/session.rs`, `commands/session.rs`, `commands/server.rs`) | the map; per session its client, jump host, client count, last activity | create, through a jump host or not, reuse, kill, reap, attach, detach | several killers; a creation dropped at any await; the reaper acts on what it read | torn down once and to the end; the count is the number of clients; no hop is left behind | `SessionLifecycle`, `SessionTeardown`, `Connections` |
| IPC server (`ipc/socket.rs`) | a thread per connection | requests, streaming attach, DetachSession, the reaper | a client that dies at any step of an attach | every attach is undone once; a handler ends with its client | `SessionLifecycle`, `Terminals`, `RemoteFiles` |
| Endpoint and daemon start (`ipc/socket.rs`, `cli/daemon.rs`, `lib.rs`) | the socket file | bind, probe, remove, start | two processes find one stale file | one listener, and the file leads to it | `Endpoint` |
| Command line (`cli/`) | a process per invocation; the file of short numbers | interactive attach, `ssh`, file commands, SFTP prompt, kill | leases on shared sessions; a lost reply; an unlocked file | a command gives back what it made and nothing else | `CommandLine`, `Connections`, `SessionLifecycle` |
| Output path (`replay.rs`, bridges, front end `Terminal`) | recent output, broadcast, bridges, streams | publish, replay, subscribe | replay and subscription are two steps; a slow receiver lags | a terminal shows all output, to the last | `Terminals` |
| Tunnels (`tunnel/`) | registry of handles; a worker each, a task per connection | start, stop, stop for a session; accept, open, copy | a start awaits the network between look-up and registration; half-closed directions | none outlives its session; what it carries arrives whole | `SessionServices`, `Forwarding` |
| Recordings (`logging/session_logger.rs`) | registry of writers, rows | start, stop, stop for a session | a check under a lock that is given up | none outlives its session | `SessionServices` |
| Host-key trust (`ssh/fingerprint.rs`, `ssh/client.rs`, front end `fingerprintStore.ts`) | trusted keys in a file, a copy per process, one question on the screen | check, ask, save, delete | two processes; one slot for two questions; keys that change | credentials only go to a key the user accepted | `HostKeys` |
| SFTP (`sftp/`, `commands/sftp.rs`, `mcp/server.rs`, `ipc/socket.rs`) | shared SFTP session and directory, transfers | list, transfer, edit, delete; directory sync | shared directories that move; failures half way; other commands in the tree | requests land where they were asked to; a transfer that reports success is complete | `RemoteFiles`, `DirectorySync` |
| Saved servers and secrets (`storage/database.rs`, `commands/server.rs`, `storage/credentials`) | rows by id, secrets by name | add, edit, remove, import, migrate, sync | a rename between two statements | a secret belongs to its server | `ServerBook` |
| SSH configuration import (`ssh_import/`) | candidates in memory | preview, import, link jump hosts | names others take meanwhile; includes; duplicates | an import says what the files say | `ProfileImport` |
| Database connections (`dbconn/`, `commands/dbconn.rs`) | rows with encrypted passwords | save, delete, connect, query | a task that returns after an edit | a connection stays as it was saved | `Databases` |
| Plugins (`plugins/`, `commands/plugin.rs`, `plugins/agent.rs`) | installations and grants | install, import, toggle, remove, execute, sync | read-modify-write on several threads; approval in between | nothing runs or is granted unreviewed | `Plugins` |
| Local shells and coding agents (`local_shell/`, `coding_agent/`) | map of sessions, a process, two threads each | spawn, kill, kill all, launch | kill, monitor and exit meet; a kill that gives up | a killed shell is gone; none is a zombie | `LocalShells` |
| Front-end sessions and layout (front end `sessionStore.ts`, `App.tsx`, layout) | tabs, panes, pages | poll, create, close, split, dock | lists that are older than what they are merged into | tabs go only with their sessions; the layout fits the tabs | `Workspace` |
| File tabs and detached windows (front end `FileWorkspace.tsx`, `fileEditBuffer.ts`, `detach.ts`) | buffers, recovery copy, handoffs | load, edit, save, detach, return | a read, a save or a keystroke during a handoff; restarts | unsaved text is never lost; one editor | `FileTabs` |
| Installation, server status | none shared | detection of tools, parsing of status output | - | - | not modelled |

How they interact: the desktop process and the daemon each own a session
manager, and whichever owns it serves the socket. A kill runs the teardown of the
session, which stops its tunnels, then its recordings, then the transport. An
agent's tool call goes through the guard and, if it is risky, through approval,
and then to a session. Approval talks to the front end in events out and commands
in. Local writes to the database record sync changes in the same transaction; the
sync engine moves them later, over an object that all devices replace.

## Modules

    SessionTeardown            abstract life of a session
      ^ implemented by SessionLifecycle   <- MCSessionLifecycle, SessionLifecycleProofs
      ^ implemented by SessionServices    <- MCSessionServices, MCBackend, BackendProofs
    SyncLog                    abstract exchange of a vault
      ^ implemented by SyncObject         <- MCBackend, BackendProofs
    SyncStore <- CloudSync                <- MCCloudSync, CloudSyncProofs
    AgentApproval                         <- MCAgentApproval, AgentApprovalProofs

    MCDesktop <- FileTabs  Workspace  RemoteFiles  SharedLine  Databases  LocalShells
    MCBackend <- Terminals  DirectorySync  Plugins  SessionServices  ServerBook
                 SyncObject  ProfileImport
    MCAccess  <- HostKeys  Connections  Endpoint  Forwarding  Gateway  CommandLine

    HostKeys <- HostKeysProofs            Forwarding <- ForwardingProofs
    AccessProofs  -> MCAccess: Connections  Gateway  Endpoint  CommandLine, and the composition
                     of these with the theorems of HostKeysProofs and ForwardingProofs
    BackendProofs -> MCBackend: all its parts, and their composition
    DesktopProofs -> MCDesktop: all its parts, and their composition

`MCDesktop`, `MCBackend` and `MCAccess` put several modules into one run each. Their parts
share no variable, so the variable `part` says which of them is at work and the others
stay in an initial state: the states of a run are the sum of those of its parts, not
their product. An initial state in which a resting part could start differently is cut to
one. Where two sessions, starts of the application, requests, commands, shells or kills are
alike, the first one begins first; of the two sessions made of connections, agents ask for the
first one only, and only to it do clients attach; of the two connections through a tunnel, which
share its lock and its places and not their data, one carries data. Nothing else is cut.

### SyncStore and CloudSync

`SyncStore` is the database of one device as a record (`rows`, `state`,
`outbox`, `clock`) and pure functions on it: what `record_local_upsert`,
`record_local_delete`, `activate_vault`, `apply_prepared_change` and
`export_snapshot` make of a database. `CloudSync` puts those functions in
transactions and adds the engine, the provider, portable files and failures.

| Code | Model |
|---|---|
| rows of `snippets`, `groups`, `servers` | `db[d].rows` |
| `sync_entity_state` | `db[d].state` (revision and content hash) |
| `sync_outbox` | `db[d].outbox` |
| `sync_metadata` clock | `db[d].clock` |
| `sync_pending_uploads`, `sync_vault_state` | `uploads`, `cursors` |
| the open transaction of `apply_remote_batch_for_vault` | `tx[d]`: changes are applied one action at a time, no other database step of that device can run, `Commit` or `RollBack` ends it |
| `sync_now` | `PrepareUpload`, `Exchange`, `BeginApply`, `ApplyChange`..., `Commit`, `Acknowledge`, and round again while changes are pending |
| the object of a vault | `log[v]` |
| `export_to_path`, `import_from_path` | `ExportFile`, `BeginImport` (outside the sync lock, as in the code) |
| a lost request or reply, a stopped process, lock | `NetworkFails`, `Crash`, `Lock` |

Data is abstracted as follows. A revision is the pair of its time and its device, and
also stands for the change's UUID, because the code mints both together. A
tombstone is a change without payload. The content hash is the payload. A name
is a base name and the entities it received a conflict suffix for, so that
`deterministic_conflict_name` stays injective and two renames differ. The wall
clock is any time at all above the device's clock: `next_revision` takes the larger of
the two, so skewed clocks are included. A server has one reference (its group);
parent groups and jump hosts go through the same statements. The code reads the
outbox and saves the envelope in two steps; `PrepareUpload` is one, because an
edit between them has the effect of an edit after both.

### SyncLog and SyncObject

`CloudSync` takes the exchange with a provider for one atomic step on an append-only
log. `SyncLog` states that promise; `SyncObject` shows that the providers keep it. In
`SyncObject` all devices read and replace one document (a gist, or a WebDAV file with or
without ETags) in separate requests: `Fetch`, `ApplyExchange` (the answer is made before
anything is written), `Write` or `WriteUnanswered`, `Apply`, `Settle`. `Unchanged` is the
condition the code sends: If-Match with the ETag that came with the document,
If-None-Match for a new one. A write that is refused fetches again, four times in the code;
a request may fail at any step and the device then starts over with the saved envelope.
The mapping reads the log off the document.

### AgentApproval

`gate()` is `GateCheck` (is a window open?), `GateInsert` (into the map),
`GateEmit` (the event), and then waits until `GateReceive` or, when its future is
dropped, `GateCancelled`. The commands run on the main thread, one at a time, but
their steps interleave with gates: `resolve` is `TakeResolve`, `OpenWindow`,
`Release` per request, and `FinishResolve` with the settings write; a cancel is
`TakeCancel` (settings) and `CloseWindow`. `events` is the channel to the front
end, in order; a snapshot (`TakeStatus`, `MergeSnapshot`) may be merged late.
`ui` is the store: the queue, the requests being resolved, those seen resolved
before the first snapshot, and the deadline it shows. `Restart` stops the
application between any two steps and restores the persisted deadline.

### SessionTeardown, SessionLifecycle and SessionServices

`SessionTeardown` is the promise: a session is opened once, torn down at most
once, never returns, and a teardown that was begun ends, unless an agent asked for it and
the agent's connection closed first (`asked`, `abandoned`). The two detailed modules
implement it through a refinement mapping (`Stage`) from their own stages.

`SessionLifecycle` has the map, the four ways to kill (one session, all, those of
a deleted server, the idle ones), the reaper's three steps (snapshot of the map,
`should_reap` on each, kill one after the other), and the clients: the streaming
handler step by step (found, attached, replaying, streaming, detaching), the
interactive terminal, and the command that hands its session off. Windows and agents attach
and detach by calls that name a session and nothing else (`CallAttach`, `CallDetach`): anyone may
make any number of either, in any order. A kill of the IPC server or of a window runs to its end
(`Kill`); an agent's kill, or its deletion of the server, runs in the future that
answers its request, kills one session after the other (`calls`), and is dropped with its
connection at any await (`AgentDropped`), which leaves a session out of the map and half torn down.
`SessionServices` has what the teardown stops: the steps of starting a tunnel or a
recording and the teardown's own (`KillTunnels`, `TunnelsFinished`,
`StopRecordings`, `Disconnect`), and that a dropped call leaves undone (`Abandon`). Each
leaves out what the other has: there, any session may be killed at any time, and who asked for it
is not told apart; here, `Cleanup` is one step.

Abstractions: attach and detach change the count and mark activity in one step
(the gap between the two lets an abandoned session look idle for an instant);
`kill_all` empties the map and tears the sessions down one after the other, in any order; idleness may elapse at any time; all sessions
belong to one server. `Exit` ends the owner of the sessions; the clients' streams end with
it.

### What the windows show: the modules of MCDesktop

| Module | State and actions | Abstractions |
|---|---|---|
| `FileTabs` | The file (`disk`), the recovery copy both windows share (`stored`), a buffer per window (`memory`), reads and saves in flight, those reads that a later one has superseded, and how far a handoff has come (`phase`). One action per handler of `FileWorkspace.tsx`, `detach.ts`, `DetachedWindow.tsx` and `nativeDock.ts`: load, type, save, discard, detach, adopt, return, close, restart. | One file, one detached window at a time; storage quotas. |
| `Workspace` | `alive` is what the two session managers hold; `tabs`, `active`, `pages`, `panes` are the stores; a poll has two answers that arrive apart and is merged later. Creating, closing, splitting and docking take the steps they have around their awaits; the effects of `App.tsx` that fit the layout follow each change in the same action. | A layout is the sequence of its leaves; directions and sizes are left out. |
| `RemoteFiles` | `tree` is the server's files, `cwd` the directory of each context (the window, the daemon, a local shell), `ops` the requests with what each has resolved and opened so far. Every SFTP request is a step that may fail; listing moves the directory as the code does, and transfers take the path they resolved when they began. | Two directories; contents tell only who wrote; links. |
| `SharedLine` | `line` is what the shell shows, `tracked` what the guard believes, `input` the call that holds the session's lock: check, ask, record, write, or take back. | A key is one of a few kinds: a character, a secret one, an erasure, a completion, Enter; the classification is a set of risky lines. |
| `Databases` | `rows` of connections, the key's two files and the copy in memory, an operation per thread (the commands of the main thread, and tasks). Files are lost and damaged; a salt that is cut, but not to less than eight bytes, passes for whole and gives another key (`CutSalt`). | A ciphertext is its plaintext with the key it is under; drivers are left out; a result, or a list of databases, tables or columns, is a number of rows. |
| `LocalShells` | Per session the process, the pseudo terminal, the two threads, the map and the lock a kill holds while it waits; kills one by one and of all, with the error paths. Launching an agent is planned (`PlanLaunch`) and refused in the code's order. | Detection of shells, quoting. |

### Behind them: the modules of MCBackend

| Module | State and actions | Abstractions |
|---|---|---|
| `Terminals` | `pushed` and `sent` count the output in the replay buffer and on the broadcast channel; a bridge per session with its last chunk and its batch, started by the command that made the session, or by the first terminal to attach; streaming attaches; per window how far the component has come. | Output is numbered, and a terminal shows a set of chunks: order and repetition are not told apart. |
| `DirectorySync` | `local` and `remote` trees and the transfer (`job`): plan, make directories, copy file by file (a file is emptied before its bytes are sent), list, delete. Other commands change the remote tree meanwhile; the connection may break at any step. | Four paths; files go in any order; a local target takes the same steps. |
| `Plugins` | `installed` rows, the read-modify-write of the main thread, an import beside it, a sync that applies rows, and an execution: prepare, ask, check again, run. | A manifest is a record of the fields the checks look at. |
| `ServerBook` | `servers` by id, `secrets` by name; what editors, dialogs, importers, the migration and a removal read earlier they keep between their statements. Rows come from other devices, under a name somebody gave or the one a conflict made. | A secret is whose it is and how often it was saved. |
| `ProfileImport` | The files (`disk`) of the three programs as lists of lines or profiles, the preview (readers as recursive functions over the lines, includes up to the code's depth), then the import: add or rename one by one, link jump hosts at the end. Other processes change the table meanwhile. | Of a profile its name, host and jump host; lexical detail. |
| `SessionServices`, `SyncObject` | above | |

### Ways in: the modules of MCAccess

| Module | State and actions | Abstractions |
|---|---|---|
| `HostKeys` | The file, the copy of each process, connection attempts (probe, check at each hop, ask, try again), one slot for the question, the answer being saved. Keys change, entries are deleted, the file is damaged. | The handshake is one step; two hosts, of which one is a jump host. |
| `Connections` | `sess` has each session's stage of creation, its client and its hop; windows, agents and `vibeshell ssh` reuse or create; a creation may fail or be dropped at each await; connections break. | Authentication; one server, with or without a jump host. |
| `Endpoint` | `socket` is whose listener the file names; each system call of a starting process (look, connect, bind, remove, listen) is a step. | systems where the endpoint is a file. |
| `Forwarding` | A worker of each kind of tunnel, `conn` per connection, the lock of the SSH session, both directions with what was sent and copied, the SOCKS replies, the registry of remote forwards. | Chunks are counted; a target is reachable or not. |
| `Gateway` | The application from start to end, the manifest it leaves, and the client script: look, check health, start, ask, and once again. | Tokens are numbered by the start that made them. |
| `CommandLine` | The daemon's sessions and directories, the file of short numbers as it is read, emptied and written, and a command from its lease to its end, the lines of an SFTP prompt and the read and write of an edit included. | A directory is its depth; of a file who edited it. |

## Runs

Passing runs (about ten minutes in all on two workers):

| Run | Question | Instance |
|---|---|---|
| `sync_snippets` | Is every edit of two devices delivered and do they converge, whatever is lost, retried or crashes? | two devices, one snippet, three edits in times 1..3, one failure, batches of one change, fairness |
| `sync_workspace` | Do names, references and content stay consistent with groups, servers, files and a change of vault? | two devices, one group of the same name each, one server, one snippet, two vaults, up to three edits, one failure, one file |
| `approval` | Can a gated command be lost, run against a denial, stay hidden, or profit from a cancelled window? | two requests, a window of one, time to 2, one restart, one failed write, one command in flight |
| `session_lifecycle` | Do killers, reaper and clients leave the count right and tear each session down once, completely? | two sessions, one client of each kind, one agent, calls that attach and detach once too often, in three scenarios; fairness |
| `desktop` | Do the windows and what their users work on keep what was typed, saved and opened? | two texts, two handoffs, two edits, one save, one read over another; one SSH session, one shell, one poll, two panes; two requests on two directories; two keys and lines of two; two connections, two saves, two mishaps, lists cut at one; two shells, two kills |
| `backend` | Do output, transfers, plugins, secrets, the teardown, the exchange and the import keep their promises? | two windows, four chunks, a replay and a channel of two; four paths; one execution, three changes; two servers of two names, three changes; two sessions, two tunnels, one recording; two devices, two vaults, pages and rounds of two; three sets of profiles, two imports, one change by others |
| `access` | Do the ways to a server lead to the right one, under the right key, and leave nothing behind? | two keys, two connects, one change; two sessions and a command with a retry; two applications, a daemon, a command; two connections of a tunnel; two clients of a gateway started three times; two commands on three sessions |

What their properties say:

- `sync_snippets`: `EditNotLost` (an edit is in the outbox, on its way or in the log),
  `EventuallyConverged`. `sync_workspace`: `StoreConsistent` (rows agree with their recorded
  revisions and hashes, no dangling reference, unique names), `MintedOnce` (a revision has one
  content everywhere), `UncontestedConvergence` (without a name conflict two devices that have
  exchanged everything agree; for three see "Seen while modelling").
- `approval`: `SuspendedOnce`, `DeniedNeverRuns`, `WaitingIsShown`, `NoRevival`.
- `session_lifecycle`: `CountExact` (the count of an open session is the number of its
  attachments, the handlers that failed before their first reply among them, less at most what calls
  and hand-offs took off without one of theirs), `GoneIsRetired`, `TeardownSpec` (the refinement, with
  its liveness: every teardown that no agent waits for ends, and an agent's unless its call is
  dropped), `BrokenStreamEnds` (liveness of a handler whose client is gone).
- `desktop`: `EditsAreSafe` (unsaved text is in the recovery copy and in every editable buffer; one
  editor at a time; not for what was typed under a read, see below), `TabsKept` (a tab goes only with its session), `LayoutFits`,
  `LandsWhereAsked` (a step of a request changes only what the request was asked for, where it was
  asked), `LineIsTracked` (what the shell runs on an agent's Enter was classified as that line;
  secrets stay out of records), `ConnectionsKept` (rows as they were saved, no other key than the
  first unless a salt was cut, and a query whose result was cut says so), `ShellsEndCleanly` (no zombie, no stray process, a
  successful kill is one).
- `backend`: `OutputIsWhole` (no hole between replay and live output, and the last chunk
  arrives, by fairness; for terminals of this process, except for what came before the
  bridge was subscribed), `TransferEndsWell`, `FreshEntriesSurvive` (what others put there
  survives a deletion, or the transfer fails), `OnlyReviewed`, `SecretsAreOwn` (about what
  happens on this device: names whose server another device or an agent took away are exempt, see below),
  `TeardownStopsServices`, `ExchangeIsAppend` (the refinement of `SyncLog`), `ImportsAreFaithful`
  (an import that nobody disturbs says what the files say, against a declarative reading of the
  lines, and a second one adds nothing; left out are an OpenSSH host with the name "none", whose
  links the code takes for no link, and Tabby profiles that share a name or an id).
- `access`: `ConsentFirst`, `SentToTrusted` (credentials go to a key the file had for that host since the
  check began), `NoIdleHop`, `OneServer` (who serves keeps the file), `ForwardsAreWhole`,
  `GatewayIsFound` (a call is made at most once, with the gateway whose manifest was seen),
  `CommandsKeepToTheirs` (leases are returned, others' sessions kept, numbers true, prompts in their
  directory, edits keep the rest).

`MCScenarios` in `MCCloudSync` keeps `sync_workspace` within five combinations,
because an instance that may use everything at once is too large: same-named
groups with failures; same-named groups with a file; a server and a group that
is deleted; a snippet by provider and by file; a snippet whose owner changes
vaults. Within a combination nothing is cut but the use of the others' entities,
failures, files and vaults and the bounds its comment states, and every action,
`RollBack` included, happens in one of them. `MCScenarios` in
`MCSessionLifecycle` takes one of three combinations: one session with every kind of client
and calls that attach and detach; one session with a terminal, and an agent and a window that kill
and delete; two sessions without clients, whom everybody kills. Only voluntary beginnings are cut (creating
a session, starting a command, making a call), so no fair run is shortened.

Why the bounds are enough to be interesting: two devices and three edits give
create-create, update-update and update-delete races with a third edit between
the steps of the sync; batches of one change force several rounds; two requests
are what a window must release together; two kills, a reap and a delete of a
session meet with one session, and one after the other with two. Two requests, two kills,
two editors, two connections or two commands are what it takes to interleave any
handler with itself and every other one; four chunks against buffers of two make the replay
overwrite, the channel lag and the last chunk follow; a page and rounds of two reach the
limits of an exchange; a chain of two directories and a plain name are what a moving
directory can confuse. Each property has a mutant, a plausible bug of the code, that the run
catches within these bounds. They are no proof; what is proved below does not depend
on them.

Violation runs, each a disagreement between what the repository says and what the
code does:

- `sync_groups_diverge` (`Convergence`): two devices create groups of one name.
  On each the loser is renamed by `materialize_existing_conflict_name`, under its
  old revision, without a change for others. The devices end with different
  names. The plan in `docs/plans/2026-07-13-cloud-sync-mobile.md` promises
  deterministic convergence. `UncontestedConvergence` in `sync_workspace` shows
  that, on two devices and for a server's group, a name conflict is needed.
- `approval_window` (`OpenWindowReleases`): `gate` checks the window before it
  inserts the request; a window opened in between has already drained the map, and
  the request waits in an open window.
- `session_leave` (`LeavingReturns`): after Ctrl+] the command line joins its
  output thread, which reads until the session's owner ends the stream. No fair
  schedule makes the process return.
- `services_outlive` (`GoneHasNoServices`): a tunnel or a recording that was
  starting when its session was killed registers after the teardown has looked,
  and stays.
- `replayed_command` (`CommandRunsOnce`): `vibeshell ssh` takes any error of a command on a
  reused session for an unusable session, and starts the command once more on a fresh
  one.

### Seen while modelling

These behaviours are in the models, or were met while writing them, without a document that
promises otherwise, so no run states them; the properties say what they leave out.

- Sessions: the reaper kills a session that was attached to after it was found idle; a
  session that was connecting while its server was deleted is stored for a server
  that no longer exists. A call that detaches lowers the count whether or not it has attached
  (`mcp/server.rs:1057`), and a command that hands its session off is counted out twice, by
  DetachSession and by the end of its stream: either way the count falls below the number of
  clients, and an idle session with a client may be reaped. A handler that cannot write its first reply
  returns without detaching (`ipc/socket.rs:951`): the count stays raised and the session is never
  reaped. An agent's kill, `kill_all` or deletion whose connection closes on the way leaves
  sessions that are out of the map (`session/manager.rs:796`, `818-825`) with tunnels, recordings
  or a transport that nobody stops. A lost reply to the question how many clients a session has counts as none, so
  `vibeshell ssh` may kill a session somebody is attached to; `ssh --wait` repeats a
  creation whose reply was lost; reuse by a remote window or the command line ignores
  that the server was edited.
- Output: a chunk that comes between the replay and the subscription of a streaming attach
  (`ipc/socket.rs:972`) is missing; `OutputIsWhole` leaves streams of the daemon out. So is a chunk
  that comes after the replay of a terminal which found the new session in the map
  (`session/manager.rs:665`) before its creator subscribed the bridge (`commands/session.rs:525`);
  `OutputIsWhole` counts it with what was `skipped`.
- Files: Refresh stays enabled during a read. A second one supersedes the first, whose end gives the
  editor back (front end `FileWorkspace.tsx:159-161`); what is typed then is overwritten by the answer of
  the second, in the recovery copy too (`132-138`). `EditsAreSafe` says nothing after that (`crossed`).
- Secrets: when another device renames a server, gives it another authentication or deletes it, or an agent
  deletes it, its secret stays under the old name (`storage/sync.rs:1535`), where a later server of that
  name finds it. `SecretsAreOwn` exempts these names (`stray`).
- Sync: a record renamed by a conflict and then read again from a portable file has one revision
  with two contents, and the batch is refused (`storage/sync.rs:475`). The number of envelopes is
  checked when a document is read and not when it is written; the document only grows, to 8 MB;
  a WebDAV file without ETag can be written once. A row that refers to a deleted entity is stored
  without the reference (`reference_is_tombstoned`, `storage/sync.rs:1684`) and under its old revision.
  Of three devices the first deletes a group, the second, not knowing, joins the vault and mints all it has
  anew, the group under a later revision than the deletion (`rebuild_full_outbox`), and the third puts
  a server into the group. The first stores that server without it; then the group comes
  back on all of them, with the server in it on two. Two devices do the same with a jump host or
  a parent group whose id sorts after the one that refers to it, because the changes are minted in the order
  of kind and id; the model has the group of a server as its only reference, and its instances number
  groups before servers as that order does.
- Endpoint: two processes that start at the same time can displace each other, because one
  that is not listening yet answers nobody; `SingleWinner` is about the others.
- Tunnels: a SOCKS client with an unsupported command gets two replies.
- Import: importing renamed profiles again adds duplicates; an import that was interrupted and
  is repeated does not link the jump hosts; Tabby profiles of one name get each other's jump
  host; directives after an OpenSSH Include belong to the last Host of the included file.
- Databases: a stop between key and salt leaves a device that can save no further password; a salt file
  cut to eight bytes or more is taken for whole and gives another key (`storage/crypto.rs:174-179`); lists of
  databases, tables and columns are cut at 1000, 5000 and 2000 without a word
  (`dbconn/mod.rs:132`, `150`, `177`, `186`); the front end keeps what it cached for a host that was edited.
- Local shells: a kill that gives up after two seconds has already unmapped the session, and held
  the manager's lock; `kill_all` misses a session that is being registered; a shell whose
  writer cannot be taken is dropped unkilled.
- Gateway: the manifest mostly keeps saying "running", because the process ends without dropping the
  gateway.
- Command line: a command that owns its session kills it while another one uses it; two commands
  at the file of numbers can hand out one number twice or lose it; a prompt whose start is crossed by
  another one's `cd` takes that directory for its home; of two edits that cross one is lost.
- Workspace: a list of sessions that is older than a close can bring the closed tab back
  for one poll.

### Fairness

- `CloudSync`: a device's enabled sync step is taken. The front end starts a sync
  every sixty seconds and on resume while a vault is unlocked, and every request
  has a timeout. Unlocking, editing and failing are free; `EventuallyConverged`
  assumes that from some point on both devices stay unlocked.
- `SessionLifecycle`: the teardown task, the handler threads and the client's
  output thread run when they can; the network steps of a teardown have timeouts. A teardown in an
  agent's call is owed only while the call is not dropped: `AgentDropped` may come at any
  time, and ends the obligation.
- `Terminals`: the bridge task receives and emits, the producer sends what it has pushed, and the
  thread of a stream takes its next step: replay, write, subscribe, receive. Readers, users and attaches owe nothing.

The others are safety only. `CHECK_DEADLOCK FALSE` throughout: edits, clients and calls are
bounded, and each of these systems may come to rest.

## Proofs

The theorems hold for every value of the constants that satisfies the named assumptions of
the modules. What they assume: bounds are natural numbers (`ApprovalAssumption`,
`KeysAssumption`, `GatewayAssumption`, `ForwardingAssumption`, `PluginsAssumption`,
`SyncAssumption`, `EndpointAssumption`, `ObjectAssumption`, `TabsAssumption`, `DatabasesAssumption`,
`BookAssumption`, `LeaseAssumption`, `PathsAssumption`, `TermAssumption`, `FilesAssumption`,
`SessionsAssumption`, `TrackedAssumption`, `RowsAssumption`, `ConnectionsAssumption`,
`LifecycleAssumption`), a tracker has
room for a key (`TrackedAssumption`) and a command a try (`ConnectionsAssumption`), and a window is longer than nothing
(`ApprovalAssumption`); sets that are counted are finite, namely the clients of
`LifecycleAssumption` and the devices of `ObjectAssumption`; kinds of clients and of processes are
disjoint (`LifecycleAssumption`, `EndpointAssumption`), and so are SSH sessions and local shells
(`SessionsAssumption`); every tunnel and recording
belongs to a session (`ServicesAssumption`); the values for nobody, nothing and no file are none of
the others (`ShellsAssumption`, `ForwardingAssumption`, `NullAssumption`, `SyncAssumption`,
`EndpointAssumption`, `ObjectAssumption`, `TabsAssumption`, `DatabasesAssumption`, `BookAssumption`,
the application in `LeaseAssumption`, and the command line in `TermAssumption`); there is a text to edit (`TabsAssumption`), a name for a
server (`BookAssumption`) and a session to make (`LeaseAssumption`); nobody gives a server a name that
the sync makes of another, the one assumption that a person could break (`BookAssumption`); the hosts that a discovery suggests are hosts (`ListingsAssumption`); devices and entities are positive numbers, because the code orders their ids,
both are finitely many, and an entity is of one kind (`StoreAssumption`); a batch holds at least one change
and the creator of an entity is a device (`SyncAssumption`); a sync makes at least one attempt
and one round (`ObjectAssumption`); a path is in finitely many directories, which are in no other ones than it, and
what is in the trees that a transfer starts from is in directories, and no remote tree has a
symbolic link in it (`PathsAssumption`, `TreesAssumption`); the home directory, the one below it and the file that may be in either are
four different paths, and what marks an absent file, a directory or no request is no request
(`FilesAssumption`); the files an import reads are lists of lines in which the value that stands for
none is no host, name or pattern (`ProfilesAssumption`), and a row that is there from the start
has the fields of a server and no jump host (`RowsAssumption`). No bound on edits, restarts, faults,
time, files, sessions, clients, keys or attempts is used to limit what happens: they are any
numbers.

Where a model computes over lists (the lines of a file, the keys of an input, the leaves of a
layout) it does so by recursive functions over the length. The induction theorems of the library
take a property as an operator, which the provers here cannot instantiate, so `DesktopProofs` and
`BackendProofs` begin with the same facts about sets: a set of numbers has a least
element (`LeastNumber`, from the library's `WFMin`), a set with 0 and all successors is all of `Nat`
(`Induction`), and a function defined from its value for the number before exists (`Recursion`).

`AgentApprovalProofs`
- `ApprovalTypes`: `TypeOK`, an inductive invariant.
- `SuspendedExactlyOnce`, `DenialsAreFinal`: both from one invariant, `CallsDecide /\ Kept`.
  `SuspendedOnce` alone is not inductive: a command in the inbox might carry no
  answer (`CallsDecide`), a finished job might still hold requests
  (`JobDecides`), and a request that has not reached the map might have an answer
  already (`EarlyUnknown`). With these, each step of the job moves a request from
  the map to the job to its channel.
- `CancelledStaysCancelled`: `NoRevival` with `WindowInv`. A persisted deadline
  is at most one window ahead, so when a new window opens it is not later than the
  new one; and while the window is being closed the setting is already cleared.
- `WaitingIsAlwaysShown`: `WaitingIsShown` with `ResolvedForGood` (a request that the front end has
  seen resolved, or will, is never pending again, so hiding it from a snapshot hides nothing that
  waits) and `OneStatus` (one start of the front end makes one status call, so no second
  snapshot overwrites what events have added).

`SessionLifecycleProofs`
- `LifecycleTypes`: includes that the client count never falls below zero.
- `TornDownIsRetired`: `GoneIsRetired` with `Unconnected` (a session that is
  still connecting has no client yet).
- `TornDownOnce`: the implementation of `SessionTeardown`'s safety part. A session that is torn
  down is the victim of one caller at most, and stays so until it is torn down or the call is dropped
  (`VictimsStep`, `ClaimedStep`, `AskedStep`), which is why a dropped call abandons no session that
  another tears down. The stage of a session then changes as the promise allows, from the
  fact that whatever is in the map is live.
- `CountIsExact`: `CountExact` with `Retirement`, `OneEach` (a client attaches to one session, and
  its handler starts when it connects) and `Untouched` (nobody is attached to a session before it
  is in the map). A step moves at most one holder of one session in or out, and the count with it, or takes
  one off the count and adds it to what is overdrawn (`CountMoves`); all other steps leave both as
  they are. That the set of holders is finite is what the assumption is for.

`CloudSyncProofs`
- `SyncTypeCorrect`, `StoresConsistent`, `RevisionsMintedOnce` and `EditsNotLost` rest on one
  invariant, `SyncInv`. First come lemmas on the functions of `SyncStore`: each takes a database
  that is `Coherent` to one that is, and says what it adds (`Mints`: new revisions are the
  device's own and above its clock; `Takes`: of a remote change it keeps the change, or a newer one).
  `Everything` is every change that anyone holds: in rows and outboxes, in open transactions, in
  envelopes that wait, in replies under way, in the objects and in the file. `SyncInv` says
  that its revisions were minted by the clocks (`Minted`); that each device knows all it has
  ever minted, or newer (`Knows`), without which it could mint over itself after a rollback;
  that what it still has as the newest is pending or in the vault's object (`Kept`), for the
  transaction that is open as well as for the database; and that a reply is worked on only after
  the envelope it answers is in the object. `Grown` says once what a step of one device may add, and
  the steps cite it.
- `SettledDevicesAgree`: in a vault that has settled (everybody's outbox is empty and the object read to
  its end) all devices have the same version of every entity, for any number of devices. `Knows`
  and `Kept` are about the sender; what is new is `TookInv`, about the reader: a device whose cursor
  has passed a change has that version or a newer one (`Took`), which must be carried through the reply under way,
  the transaction that may roll back and every local edit, restart and change of vault;
  and what a row was made of is dated by the clock that made it (`Dated`). The argument is then that of a
  last-writer-wins register: among finitely many devices one has the newest version (`NewestFact`, which
  is what the finiteness of the devices is for), the device that minted it has sent it (`Kept`), all
  have read it (`Took`), so none has an older one (`SameVersions`), and of one revision there is one
  content (`MintedOnce`). What a device makes of a content may differ in two ways that the
  theorem states: the suffix of a name conflict, and a group that was deleted when the row came.
- `ConvergedUnlessGroupLost`: hence `UncontestedConvergence` in every state in which no server has lost its
  group on some of the devices only (`GroupLost`). The exception is needed: with three
  devices it is reachable (see "Seen while modelling").

`HostKeysProofs`
- `KeysTypes`: `Typed`, in which `KeysTypeOK` is strengthened by `OnRoute`, which attempts
  check which hop.
- `TrustNeedsConsent`: `ConsentFirst` with `SaidYes`: an answer is saved from what was on
  the screen when it was given, so what is being saved has been accepted, whatever question
  has taken the slot since.
- `CredentialsGoToTrusted`: `SentToTrusted`, an action property, from `Traced`: an attempt that
  is checking has noticed every key the file had since it read it, and the copy it trusts
  from is one of those.

`AccessProofs`
- `HopsAreNotIdle`: `NoIdleHop` with `HopsFollow`: the stage of a creation tells what its hop
  is for, and a hop that is closed has taken the client with it. Each await that may fail
  keeps that.
- `GatewayFound`: `GatewayIsFound` with `GatewayInv`: tokens are those of starts that were
  made, a call runs only under the token of the gateway that took it, the manifest
  that says "running" was written by the last start, and a client asks only one that served.
- `TheFileLeadsToOneServer`: `OneServer`, with `EndInv`. Two parts hold whatever happens:
  who listens is serving or about to drop a probe (`Listeners`), and a server that somebody could
  have heard, and did not, has lost the file already (`Hears`), from which it follows that a server
  that was there is not displaced. While no two processes have been at the file at once, `OneAtATime`
  adds that whoever serves has the file, and that a process which found the name free is right.
- `LeaseTypes`, and `CommandsKeep`: `CommandsKeepToTheirs`, each of its parts from one of `LeaseInv`,
  which says what the fields of a command are at each of its stages (`JobsFit`). `LeasesFit`: who
  owns a session is the one who made it, so that two commands never own the same, and a
  command past its kill has seen the session gone, or lost the message. `NumbersFit`: while commands
  are at the file of numbers one at a time, all numbers that were told are below the next one of
  the file, and of what a command is about to write; a torn file has a command that
  is about to write it, so nobody takes it for an empty one. `PlacesFit`: the daemon's directory of a session is
  still the home for a prompt that is about to ask for it, unless a `cd` has come between. `TextsFit`:
  what an edit has read holds all edits reported so far, unless somebody crossed it.
- `ConnectionTypes`, with `CallsCount`: a command that may ask for a session has a try left, because it
  asks for a second one only after it lost one, and never after one was made for it.
- `AccessTypes`, `AccessIsSound`: the composition that the run checks. Each step of it is a step
  of one part and a stutter of the others (`AccessParts`), so every part's specification, and with it
  every part's theorems, hold of the whole.

`BackendProofs`
- `TerminalTypes`, and `OutputHasNoHole`: the safety part of `OutputIsWhole`. What the property lacks is that
  a terminal has everything up to what the bridge has received, not only up to the last chunk it shows
  (`ShownFits`), and a batch likewise (`BridgeFits`): a replay ends at or behind the bridge, because output is in the
  buffer before it is broadcast, and a window that joins later has the batches before it in its replay.
  Until there is a bridge a terminal shows its replay and no more, which has no hole (`ReplayFits`); what
  is sent between a replay and the subscription is counted as skipped when the bridge starts (`StartKeeps`).
  Nobody but the bridge writes live output to these windows, as no stream of a daemon is attached.
- `ServicesTypes`.
- `TeardownIsComplete`: `TeardownStopsServices` with `EarlyStages`: what was
  registered before the kill is still registered or on its way to its end, so the one
  look of the teardown finds it.
- `TornDownOnce`: the implementation of `SessionTeardown`'s safety part, for calls that are dropped at any
  step, too.
- `ObjectTypes`: `ObjTypeOK`, which says that envelopes are numbered by edits; it needs `Numbers`: what waits
  at a device, is sealed, and is in the object are together no more than the edits made.
- `FileIsLog`: `ExchangeIsAppend`, the implementation of `SyncLog`. `ObjectInv` tells for each phase of a sync
  what its document is: the start of the log when it was fetched, though others may have
  appended since (`Fetched`); that with the device's own envelope at the end, which is not in the rest of
  it (`Extended`); what is in the log by now, when answered (`Answered`), with the envelope in it
  before the device forgets it (`Arrived`). A write under an ETag, or into a file that was not
  there, therefore appends; a failed one changes nothing. Each step is an `Add`, `Take`,
  `Owe` or `Forget` of the log, or a stutter.
- `PluginsTypes`, `ReviewedOnly`: `OnlyReviewed` is inductive with the types of what the main thread
  and an import have read before they write (`PlugInv`): a toggle that overlaps an import writes
  grants only beside the manifest it read.
- `BookTypes`, and `OwnSecrets`: `SecretsAreOwn` with `NamesFit`: names are unique, and a server has a name
  that somebody gave or the one that the sync makes for this server, so that moving a secret to
  a conflict name overwrites no other server's; an edit carries a name of the first or the second
  kind, too, and so does a row from another device. Of a name in `stray` the theorem says nothing.
  `Overwrite` and `OwnerMoves` say what a move of a secret does to all names at once.
- `DirectoryTypes`, `EndsWell` (`TransferEndsWell`) and `FreshSurvive` (`FreshEntriesSurvive`), from `DirInv`,
  for trees of any depth. Both trees stay trees, whatever is made, renamed or removed. `WorkFits` says for
  each stage of an undisturbed transfer what is done and what is left: directories are made from the top, and what is
  planned is in planned directories (`PlannedFact`); files that are done have the local contents, and
  the rest of the tree is what it was, so that the rules protect what they did when it was listed
  (`ProtectedFact`). A
  deletion takes the deepest entries first, so what it comes to is empty (`DeepestGoes`), and what it lists and
  nothing protects is gone at the end. `FreshFits`: a fresh path is not in what is left of the listing, and a
  deletion takes one path of the listing, a directory only when it is empty.
- `ImportTypes`, and `ImportIsFaithful`: `ImportsAreFaithful`, with `ImportSound`, for files of any length
  and includes of any depth. First what the readers compute. `ExpandParsed`: what `Expand` makes of
  the files is a list of lines, by induction over the levels that are left and over the lines of each
  file. `BlocksDefined` says which lines are in which block, and `ObtainedIsSaid` that the first value
  in the first matching block is the first line that says it of the host: the reader by blocks and the
  definition by lines agree for every file. Then the import: while it is undisturbed,
  `Kept` (rows that were there are as they were), `LinksFit` (links are of rows it added, each of another) and
  `Placed` (a candidate that is dealt with has a server of its name and endpoint, to which its name leads
  when no other candidate claims it, and which is linked or waits for its link). `Repeats` and
  `CompletesHold` are the same for the second import: sources that were imported in full have a twin for each
  candidate, so nothing is added.
- `BackendTypes`, `BackendIsSound`: the composition of the seven parts, along `BackendParts`.

`ForwardingProofs`
- `ForwardedWhole`: `ForwardsAreWhole` with `FwdInv`: a direction is shut down after all its sender
  sent has been passed on (`Passing`), the phase of a connection tells what its client has been
  told (`Saying`), the SSH session is held only by who asks it (`Holding`), and the server has a
  forward only for a worker that still answers for it, or one that gave up cancelling (`Answering`).
- `ForwardingTypes`, with `Counted`: what is open at once is a finite set within the limit, which a
  connection joins only below it and leaves when it ends.

`DesktopProofs`
- `EndedCleanly`: `ShellsEndCleanly` with `KillsFit`: a kill that works holds the lock of the map,
  its target no longer counts as running by the time it is signalled, and a kill of all has
  everything in the map behind it, before it or in hand, so clearing the map loses nothing
  that runs except what it reports as failed.
- `ShellTypes`, with `TerminalFits`: the terminal and the reader of a session, and that a session is on its
  way into the map or in it, never both.
- `TabsTypes`, and `EditsSurvive`: `EditsAreSafe` with `TabsInv`. A window is locked while the tab is on
  its way out of it (`TabLocks`); a request to return the tab counts only while its window, the
  last one opened, waits for the answer (`DropsFit`); only a window that has the tab may have a read or a save
  in flight (`InFlight`); and every copy from which an editor may take its text is the
  recovery copy, or the editor's own (`Carried`). A read that was superseded counts for nothing, whatever
  it answers (`LoadsKeep`, `AnswerKeeps`). `Carried` is what the property lacks: it speaks of the
  text that is shown now, and a hand-over takes that text from a copy made steps earlier.
- `DatabasesTypes`, and `ConnectionsStay`: `ConnectionsKept` with `DbInv`. A row is readable under
  the key there is, or has no secret (`RowFits`); nobody else changes the row of a save under way
  (`SaveFits`); a task uses a row as it was saved (`UseFits`); only the holder of the lock makes
  key files, and only where there were none (`Making`); and each part of the first key is in its place or
  in the backup beside it (`FilesFit`, `PartFits`), so that files which can be used give the first key
  or that of a cut salt (`UsableFact`).
- `FilesTypes`, and `RequestsLand`: `LandsWhereAsked` with `FilesInv`. The path a request works on is the
  one asked for, except that an upload into a directory goes on into it, once (`KindFits`); what it
  has yet to make or to delete is within what it may touch (`RequestFits`, `Reach`); a file that is open
  for it is there and is a file (`HandlesFit`), which the writes of others, a rename and a delete
  must keep; what is in a directory keeps it (`TreeWhole`); and the window's mutex is with a
  request at work, never with one that sets up a context (`LockFits`). The property alone says
  nothing of the queue and of the open file that its steps use later.
- `WorkspaceTypes`, `LayoutFitsAlways` (`LayoutFits`) and `TabsStay` (`TabsKept`), from `WsSound`, for any
  number of sessions and polls. What `TabsKept` lacks is why an old answer may be believed: sessions
  are known once they were born and their creation cannot bring them any more (`WsKnown`), every tab and every
  session that a poll has seen is known, and what a poll began with and its answer does not have is
  gone for good (`PollSound`). For the layout `PanesSound` says that the leaves are some of the valid ones;
  `KeepOnlyKeeps` and the lemmas on docking say what each operation leaves of a sequence of leaves, by
  induction over its length, and `RelayoutFits` that the effects end with a layout that fits whatever they found.
- `LineTypes`, and `LineTracked`: `LineIsTracked` with `LineSound`. `KnowsEnd`: while the tracker is sure,
  what it holds is the end of the shell's line, so a command it classifies is the one that runs
  (`ObservedFollows`, by induction over the keys of an input; `TrimFollows`: cutting a text that is too long makes
  the tracker unsure). `Ahead`: an input that waits has moved the tracker by exactly its keys, which is why
  taking it back restores what it knew. `InputGuarded`: what needs an approval was asked about before the
  write. For secrets, `Marked`: a tracked text with a secret in it is marked as sensitive, also when it was
  typed by an earlier input.
- `DesktopTypes`, `DesktopIsSound`: the composition of the six parts, along `DesktopParts`.

Only model-checked:
- `UncontestedConvergence` without the exception of `ConvergedUnlessGroupLost`: it is false for three devices.
  That two devices cannot reach `GroupLost` is what `sync_workspace` shows; it depends on there being two and on the
  order in which changes are minted, and an invariant for it would be about that instance.
- All liveness (`EventuallyConverged`, `BrokenStreamEnds`, `LeavingReturns`, the last chunk of
  `OutputIsWhole`, the part `Finished` of `SessionTeardown`): liveness under fairness and ENABLED are
  outside what the installed provers handle.

## Not modelled

- Encryption, transport, wire formats and credentials in them: opaque to the control flow
  that is modelled. Authentication methods, ciphers and the database drivers likewise.
- Installation and platform code, server status, updates, settings, history and snippets of
  the front end, window geometry: each is a request and its answer, or parsing, without
  state that two actors share. The status and the diffs of coding agents' workspaces are read
  anew each time.
- Sync: plugin installations as a fourth kind of synced entity (like snippets they take no part in
  name conflicts); bootstrap of a database older than sync; the coalescing of rounds and the
  limit of 64; clocks more than a day apart. They are listed under hazards where they bite.
- The post-login command of a session; `connect_session`, which nothing calls; requests
  that the IPC server only forwards; named pipes of Windows, where no file can be stale.
- The writer task of a recording and its flushes; symbolic links of SFTP (of which a directory sync
  would follow those on the server), archives and preview limits; storage quotas of the front end; the one-time copy from an older data directory.
- The first fetch of sessions in the front end (front end `sessionStore.ts:610-655`, called once at
  `App.tsx:245`), which replaces all SSH tabs: `Workspace` starts when it has been answered.
- Parsing of arguments and of keys.

`PROJECT.json` gives the reason for each component that is `partly` or `not_modelled`.

## Plan

Done: all modules above, their runs and proofs. What is left, in this order:

1. The jump host of a server and the parent of a group as further references in `SyncStore`; an
   approval that abstracts gates to an atomic decision.
2. `SharedLine` composed with `AgentApproval`, whose answer it takes for a free choice now.
3. Plugin installations and the bootstrap in `SyncStore`.

Runs are few by intent: one per question. A new component becomes a part of one of the
three composed runs.
