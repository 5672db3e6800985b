----------------------------- MODULE ServerBook -----------------------------
(***************************************************************************)
(* The saved servers of one device and their secrets.  The rows of servers *)
(* go by id and travel with the sync; the rows of server_credentials stay  *)
(* here and go by the server's name (storage/database.rs, commands/        *)
(* server.rs, mcp/server.rs, ssh_import/mod.rs, storage/sync.rs).          *)
(*                                                                         *)
(* Each statement on the database, and each transaction, is one step. What *)
(* an editor, a dialog, an importer or a removal read earlier they hold    *)
(* between their steps, while the others go on.                            *)
(***************************************************************************)
EXTENDS Integers, FiniteSets

CONSTANTS None,      \* no row
          Ids,       \* servers
          Names,     \* the names people give them
          MaxBook    \* bound: additions, edits, removals and synced changes

VARIABLES servers,    \* the servers table
          secrets,    \* server_credentials, by server_name
          latest,     \* history: how often each server's secret was saved
          known,      \* ids that were in use: a new server gets a fresh UUID
          creation,   \* the dialog or the importer that adds a server
          edits,      \* the rows that the editors are about to write
          removal,    \* the delete_server in progress
          migration,  \* a row that the migration of plaintext secrets has read
          stray,      \* history: names whose secret a step left behind
          book        \* count of changes

bookVars == <<servers, secrets, latest, known, creation, edits, removal, migration, stray, book>>

\* deterministic_conflict_name
ConflictName(n, i) == <<n, i>>
AllNames == Names \cup {ConflictName(n, i) : n \in Names, i \in Ids}

\* What a server can be called: a name that people give, or one that the sync made of it, which
\* has the server's id in it.
NamesOf(i) == Names \cup {ConflictName(n, i) : n \in Names}
Auths == {"password", "key"}
Editors == {"ui", "agent", "import"}
Patches == {"none", "secret", "phrase"}

Rows == [name : AllNames, auth : Auths]
Secrets == [of : Ids, auth : Auths, version : Nat, sealed : BOOLEAN]

\* No name that people give is one of the names that the sync makes of it.
ASSUME BookAssumption ==
    /\ None \notin Rows \cup Secrets /\ Names # {} /\ MaxBook \in Nat
    /\ \A n \in Names, m \in Names, i \in Ids : m # ConflictName(n, i)

BookTypeOK ==
    /\ servers \in [Ids -> Rows \cup {None}]
    /\ secrets \in [AllNames -> Secrets \cup {None}]
    /\ latest \in [Ids -> Nat] /\ known \subseteq Ids /\ stray \subseteq AllNames
    /\ \A i \in Ids : servers[i] # None =>
         /\ i \in known /\ servers[i].name \in NamesOf(i)
         /\ \A k \in Ids \ {i} : servers[k] # None => servers[k].name # servers[i].name
    /\ creation = None \/ (creation.row \in Rows /\ creation.id \in Ids /\ creation.row.name \in Names)
    /\ \A e \in Editors : edits[e] = None \/
         (edits[e].row \in Rows /\ edits[e].id \in Ids /\ edits[e].row.name \in NamesOf(edits[e].id))
    /\ removal = None \/ (removal.name \in AllNames /\ removal.id \in Ids)
    /\ migration \in Secrets \cup {None} /\ book \in 0..MaxBook

\* An installation from before the secrets were encrypted.
BookInit ==
    \E i \in Ids, n \in Names :
      /\ servers = [k \in Ids |-> IF k = i THEN [name |-> n, auth |-> "password"] ELSE None]
      /\ secrets = [m \in AllNames |-> IF m # n THEN None ELSE
                      [of |-> i, auth |-> "password", version |-> 0, sealed |-> FALSE]]
      /\ latest = [k \in Ids |-> 0] /\ known = {i}
      /\ creation = None /\ edits = [e \in Editors |-> None]
      /\ removal = None /\ migration = None /\ stray = {} /\ book = 0

Named(n) == {i \in Ids : servers[i] # None /\ servers[i].name = n}
Taken == {n \in AllNames : Named(n) # {}}
HasSecret(n) == secrets[n] # None
Change == book < MaxBook /\ book' = book + 1

\* The secret saved for a server, encrypted with the key of the device.
Sealed(i, auth) == [of |-> i, auth |-> auth, version |-> latest[i] + 1, sealed |-> TRUE]

-----------------------------------------------------------------------------
(* Additions: the dialog, the importer and an agent's tool. *)

\* server_add: the names are unique.
Add(i, row) ==
    /\ i \notin known /\ row.name \notin Taken
    /\ servers' = [servers EXCEPT ![i] = row] /\ known' = known \cup {i}

\* handleSubmit of the dialog, with the name that the person typed.
DialogAdd(i, row) ==
    /\ Change /\ creation = None /\ row.name \in Names
    /\ Add(i, row)
    /\ creation' = [who |-> "ui", stage |-> "added", id |-> i, row |-> row]
    /\ UNCHANGED <<secrets, latest, edits, removal, migration, stray>>

\* import_preview reads the list of servers once,
ImportStart ==
    /\ Change /\ creation = None
    /\ \E i \in Ids : creation' = [who |-> "import", stage |-> "listed", id |-> i, used |-> Taken,
                                   row |-> [name |-> CHOOSE n \in Names : TRUE, auth |-> "key"]]
    /\ UNCHANGED <<servers, secrets, latest, known, edits, removal, migration, stray>>

\* and each profile gets a name that the list did not have (unique_server_name). One that was
\* taken since ends the import.
ImportAdd ==
    /\ creation # None /\ creation.stage = "listed"
    /\ \E n \in Names \ creation.used :
         LET row == [creation.row EXCEPT !.name = n]
         IN  \/ /\ Add(creation.id, row)
                /\ creation' = [who |-> "import", stage |-> "added", id |-> creation.id, row |-> row]
             \/ /\ n \in Taken /\ creation' = None
                /\ UNCHANGED <<servers, known>>
    /\ UNCHANGED <<secrets, latest, edits, removal, migration, stray, book>>

\* tool_server_add has no secret to save.
AgentAddServer(i, row) ==
    /\ Change /\ row.name \in Names
    /\ Add(i, row)
    /\ UNCHANGED <<secrets, latest, creation, edits, removal, migration, stray>>

\* credential_save under the name that the server was added with, whoever has it by now. A
\* failure is reported, and the server stays without a secret.
CreationSave ==
    /\ creation # None /\ creation.stage = "added"
    /\ LET i == creation.id
           n == creation.row.name
       IN  \/ /\ secrets' = [secrets EXCEPT ![n] = Sealed(i, creation.row.auth)]
              /\ latest' = [latest EXCEPT ![i] = @ + 1]
              /\ creation' = [creation EXCEPT !.stage = "saved"]
              /\ stray' = IF servers[i] = creation.row THEN stray \ {n} ELSE
                            stray \cup {n} \cup
                              (IF servers[i] = None THEN {} ELSE {servers[i].name})
           \/ /\ creation' = None
              /\ UNCHANGED <<secrets, latest, stray>>
    /\ UNCHANGED <<servers, known, edits, removal, migration, book>>

\* The id of the secret goes into the row: the dialog asks for an update of that field, the
\* importer writes the row it has in memory.
CreationLink ==
    /\ creation # None /\ creation.stage = "saved" /\ edits[creation.who] = None
    /\ LET i == creation.id
           row == IF creation.who = "import" THEN creation.row ELSE servers[i]
       IN  edits' = [edits EXCEPT ![creation.who] =
                       IF row = None THEN None ELSE [id |-> i, row |-> row, patch |-> "none"]]
    /\ creation' = None
    /\ UNCHANGED <<servers, secrets, latest, known, removal, migration, stray, book>>

-----------------------------------------------------------------------------
(* Edits: a row is read, changed and written whole. *)

\* update_server of the edit dialog, which may replace the secret or the passphrase, and
\* tool_server_update, which may not.
BeginEdit(e, i, row, patch) ==
    /\ Change /\ edits[e] = None /\ servers[i] # None
    /\ row.name \in Names \cup {servers[i].name}
    /\ e = "ui" \/ patch = "none"
    /\ edits' = [edits EXCEPT ![e] = [id |-> i, row |-> row, patch |-> patch]]
    /\ UNCHANGED <<servers, secrets, latest, known, creation, removal, migration, stray>>

\* What server_update_with_credentials bails out on, and the two UNIQUE columns.
Refused(edit) ==
    LET old == servers[edit.id]
        new == edit.row
    IN  \/ old = None
        \/ old.auth # new.auth /\ edit.patch = "none"
        \/ Named(new.name) \ {edit.id} # {}
        \/ old.name # new.name /\ HasSecret(old.name) /\ HasSecret(new.name)
        \/ edit.patch = "phrase" /\ (old.auth # new.auth \/ ~(HasSecret(old.name) \/ HasSecret(new.name)))

\* The secrets after one of them is filed under another name.
Rekeyed(old, new) ==
    IF old = new \/ ~HasSecret(old) THEN secrets
    ELSE [secrets EXCEPT ![new] = secrets[old], ![old] = None]
StrayRekeyed(old, new) ==
    IF old = new \/ ~HasSecret(old) THEN stray
    ELSE (stray \ {old, new}) \cup (IF old \in stray THEN {new} ELSE {})

\* Mutant of FinishEdit: the authentication is not compared with the row as it is now.
FinishEditStale(e) ==
    /\ edits[e] # None
    /\ edits' = [edits EXCEPT ![e] = None]
    /\ LET edit == edits[e]
           i == edit.id
           n == edit.row.name
       IN  IF Refused([edit EXCEPT !.row.auth =
                             IF servers[i] = None THEN @ ELSE servers[i].auth])
           THEN UNCHANGED <<servers, secrets, latest, stray>>
           ELSE LET moved == Rekeyed(servers[i].name, n)
                    strays == StrayRekeyed(servers[i].name, n)
                    new == edit.patch = "secret"
                IN  /\ servers' = [servers EXCEPT ![i] = edit.row]
                    /\ secrets' = CASE new -> [moved EXCEPT ![n] = Sealed(i, edit.row.auth)]
                                    [] edit.patch = "phrase" ->
                                         [moved EXCEPT ![n].sealed = TRUE, ![n].auth = edit.row.auth]
                                    [] OTHER -> moved
                    /\ latest' = IF new THEN [latest EXCEPT ![i] = @ + 1] ELSE latest
                    /\ stray' = IF new THEN strays \ {n} ELSE strays
    /\ UNCHANGED <<known, creation, removal, migration, book>>

\* server_update_with_credentials: the row, the name of its secret and a new secret commit
\* together, against the row as it is now.
FinishEdit(e) ==
    /\ edits[e] # None
    /\ edits' = [edits EXCEPT ![e] = None]
    /\ LET edit == edits[e]
           i == edit.id
           n == edit.row.name
       IN  IF Refused(edit)
           THEN UNCHANGED <<servers, secrets, latest, stray>>
           ELSE LET moved == Rekeyed(servers[i].name, n)
                    strays == StrayRekeyed(servers[i].name, n)
                    new == edit.patch = "secret"
                IN  /\ servers' = [servers EXCEPT ![i] = edit.row]
                    /\ secrets' = CASE new -> [moved EXCEPT ![n] = Sealed(i, edit.row.auth)]
                                    [] edit.patch = "phrase" ->
                                         [moved EXCEPT ![n].sealed = TRUE, ![n].auth = edit.row.auth]
                                    [] OTHER -> moved
                    /\ latest' = IF new THEN [latest EXCEPT ![i] = @ + 1] ELSE latest
                    /\ stray' = IF new THEN strays \ {n} ELSE strays
    /\ UNCHANGED <<known, creation, removal, migration, book>>

-----------------------------------------------------------------------------
(* Removals. *)

\* A row is gone; what is still filed under its name is nobody's.
Gone(i) ==
    /\ servers' = [servers EXCEPT ![i] = None]
    /\ stray' = IF servers[i] # None /\ HasSecret(servers[i].name)
                THEN stray \cup {servers[i].name} ELSE stray

\* delete_server reads the row, closes the sessions,
BeginRemoval(i) ==
    /\ Change /\ removal = None /\ servers[i] # None
    /\ removal' = [stage |-> "closing", id |-> i, name |-> servers[i].name]
    /\ UNCHANGED <<servers, secrets, latest, known, creation, edits, migration, stray>>

\* drops the secret of the name it read,
RemovalDropsSecret ==
    /\ removal # None /\ removal.stage = "closing"
    /\ secrets' = [secrets EXCEPT ![removal.name] = None]
    /\ stray' = stray \ {removal.name}
    /\ removal' = [removal EXCEPT !.stage = "dropped"]
    /\ UNCHANGED <<servers, latest, known, creation, edits, migration, book>>

\* and deletes the row.
FinishRemoval ==
    /\ removal # None /\ removal.stage = "dropped"
    /\ Gone(removal.id) /\ removal' = None
    /\ UNCHANGED <<secrets, latest, known, creation, edits, migration, book>>

\* tool_server_delete deletes the row only.
AgentDelete(i) ==
    /\ Change /\ servers[i] # None /\ Gone(i)
    /\ UNCHANGED <<secrets, latest, known, creation, edits, removal, migration>>

-----------------------------------------------------------------------------
(* What the sync brings. *)

\* apply_remote_server. A row that changes its name leaves its secret where it was, and one
\* that changes its authentication keeps it.
Overwrite(i, row, book1, secrets1, stray1) ==
    LET old == book1[i]
        left == IF old = None \/ old.name = row.name \/ secrets1[old.name] = None THEN {} ELSE {old.name}
        kept == IF secrets1[row.name] # None /\ (old = None \/ old # row) THEN {row.name} ELSE {}
    IN  /\ servers' = [book1 EXCEPT ![i] = row]
        /\ secrets' = secrets1
        /\ stray' = stray1 \cup left \cup kept

\* move_server_credential_key fails, and the batch with it, when both names have a secret.
Movable(old, new) == old = new \/ ~HasSecret(old) \/ ~HasSecret(new)

\* apply_prepared_change of a server. Of two servers with one name the loser takes its
\* conflict name and its secret follows: the one that is here (materialize_existing_conflict_name),
\* or the one that arrives (move_existing_server_credential_for_conflict). A row may arrive with
\* the conflict name that another device gave it.
RemoteUpsert(i, row) ==
    /\ Change /\ row.name \in NamesOf(i)
    /\ \/ /\ Named(row.name) \ {i} = {}
          /\ Overwrite(i, row, servers, secrets, stray)
       \/ \E loser \in Named(row.name) \ {i} :
            LET n == ConflictName(row.name, loser)
            IN  /\ Movable(row.name, n)
                /\ Overwrite(i, row, [servers EXCEPT ![loser].name = n],
                             Rekeyed(row.name, n), StrayRekeyed(row.name, n))
       \/ LET n == ConflictName(row.name, i)
              old == IF servers[i] = None THEN n ELSE servers[i].name
          IN  /\ Named(row.name) \ {i} # {}
              /\ Movable(old, n)
              /\ Overwrite(i, [row EXCEPT !.name = n],
                           IF servers[i] = None THEN servers ELSE [servers EXCEPT ![i].name = n],
                           Rekeyed(old, n), StrayRekeyed(old, n))
    /\ known' = known \cup {i}
    /\ UNCHANGED <<latest, creation, edits, removal, migration>>

\* delete_domain_entity
RemoteDelete(i) ==
    /\ Change /\ servers[i] # None /\ Gone(i)
    /\ UNCHANGED <<secrets, latest, known, creation, edits, removal, migration>>

-----------------------------------------------------------------------------
(* migrate_plaintext_credentials, when a process opens the database. *)

BeginMigration(n) ==
    /\ migration = None /\ HasSecret(n) /\ ~secrets[n].sealed
    /\ migration' = secrets[n]
    /\ UNCHANGED <<servers, secrets, latest, known, creation, edits, removal, stray, book>>

\* Mutant of FinishMigration: the row is encrypted as it was read.
FinishMigrationBlind ==
    /\ migration # None
    /\ secrets' = [n \in AllNames |-> IF HasSecret(n) /\ secrets[n].of = migration.of
                                      THEN [migration EXCEPT !.sealed = TRUE] ELSE secrets[n]]
    /\ migration' = None
    /\ UNCHANGED <<servers, latest, known, creation, edits, removal, stray, book>>

\* Only the exact row that was read is encrypted.
FinishMigration ==
    /\ migration # None
    /\ secrets' = [n \in AllNames |-> IF secrets[n] = migration
                                      THEN [migration EXCEPT !.sealed = TRUE] ELSE secrets[n]]
    /\ migration' = None
    /\ UNCHANGED <<servers, latest, known, creation, edits, removal, stray, book>>

BookNext ==
    \/ \E i \in Ids :
         \/ \E n \in NamesOf(i), auth \in Auths :
              LET row == [name |-> n, auth |-> auth]
              IN  DialogAdd(i, row) \/ AgentAddServer(i, row) \/ RemoteUpsert(i, row)
         \/ \E e \in {"ui", "agent"}, n \in AllNames, auth \in Auths, patch \in Patches :
              BeginEdit(e, i, [name |-> n, auth |-> auth], patch)
         \/ BeginRemoval(i) \/ AgentDelete(i) \/ RemoteDelete(i)
    \/ ImportStart \/ ImportAdd \/ CreationSave \/ CreationLink
    \/ \E e \in Editors : FinishEdit(e)
    \/ RemovalDropsSecret \/ FinishRemoval
    \/ (\E n \in AllNames : BeginMigration(n)) \/ FinishMigration

BookSpec == BookInit /\ [][BookNext]_bookVars

-----------------------------------------------------------------------------
\* A secret is filed under the name of the server it was saved for, is of the kind that the
\* server asks for, and is the last one saved, while dialogs, an agent and the importer hold rows
\* they read, a migration rewrites secrets, and the sync gives a server its conflict name. This is
\* about what happens on this device: a name is exempt, and in `stray`, from when another device
\* renamed, re-authenticated or deleted its server, an agent deleted it, or a secret was saved
\* under a name or a kind that its server no longer had. Their secrets the code leaves behind.
SecretsAreOwn ==
    \A n \in AllNames : (HasSecret(n) /\ n \notin stray) =>
        \E i \in Named(n) : /\ secrets[n].of = i /\ secrets[n].version = latest[i]
                            /\ secrets[n].auth = servers[i].auth
=============================================================================
