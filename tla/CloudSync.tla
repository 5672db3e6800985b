------------------------------ MODULE CloudSync ------------------------------
(***************************************************************************)
(* Encrypted workspace sync between devices: the storage transactions of   *)
(* storage/sync.rs, the sync engine of cloud_sync/mod.rs (prepare upload,  *)
(* exchange with the provider, apply, acknowledge), the append-only object *)
(* of cloud_sync/providers.rs, portable files, and crashes and lost        *)
(* replies between any two of those steps.                                 *)
(*                                                                         *)
(* A remote batch is applied inside one SQLite transaction that holds the  *)
(* connection mutex: tx[d] is the uncommitted database, and while it is    *)
(* open no other database operation of device d can run.                   *)
(***************************************************************************)
EXTENDS SyncStore

CONSTANTS Vaults,       \* vault ids
          Creator,      \* the device whose user creates an entity (ids are fresh UUIDs)
          BatchLimit,   \* MAX_OUTBOX_BATCH
          MaxClock,     \* bound: no revision is minted past this time
          MaxEdits,     \* bound: local edits
          MaxBreaks,    \* bound: crashes, lost requests or replies, and locks by the user
          MaxFiles      \* bound: portable files exported

ASSUME SyncAssumption ==
    /\ Creator \in [Entities -> Devices]
    /\ Null \notin Vaults
    /\ BatchLimit \in Nat \ {0}
    /\ MaxClock \in Nat /\ MaxEdits \in Nat /\ MaxBreaks \in Nat /\ MaxFiles \in Nat

VARIABLES db,        \* committed database of each device
          tx,        \* open batch transaction of each device
          uploads,   \* sync_pending_uploads: the saved envelope per vault, {} if none
          cursors,   \* sync_vault_state: provider position per vault
          active,    \* activeVaultId, Null before the first vault
          run,       \* sync_now of each device, and the reply it holds
          log,       \* the provider object of each vault: a sequence of envelopes
          file,      \* the last portable file written
          spent      \* how much of each bound has been used

vars == <<db, tx, uploads, cursors, active, run, log, file, spent>>

Phases == {"locked", "idle", "exchange", "reply", "committed", "draining"}
NoTx == [source |-> "none", db |-> EmptyDatabase, todo |-> {}]
Run(phase) == [phase |-> phase, cursor |-> 0, batch |-> {}]

TypeOK ==
    /\ db \in [Devices -> Database]
    /\ tx \in [Devices -> [source : {"none", "vault", "file"},
                           db : Database, todo : SUBSET Change]]
    /\ uploads \in [Devices -> [Vaults -> SUBSET Change]]
    /\ cursors \in [Devices -> [Vaults -> Nat]]
    /\ active \in [Devices -> Vaults \cup {Null}]
    /\ run \in [Devices -> [phase : Phases, cursor : Nat, batch : SUBSET Change]]
    /\ log \in [Vaults -> Seq(SUBSET Change)]
    /\ file \in SUBSET Change
    /\ spent \in [edits : Nat, breaks : Nat, files : Nat]

Init ==
    /\ db = [d \in Devices |-> EmptyDatabase]
    /\ tx = [d \in Devices |-> NoTx]
    /\ uploads = [d \in Devices |-> [v \in Vaults |-> {}]]
    /\ cursors = [d \in Devices |-> [v \in Vaults |-> 0]]
    /\ active = [d \in Devices |-> Null]
    /\ run = [d \in Devices |-> Run("locked")]
    /\ log = [v \in Vaults |-> <<>>]
    /\ file = {}
    /\ spent = [edits |-> 0, breaks |-> 0, files |-> 0]

Bound == [edits |-> MaxEdits, breaks |-> MaxBreaks, files |-> MaxFiles]

Spend(what) ==
    /\ spent[what] < Bound[what]
    /\ spent' = [spent EXCEPT ![what] = @ + 1]

\* The connection mutex is free.
Free(d) == tx[d].source = "none"

\* Mutant of Ticks: max(now, last), without the increment.
TicksRepeat(d, n) == {t \in 1..MaxClock : t >= db[d].clock /\ t + n - 1 <= MaxClock}

\* next_revision: max(now, last + 1) for whatever the device's clock reads, with
\* room for n consecutive revisions below the bound.
Ticks(d, n) == {t \in 1..MaxClock : t > db[d].clock /\ t + n - 1 <= MaxClock}

-----------------------------------------------------------------------------
(* Local edits (storage/database.rs): the domain write and its outbox entry *)
(* commit together.                                                         *)

NameFree(s, e, n) ==
    e \in Snippets \/ \A x \in Table(e) \ {e} : s.rows[x] # Null => s.rows[x].name # n

Choices(s, e) ==
    {[name |-> [base |-> b, marks |-> <<>>], ref |-> g] :
        b \in Names,
        g \in {Null} \cup (IF e \in Servers THEN {x \in Groups : s.rows[x] # Null} ELSE {})}

LocalAdd(d) ==
    \E e \in Entities : \E p \in Choices(db[d], e), t \in Ticks(d, 1) :
        /\ Free(d) /\ Spend("edits")
        /\ Creator[e] = d /\ ~Known(db[d], e)
        /\ NameFree(db[d], e, p.name)
        /\ db' = [db EXCEPT ![d] = Upserted(@, d, e, p, t)]
        /\ UNCHANGED <<tx, uploads, cursors, active, run, log, file>>

\* Snippets and servers can be edited; groups are only added and deleted.  An
\* edit may keep the stored name, conflict suffix included.
LocalUpdate(d) ==
    \E e \in Entities \ Groups :
      /\ Free(d) /\ Spend("edits")
      /\ db[d].rows[e] # Null
      /\ \E p \in Choices(db[d], e) \cup {[q EXCEPT !.name = db[d].rows[e].name] :
                                           q \in Choices(db[d], e)},
            t \in Ticks(d, 1) :
           /\ NameFree(db[d], e, p.name)
           /\ db' = [db EXCEPT ![d] = Upserted(@, d, e, p, t)]
      /\ UNCHANGED <<tx, uploads, cursors, active, run, log, file>>

\* A delete is recorded even when another device's delete got there first.
LocalDelete(d) ==
    \E e \in Entities :
      /\ Free(d) /\ Spend("edits")
      /\ Known(db[d], e)
      /\ \E t \in Ticks(d, 1 + Cardinality(Members(db[d], e))) :
           db' = [db EXCEPT ![d] = Deleted(@, d, e, t)]
      /\ UNCHANGED <<tx, uploads, cursors, active, run, log, file>>

-----------------------------------------------------------------------------
(* Vault membership. *)

\* The bound never keeps a device out of its first vault.
RebuildTicks(d) ==
    Ticks(d, Cardinality({e \in Entities : Known(db[d], e)}))
      \cup IF active[d] = Null THEN {db[d].clock + 1} ELSE {}

\* create_vault or join_vault with a pairing code.  A vault other than the
\* active one makes activate_vault rebuild the outbox under new revisions.
Join(d) ==
    \E v \in Vaults :
      /\ Free(d)
      /\ run[d].phase \in {"locked", "idle"}
      /\ \/ /\ active[d] = v /\ run[d].phase = "locked"
            /\ UNCHANGED <<db, active>>
         \/ /\ active[d] # v
            /\ \E t \in RebuildTicks(d) :
                 db' = [db EXCEPT ![d] = IF \E e \in Entities : Known(@, e)
                                         THEN Rebuilt(@, d, t) ELSE @]
            /\ active' = [active EXCEPT ![d] = v]
      /\ run' = [run EXCEPT ![d] = Run("idle")]
      /\ UNCHANGED <<tx, uploads, cursors, log, file, spent>>

Lock(d) ==
    /\ Spend("breaks")
    /\ run[d].phase = "idle"
    /\ run' = [run EXCEPT ![d] = Run("locked")]
    /\ UNCHANGED <<db, tx, uploads, cursors, active, log, file>>

-----------------------------------------------------------------------------
(* One round of run_sync. *)

\* prepare_upload: a saved envelope is sent again as it is; otherwise the oldest
\* outbox changes are saved as a new one.  The code reads the outbox and saves the
\* envelope in two steps; an edit between them is as one made after both.
PrepareUpload(d) ==
    /\ Free(d)
    /\ run[d].phase \in {"idle", "draining"}
    /\ uploads' = IF uploads[d][active[d]] # {} THEN uploads
                  ELSE [uploads EXCEPT ![d][active[d]] = Oldest(db[d].outbox, BatchLimit)]
    /\ run' = [run EXCEPT ![d] = Run("exchange")]
    /\ UNCHANGED <<db, tx, cursors, active, log, file, spent>>

\* The provider adds the envelope unless it already holds it (conditional write,
\* so adds are serialised) and returns everything past the cursor, the envelope
\* just added included.
Exchange(d) ==
    LET v == active[d]
        up == uploads[d][v]
        envelopes == IF up = {} \/ \E i \in DOMAIN log[v] : log[v][i] = up
                     THEN log[v] ELSE Append(log[v], up)
    IN  /\ run[d].phase = "exchange"
        /\ log' = [log EXCEPT ![v] = envelopes]
        /\ run' = [run EXCEPT ![d] =
                     [phase  |-> "reply",
                      cursor |-> Len(envelopes),
                      batch  |-> UNION {envelopes[i] : i \in (cursors[d][v] + 1)..Len(envelopes)}]]
        /\ UNCHANGED <<db, tx, uploads, cursors, active, file, spent>>

BeginApply(d) ==
    /\ Free(d)
    /\ run[d].phase = "reply"
    /\ tx' = [tx EXCEPT ![d] = [source |-> "vault", db |-> db[d], todo |-> run[d].batch]]
    /\ UNCHANGED <<db, uploads, cursors, active, run, log, file, spent>>

\* Mutant of Acknowledge: the whole outbox goes, edits made meanwhile included.
AcknowledgeAll(d) ==
    /\ Free(d)
    /\ run[d].phase = "committed"
    /\ db' = [db EXCEPT ![d].outbox = {}]
    /\ uploads' = [uploads EXCEPT ![d][active[d]] = {}]
    /\ run' = [run EXCEPT ![d] = Run("idle")]
    /\ UNCHANGED <<tx, cursors, active, log, file, spent>>

\* Mutant of Acknowledge: the saved envelope stays, to be sent again.
AcknowledgeKeepsUpload(d) ==
    /\ Free(d)
    /\ run[d].phase = "committed"
    /\ db' = [db EXCEPT ![d].outbox = {o \in @ : \A c \in uploads[d][active[d]] : o.rev # c.rev}]
    /\ run' = [run EXCEPT ![d] = Run("idle")]
    /\ UNCHANGED <<tx, uploads, cursors, active, log, file, spent>>

\* The engine removes the uploaded changes from the outbox in a transaction of
\* its own, after the one that applied the reply, and goes round again while
\* changes are pending.
Acknowledge(d) ==
    LET v == active[d]
        sent == {c.rev : c \in uploads[d][v]}
        left == {o \in db[d].outbox : o.rev \notin sent}
    IN  /\ Free(d)
        /\ run[d].phase = "committed"
        /\ db' = [db EXCEPT ![d].outbox = left]
        /\ uploads' = [uploads EXCEPT ![d][v] = {}]
        /\ run' = [run EXCEPT ![d] = Run(IF left = {} THEN "idle" ELSE "draining")]
        /\ UNCHANGED <<tx, cursors, active, log, file, spent>>

-----------------------------------------------------------------------------
(* Portable files: the import runs beside a sync, outside its lock. *)

ExportFile(d) ==
    /\ Spend("files")
    /\ Free(d)
    /\ Snapshot(db[d]) # {}
    /\ file' = Snapshot(db[d])
    /\ UNCHANGED <<db, tx, uploads, cursors, active, run, log>>

BeginImport(d) ==
    /\ Free(d)
    /\ file # {}
    /\ tx' = [tx EXCEPT ![d] = [source |-> "file", db |-> db[d], todo |-> file]]
    /\ UNCHANGED <<db, uploads, cursors, active, run, log, file, spent>>

-----------------------------------------------------------------------------
(* The batch transaction: changes in revision order, then the commit that   *)
(* also moves the cursor; one corrupt change rolls everything back.         *)

First(todo) == {c \in todo : \A o \in todo : ~RevLess(o.rev, c.rev)}

ApplyChange(d) ==
    \E c \in First(tx[d].todo) :
      /\ ~Corrupt(tx[d].db, c)
      /\ tx' = [tx EXCEPT ![d].db = Applied(@, c), ![d].todo = @ \ {c}]
      /\ UNCHANGED <<db, uploads, cursors, active, run, log, file, spent>>

RollBack(d) ==
    \E c \in First(tx[d].todo) :
      /\ Corrupt(tx[d].db, c)
      /\ tx' = [tx EXCEPT ![d] = NoTx]
      /\ run' = IF tx[d].source = "vault" THEN [run EXCEPT ![d] = Run("idle")] ELSE run
      /\ UNCHANGED <<db, uploads, cursors, active, log, file, spent>>

\* Mutant of Commit: the cursor is the index of the last envelope, not its successor.
CommitBehind(d) ==
    /\ ~Free(d) /\ tx[d].todo = {} /\ tx[d].source = "vault"
    /\ db' = [db EXCEPT ![d] = tx[d].db]
    /\ tx' = [tx EXCEPT ![d] = NoTx]
    /\ cursors' = [cursors EXCEPT ![d][active[d]] = run[d].cursor - 1]
    /\ run' = [run EXCEPT ![d] = Run("committed")]
    /\ UNCHANGED <<uploads, active, log, file, spent>>

Commit(d) ==
    /\ ~Free(d) /\ tx[d].todo = {}
    /\ db' = [db EXCEPT ![d] = tx[d].db]
    /\ tx' = [tx EXCEPT ![d] = NoTx]
    /\ IF tx[d].source = "vault"
       THEN /\ cursors' = [cursors EXCEPT ![d][active[d]] = run[d].cursor]
            /\ run' = [run EXCEPT ![d] = Run("committed")]
       ELSE UNCHANGED <<cursors, run>>
    /\ UNCHANGED <<uploads, active, log, file, spent>>

-----------------------------------------------------------------------------
(* Failures. *)

\* A request or its reply is lost: sync_now returns the error.
NetworkFails(d) ==
    /\ Spend("breaks")
    /\ Free(d)
    /\ run[d].phase \in {"exchange", "reply"}
    /\ run' = [run EXCEPT ![d] = Run("idle")]
    /\ UNCHANGED <<db, tx, uploads, cursors, active, log, file>>

\* The application stops: memory, the open transaction and the vault key are
\* gone, SQLite keeps what was committed.
Crash(d) ==
    /\ Spend("breaks")
    /\ run[d].phase # "locked" \/ ~Free(d)
    /\ tx' = [tx EXCEPT ![d] = NoTx]
    /\ run' = [run EXCEPT ![d] = Run("locked")]
    /\ UNCHANGED <<db, uploads, cursors, active, log, file>>

-----------------------------------------------------------------------------
SyncStep(d) ==
    \/ PrepareUpload(d) \/ Exchange(d) \/ BeginApply(d) \/ Acknowledge(d)
    \/ ApplyChange(d) \/ RollBack(d) \/ Commit(d)

Next ==
    \E d \in Devices :
        \/ LocalAdd(d) \/ LocalUpdate(d) \/ LocalDelete(d)
        \/ Join(d) \/ Lock(d)
        \/ PrepareUpload(d) \/ Exchange(d) \/ BeginApply(d) \/ Acknowledge(d)
        \/ ApplyChange(d) \/ RollBack(d) \/ Commit(d)
        \/ ExportFile(d) \/ BeginImport(d)
        \/ NetworkFails(d) \/ Crash(d)

Spec == Init /\ [][Next]_vars

\* While a vault is unlocked the front end starts a sync every minute and after
\* every resume (CloudSyncLifecycle), and every request has a timeout, so a sync
\* that can take a step takes one.  Nothing obliges the user to unlock.
FairSpec == Spec /\ \A d \in Devices : WF_vars(SyncStep(d))

-----------------------------------------------------------------------------
(* What the store promises about a single device. *)

\* A revision carrying a device's id exists anywhere (another database, an
\* outbox, an envelope, the provider, a file) only up to that device's own
\* clock, and one revision never names two entities or two contents of a snippet:
\* no crash, rollback, lost reply or import lets it be minted twice.
Elsewhere ==
    (UNION {UNION {log[v][i] : i \in DOMAIN log[v]} : v \in Vaults}) \cup file
    \cup UNION {db[d].outbox \cup tx[d].todo \cup tx[d].db.outbox \cup run[d].batch
                  \cup UNION {uploads[d][v] : v \in Vaults} : d \in Devices}

MintedOnce ==
    \A d \in Devices :
      /\ \A c \in Elsewhere : c.rev[2] = d => c.rev[1] <= db[d].clock
      /\ \A x \in Devices, e \in Entities :
           db[x].state[e].rev[2] = d => db[x].state[e].rev[1] <= db[d].clock
    /\ \A c, o \in Elsewhere : c.rev = o.rev =>
         c.entity = o.entity /\ (c.entity \in Snippets => c = o)

\* An edit is never lost between the domain write and the provider: while it is
\* the newest version its author knows, it is in the author's outbox or in the
\* active vault's object, whatever was acknowledged, replayed or crashed.
EditNotLost ==
    \A d \in Devices, e \in Entities :
      LET st == db[d].state[e]
      IN  (st.rev[2] = d /\ active[d] # Null) =>
            \E c \in db[d].outbox \cup UNION {log[active[d]][i] : i \in DOMAIN log[active[d]]} :
               c.entity = e /\ c.rev = st.rev

\* No stored row refers to an entity the device knows to be deleted, whichever
\* of the tombstone and the reference arrived first.
NoDanglingReference(d, e) ==
    LET r == db[d].rows[e]
    IN  (r # Null /\ r.ref # Null) => ~Tombstoned(db[d], r.ref)

\* The row and the sync state describe the same entity under the same name, after
\* renames, detachments and rollbacks.
RowMatchesState(d, e) ==
    LET r == db[d].rows[e]
        h == db[d].state[e].hash
    IN  /\ (r = Null) = (h = Null)
        /\ r # Null => r.name = h.name

\* Whatever arrives in whatever order, what a device stores is what its sync state
\* says it knows, and refers to nothing it knows to be gone.
StoreConsistent ==
    \A d \in Devices, e \in Entities : RowMatchesState(d, e) /\ NoDanglingReference(d, e)

-----------------------------------------------------------------------------
(* What the devices of a vault promise together. *)

InVault(d, v) == active[d] = v

Settled(v) ==
    \A d \in Devices :
      /\ InVault(d, v)
      /\ Free(d) /\ run[d].phase \in {"idle", "locked"}
      /\ db[d].outbox = {} /\ uploads[d][v] = {}
      /\ cursors[d][v] = Len(log[v])

\* "Concurrent edits and delete-vs-update races converge deterministically on two
\* devices, including after retries and out-of-order delivery": once every device
\* has sent and read everything, all devices have the same rows.
Convergence ==
    \A v \in Vaults : Settled(v) =>
        \A d, x \in Devices : db[d].rows = db[x].rows

\* On two devices convergence holds for groups and servers too as long as they do
\* not choose the same name: a conflict suffix anywhere is the trace of such a
\* conflict.  With a third device a server's row may still be without its group on
\* one of them: what one device deletes comes back when another, not knowing, has
\* rebuilt its outbox (rebuild_full_outbox), and a server that the third put into the
\* group is stored in between without it (CloudSyncProofs says what all devices
\* always have in common).
Contested ==
    \E d \in Devices, e \in Entities :
      LET h == db[d].state[e].hash IN h # Null /\ h.name.marks # <<>>

UncontestedConvergence == Contested \/ Convergence

\* Sync makes progress: if from some point on every device stays unlocked in one
\* vault, the devices end up with the same rows for good, however many requests
\* were lost and applications killed before.
EventuallyConverged ==
    \A v \in Vaults :
      (\A d \in Devices : <>[](InVault(d, v) /\ run[d].phase # "locked"))
        => <>[](\A d, x \in Devices : db[d].rows = db[x].rows)
=============================================================================
