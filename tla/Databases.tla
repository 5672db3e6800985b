----------------------------- MODULE Databases -----------------------------
(***************************************************************************)
(* Saved database connections (dbconn/mod.rs, commands/dbconn.rs, the      *)
(* database_connections table) and the key that encrypts their passwords   *)
(* (storage/crypto.rs, whose loader serves the SSH secrets too).           *)
(*                                                                         *)
(* Saving and deleting are synchronous commands of the main thread, the    *)
(* others are tasks.  The key is two files, made when it is first needed   *)
(* and kept in memory then.  The process may stop at any point, and a file *)
(* may be lost or damaged until it is put back from a backup.              *)
(***************************************************************************)
EXTENDS Integers, FiniteSets, FiniteSetsExt, Sequences, SequencesExt

CONSTANTS DbIds,      \* ids of connections, as many as are needed
          Hosts,      \* what a connection leads to: host, port, user, database
          Secrets,    \* passwords
          Tasks,      \* commands that run beside the main thread
          Listings,   \* what a server may say of its databases, line by line
          HardMaxRows,\* 10,000 in the code
          ListLimit,  \* 1,000, 5,000 or 2,000: of databases, tables, columns
          Tables,     \* sizes of results
          Requests,   \* limits a caller may ask for
          MaxDbSaves, MaxHarm \* bounds: saves; stops of the process and files lost

Main == "main"
Threads == Tasks \cup {Main}
Blank == "blank"            \* a password that is not given
NoConnection == [host |-> Blank]
Unused == [stage |-> "idle"]
Missing == 0                \* a key file that is not there
Damaged == -1               \* one that is empty, or cut too short
KeyFiles == {"key", "salt"}

ASSUME DatabasesAssumption ==
    /\ Blank \notin Hosts /\ Main \notin Tasks /\ Blank \notin Threads
    /\ HardMaxRows \in Nat /\ ListLimit \in Nat /\ Tables \subseteq Nat /\ Requests \subseteq Nat
    /\ MaxDbSaves \in Nat /\ MaxHarm \in Nat

VARIABLES rows,     \* the table
          file,     \* key and salt
          away,     \* a key file as the backup has it, while it is lost or damaged
          lockedBy, \* who holds the lock of the key files
          crypto,   \* the key in memory
          op,       \* what each thread is at
          intended, \* history: what the user saved
          original, \* history: the first key that was read or made
          dbSaves, harm

dbVars == <<rows, file, away, lockedBy, crypto, op, intended, original, dbSaves, harm>>
keyFileVars == <<file, away, original>>

NoKey == [key |-> Missing, salt |-> Missing]
\* What is left of a salt, if it is long enough: another one each time it is cut.
SaltLeft == -2 - harm
CutSalt(f) == f.salt < Damaged
Usable(f) == f.key > 0 /\ f.salt \notin {Missing, Damaged}
Busy == {t \in Threads : op[t] # Unused}

DbTypeOK ==
    /\ \A i \in DbIds : rows[i] # NoConnection =>
         rows[i].host \in Hosts /\ (rows[i].text # Blank => rows[i].under # NoKey)
    /\ lockedBy \in Threads \cup {Blank}
    /\ lockedBy # Blank => op[lockedBy].stage \in {"read", "newkey", "newsalt"}
    /\ crypto # NoKey => crypto = original \/ CutSalt(crypto)
    /\ \A t \in Tasks : op[t].stage # "save"
    /\ dbSaves \in 0..MaxDbSaves /\ harm \in 0..MaxHarm

DbInit ==
    /\ rows = [i \in DbIds |-> NoConnection] /\ intended = [i \in DbIds |-> NoConnection]
    /\ file = NoKey /\ away = [f \in KeyFiles |-> Missing]
    /\ lockedBy = Blank /\ crypto = NoKey /\ original = NoKey
    /\ op = [t \in Threads |-> Unused] /\ dbSaves = 0 /\ harm = 0

-----------------------------------------------------------------------------
(* device_crypto and from_key_files. *)

\* A step of t in the loader; what follows is in op[t].next.
Load(t, stage) == op' = [op EXCEPT ![t].stage = stage]
Refuse(t) == Load(t, "refused") /\ lockedBy' = Blank /\ UNCHANGED <<keyFileVars, crypto>>

LockKeys(t) ==
    /\ op[t].stage = "lock" /\ lockedBy = Blank
    /\ lockedBy' = t /\ Load(t, "read")
    /\ UNCHANGED <<rows, keyFileVars, crypto, intended, dbSaves, harm>>

\* The process keeps the key it had first.
Loaded(t, f) ==
    /\ crypto' = IF crypto = NoKey THEN f ELSE crypto
    /\ original' = IF original = NoKey THEN f ELSE original
    /\ lockedBy' = Blank /\ Load(t, op[t].next)

\* Mutant of ReadKeys: a key is made as soon as one of the files is missing.
ReadKeysAnew(t) ==
    /\ op[t].stage = "read"
    /\ \/ Usable(file) /\ Loaded(t, file) /\ UNCHANGED file
       \/ /\ Missing \in {file.key, file.salt} /\ file' = NoKey
          /\ Load(t, "newkey") /\ UNCHANGED <<lockedBy, crypto, original>>
       \/ Damaged \in {file.key, file.salt} /\ Refuse(t)
    /\ UNCHANGED <<rows, away, intended, dbSaves, harm>>

\* Both are read, or both are missing; what is there is never replaced.  The key must have
\* its length, the salt eight bytes: a salt that was cut to those gives another key.
ReadKeys(t) ==
    /\ op[t].stage = "read"
    /\ \/ Usable(file) /\ Loaded(t, file) /\ UNCHANGED file
       \/ /\ file = NoKey /\ Load(t, "newkey")
          /\ UNCHANGED <<lockedBy, crypto, file, original>>
       \/ ~Usable(file) /\ file # NoKey /\ Refuse(t)
    /\ UNCHANGED <<rows, away, intended, dbSaves, harm>>

\* create_new: a file that has appeared meanwhile is not overwritten.
WriteKey(t) ==
    /\ op[t].stage = "newkey"
    /\ IF file.key # Missing THEN Refuse(t)
       ELSE file' = [file EXCEPT !.key = 1 + Max({original.key, away.key, 0})] /\ Load(t, "newsalt")
            /\ UNCHANGED <<lockedBy, crypto, original, away>>
    /\ UNCHANGED <<rows, intended, dbSaves, harm>>

WriteSalt(t) ==
    /\ op[t].stage = "newsalt"
    /\ IF file.salt # Missing THEN Refuse(t)
       ELSE LET f == [file EXCEPT !.salt = file.key]
            IN  file' = f /\ Loaded(t, f) /\ UNCHANGED away
    /\ UNCHANGED <<rows, intended, dbSaves, harm>>

\* What needs the key goes on at once if it is in memory.
WithKey(next) == IF crypto # NoKey THEN next ELSE "lock"

-----------------------------------------------------------------------------
(* The commands of the main thread. *)

\* db_connection_save: an id whose row is gone gets a new one.
StartSave(id, host, secret) ==
    /\ op[Main] = Unused /\ dbSaves < MaxDbSaves /\ dbSaves' = dbSaves + 1
    /\ LET i == IF rows[id] # NoConnection THEN id ELSE CHOOSE k \in DbIds : rows[k] = NoConnection
       IN  op' = [op EXCEPT ![Main] = [stage |-> IF secret = Blank THEN "save" ELSE WithKey("save"),
                                       next |-> "save", id |-> i, host |-> host, secret |-> secret,
                                       existing |-> rows[i]]]
    /\ UNCHANGED <<rows, keyFileVars, lockedBy, crypto, intended, harm>>

Upserted(o) ==
    LET kept == o.existing # NoConnection /\ o.secret = Blank
    IN  [host |-> o.host,
         text |-> IF kept THEN o.existing.text ELSE o.secret,
         under |-> IF kept THEN o.existing.under ELSE IF o.secret = Blank THEN NoKey ELSE crypto]

\* The password is kept if none was given.
FinishDbSave ==
    /\ op[Main].stage = "save"
    /\ LET o == op[Main]
           known == o.existing # NoConnection
       IN  /\ rows' = [rows EXCEPT ![o.id] = Upserted(o)]
           /\ intended' = [intended EXCEPT ![o.id] =
                [host |-> o.host,
                 secret |-> IF o.secret = Blank /\ known THEN intended[o.id].secret ELSE o.secret]]
    /\ op' = [op EXCEPT ![Main] = Unused]
    /\ UNCHANGED <<keyFileVars, lockedBy, crypto, dbSaves, harm>>

DeleteConnection(id) ==
    /\ op[Main] = Unused /\ rows[id] # NoConnection
    /\ rows' = [rows EXCEPT ![id] = NoConnection]
    /\ intended' = [intended EXCEPT ![id] = NoConnection]
    /\ UNCHANGED <<keyFileVars, lockedBy, crypto, op, dbSaves, harm>>

\* db_session_detect: a line is a listener or a container with its published ports; the first
\* port that is published counts, and the engine's own if none is.
Suggestion(line) ==
    CASE line.source = "tcp" -> {[source |-> "tcp", host |-> line.host]}
      [] line.published # <<>> -> {[source |-> "docker", host |-> Head(line.published)]}
      [] OTHER -> {[source |-> "docker", host |-> line.default]}

Suggested(listing) == UNION {Suggestion(listing[k]) : k \in DOMAIN listing}

ASSUME ListingsAssumption == \A listing \in Listings : \A s \in Suggested(listing) : s.host \in Hosts

\* A suggestion is adopted as a new connection, without a password.
Adopt(listing) ==
    \E id \in {i \in DbIds : rows[i] = NoConnection}, s \in Suggested(listing) :
       StartSave(id, s.host, Blank)

-----------------------------------------------------------------------------
(* The tasks: test, databases, tables, columns, query. *)

Clamped(limit) == Min({limit, HardMaxRows})  \* clamp_max_rows

\* db_connection_get and endpoint_for.
StartUse(t, id, what, limit) ==
    /\ op[t] = Unused /\ rows[id] # NoConnection
    /\ op' = [op EXCEPT ![t] =
         [stage |-> IF rows[id].text = Blank THEN "connect" ELSE WithKey("decrypt"),
          next |-> "decrypt", id |-> id, what |-> what, row |-> rows[id],
          limit |-> Clamped(limit), expected |-> intended[id]]]
    /\ UNCHANGED <<rows, keyFileVars, lockedBy, crypto, intended, dbSaves, harm>>

StartList(t, id) == StartUse(t, id, "list", ListLimit)  \* databases, tables or columns

Decrypt(t) ==
    /\ op[t].stage = "decrypt"
    /\ Load(t, IF op[t].row.under = crypto THEN "connect" ELSE "refused")
    /\ UNCHANGED <<rows, keyFileVars, lockedBy, crypto, intended, dbSaves, harm>>

\* Mutant of Cut: only more than the limit is too much.
CutLate(got, limit) == got > limit
Cut(got, limit) == got >= limit  \* truncated

Taken(size, limit) == Min({size, limit})

\* The server answers with a number of rows, of which no more than the limit are taken.
\* A list goes to the caller as it is: nothing in it says that it was cut.
Answered(t, size) ==
    /\ op[t].stage = "connect"
    /\ LET got == Taken(size, op[t].limit)
           query == op[t].what = "query"
       IN  op' = [op EXCEPT ![t] = [stage |-> IF query THEN "touch" ELSE "done", what |-> op[t].what,
                                    id |-> op[t].id, row |-> op[t].row, size |-> size, got |-> got,
                                    truncated |-> query /\ Cut(got, op[t].limit)]]
    /\ UNCHANGED <<rows, keyFileVars, lockedBy, crypto, intended, dbSaves, harm>>

\* It refuses, fails, or takes longer than OP_TIMEOUT.
NotAnswered(t) ==
    /\ op[t].stage = "connect"
    /\ op' = [op EXCEPT ![t] = Unused]
    /\ UNCHANGED <<rows, keyFileVars, lockedBy, crypto, intended, dbSaves, harm>>

\* Mutant of Touched: the row that was read is written back.
TouchedAsRead(o) == o.row
Touched(o) == rows[o.id]  \* of a row that is still there, the time alone

Touch(t) ==
    /\ op[t].stage = "touch"
    /\ rows' = [rows EXCEPT ![op[t].id] = Touched(op[t])]
    /\ Load(t, "done")
    /\ UNCHANGED <<keyFileVars, lockedBy, crypto, intended, dbSaves, harm>>

\* The caller has the answer, or the error.
Return(t) ==
    /\ op[t].stage \in {"done", "refused"}
    /\ op' = [op EXCEPT ![t] = Unused]
    /\ UNCHANGED <<rows, keyFileVars, lockedBy, crypto, intended, dbSaves, harm>>

-----------------------------------------------------------------------------
(* What may go wrong. *)

\* The process stops: a file that it was creating may be there without its content, a
\* salt with a part of it.
StopProcess ==
    /\ harm < MaxHarm /\ harm' = harm + 1
    /\ op' = [t \in Threads |-> Unused] /\ lockedBy' = Blank /\ crypto' = NoKey
    /\ CASE \E t \in Threads : op[t].stage = "newkey" /\ file.key = Missing ->
              \E left \in {Missing, Damaged} : file' = [file EXCEPT !.key = left]
         [] \E t \in Threads : op[t].stage = "newsalt" /\ file.salt = Missing ->
              \E left \in {Missing, Damaged, SaltLeft} : file' = [file EXCEPT !.salt = left]
         [] OTHER -> UNCHANGED file
    /\ UNCHANGED <<rows, away, intended, original, dbSaves>>

\* One of the two files is lost or damaged, after the key was in use.
LoseFile(f) ==
    /\ harm < MaxHarm /\ harm' = harm + 1
    /\ file = original /\ file # NoKey
    /\ away' = [away EXCEPT ![f] = file[f]]
    /\ \E left \in {Missing, Damaged} \cup (IF f = "salt" THEN {SaltLeft} ELSE {}) :
         file' = [file EXCEPT ![f] = left]
    /\ UNCHANGED <<rows, lockedBy, crypto, op, intended, original, dbSaves>>

RestoreFile(f) ==
    /\ away[f] # Missing
    /\ away' = [away EXCEPT ![f] = Missing] /\ file' = [file EXCEPT ![f] = away[f]]
    /\ UNCHANGED <<rows, lockedBy, crypto, op, intended, original, dbSaves, harm>>

DbNext ==
    \/ \E t \in Threads : LockKeys(t) \/ ReadKeys(t) \/ WriteKey(t) \/ WriteSalt(t) \/ Return(t)
    \/ \E id \in DbIds : DeleteConnection(id)
         \/ \E host \in Hosts, secret \in Secrets \cup {Blank} : StartSave(id, host, secret)
    \/ FinishDbSave
    \/ \E listing \in Listings : Adopt(listing)
    \/ \E t \in Tasks : Decrypt(t) \/ NotAnswered(t) \/ Touch(t)
         \/ \E size \in Tables : Answered(t, size)
         \/ \E id \in DbIds : StartList(t, id)
              \/ \E limit \in Requests : StartUse(t, id, "query", limit)
    \/ StopProcess
    \/ \E f \in KeyFiles : LoseFile(f) \/ RestoreFile(f)

DbSpec == DbInit /\ [][DbNext]_dbVars

-----------------------------------------------------------------------------
\* A task that was under way neither reverts what was saved meanwhile nor brings a deleted
\* connection back.
RowsAsSaved ==
    \A i \in DbIds :
       IF rows[i] = NoConnection \/ intended[i] = NoConnection THEN rows[i] = intended[i]
       ELSE rows[i].host = intended[i].host /\ rows[i].text = intended[i].secret

\* Every password was encrypted with the key of this device, which the files give whenever
\* nothing of them is away, and nobody was refused a key although nothing had gone wrong.  Not
\* what was saved while eight bytes or more were left of a salt: crypto.rs:174-179 takes them.
KeyIsKept ==
    /\ \A i \in DbIds : (rows[i] # NoConnection /\ rows[i].text # Blank) =>
         rows[i].under = original \/ CutSalt(rows[i].under)
    /\ (Usable(file) /\ original # NoKey) => file = original \/ (away.salt # Missing /\ CutSalt(file))
    /\ \A t \in Threads : op[t].stage = "refused" => harm > 0

\* A server gets the password that was saved with it, and a query's result that was cut says
\* so, which a list of databases, tables or columns does not.
AnswersAreWhole ==
    \A t \in Tasks :
       /\ op[t].stage = "connect" => /\ op[t].row.host = op[t].expected.host
                                     /\ op[t].row.text = op[t].expected.secret
       /\ op[t].stage \in {"touch", "done"} =>
            (op[t].what = "query" /\ op[t].got < op[t].size => op[t].truncated)

\* Saved connections survive: each stays as it was saved, readable, and is used as it is.
ConnectionsKept == RowsAsSaved /\ KeyIsKept /\ AnswersAreWhole
=============================================================================
