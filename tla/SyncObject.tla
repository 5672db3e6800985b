----------------------------- MODULE SyncObject -----------------------------
(***************************************************************************)
(* How a sync reaches its provider (cloud_sync/providers.rs, and the       *)
(* rounds of cloud_sync/mod.rs).  All the devices of a vault read and      *)
(* replace one file, a secret gist or a file on a WebDAV server, with      *)
(* conditional requests; nothing else keeps them apart.  CloudSync takes   *)
(* the exchange for one step: SyncLog says what that rests on.             *)
(***************************************************************************)
EXTENDS Integers, Sequences, SequencesExt, FiniteSets

CONSTANTS Devices,
          Vaults,
          MaxAttempts, \* MAX_WRITE_ATTEMPTS, 4 in the code
          PageLimit,   \* MAX_REMOTE_CHANGES_PER_PAGE
          MaxRounds,   \* MAX_SYNC_ROUNDS
          MaxEdits     \* bound: batches of changes of each device

ASSUME ObjectAssumption ==
    /\ MaxAttempts \in Nat \ {0} /\ MaxRounds \in Nat \ {0} /\ PageLimit \in Nat /\ MaxEdits \in Nat
    /\ IsFiniteSet(Devices) /\ "none" \notin Vaults

Envelopes == Devices \X (1..MaxEdits)  \* the nth batch that a device sealed

NoDocument == [vault |-> "none", envelopes |-> <<>>]
NoUpload == <<>>

VARIABLES vaultOf,  \* the vault each device has joined; all use one address
          provider, \* a gist or a WebDAV file
          tags,     \* whether the server sends ETags
          object,   \* the document there, if there is one
          outbox,   \* batches of changes not yet sealed; persisted
          upload,   \* the sealed envelope that was not acknowledged; persisted
          cursor,   \* persisted
          taken,    \* history: what each device has applied
          sync      \* the sync under way in each device

objVars == <<vaultOf, provider, tags, object, outbox, upload, cursor, taken, sync>>

Idle == [phase |-> "idle", attempt |-> 0, round |-> 0, document |-> NoDocument, tag |-> FALSE]

New(v) == [vault |-> v, envelopes |-> <<>>]  \* ObjectStoreDocument::new

ObjTypeOK ==
    /\ vaultOf \in [Devices -> Vaults] /\ provider \in {"gist", "webdav"} /\ tags \in BOOLEAN
    /\ object = NoDocument \/ object.vault \in Vaults
    /\ Len(object.envelopes) <= PageLimit + 1
    /\ \A d \in Devices :
         /\ outbox[d] \in 0..MaxEdits /\ upload[d] \in Envelopes \cup {NoUpload}
         /\ cursor[d] \in 0..Len(object.envelopes)
         /\ sync[d].attempt \in 0..MaxAttempts /\ sync[d].round \in 0..MaxRounds
         /\ sync[d].phase \in {"idle", "start", "fetch", "apply", "write", "reply", "settle"}

\* A gist is made for its vault; the file appears with the first upload.
ObjInit ==
    /\ vaultOf \in [Devices -> Vaults] /\ provider \in {"gist", "webdav"} /\ tags \in BOOLEAN
    /\ IF provider = "gist" THEN object \in {New(v) : v \in Vaults} ELSE object = NoDocument
    /\ outbox = [d \in Devices |-> 0] /\ upload = [d \in Devices |-> NoUpload]
    /\ cursor = [d \in Devices |-> 0] /\ taken = [d \in Devices |-> <<>>]
    /\ sync = [d \in Devices |-> Idle]

-----------------------------------------------------------------------------
Remote == <<vaultOf, provider, tags, object>>
Local == <<outbox, upload, cursor, taken>>

Goes(d, phase) == sync' = [sync EXCEPT ![d].phase = phase]
Fails(d) == sync' = [sync EXCEPT ![d] = Idle]

Numbered(d) == Cardinality({e \in Envelopes : e[1] = d /\ (e = upload[d] \/ e \in ToSet(object.envelopes))})

\* Changes are made while the envelope of the earlier ones may be under way.
NewBatch(d) ==
    /\ outbox[d] + Numbered(d) < MaxEdits
    /\ outbox' = [outbox EXCEPT ![d] = @ + 1]
    /\ UNCHANGED <<upload, cursor, taken, sync, Remote>>

\* sync_now: one at a time.
StartSync(d) ==
    /\ sync[d].phase = "idle" /\ Goes(d, "start")
    /\ UNCHANGED <<Local, Remote>>

\* prepare_upload: the saved envelope again, or a new one that is saved first.
SealUpload(d) ==
    /\ sync[d].phase = "start"
    /\ sync' = [sync EXCEPT ![d] = [Idle EXCEPT !.phase = "fetch", !.round = sync[d].round + 1]]
    /\ IF upload[d] # NoUpload \/ outbox[d] = 0 THEN UNCHANGED <<outbox, upload>>
       ELSE /\ upload' = [upload EXCEPT ![d] = <<d, Numbered(d) + 1>>]
            /\ outbox' = [outbox EXCEPT ![d] = @ - 1]
    /\ UNCHANGED <<cursor, taken, Remote>>

\* fetch_gist, fetch_webdav: what is not there yet is a new document.
Fetch(d) ==
    /\ sync[d].phase = "fetch"
    /\ sync' = [sync EXCEPT ![d].phase = "apply", ![d].attempt = @ + 1,
                  ![d].document = IF object = NoDocument THEN New(vaultOf[d]) ELSE object,
                  ![d].tag = tags /\ object # NoDocument]
    /\ UNCHANGED <<Local, Remote>>

\* apply_object_exchange: the answer is made before anything is written.
ApplyExchange(d) ==
    LET document == sync[d].document
        new == upload[d] # NoUpload /\ upload[d] \notin ToSet(document.envelopes)
        all == IF new THEN Append(document.envelopes, upload[d]) ELSE document.envelopes
    IN  /\ sync[d].phase = "apply"
        /\ IF \/ document.vault # vaultOf[d]
              \/ Len(document.envelopes) > PageLimit
              \/ cursor[d] > Len(document.envelopes)
              \/ new /\ provider = "gist" /\ ~sync[d].tag
           THEN Fails(d)
           ELSE sync' = [sync EXCEPT ![d].phase = IF new THEN "write" ELSE "reply",
                           ![d].document.envelopes = all]
        /\ UNCHANGED <<Local, Remote>>

\* Mutant of Unchanged: a file that was there without an ETag is replaced.
UnchangedUntagged(d) ==
    LET was == [sync[d].document EXCEPT !.envelopes = Front(@)]
    IN  IF sync[d].tag THEN object = was ELSE object = NoDocument \/ provider = "webdav"

\* If-Match with the tag that came with the document, or If-None-Match: *.
Unchanged(d) ==
    LET was == [sync[d].document EXCEPT !.envelopes = Front(@)]
    IN  IF sync[d].tag THEN object = was ELSE object = NoDocument

\* write_gist, write_webdav. A document that changed is fetched again, four times in all.
Write(d) ==
    /\ sync[d].phase = "write"
    /\ IF Unchanged(d) THEN object' = sync[d].document /\ Goes(d, "reply")
       ELSE /\ UNCHANGED object
            /\ IF sync[d].attempt = MaxAttempts THEN Fails(d) ELSE Goes(d, "fetch")
    /\ UNCHANGED <<vaultOf, provider, tags, Local>>

\* The file is replaced, and the reply is lost.
WriteUnanswered(d) ==
    /\ sync[d].phase = "write" /\ Unchanged(d)
    /\ object' = sync[d].document /\ Fails(d)
    /\ UNCHANGED <<vaultOf, provider, tags, Local>>

\* apply_remote_batch_for_vault commits the changes with the cursor.
Apply(d) ==
    /\ sync[d].phase = "reply"
    /\ LET all == sync[d].document.envelopes
       IN  /\ taken' = [taken EXCEPT ![d] = @ \o SubSeq(all, cursor[d] + 1, Len(all))]
           /\ cursor' = [cursor EXCEPT ![d] = Len(all)]
    /\ sync' = [sync EXCEPT ![d] = [Idle EXCEPT !.phase = "settle", !.round = sync[d].round]]
    /\ UNCHANGED <<outbox, upload, Remote>>

\* acknowledge_pending_upload, and the next round while changes are pending.
Settle(d) ==
    /\ sync[d].phase = "settle"
    /\ upload' = [upload EXCEPT ![d] = NoUpload]
    /\ IF outbox[d] = 0 \/ sync[d].round = MaxRounds THEN Fails(d) ELSE Goes(d, "start")
    /\ UNCHANGED <<outbox, cursor, taken, Remote>>

\* A request fails, or the application stops.
BreakOff(d) ==
    /\ sync[d].phase # "idle" /\ Fails(d)
    /\ UNCHANGED <<Local, Remote>>

ObjNext ==
    \E d \in Devices :
      \/ NewBatch(d) \/ StartSync(d) \/ SealUpload(d) \/ Fetch(d) \/ ApplyExchange(d)
      \/ Write(d) \/ WriteUnanswered(d) \/ Apply(d) \/ Settle(d) \/ BreakOff(d)

ObjSpec == ObjInit /\ [][ObjNext]_objVars

-----------------------------------------------------------------------------
\* Seen from outside the file is a log: each envelope is added once, at the end, whoever
\* writes at the same time and whatever replies are lost; each device takes all of it in order;
\* a device forgets an envelope only when it is there; and the file of another vault is left
\* alone.
LogOf(v) == IF object.vault = v THEN object.envelopes ELSE <<>>
ObjectLog == INSTANCE SyncLog WITH
                 home <- vaultOf, log <- [v \in Vaults |-> LogOf(v)], got <- taken,
                 owed <- [d \in Devices |-> {upload[d]} \ {NoUpload}]
ExchangeIsAppend == ObjectLog!Spec
=============================================================================
