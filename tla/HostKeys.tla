------------------------------- MODULE HostKeys -------------------------------
(***************************************************************************)
(* Trust in SSH host keys on first use. fingerprint.rs keeps the trusted   *)
(* keys in a file and a copy of it in the memory of each process; client.rs *)
(* checks the key of every server during the handshake, before it sends    *)
(* credentials; sessionStore.ts probes, asks the user in a dialog and      *)
(* tries again; fingerprintStore.ts has room for one question.             *)
(*                                                                         *)
(* The application is the only writer of the file. The daemon connects     *)
(* too, and reads it. A write is atomic: the mutex is held from the        *)
(* reading of the file to the renaming of the new one.                     *)
(***************************************************************************)
EXTENDS Integers, Sequences, FiniteSets

CONSTANTS NoKey,       \* no entry in the store
          KeySet,        \* host keys
          Connects,    \* calls of connectWithCredentials
          MaxRotations \* bound: changes of a server's key, of the store and of the file

ASSUME KeysAssumption == MaxRotations \in Nat

Hosts == {"jump", "target"}
Routes == {<<"target">>, <<"jump", "target">>}
Processes == {"gui", "daemon"}
Entries == KeySet \cup {NoKey}
Questions == [connect : Connects, host : Hosts, key : KeySet]
KeyStages == {"new", "probing", "asking", "connecting", "connected", "failed"}
Attempts == [stage : KeyStages, route : Routes, process : Processes, hop : 1..2,
             key : Entries, since : SUBSET Entries, approved : SUBSET Hosts]

VARIABLES keyOf,     \* the key each server presents
          trustFile, \* the trusted keys on disk
          damaged,   \* the file cannot be read
          trusted,   \* the copy of each process
          connects,  \* the connection attempts
          pending,   \* pendingVerification: the question on the screen
          accepting, \* the question whose approval is being saved
          consents,  \* history: questions the user said yes to, as host and key
          rotations  \* bound

keyVars == <<keyOf, trustFile, damaged, trusted, connects, pending, accepting,
             consents, rotations>>

NoQuestion == [connect |-> NoKey]

KeysTypeOK ==
    /\ keyOf \in [Hosts -> KeySet]
    /\ trustFile \in [Hosts -> Entries]
    /\ damaged \in BOOLEAN
    /\ trusted \in [Processes -> [Hosts -> Entries]]
    /\ connects \in [Connects -> Attempts]
    /\ pending \in Questions \cup {NoQuestion}
    /\ accepting \in Questions \cup {NoQuestion}
    /\ consents \subseteq Hosts \X KeySet
    /\ rotations \in 0..MaxRotations

KeysInit ==
    /\ keyOf \in [Hosts -> KeySet]
    /\ trustFile = [h \in Hosts |-> NoKey]
    /\ damaged = FALSE
    /\ trusted = [p \in Processes |-> trustFile]
    /\ connects = [c \in Connects |->
         [stage |-> "new", route |-> <<"target">>, process |-> "gui", hop |-> 1,
          key |-> NoKey, since |-> {}, approved |-> {}]]
    /\ pending = NoQuestion /\ accepting = NoQuestion
    /\ consents = {} /\ rotations = 0

-----------------------------------------------------------------------------
(* The store. *)

\* reload: a file that cannot be read leaves the copy as it was.
Reload(p) == trusted' = [trusted EXCEPT ![p] = trustFile]

\* update: the change is applied to what the file holds, never to the copy, and an
\* approval that was not persisted is not trusted. Attempts at their check remember
\* every entry the file has had since they read it.
Update(entries) ==
    /\ trustFile' = entries
    /\ trusted' = [trusted EXCEPT !.gui = entries]
Noticed(cs) ==
    [c \in Connects |->
        IF cs[c].since = {} THEN cs[c]
        ELSE [cs[c] EXCEPT !.since = @ \cup {trustFile'[cs[c].route[cs[c].hop]]}]]

-----------------------------------------------------------------------------
(* A connection attempt. *)

HostOf(c) == connects[c].route[connects[c].hop]
Checking(c) == connects[c].since # {}

\* A server behind a jump host is not probed.
Connect(c, route, p) ==
    /\ connects[c].stage = "new"
    /\ connects' = [connects EXCEPT ![c].route = route, ![c].process = p,
          ![c].stage = IF Len(route) = 1 THEN "probing" ELSE "connecting"]
    /\ UNCHANGED <<keyOf, trustFile, damaged, trusted, pending, accepting, consents,
                   rotations>>

\* The application probes; session_connect runs where the session will live.
Checker(c) == IF connects[c].stage = "probing" THEN "gui" ELSE connects[c].process

Fresh(a) == [a EXCEPT !.hop = 1, !.key = NoKey, !.since = {}]

\* A probe that cannot run is skipped, anything else ends the attempt.
GiveUp(a) == [Fresh(a) EXCEPT !.stage = IF a.stage = "probing" THEN "connecting" ELSE "failed"]

\* Mutant of PresentKey: the store is read again only for a key that is not trusted.
PresentKeyCached(c) ==
    /\ connects[c].stage \in {"probing", "connecting"} /\ ~Checking(c)
    /\ IF damaged
         THEN connects' = [connects EXCEPT ![c] = GiveUp(@)] /\ UNCHANGED trusted
         ELSE /\ IF trusted[Checker(c)][HostOf(c)] = keyOf[HostOf(c)]
                   THEN UNCHANGED trusted ELSE Reload(Checker(c))
              /\ connects' = [connects EXCEPT ![c].key = keyOf[HostOf(c)],
                                              ![c].since = {trustFile[HostOf(c)]}]
    /\ UNCHANGED <<keyOf, trustFile, damaged, pending, accepting, consents, rotations>>

\* check_server_key, up to refresh(): the presented key is known, the store read again.
PresentKey(c) ==
    /\ connects[c].stage \in {"probing", "connecting"} /\ ~Checking(c)
    /\ IF damaged
         THEN connects' = [connects EXCEPT ![c] = GiveUp(@)] /\ UNCHANGED trusted
         ELSE /\ Reload(Checker(c))
              /\ connects' = [connects EXCEPT ![c].key = keyOf[HostOf(c)],
                                              ![c].since = {trustFile[HostOf(c)]}]
    /\ UNCHANGED <<keyOf, trustFile, damaged, pending, accepting, consents, rotations>>

KnownKey(c) == trusted[Checker(c)][HostOf(c)] = connects[c].key

\* The probe found a trusted key: touch() writes the file without changing its entries.
ProbeKnown(c) ==
    /\ connects[c].stage = "probing" /\ Checking(c) /\ KnownKey(c)
    /\ connects' = [connects EXCEPT ![c] = GiveUp(@)]
    /\ trusted' = IF damaged THEN trusted ELSE [trusted EXCEPT !.gui = trustFile]
    /\ UNCHANGED <<keyOf, trustFile, damaged, pending, accepting, consents, rotations>>

\* The handshake goes on, and the credentials are sent to this hop. The next hop is
\* checked as itself, not as the bridge it is reached through.
Authenticate(c) ==
    /\ connects[c].stage = "connecting" /\ Checking(c) /\ KnownKey(c)
    /\ LET last == connects[c].hop = Len(connects[c].route)
           a == [connects[c] EXCEPT !.key = NoKey, !.since = {}]
       IN \E after \in {IF last THEN [a EXCEPT !.stage = "connected"] ELSE [a EXCEPT !.hop = 2],
                        [a EXCEPT !.stage = "failed"]} :
            connects' = [connects EXCEPT ![c] = after]
    /\ UNCHANGED <<keyOf, trustFile, damaged, trusted, pending, accepting, consents,
                   rotations>>

\* requestHostKeyApproval: the slot is taken whether or not it holds a question.
Ask(c, approved) ==
    /\ pending' = [connect |-> c, host |-> HostOf(c), key |-> connects[c].key]
    /\ connects' = [connects EXCEPT ![c].stage = "asking", ![c].approved = approved,
                                    ![c].since = {}]

\* Rejected before authentication. A host is asked about once, and two hosts at most.
Reject(c) ==
    /\ connects[c].stage \in {"probing", "connecting"} /\ Checking(c) /\ ~KnownKey(c)
    /\ IF connects[c].stage = "probing"
         THEN Ask(c, {})
         ELSE IF HostOf(c) \in connects[c].approved
         THEN connects' = [connects EXCEPT ![c] = GiveUp(@)] /\ UNCHANGED pending
         ELSE Ask(c, connects[c].approved \cup {HostOf(c)})
    /\ UNCHANGED <<keyOf, trustFile, damaged, trusted, accepting, consents, rotations>>

-----------------------------------------------------------------------------
(* The dialog. *)

\* The promise of the attempt resolves once; a later answer is not heard.
Resolve(q, answer) ==
    [connects EXCEPT ![q.connect] =
        IF @.stage # "asking" THEN @
        ELSE [Fresh(@) EXCEPT !.stage = IF answer THEN "connecting" ELSE "failed"]]

ClickAccept ==
    /\ pending # NoQuestion /\ accepting = NoQuestion
    /\ accepting' = pending
    /\ consents' = consents \cup {<<pending.host, pending.key>>}
    /\ UNCHANGED <<keyOf, trustFile, damaged, trusted, connects, pending, rotations>>

\* Mutant of FinishAccept: saves the key the server has now, not the one that was shown.
FinishAcceptCurrent ==
    /\ accepting # NoQuestion
    /\ \/ /\ ~damaged
          /\ Update([trustFile EXCEPT ![accepting.host] = keyOf[accepting.host]])
          /\ connects' = Noticed(Resolve(accepting, TRUE))
       \/ /\ connects' = Resolve(accepting, FALSE)
          /\ UNCHANGED <<trustFile, trusted>>
    /\ accepting' = NoQuestion /\ pending' = NoQuestion
    /\ UNCHANGED <<keyOf, damaged, consents, rotations>>

\* save_fingerprint answers, and the slot is cleared, whatever it holds by now.
FinishAccept ==
    /\ accepting # NoQuestion
    /\ \/ /\ ~damaged
          /\ Update([trustFile EXCEPT ![accepting.host] = accepting.key])
          /\ connects' = Noticed(Resolve(accepting, TRUE))
       \/ /\ connects' = Resolve(accepting, FALSE)
          /\ UNCHANGED <<trustFile, trusted>>
    /\ accepting' = NoQuestion /\ pending' = NoQuestion
    /\ UNCHANGED <<keyOf, damaged, consents, rotations>>

\* Also while the approval is being saved: only the buttons are disabled then.
ClickReject ==
    /\ pending # NoQuestion
    /\ connects' = Resolve(pending, FALSE)
    /\ pending' = NoQuestion
    /\ UNCHANGED <<keyOf, trustFile, damaged, trusted, accepting, consents, rotations>>

-----------------------------------------------------------------------------
(* The rest of the world. *)

Bounded == rotations < MaxRotations /\ rotations' = rotations + 1

BeingSaved(q) == accepting # NoQuestion /\ q = <<accepting.host, accepting.key>>

\* The fingerprint manager: one entry, or all of them.
DeleteKeys(hosts) ==
    /\ Bounded /\ ~damaged /\ pending = NoQuestion
    /\ \E h \in hosts : trustFile[h] # NoKey
    /\ Update([h \in Hosts |-> IF h \in hosts THEN NoKey ELSE trustFile[h]])
    /\ connects' = Noticed(connects)
    /\ consents' = {q \in consents : q[1] \notin hosts \/ BeingSaved(q)}
    /\ UNCHANGED <<keyOf, damaged, pending, accepting>>

ServerKeyChanges(h, k) ==
    /\ Bounded
    /\ keyOf' = [keyOf EXCEPT ![h] = k] /\ keyOf[h] # k
    /\ UNCHANGED <<trustFile, damaged, trusted, connects, pending, accepting, consents>>

DamageFile ==
    /\ Bounded
    /\ damaged' = ~damaged
    /\ UNCHANGED <<keyOf, trustFile, trusted, connects, pending, accepting, consents>>

KeysNext ==
    \/ \E c \in Connects, r \in Routes, p \in Processes : Connect(c, r, p)
    \/ \E c \in Connects :
         PresentKey(c) \/ ProbeKnown(c) \/ Authenticate(c) \/ Reject(c)
    \/ ClickAccept \/ FinishAccept \/ ClickReject
    \/ \E hosts \in {{"jump"}, {"target"}, Hosts} : DeleteKeys(hosts)
    \/ \E h \in Hosts, k \in KeySet : ServerKeyChanges(h, k)
    \/ DamageFile

KeysSpec == KeysInit /\ [][KeysNext]_keyVars

-----------------------------------------------------------------------------
(* Properties. *)

\* Credentials go only to the key the file of trusted keys has had for that very host at
\* some moment since the check began: a revocation the application has made is seen by a
\* daemon that trusted the key before.
SentToTrusted ==
    [][\A c \in Connects :
        (/\ connects[c].stage = "connecting" /\ Checking(c)
         /\ connects'[c].stage \in {"connecting", "connected"} /\ connects'[c].since = {})
        => connects[c].key \in connects[c].since]_keyVars

\* Every trusted key was shown to the user, for that host, and accepted.
ConsentFirst ==
    \A h \in Hosts : trustFile[h] # NoKey => <<h, trustFile[h]>> \in consents
=============================================================================
