---------------------------- MODULE MCCloudSync ----------------------------
(* Small instances of CloudSync for TLC. *)
EXTENDS CloudSync, TLC

\* Device 1 creates the odd ids, device 2 the even ones.
MCCreator == [e \in Entities |-> IF e % 2 = 1 THEN 1 ELSE 2]

\* Base names are interchangeable: the module only compares them.
MCSymmetry == Permutations(Names)

Seen(S) == \E d \in Devices, e \in S : Known(db[d], e)
Used(what) == spent[what] > 0

\* Only the first vault is in use.
OneVault == \A d \in Devices : active[d] \in {Null, CHOOSE v \in Vaults : TRUE}

\* Both devices are in it before anything is written.
Together == OneVault /\ (Used("edits") => \A d \in Devices : active[d] # Null)
EarlyClocks == \A d \in Devices : db[d].clock <= 2

\* The scenarios that share one run: an instance that may use everything at once
\* is too large, so each behaviour stays within one of these combinations.
MCScenarios ==
    \* Both devices make a group of the same name, with failures in between.
    \/ ~Seen(Servers \cup Snippets) /\ ~Used("files") /\ OneVault
       /\ spent.edits <= 2
    \* The same, and a portable file beside the provider.
    \/ ~Seen(Servers \cup Snippets) /\ ~Used("breaks") /\ Together
       /\ spent.edits <= 2 /\ EarlyClocks
    \* A server refers to a group that is deleted and synced meanwhile.
    \/ ~Seen(Snippets) /\ ~Seen({e \in Groups : Creator[e] # 1}) /\ Together
       /\ ~Used("files") /\ ~Used("breaks")
    \* A snippet travels by provider and by file.
    \/ ~Seen(Servers \cup Groups) /\ ~Used("breaks") /\ OneVault
       /\ spent.edits <= 2 /\ EarlyClocks
    \* A snippet's owner moves from vault to vault.
    \/ ~Seen(Servers \cup Groups) /\ ~Used("breaks") /\ ~Used("files") /\ spent.edits <= 1
=============================================================================
