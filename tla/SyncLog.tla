------------------------------- MODULE SyncLog -------------------------------
(***************************************************************************)
(* What the devices of a vault may expect of their provider: a log to      *)
(* which envelopes are added once, which all read from the start and in    *)
(* order, and in which an envelope is before its device forgets it.        *)
(***************************************************************************)
EXTENDS Sequences, SequencesExt

CONSTANTS Devices, Vaults, Envelopes

VARIABLES home, \* the vault of each device
          log,  \* the envelopes of each vault
          got,  \* what each device has taken from the log of its vault
          owed  \* what each device has to send

Mine(d) == log[home[d]]

Init ==
    /\ home \in [Devices -> Vaults]
    /\ log = [v \in Vaults |-> <<>>]
    /\ got = [d \in Devices |-> <<>>]
    /\ owed = [d \in Devices |-> {}]

Add(d) ==
    /\ \E e \in owed[d] \ ToSet(Mine(d)) : log' = [log EXCEPT ![home[d]] = Append(@, e)]
    /\ UNCHANGED <<home, got, owed>>

Take(d) ==
    /\ IsStrictPrefix(got[d], got'[d]) /\ IsPrefix(got'[d], Mine(d))
    /\ got' = [got EXCEPT ![d] = got'[d]]
    /\ UNCHANGED <<home, log, owed>>

Owe(d) ==
    /\ \E e \in Envelopes : owed' = [owed EXCEPT ![d] = @ \cup {e}]
    /\ UNCHANGED <<home, log, got>>

Forget(d) ==
    /\ \E e \in owed[d] \cap ToSet(Mine(d)) : owed' = [owed EXCEPT ![d] = @ \ {e}]
    /\ UNCHANGED <<home, log, got>>

Next == \E d \in Devices : Add(d) \/ Take(d) \/ Owe(d) \/ Forget(d)

Spec == Init /\ [][Next]_<<home, log, got, owed>>
=============================================================================
