---------------------------- MODULE HostKeysProofs ----------------------------
(***************************************************************************)
(* Proofs about HostKeys for any number of host keys and connections.      *)
(***************************************************************************)
EXTENDS HostKeys, TLAPS

(* An attempt is at a hop of its route, has nothing to check before it starts, and checks a   *)
(* key that a server has presented.                                                          *)

OnRoute ==
    \A c \in Connects :
        /\ connects[c].hop \in DOMAIN connects[c].route
        /\ connects[c].stage = "new" => connects[c].since = {} /\ connects[c].hop = 1
        /\ connects[c].since # {} => connects[c].key \in KeySet

KeysTyped == KeysTypeOK /\ OnRoute

LEMMA RouteFact ==
    ASSUME NEW r \in Routes, NEW n \in DOMAIN r
    PROVE  r[n] \in Hosts
  BY DEF Routes, Hosts

LEMMA RouteStarts ==
    ASSUME NEW r \in Routes
    PROVE  1 \in DOMAIN r
  BY DEF Routes

\* What is not the last hop is before the second.
LEMMA RouteEnds ==
    ASSUME NEW r \in Routes, NEW n \in DOMAIN r, n # Len(r)
    PROVE  2 \in DOMAIN r
  <1>1. CASE r = <<"target">>
    <2>1. Len(r) = 1 /\ DOMAIN r = {1}
      BY <1>1
    <2>2. QED
      BY <2>1
  <1>2. CASE r = <<"jump", "target">>
    BY <1>2
  <1>3. QED
    BY <1>1, <1>2 DEF Routes

LEMMA HostOfFact ==
    ASSUME KeysTyped, NEW c \in Connects
    PROVE  HostOf(c) \in Hosts
  BY RouteFact DEF KeysTyped, KeysTypeOK, OnRoute, Attempts, HostOf

LEMMA CheckerFact ==
    ASSUME KeysTyped, NEW c \in Connects
    PROVE  Checker(c) \in Processes
  BY DEF KeysTyped, KeysTypeOK, Attempts, Checker, Processes

LEMMA TypedInit == KeysInit => KeysTyped
  <1> SUFFICES ASSUME KeysInit PROVE KeysTyped
    OBVIOUS
  <1>1. trustFile \in [Hosts -> Entries] /\ trusted \in [Processes -> [Hosts -> Entries]]
    BY DEF KeysInit, Entries
  <1>2. connects \in [Connects -> Attempts]
    BY DEF KeysInit, Attempts, KeyStages, Routes, Processes, Entries
  <1>3. OnRoute
    <2>1. 1 \in DOMAIN <<"target">>
      BY RouteStarts DEF Routes
    <2>2. \A c \in Connects : /\ connects[c].hop = 1 /\ connects[c].since = {}
                              /\ connects[c].route = <<"target">>
      BY DEF KeysInit
    <2>3. QED
      BY <2>1, <2>2 DEF OnRoute
  <1>4. rotations \in 0..MaxRotations /\ consents \subseteq Hosts \X KeySet
    BY KeysAssumption DEF KeysInit
  <1>5. QED
    BY <1>1, <1>2, <1>3, <1>4 DEF KeysInit, KeysTyped, KeysTypeOK

\* A question is about the hop the attempt is at.
LEMMA PendingFact ==
    ASSUME KeysTyped
    PROVE  /\ pending # NoQuestion => pending \in Questions
           /\ accepting # NoQuestion => accepting \in Questions
  BY DEF KeysTyped, KeysTypeOK

\* What the store does to the attempts at their check keeps them attempts.
LEMMA NoticedTyped ==
    ASSUME NEW cs \in [Connects -> Attempts],
           \A c \in Connects : cs[c].hop \in DOMAIN cs[c].route,
           trustFile' \in [Hosts -> Entries]
    PROVE  /\ Noticed(cs) \in [Connects -> Attempts]
           /\ \A c \in Connects :
                /\ Noticed(cs)[c].hop = cs[c].hop /\ Noticed(cs)[c].route = cs[c].route
                /\ Noticed(cs)[c].stage = cs[c].stage /\ Noticed(cs)[c].key = cs[c].key
                /\ cs[c].since = {} => Noticed(cs)[c].since = {}
  <1>1. ASSUME NEW c \in Connects
        PROVE  cs[c].route[cs[c].hop] \in Hosts
    BY RouteFact DEF Attempts
  <1>2. ASSUME NEW c \in Connects
        PROVE  Noticed(cs)[c] \in Attempts
    <2>1. trustFile'[cs[c].route[cs[c].hop]] \in Entries
      BY <1>1
    <2>2. cs[c].since \cup {trustFile'[cs[c].route[cs[c].hop]]} \in SUBSET Entries
      BY <2>1 DEF Attempts
    <2>3. QED
      BY <2>2 DEF Noticed, Attempts
  <1>3. QED
    BY <1>2 DEF Noticed, Attempts

\* An attempt that begins again is at the first hop, with nothing to check.
LEMMA FreshTyped ==
    ASSUME NEW a \in Attempts, NEW stage \in KeyStages
    PROVE  LET f == [Fresh(a) EXCEPT !.stage = stage]
           IN  /\ f \in Attempts /\ f.hop \in DOMAIN f.route /\ f.hop = 1 /\ f.since = {}
               /\ f.stage = stage /\ f.route = a.route
  <1> DEFINE f == [Fresh(a) EXCEPT !.stage = stage]
  <1>1. f \in Attempts
    <2>1. NoKey \in Entries /\ {} \in SUBSET Entries /\ 1 \in 1..2
      BY DEF Entries
    <2>2. QED
      BY <2>1 DEF Fresh, Attempts
  <1>2. f.hop = 1 /\ f.since = {} /\ f.stage = stage /\ f.route = a.route
    BY DEF Fresh, Attempts
  <1>3. 1 \in DOMAIN f.route
    BY <1>2, RouteStarts DEF Attempts
  <1>4. QED
    BY <1>1, <1>2, <1>3

LEMMA ResolveTyped ==
    ASSUME KeysTyped, NEW q \in Questions, NEW answer \in BOOLEAN
    PROVE  /\ Resolve(q, answer) \in [Connects -> Attempts]
           /\ \A c \in Connects :
                /\ Resolve(q, answer)[c].hop \in DOMAIN Resolve(q, answer)[c].route
                /\ Resolve(q, answer)[c].stage = "new" =>
                     Resolve(q, answer)[c].since = {} /\ Resolve(q, answer)[c].hop = 1
                /\ Resolve(q, answer)[c].since # {} => Resolve(q, answer)[c].key \in KeySet
  <1> DEFINE r == Resolve(q, answer)
  <1>1. ASSUME NEW c \in Connects
        PROVE  /\ r[c] \in Attempts /\ r[c].hop \in DOMAIN r[c].route
               /\ r[c].stage = "new" => r[c].since = {} /\ r[c].hop = 1
               /\ r[c].since # {} => r[c].key \in KeySet
    <2>1. connects[c] \in Attempts 
      BY DEF KeysTyped, KeysTypeOK, Attempts
    <2>2. CASE c # q.connect \/ connects[c].stage # "asking"
      BY <2>1, <2>2 DEF Resolve, KeysTyped, KeysTypeOK, OnRoute
    <2>3. CASE c = q.connect /\ connects[c].stage = "asking"
      <3>1. r[c] = [Fresh(connects[c]) EXCEPT !.stage = IF answer THEN "connecting" ELSE "failed"]
        BY <2>3 DEF Resolve, KeysTyped, KeysTypeOK
      <3>2. (IF answer THEN "connecting" ELSE "failed") \in KeyStages
        BY DEF KeyStages
      <3>3. QED
        BY <2>1, <3>1, <3>2, FreshTyped
    <2>4. QED
      BY <2>2, <2>3
  <1>2. QED
    BY <1>1 DEF Resolve, KeysTyped, KeysTypeOK

\* One attempt moves on, or begins again.
LEMMA MoveTyped ==
    ASSUME KeysTyped, NEW c \in Connects, NEW a \in Attempts,
           a.hop \in DOMAIN a.route, a.stage # "new", a.since # {} => a.key \in KeySet,
           connects' = [connects EXCEPT ![c] = a]
    PROVE  connects' \in [Connects -> Attempts] /\ OnRoute'
  <1>1. connects' \in [Connects -> Attempts]
    BY DEF KeysTyped, KeysTypeOK
  <1>2. ASSUME NEW e \in Connects
        PROVE  connects'[e] = IF e = c THEN a ELSE connects[e]
    BY DEF KeysTyped, KeysTypeOK
  <1>3. QED
    BY <1>1, <1>2 DEF KeysTyped, OnRoute

\* The steps of an attempt before its check, which leave the store and the dialog alone but
\* for the copy of one process.
LEMMA ConnectTyped ==
    ASSUME KeysTyped, NEW c \in Connects, NEW r \in Routes, NEW p \in Processes, Connect(c, r, p)
    PROVE  KeysTyped'
  <1> DEFINE a == [connects[c] EXCEPT !.route = r, !.process = p,
                      !.stage = IF Len(r) = 1 THEN "probing" ELSE "connecting"]
  <1>1. connects[c] \in Attempts /\ connects[c].hop = 1 /\ connects[c].since = {}
    BY DEF KeysTyped, KeysTypeOK, OnRoute, Connect
  <1>2. (IF Len(r) = 1 THEN "probing" ELSE "connecting") \in KeyStages \ {"new"}
    BY DEF KeyStages
  <1>3. a \in Attempts /\ a.route = r /\ a.hop = 1 /\ a.stage # "new" /\ a.since = {}
    BY <1>1, <1>2 DEF Attempts
  <1>4. connects' = [connects EXCEPT ![c] = a]
    BY DEF Connect, KeysTyped, KeysTypeOK
  <1>5. connects' \in [Connects -> Attempts] /\ OnRoute'
    BY <1>3, <1>4, RouteStarts, MoveTyped
  <1>6. QED
    BY <1>5 DEF Connect, KeysTyped, KeysTypeOK

LEMMA GiveUpTyped ==
    ASSUME NEW a \in Attempts
    PROVE  /\ GiveUp(a) \in Attempts /\ GiveUp(a).hop \in DOMAIN GiveUp(a).route
           /\ GiveUp(a).stage # "new" /\ GiveUp(a).since = {}
  <1>1. (IF a.stage = "probing" THEN "connecting" ELSE "failed") \in KeyStages \ {"new"}
    BY DEF KeyStages
  <1>2. QED
    BY <1>1, FreshTyped DEF GiveUp

LEMMA PresentKeyTyped ==
    ASSUME KeysTyped, NEW c \in Connects, PresentKey(c)
    PROVE  KeysTyped'
  <1>1. connects[c] \in Attempts /\ connects[c].stage # "new"
        /\ connects[c].hop \in DOMAIN connects[c].route
    BY DEF KeysTyped, KeysTypeOK, OnRoute, PresentKey
  <1>2. CASE damaged
    <2>1. connects' = [connects EXCEPT ![c] = GiveUp(connects[c])] /\ UNCHANGED trusted
      BY <1>2 DEF PresentKey, KeysTyped, KeysTypeOK
    <2>2. connects' \in [Connects -> Attempts] /\ OnRoute'
      BY <1>1, <2>1, GiveUpTyped, MoveTyped
    <2>3. QED
      BY <2>1, <2>2 DEF PresentKey, KeysTyped, KeysTypeOK
  <1>3. CASE ~damaged
    <2> DEFINE a == [connects[c] EXCEPT !.key = keyOf[HostOf(c)], !.since = {trustFile[HostOf(c)]}]
    <2>1. connects' = [connects EXCEPT ![c] = a]
      BY <1>3 DEF PresentKey, KeysTyped, KeysTypeOK
    <2>2. keyOf[HostOf(c)] \in Entries /\ {trustFile[HostOf(c)]} \in SUBSET Entries
      BY HostOfFact DEF KeysTyped, KeysTypeOK, Entries
    <2>3. a \in Attempts /\ a.hop = connects[c].hop /\ a.route = connects[c].route
          /\ a.stage = connects[c].stage /\ a.key = keyOf[HostOf(c)]
      BY <1>1, <2>2 DEF Attempts
    <2>4. connects' \in [Connects -> Attempts] /\ OnRoute'
      BY <1>1, <2>1, <2>3, HostOfFact, MoveTyped DEF KeysTyped, KeysTypeOK
    <2>5. trusted' \in [Processes -> [Hosts -> Entries]]
      BY <1>3, CheckerFact DEF PresentKey, Reload, KeysTyped, KeysTypeOK
    <2>6. QED
      BY <2>4, <2>5 DEF PresentKey, KeysTyped, KeysTypeOK
  <1>4. QED
    BY <1>2, <1>3

LEMMA ProbeKnownTyped ==
    ASSUME KeysTyped, NEW c \in Connects, ProbeKnown(c)
    PROVE  KeysTyped'
  <1>1. connects[c] \in Attempts
    BY DEF KeysTyped, KeysTypeOK
  <1>2. connects' = [connects EXCEPT ![c] = GiveUp(connects[c])]
    BY DEF ProbeKnown, KeysTyped, KeysTypeOK
  <1>3. connects' \in [Connects -> Attempts] /\ OnRoute'
    BY <1>1, <1>2, GiveUpTyped, MoveTyped
  <1>4. trusted' \in [Processes -> [Hosts -> Entries]]
    BY DEF ProbeKnown, KeysTyped, KeysTypeOK, Processes
  <1>5. QED
    BY <1>3, <1>4 DEF ProbeKnown, KeysTyped, KeysTypeOK

\* After the last hop an attempt is connected; before it, it goes on to the second.
LEMMA AuthenticateTyped ==
    ASSUME KeysTyped, NEW c \in Connects, Authenticate(c)
    PROVE  KeysTyped' /\ connects'[c].since = {}
  <1> DEFINE last == connects[c].hop = Len(connects[c].route)
             a == [connects[c] EXCEPT !.key = NoKey, !.since = {}]
  <1>1. connects[c] \in Attempts /\ connects[c].hop \in DOMAIN connects[c].route
    BY DEF KeysTyped, KeysTypeOK, OnRoute
  <1>2. PICK after \in {IF last THEN [a EXCEPT !.stage = "connected"] ELSE [a EXCEPT !.hop = 2],
                        [a EXCEPT !.stage = "failed"]} : connects' = [connects EXCEPT ![c] = after]
    BY DEF Authenticate
  <1>3. a \in Attempts /\ a.since = {} /\ a.route = connects[c].route /\ a.hop = connects[c].hop
        /\ a.stage = "connecting"
    <2>1. NoKey \in Entries /\ {} \in SUBSET Entries
      BY DEF Entries
    <2>2. QED
      BY <1>1, <2>1 DEF Attempts, Authenticate
  <1>4. after \in Attempts /\ after.hop \in DOMAIN after.route /\ after.stage # "new"
        /\ after.since = {}
    <2>1. ASSUME NEW stage \in {"connected", "failed"}, after = [a EXCEPT !.stage = stage]
          PROVE  /\ after \in Attempts /\ after.hop = connects[c].hop
                 /\ after.route = connects[c].route /\ after.stage = stage /\ after.since = {}
      BY <1>3, <2>1 DEF Attempts, KeyStages
    <2>2. CASE ~last /\ after = [a EXCEPT !.hop = 2]
      <3>1. 2 \in DOMAIN connects[c].route
        <4>1. connects[c].route \in Routes
          BY <1>1 DEF Attempts
        <4>2. QED
          BY <1>1, <2>2, <4>1, RouteEnds
      <3>2. after \in Attempts /\ after.hop = 2 /\ after.route = connects[c].route
            /\ after.stage = "connecting" /\ after.since = {}
        <4>1. after = [a EXCEPT !.hop = 2] /\ 2 \in 1..2
          BY <2>2
        <4>2. QED
          BY <1>3, <4>1 DEF Attempts
      <3>3. QED
        BY <3>1, <3>2
    <2>3. QED
      BY <1>1, <1>2, <2>1, <2>2
  <1>5. connects' \in [Connects -> Attempts] /\ OnRoute'
    BY <1>2, <1>4, MoveTyped
  <1>6. connects'[c].since = {}
    BY <1>2, <1>4 DEF KeysTyped, KeysTypeOK
  <1>7. QED
    BY <1>5, <1>6 DEF Authenticate, KeysTyped, KeysTypeOK

LEMMA RejectTyped ==
    ASSUME KeysTyped, NEW c \in Connects, Reject(c)
    PROVE  KeysTyped' /\ connects'[c].since = {}
  <1>1. connects[c] \in Attempts /\ connects[c].hop \in DOMAIN connects[c].route
    BY DEF KeysTyped, KeysTypeOK, OnRoute
  <1>2. ASSUME NEW approved \in SUBSET Hosts, Ask(c, approved)
        PROVE  KeysTyped' /\ connects'[c].since = {}
    <2> DEFINE a == [connects[c] EXCEPT !.stage = "asking", !.approved = approved, !.since = {}]
    <2>1. "asking" \in KeyStages /\ {} \in SUBSET Entries
      BY DEF KeyStages
    <2>2. a \in Attempts /\ a.hop = connects[c].hop /\ a.route = connects[c].route
          /\ a.stage = "asking" /\ a.since = {}
      BY <1>1, <2>1 DEF Attempts
    <2>3. connects' = [connects EXCEPT ![c] = a]
      BY <1>2 DEF Ask, KeysTyped, KeysTypeOK
    <2>4. connects' \in [Connects -> Attempts] /\ OnRoute' /\ connects'[c].since = {}
      BY <1>1, <2>2, <2>3, MoveTyped DEF KeysTyped, KeysTypeOK
    <2>5. pending' \in Questions
      BY <1>2, HostOfFact DEF Ask, Reject, Checking, KeysTyped, OnRoute, Questions
    <2>6. QED
      BY <2>4, <2>5 DEF Reject, KeysTyped, KeysTypeOK
  <1>3. CASE connects[c].stage = "probing"
    BY <1>2, <1>3 DEF Reject
  <1>4. CASE connects[c].stage # "probing" /\ HostOf(c) \notin connects[c].approved
    <2>1. connects[c].approved \cup {HostOf(c)} \in SUBSET Hosts
      BY <1>1, HostOfFact DEF Attempts
    <2>2. QED
      BY <1>2, <1>4, <2>1 DEF Reject
  <1>5. CASE connects[c].stage # "probing" /\ HostOf(c) \in connects[c].approved
    <2>1. connects' = [connects EXCEPT ![c] = GiveUp(connects[c])] /\ UNCHANGED pending
      BY <1>5 DEF Reject, KeysTyped, KeysTypeOK
    <2>2. connects' \in [Connects -> Attempts] /\ OnRoute' /\ connects'[c].since = {}
      BY <1>1, <2>1, GiveUpTyped, MoveTyped DEF KeysTyped, KeysTypeOK
    <2>3. QED
      BY <2>1, <2>2 DEF Reject, KeysTyped, KeysTypeOK
  <1>6. QED
    BY <1>3, <1>4, <1>5

-----------------------------------------------------------------------------
(* The dialog and the store. *)

LEMMA OnRouteFact ==
    ASSUME NEW cs \in [Connects -> Attempts],
           connects' = cs,
           \A c \in Connects :
             /\ cs[c].hop \in DOMAIN cs[c].route
             /\ cs[c].stage = "new" => cs[c].since = {} /\ cs[c].hop = 1
             /\ cs[c].since # {} => cs[c].key \in KeySet
    PROVE  connects' \in [Connects -> Attempts] /\ OnRoute'
  BY DEF OnRoute

LEMMA NoticedOnRoute ==
    ASSUME NEW cs \in [Connects -> Attempts],
           connects' = Noticed(cs), trustFile' \in [Hosts -> Entries],
           \A c \in Connects :
             /\ cs[c].hop \in DOMAIN cs[c].route
             /\ cs[c].stage = "new" => cs[c].since = {} /\ cs[c].hop = 1
             /\ cs[c].since # {} => cs[c].key \in KeySet
    PROVE  connects' \in [Connects -> Attempts] /\ OnRoute'
  <1>1. Noticed(cs) \in [Connects -> Attempts]
    BY NoticedTyped
  <1>2. ASSUME NEW c \in Connects
        PROVE  /\ Noticed(cs)[c].hop \in DOMAIN Noticed(cs)[c].route
               /\ Noticed(cs)[c].stage = "new" => Noticed(cs)[c].since = {} /\ Noticed(cs)[c].hop = 1
               /\ Noticed(cs)[c].since # {} => Noticed(cs)[c].key \in KeySet
    BY NoticedTyped
  <1>3. QED
    BY <1>1, <1>2, OnRouteFact

LEMMA ClickAcceptTyped == ASSUME KeysTyped, ClickAccept PROVE KeysTyped'
  <1>1. pending \in Questions
    BY PendingFact DEF ClickAccept
  <1>2. <<pending.host, pending.key>> \in Hosts \X KeySet
    BY <1>1 DEF Questions
  <1>3. QED
    BY <1>1, <1>2 DEF ClickAccept, KeysTyped, KeysTypeOK, OnRoute

LEMMA FinishAcceptTyped == ASSUME KeysTyped, FinishAccept PROVE KeysTyped'
  <1>1. accepting \in Questions
    BY PendingFact DEF FinishAccept
  <1>2. CASE connects' = Resolve(accepting, FALSE) /\ UNCHANGED <<trustFile, trusted>>
    <2>1. connects' \in [Connects -> Attempts] /\ OnRoute'
      BY <1>1, <1>2, ResolveTyped, OnRouteFact
    <2>2. QED
      BY <1>2, <2>1 DEF FinishAccept, KeysTyped, KeysTypeOK
  <1>3. CASE /\ Update([trustFile EXCEPT ![accepting.host] = accepting.key])
             /\ connects' = Noticed(Resolve(accepting, TRUE))
    <2>1. accepting.host \in Hosts /\ accepting.key \in Entries
      BY <1>1 DEF Questions, Entries
    <2>2. trustFile' \in [Hosts -> Entries] /\ trusted' \in [Processes -> [Hosts -> Entries]]
      BY <1>3, <2>1 DEF Update, KeysTyped, KeysTypeOK, Processes
    <2>3. connects' \in [Connects -> Attempts] /\ OnRoute'
      BY <1>1, <1>3, <2>2, ResolveTyped, NoticedOnRoute
    <2>4. QED
      BY <2>2, <2>3 DEF FinishAccept, KeysTyped, KeysTypeOK
  <1>4. QED
    BY <1>2, <1>3 DEF FinishAccept

LEMMA ClickRejectTyped == ASSUME KeysTyped, ClickReject PROVE KeysTyped'
  <1>1. pending \in Questions
    BY PendingFact DEF ClickReject
  <1>2. connects' \in [Connects -> Attempts] /\ OnRoute'
    BY <1>1, ResolveTyped, OnRouteFact DEF ClickReject
  <1>3. QED
    BY <1>2 DEF ClickReject, KeysTyped, KeysTypeOK

LEMMA DeleteKeysTyped ==
    ASSUME KeysTyped, NEW hosts \in SUBSET Hosts, DeleteKeys(hosts)
    PROVE  KeysTyped'
  <1>1. trustFile' \in [Hosts -> Entries] /\ trusted' \in [Processes -> [Hosts -> Entries]]
    BY DEF DeleteKeys, Update, KeysTyped, KeysTypeOK, Entries, Processes
  <1>2. connects' \in [Connects -> Attempts] /\ OnRoute'
    BY <1>1, NoticedOnRoute DEF DeleteKeys, KeysTyped, KeysTypeOK, OnRoute
  <1>3. rotations' \in 0..MaxRotations
    BY KeysAssumption DEF DeleteKeys, Bounded, KeysTyped, KeysTypeOK
  <1>4. QED
    BY <1>1, <1>2, <1>3 DEF DeleteKeys, KeysTyped, KeysTypeOK

LEMMA WorldTyped ==
    ASSUME KeysTyped, (\E h \in Hosts, k \in KeySet : ServerKeyChanges(h, k)) \/ DamageFile
    PROVE  KeysTyped'
  <1>1. rotations' \in 0..MaxRotations
    BY KeysAssumption DEF ServerKeyChanges, DamageFile, Bounded, KeysTyped, KeysTypeOK
  <1>2. keyOf' \in [Hosts -> KeySet] /\ damaged' \in BOOLEAN
    BY DEF ServerKeyChanges, DamageFile, KeysTyped, KeysTypeOK
  <1>3. OnRoute'
    BY DEF ServerKeyChanges, DamageFile, KeysTyped, OnRoute
  <1>4. QED
    BY <1>1, <1>2, <1>3 DEF ServerKeyChanges, DamageFile, KeysTyped, KeysTypeOK

LEMMA TypedStep == ASSUME KeysTyped, [KeysNext]_keyVars PROVE KeysTyped'
  <1>1. CASE UNCHANGED keyVars
    BY <1>1 DEF keyVars, KeysTyped, KeysTypeOK, OnRoute
  <1>2. CASE KeysNext
    BY <1>2, ConnectTyped, PresentKeyTyped, ProbeKnownTyped, AuthenticateTyped, RejectTyped,
       ClickAcceptTyped, FinishAcceptTyped, ClickRejectTyped, DeleteKeysTyped, WorldTyped
       DEF KeysNext, Hosts
  <1>3. QED
    BY <1>1, <1>2

\* The state of the store, the dialog and the attempts is well-typed, for any number of keys
\* and attempts.
THEOREM KeysTypes == KeysSpec => []KeysTypeOK
  <1>1. KeysInit => KeysTyped
    BY TypedInit
  <1>2. KeysTyped /\ [KeysNext]_keyVars => KeysTyped'
    BY TypedStep
  <1>3. KeysTyped => KeysTypeOK
    BY DEF KeysTyped
  <1>4. QED
    BY <1>1, <1>2, <1>3, PTL DEF KeysSpec

-----------------------------------------------------------------------------
(* Consent. *)

\* The user has said yes to what is being saved.
SaidYes == accepting # NoQuestion => <<accepting.host, accepting.key>> \in consents

Consented == KeysTyped /\ SaidYes /\ ConsentFirst

LEMMA ConsentedInit == KeysInit => Consented
  BY TypedInit DEF KeysInit, Consented, SaidYes, ConsentFirst

\* What the attempts do leaves the file and the consents alone.
LEMMA AttemptConsented ==
    ASSUME Consented, UNCHANGED <<trustFile, accepting, consents>>
    PROVE  SaidYes' /\ ConsentFirst'
  BY DEF Consented, SaidYes, ConsentFirst

LEMMA DialogConsented ==
    ASSUME Consented, ClickAccept \/ FinishAccept \/ ClickReject
    PROVE  SaidYes' /\ ConsentFirst'
  <1>1. CASE ClickAccept
    BY <1>1 DEF ClickAccept, Consented, SaidYes, ConsentFirst
  <1>2. CASE FinishAccept
    <2>1. accepting \in Questions /\ <<accepting.host, accepting.key>> \in consents
      BY <1>2, PendingFact DEF FinishAccept, Consented, SaidYes
    <2>2. SaidYes' /\ consents' = consents
      BY <1>2 DEF FinishAccept, SaidYes
    <2>3. CASE trustFile' = [trustFile EXCEPT ![accepting.host] = accepting.key]
      <3>1. ASSUME NEW h \in Hosts
            PROVE  trustFile'[h] = IF h = accepting.host THEN accepting.key ELSE trustFile[h]
        BY <2>3 DEF Consented, KeysTyped, KeysTypeOK
      <3>2. QED
        BY <2>1, <2>2, <3>1 DEF Consented, ConsentFirst
    <2>4. CASE UNCHANGED trustFile
      BY <2>2, <2>4 DEF Consented, ConsentFirst
    <2>5. QED
      BY <1>2, <2>2, <2>3, <2>4 DEF FinishAccept, Update
  <1>3. CASE ClickReject
    BY <1>3, AttemptConsented DEF ClickReject
  <1>4. QED
    BY <1>1, <1>2, <1>3

\* A deletion forgets the consents for the entries it deletes, but for one that is being saved.
LEMMA DeleteConsented ==
    ASSUME Consented, NEW hosts \in SUBSET Hosts, DeleteKeys(hosts)
    PROVE  SaidYes' /\ ConsentFirst'
  <1>1. trustFile' = [h \in Hosts |-> IF h \in hosts THEN NoKey ELSE trustFile[h]]
    BY DEF DeleteKeys, Update
  <1>2. consents' = {q \in consents : q[1] \notin hosts \/ BeingSaved(q)} /\ accepting' = accepting
    BY DEF DeleteKeys
  <1>3. SaidYes'
    BY <1>2 DEF Consented, SaidYes, BeingSaved
  <1>4. ASSUME NEW h \in Hosts, trustFile'[h] # NoKey
        PROVE  <<h, trustFile'[h]>> \in consents'
    <2>1. h \notin hosts /\ trustFile'[h] = trustFile[h]
      BY <1>1, <1>4
    <2>2. <<h, trustFile[h]>> \in consents
      BY <1>4, <2>1 DEF Consented, ConsentFirst
    <2>3. QED
      BY <1>2, <2>1, <2>2
  <1>5. QED
    BY <1>3, <1>4 DEF ConsentFirst

LEMMA ConsentedStep == ASSUME Consented, [KeysNext]_keyVars PROVE Consented'
  <1>1. KeysTyped'
    BY TypedStep DEF Consented
  <1>2. CASE UNCHANGED <<trustFile, accepting, consents>>
    BY <1>1, <1>2, AttemptConsented DEF Consented
  <1>3. CASE ClickAccept \/ FinishAccept \/ ClickReject
    BY <1>1, <1>3, DialogConsented DEF Consented
  <1>4. ASSUME NEW hosts \in SUBSET Hosts, DeleteKeys(hosts) PROVE Consented'
    BY <1>1, <1>4, DeleteConsented DEF Consented
  <1>5. QED
    BY <1>2, <1>3, <1>4 DEF keyVars, KeysNext, Hosts, Connect, PresentKey, ProbeKnown,
       Authenticate, Reject, ServerKeyChanges, DamageFile

\* Every trusted key was shown to the user for its host and accepted: the one slot for questions
\* may be filled anew while an answer is being saved, and a deletion may come in between.
THEOREM TrustNeedsConsent == KeysSpec => []ConsentFirst
  <1>1. KeysInit => Consented
    BY ConsentedInit
  <1>2. Consented /\ [KeysNext]_keyVars => Consented'
    BY ConsentedStep
  <1>3. Consented => ConsentFirst
    BY DEF Consented
  <1>4. QED
    BY <1>1, <1>2, <1>3, PTL DEF KeysSpec

-----------------------------------------------------------------------------
(* Where credentials go. *)

\* An attempt at its check knows every entry that its host has had since it read the file, and
\* the copy it trusts from is one of them.
Traced ==
    \A c \in Connects : Checking(c) =>
        /\ trustFile[HostOf(c)] \in connects[c].since
        /\ trusted[Checker(c)][HostOf(c)] \in connects[c].since

Watched == KeysTyped /\ Traced

LEMMA WatchedInit == KeysInit => Watched
  BY TypedInit DEF KeysInit, Watched, Traced, Checking

\* Copies are only replaced by the file, and attempts stay or leave their check.
LEMMA StayTraced ==
    ASSUME Watched, trustFile' = trustFile,
           \A p \in Processes : trusted'[p] \in {trusted[p], trustFile},
           \A c \in Connects : connects'[c].since = {} \/ connects'[c] = connects[c]
    PROVE  Traced'
  <1> SUFFICES ASSUME NEW c \in Connects, Checking(c)'
               PROVE  /\ trustFile'[HostOf(c)'] \in connects'[c].since
                      /\ trusted'[Checker(c)'][HostOf(c)'] \in connects'[c].since
    BY DEF Traced
  <1>1. connects'[c] = connects[c] /\ Checking(c) /\ HostOf(c)' = HostOf(c) /\ Checker(c)' = Checker(c)
    BY DEF Checking, HostOf, Checker
  <1>2. Checker(c) \in Processes
    BY CheckerFact DEF Watched
  <1>3. QED
    BY <1>1, <1>2 DEF Watched, Traced

LEMMA PresentKeyTraced ==
    ASSUME Watched, NEW c \in Connects, PresentKey(c)
    PROVE  Traced'
  <1>1. CASE damaged
    BY <1>1, StayTraced, GiveUpTyped DEF PresentKey, Watched, KeysTyped, KeysTypeOK
  <1>2. CASE ~damaged
    <2>1. /\ trusted' = [trusted EXCEPT ![Checker(c)] = trustFile] /\ trustFile' = trustFile
          /\ connects' = [connects EXCEPT ![c].key = keyOf[HostOf(c)],
                                          ![c].since = {trustFile[HostOf(c)]}]
      BY <1>2 DEF PresentKey, Reload
    <2>2. Checker(c) \in Processes /\ HostOf(c) \in Hosts
      BY CheckerFact, HostOfFact DEF Watched
    <2>3. ASSUME NEW e \in Connects, e # c, Checking(e)'
          PROVE  /\ trustFile'[HostOf(e)'] \in connects'[e].since
                 /\ trusted'[Checker(e)'][HostOf(e)'] \in connects'[e].since
      <3>1. connects'[e] = connects[e]
        BY <2>1, <2>3 DEF Watched, KeysTyped, KeysTypeOK
      <3>2. Checking(e) /\ HostOf(e)' = HostOf(e) /\ Checker(e)' = Checker(e)
        BY <2>3, <3>1 DEF Checking, HostOf, Checker
      <3>3. trusted'[Checker(e)] \in {trusted[Checker(e)], trustFile}
        BY <2>1, <2>2 DEF Watched, KeysTyped, KeysTypeOK
      <3>4. QED
        BY <2>1, <3>1, <3>2, <3>3 DEF Watched, Traced
    <2>4. /\ trustFile'[HostOf(c)'] \in connects'[c].since
          /\ trusted'[Checker(c)'][HostOf(c)'] \in connects'[c].since
      <3>1. connects'[c] = [connects[c] EXCEPT !.key = keyOf[HostOf(c)],
                                               !.since = {trustFile[HostOf(c)]}]
        BY <2>1 DEF Watched, KeysTyped, KeysTypeOK
      <3>2. connects[c] \in Attempts
        BY DEF Watched, KeysTyped, KeysTypeOK
      <3>3. /\ connects'[c].since = {trustFile[HostOf(c)]}
            /\ connects'[c].route = connects[c].route /\ connects'[c].hop = connects[c].hop
            /\ connects'[c].stage = connects[c].stage /\ connects'[c].process = connects[c].process
        BY <3>1, <3>2 DEF Attempts
      <3>4. HostOf(c)' = HostOf(c) /\ Checker(c)' = Checker(c)
        BY <3>3 DEF HostOf, Checker
      <3>5. trusted'[Checker(c)] = trustFile
        BY <2>1, <2>2 DEF Watched, KeysTyped, KeysTypeOK
      <3>6. QED
        BY <2>1, <3>3, <3>4, <3>5
    <2>5. QED
      BY <2>3, <2>4 DEF Traced
  <1>3. QED
    BY <1>1, <1>2

\* A write of the application is noticed by whoever is at its check.
LEMMA UpdateTraced ==
    ASSUME Watched, NEW entries \in [Hosts -> Entries], Update(entries),
           NEW cs \in [Connects -> Attempts], connects' = Noticed(cs),
           \A c \in Connects : cs[c].since = {} \/ cs[c] = connects[c]
    PROVE  Traced'
  <1> SUFFICES ASSUME NEW c \in Connects, Checking(c)'
               PROVE  /\ trustFile'[HostOf(c)'] \in connects'[c].since
                      /\ trusted'[Checker(c)'][HostOf(c)'] \in connects'[c].since
    BY DEF Traced
  <1>1. cs[c].since # {} /\ cs[c] = connects[c] /\ Checking(c)
    BY DEF Noticed, Checking
  <1>2. connects'[c] = [connects[c] EXCEPT !.since = @ \cup {trustFile'[HostOf(c)]}]
    BY <1>1 DEF Noticed, HostOf
  <1>3. connects[c] \in Attempts
    BY DEF Watched, KeysTyped, KeysTypeOK
  <1>4. /\ connects'[c].since = connects[c].since \cup {trustFile'[HostOf(c)]}
        /\ connects'[c].route = connects[c].route /\ connects'[c].hop = connects[c].hop
        /\ connects'[c].stage = connects[c].stage /\ connects'[c].process = connects[c].process
    BY <1>2, <1>3 DEF Attempts
  <1>5. HostOf(c)' = HostOf(c) /\ Checker(c)' = Checker(c)
    BY <1>4 DEF HostOf, Checker
  <1>6. trusted'[Checker(c)] \in {trusted[Checker(c)], trustFile'}
    BY CheckerFact DEF Update, Watched, KeysTyped, KeysTypeOK, Processes
  <1>7. trusted[Checker(c)][HostOf(c)] \in connects[c].since
    BY <1>1 DEF Watched, Traced
  <1>8. QED
    BY <1>4, <1>5, <1>6, <1>7

\* Who is answered begins again.
LEMMA ResolveSince ==
    ASSUME Watched, NEW q \in Questions, NEW answer \in BOOLEAN, NEW c \in Connects
    PROVE  Resolve(q, answer)[c].since = {} \/ Resolve(q, answer)[c] = connects[c]
  <1>1. CASE c # q.connect \/ connects[c].stage # "asking"
    BY <1>1 DEF Resolve, Watched, KeysTyped, KeysTypeOK
  <1>2. CASE c = q.connect /\ connects[c].stage = "asking"
    <2>1. Resolve(q, answer)[c] = [Fresh(connects[c]) EXCEPT
                                     !.stage = IF answer THEN "connecting" ELSE "failed"]
      BY <1>2 DEF Resolve, Watched, KeysTyped, KeysTypeOK
    <2>2. (IF answer THEN "connecting" ELSE "failed") \in KeyStages /\ connects[c] \in Attempts
      BY DEF KeyStages, Watched, KeysTyped, KeysTypeOK
    <2>3. QED
      BY <2>1, <2>2, FreshTyped
  <1>3. QED
    BY <1>1, <1>2

LEMMA DialogTraced ==
    ASSUME Watched, ClickAccept \/ FinishAccept \/ ClickReject
    PROVE  Traced'
  <1>1. CASE ClickAccept
    BY <1>1, StayTraced DEF ClickAccept
  <1>2. CASE FinishAccept
    <2>1. accepting \in Questions
      BY <1>2, PendingFact DEF FinishAccept, Watched
    <2>2. CASE connects' = Resolve(accepting, FALSE) /\ UNCHANGED <<trustFile, trusted>>
      BY <2>1, <2>2, ResolveSince, StayTraced
    <2>3. CASE /\ Update([trustFile EXCEPT ![accepting.host] = accepting.key])
               /\ connects' = Noticed(Resolve(accepting, TRUE))
      <3>1. [trustFile EXCEPT ![accepting.host] = accepting.key] \in [Hosts -> Entries]
        BY <2>1 DEF Watched, KeysTyped, KeysTypeOK, Questions, Entries
      <3>2. Resolve(accepting, TRUE) \in [Connects -> Attempts]
        BY <2>1, ResolveTyped DEF Watched
      <3>3. QED
        BY <2>1, <2>3, <3>1, <3>2, ResolveSince, UpdateTraced
    <2>4. QED
      BY <1>2, <2>2, <2>3 DEF FinishAccept
  <1>3. CASE ClickReject
    <2>1. pending \in Questions
      BY <1>3, PendingFact DEF ClickReject, Watched
    <2>2. QED
      BY <1>3, <2>1, ResolveSince, StayTraced DEF ClickReject
  <1>4. QED
    BY <1>1, <1>2, <1>3

LEMMA DeleteTraced ==
    ASSUME Watched, NEW hosts \in SUBSET Hosts, DeleteKeys(hosts)
    PROVE  Traced'
  <1> DEFINE entries == [h \in Hosts |-> IF h \in hosts THEN NoKey ELSE trustFile[h]]
  <1>1. entries \in [Hosts -> Entries]
    BY DEF Watched, KeysTyped, KeysTypeOK, Entries
  <1>2. Update(entries) /\ connects' = Noticed(connects) /\ connects \in [Connects -> Attempts]
    BY DEF DeleteKeys, Watched, KeysTyped, KeysTypeOK
  <1>3. QED
    BY <1>1, <1>2, UpdateTraced

LEMMA AttemptTraced ==
    ASSUME Watched, NEW c \in Connects,
           \/ \E r \in Routes, p \in Processes : Connect(c, r, p)
           \/ ProbeKnown(c) \/ Authenticate(c) \/ Reject(c)
    PROVE  Traced'
  <1>1. connects[c] \in Attempts
    BY DEF Watched, KeysTyped, KeysTypeOK
  <1>2. ASSUME NEW r \in Routes, NEW p \in Processes, Connect(c, r, p) PROVE Traced'
    <2>1. connects'[c].since = {}
      <3>1. connects[c].since = {}
        BY <1>2 DEF Connect, Watched, KeysTyped, OnRoute
      <3>2. connects'[c] = [connects[c] EXCEPT !.route = r, !.process = p,
                              !.stage = IF Len(r) = 1 THEN "probing" ELSE "connecting"]
        BY <1>2 DEF Connect, Watched, KeysTyped, KeysTypeOK
      <3>3. QED
        BY <1>1, <3>1, <3>2 DEF Attempts
    <2>2. \A e \in Connects \ {c} : connects'[e] = connects[e]
      BY <1>2 DEF Connect, Watched, KeysTyped, KeysTypeOK
    <2>3. QED
      BY <1>2, <2>1, <2>2, StayTraced DEF Connect
  <1>3. CASE ProbeKnown(c)
    <2>1. connects' = [connects EXCEPT ![c] = GiveUp(connects[c])]
      BY <1>3 DEF ProbeKnown, Watched, KeysTyped, KeysTypeOK
    <2>2. \A e \in Connects : connects'[e].since = {} \/ connects'[e] = connects[e]
      BY <1>1, <2>1, GiveUpTyped DEF Watched, KeysTyped, KeysTypeOK
    <2>3. \A p \in Processes : trusted'[p] \in {trusted[p], trustFile}
      BY <1>3 DEF ProbeKnown, Watched, KeysTyped, KeysTypeOK
    <2>4. QED
      BY <1>3, <2>2, <2>3, StayTraced DEF ProbeKnown
  <1>4. CASE Authenticate(c)
    <2>1. connects'[c].since = {}
      BY <1>4, AuthenticateTyped DEF Watched
    <2>2. \A e \in Connects \ {c} : connects'[e] = connects[e]
      BY <1>4 DEF Authenticate, Watched, KeysTyped, KeysTypeOK
    <2>3. QED
      BY <1>4, <2>1, <2>2, StayTraced DEF Authenticate
  <1>5. CASE Reject(c)
    <2>1. connects'[c].since = {}
      BY <1>5, RejectTyped DEF Watched
    <2>2. \A e \in Connects \ {c} : connects'[e] = connects[e]
      BY <1>5 DEF Reject, Ask, Watched, KeysTyped, KeysTypeOK
    <2>3. QED
      BY <1>5, <2>1, <2>2, StayTraced DEF Reject
  <1>6. QED
    BY <1>2, <1>3, <1>4, <1>5

LEMMA WatchedStep == ASSUME Watched, [KeysNext]_keyVars PROVE Watched'
  <1>1. KeysTyped'
    BY TypedStep DEF Watched
  <1>2. CASE UNCHANGED <<trustFile, trusted, connects>>
    BY <1>1, <1>2, StayTraced DEF Watched
  <1>3. CASE KeysNext
    BY <1>1, <1>2, <1>3, AttemptTraced, PresentKeyTraced, DialogTraced, DeleteTraced
       DEF KeysNext, Hosts, ServerKeyChanges, DamageFile, Watched
  <1>4. QED
    BY <1>2, <1>3 DEF keyVars

\* Other steps keep what an attempt has to check, or do not leave it connecting.
Stays(c) ==
    \/ connects'[c] = connects[c]
    \/ connects'[c].since # {}
    \/ connects'[c].stage \notin {"connecting", "connected"}

LEMMA DialogStays ==
    ASSUME Watched, NEW c \in Connects, connects[c].stage = "connecting", Checking(c),
           \/ ClickAccept \/ FinishAccept \/ ClickReject
           \/ \E hosts \in SUBSET Hosts : DeleteKeys(hosts)
    PROVE  Stays(c)
  <1>1. ASSUME NEW q, NEW answer PROVE Resolve(q, answer)[c] = connects[c]
    BY DEF Resolve
  <1>2. ASSUME NEW cs, cs[c] = connects[c] PROVE Noticed(cs)[c].since # {}
    <2>1. connects[c] \in Attempts /\ connects[c].since # {}
      BY DEF Watched, KeysTyped, KeysTypeOK, Checking
    <2>2. Noticed(cs)[c] = [connects[c] EXCEPT !.since = @ \cup {trustFile'[HostOf(c)]}]
      BY <1>2, <2>1 DEF Noticed, HostOf
    <2>3. QED
      BY <2>1, <2>2 DEF Attempts
  <1>3. QED
    BY <1>1, <1>2 DEF Stays, ClickAccept, FinishAccept, ClickReject, DeleteKeys

LEMMA OtherAttemptStays ==
    ASSUME Watched, NEW c \in Connects, connects[c].stage = "connecting", Checking(c),
           NEW e \in Connects,
           \/ \E r \in Routes, p \in Processes : Connect(e, r, p)
           \/ PresentKey(e) \/ ProbeKnown(e) \/ Reject(e) \/ (e # c /\ Authenticate(e))
    PROVE  Stays(c)
  <1>1. CASE e # c
    BY <1>1 DEF Stays, Connect, PresentKey, ProbeKnown, Reject, Ask, Authenticate,
                Watched, KeysTyped, KeysTypeOK
  <1>2. CASE e = c
    <2>1. Reject(c)
      BY <1>2 DEF Connect, PresentKey, ProbeKnown
    <2>2. connects[c] \in Attempts
      BY DEF Watched, KeysTyped, KeysTypeOK
    <2>3. GiveUp(connects[c]).stage = "failed"
      BY <2>2, FreshTyped DEF GiveUp, KeyStages
    <2>4. CASE connects' = [connects EXCEPT ![c] = GiveUp(connects[c])]
      BY <2>3, <2>4 DEF Stays, Watched, KeysTyped, KeysTypeOK
    <2>5. ASSUME NEW approved, Ask(c, approved) PROVE connects'[c].stage = "asking"
      BY <2>2, <2>5 DEF Ask, Attempts, Watched, KeysTyped, KeysTypeOK
    <2>6. QED
      BY <2>1, <2>4, <2>5 DEF Reject, Stays
  <1>3. QED
    BY <1>1, <1>2

\* Only Authenticate ends the check of an attempt that goes on.
LEMMA OnlyAuthenticated ==
    ASSUME Watched, [KeysNext]_keyVars, NEW c \in Connects,
           connects[c].stage = "connecting", Checking(c),
           connects'[c].stage \in {"connecting", "connected"}, connects'[c].since = {}
    PROVE  connects[c].key \in connects[c].since
  <1>1. ~Stays(c)
    BY DEF Stays, Checking
  <1>2. connects' # connects
    BY <1>1 DEF Stays
  <1>3. KeysNext
    BY <1>2 DEF keyVars
  <1>4. Authenticate(c)
    BY <1>1, <1>2, <1>3, DialogStays, OtherAttemptStays
       DEF KeysNext, Hosts, ServerKeyChanges, DamageFile
  <1>5. QED
    BY <1>4 DEF Authenticate, KnownKey, Watched, Traced

\* Credentials go only to a key that the file has had for that very host since the check began,
\* whichever process connects and however the application changes the file meanwhile.
THEOREM CredentialsGoToTrusted == KeysSpec => SentToTrusted
  <1>1. KeysInit => Watched
    BY WatchedInit
  <1>2. Watched /\ [KeysNext]_keyVars => Watched'
    BY WatchedStep
  <1>3. Watched /\ [KeysNext]_keyVars =>
          [\A c \in Connects :
             (/\ connects[c].stage = "connecting" /\ Checking(c)
              /\ connects'[c].stage \in {"connecting", "connected"} /\ connects'[c].since = {})
             => connects[c].key \in connects[c].since]_keyVars
    BY OnlyAuthenticated
  <1>4. QED
    BY <1>1, <1>2, <1>3, PTL DEF KeysSpec, SentToTrusted
=============================================================================
