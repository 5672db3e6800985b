--------------------------- MODULE CloudSyncProofs ---------------------------
(***************************************************************************)
(* Proofs about SyncStore and CloudSync for any number of devices, vaults, *)
(* entities, edits, failures and files.                                    *)
(***************************************************************************)
EXTENDS CloudSync, FiniteSetTheorems, WellFoundedInduction, TLAPS

(* The functions from database to database. *)

LEMMA DeviceFact == ASSUME NEW d \in Devices PROVE d \in Nat /\ d # 0
  BY StoreAssumption

LEMMA RevisionFact ==
    ASSUME NEW r \in Revision
    PROVE  r = <<r[1], r[2]>> /\ r[1] \in Nat /\ r[2] \in Nat
  BY DEF Revision

LEMMA PairIsRevision ==
    ASSUME NEW t \in Nat, NEW d \in Nat
    PROVE  <<t, d>> \in Revision /\ <<t, d>>[1] = t /\ <<t, d>>[2] = d
  BY DEF Revision

LEMMA ChangeFact ==
    ASSUME NEW e \in Entities, NEW r \in Revision, NEW p \in Payload \cup {Null}
    PROVE  LET c == [entity |-> e, rev |-> r, payload |-> p]
           IN  c \in Change /\ c.entity = e /\ c.rev = r /\ c.payload = p
  BY DEF Change

LEMMA ChangeFields ==
    ASSUME NEW c \in Change
    PROVE  /\ c.entity \in Entities /\ c.rev \in Revision /\ c.payload \in Payload \cup {Null}
           /\ c = [entity |-> c.entity, rev |-> c.rev, payload |-> c.payload]
  BY DEF Change

LEMMA DatabaseFields ==
    ASSUME NEW s \in Database
    PROVE  /\ s.rows \in [Entities -> Payload \cup {Null}]
           /\ s.state \in [Entities -> EntityState]
           /\ s.outbox \in SUBSET Change /\ s.clock \in Nat
           /\ s = [rows |-> s.rows, state |-> s.state, outbox |-> s.outbox, clock |-> s.clock]
           /\ \A e \in Entities : /\ s.state[e].rev \in Revision
                                  /\ s.state[e].hash \in Payload \cup {Null}
                                  /\ s.rows[e] \in Payload \cup {Null}
  BY DEF Database, EntityState

States == [Entities -> EntityState]

LEMMA EntitiesFinite ==
    ASSUME NEW S \in SUBSET Entities
    PROVE  IsFiniteSet(S) /\ Cardinality(S) \in Nat
  BY StoreAssumption, FS_Subset, FS_CardinalityType

\* The revisions of one transaction are consecutive and distinct.
LEMMA RankFact ==
    ASSUME NEW S \in SUBSET Entities, NEW e \in S
    PROVE  Rank(S, e) \in Nat /\ Rank(S, e) <= Cardinality(S) - 1
  <1> DEFINE T == {x \in S : x < e}
  <1>1. T \in SUBSET S /\ e \notin T
    BY StoreAssumption
  <1>2. IsFiniteSet(S) /\ Cardinality(S) \in Nat /\ IsFiniteSet(T) /\ Cardinality(T) \in Nat
    BY <1>1, EntitiesFinite
  <1>3. Cardinality(T) <= Cardinality(S) /\ Cardinality(T) # Cardinality(S)
    BY <1>1, <1>2, FS_Subset
  <1>4. QED
    BY <1>2, <1>3 DEF Rank

LEMMA RankDiffers ==
    ASSUME NEW S \in SUBSET Entities, NEW e \in S, NEW f \in S, Rank(S, e) = Rank(S, f)
    PROVE  e = f
  <1>1. ASSUME NEW a \in S, NEW b \in S, a < b PROVE Rank(S, a) # Rank(S, b)
    <2> DEFINE A == {x \in S : x < a}
               B == {x \in S : x < b}
    <2>1. A \in SUBSET B /\ a \in B /\ a \notin A
      <3>1. S \subseteq Nat
        BY StoreAssumption
      <3>2. ASSUME NEW x \in S, x < a PROVE x < b
        <4>1. x \in Nat /\ a \in Nat /\ b \in Nat
          BY <3>1
        <4>2. QED
          BY <1>1, <3>2, <4>1
      <3>3. a < b /\ ~(a < a)
        BY <1>1, <3>1
      <3>4. QED
        BY <3>2, <3>3
    <2>2. IsFiniteSet(B)
      BY EntitiesFinite
    <2>3. Cardinality(A) # Cardinality(B)
      BY <2>1, <2>2, FS_Subset
    <2>4. QED
      BY <2>3 DEF Rank
  <1>2. e \in Nat /\ f \in Nat
    BY StoreAssumption
  <1>3. e = f \/ e < f \/ f < e
    BY <1>2
  <1>4. QED
    BY <1>1, <1>3

\* What Stamp mints.
MintOf(rows, d, S, t) ==
    {[entity |-> e, rev |-> <<t + Rank(S, e), d>>, payload |-> rows[e]] : e \in S}

IsStamp(n, s, d, S, t) ==
    /\ n \in Database /\ n.rows = s.rows
    /\ \A e \in S : /\ n.state[e] = [rev |-> <<t + Rank(S, e), d>>, hash |-> s.rows[e]]
                    /\ n.state[e].rev = <<t + Rank(S, e), d>> /\ n.state[e].hash = s.rows[e]
    /\ \A e \in Entities \ S : n.state[e] = s.state[e]
    /\ n.outbox = s.outbox \cup MintOf(s.rows, d, S, t)
    /\ n.clock = t + Cardinality(S) - 1
    /\ MintOf(s.rows, d, S, t) \in SUBSET Change

LEMMA StampIs ==
    ASSUME NEW s \in Database, NEW d \in Devices, NEW S \in SUBSET Entities,
           NEW t \in Nat, t > 0
    PROVE  IsStamp(Stamp(s, d, S, t), s, d, S, t)
  <1> DEFINE st == [e \in Entities |->
                      IF e \in S THEN [rev |-> <<t + Rank(S, e), d>>, hash |-> s.rows[e]]
                                 ELSE s.state[e]]
             n == Stamp(s, d, S, t)
  <1>1. \A e \in S : <<t + Rank(S, e), d>> \in Revision
    <2> SUFFICES ASSUME NEW e \in S PROVE <<t + Rank(S, e), d>> \in Revision
      OBVIOUS
    <2>1. t + Rank(S, e) \in Nat /\ d \in Nat
      BY RankFact, DeviceFact
    <2>2. QED
      BY <2>1, PairIsRevision
  <1>2. st \in States
    BY <1>1, DatabaseFields DEF EntityState, States
  <1>3. MintOf(s.rows, d, S, t) \in SUBSET Change
    <2> SUFFICES ASSUME NEW e \in S
                 PROVE  [entity |-> e, rev |-> <<t + Rank(S, e), d>>, payload |-> s.rows[e]] \in Change
      BY DEF MintOf
    <2>1. e \in Entities /\ s.rows[e] \in Payload \cup {Null}
      BY DatabaseFields
    <2>2. QED
      BY <1>1, <2>1 DEF Change
  <1>4. t + Cardinality(S) - 1 \in Nat
    BY EntitiesFinite
  <1>5. n = [s EXCEPT !.state = st, !.outbox = s.outbox \cup MintOf(s.rows, d, S, t),
                      !.clock = t + Cardinality(S) - 1]
    BY DEF Stamp, MintOf
  <1> HIDE DEF st, n
  <1>6. n \in Database /\ n.rows = s.rows /\ n.state = st /\ n.clock = t + Cardinality(S) - 1
        /\ n.outbox = s.outbox \cup MintOf(s.rows, d, S, t)
    <2>1. s.outbox \cup MintOf(s.rows, d, S, t) \in SUBSET Change
      BY <1>3, DatabaseFields
    <2> DEFINE box == s.outbox \cup MintOf(s.rows, d, S, t)
               last == t + Cardinality(S) - 1
    <2>2. n = [s EXCEPT !.state = st, !.outbox = box, !.clock = last]
      BY <1>5
    <2>3. box \in SUBSET Change /\ last \in Nat
      BY <1>4, <2>1
    <2> HIDE DEF box, last
    <2>4. n \in Database /\ n.rows = s.rows /\ n.state = st /\ n.outbox = box /\ n.clock = last
      BY <1>2, <2>2, <2>3 DEF Database, States
    <2>5. QED
      BY <2>4 DEF box, last
  <1>7. /\ \A e \in S : /\ st[e] = [rev |-> <<t + Rank(S, e), d>>, hash |-> s.rows[e]]
                        /\ st[e].rev = <<t + Rank(S, e), d>> /\ st[e].hash = s.rows[e]
        /\ \A e \in Entities \ S : st[e] = s.state[e]
    BY DEF st
  <1>8. QED
    BY <1>3, <1>6, <1>7 DEF n, IsStamp

-----------------------------------------------------------------------------
(* What a database says, and what it may say. *)

Versions(s) ==
    {[entity |-> e, rev |-> s.state[e].rev, payload |-> s.state[e].hash] :
        e \in {x \in Entities : Known(s, x)}}
Facts(s) == s.outbox \cup Versions(s)

\* Only a server refers to something.
Plain(e, p) == e \notin Servers /\ p # Null => p.ref = Null

\* The payloads p and q are of the same base name, but one may have lost its reference.
Alike(p, q) ==
    /\ p = Null <=> q = Null
    /\ p # Null => p.name.base = q.name.base /\ (p.ref = q.ref \/ p.ref = Null \/ q.ref = Null)

\* It is p that may have lost it.
Weaker(p, q) ==
    /\ p = Null <=> q = Null
    /\ p # Null => p.name.base = q.name.base /\ p.ref \in {Null, q.ref}

Coherent(s) ==
    /\ \A e \in Entities :
         /\ (s.rows[e] = Null) = (s.state[e].hash = Null)
         /\ s.rows[e] # Null => s.rows[e].name = s.state[e].hash.name
         /\ s.rows[e] # Null => s.rows[e].ref \in {Null, s.state[e].hash.ref}
         /\ s.rows[e] # Null /\ s.rows[e].ref # Null => ~Tombstoned(s, s.rows[e].ref)
         /\ Plain(e, s.rows[e])
    /\ \A e \in Snippets : s.rows[e] = s.state[e].hash

\* Device d goes from database s to database n and mints M.
Mints(s, n, d, M) ==
    /\ n \in Database /\ M \in SUBSET Change /\ n.clock >= s.clock
    /\ \A c \in M :
         /\ c.rev[2] = d /\ s.clock < c.rev[1] /\ c.rev[1] <= n.clock
         /\ n.state[c.entity] = [rev |-> c.rev, hash |-> c.payload]
         /\ c \in n.outbox /\ Plain(c.entity, c.payload)
    /\ \A c, o \in M : c.rev = o.rev => c = o
    /\ \A e \in Entities : n.state[e] = s.state[e] \/ \E c \in M : c.entity = e
    /\ n.outbox \subseteq s.outbox \cup M
    /\ s.outbox \subseteq n.outbox \/ \A e \in Entities : Known(s, e) => \E c \in M : c.entity = e

LEMMA MintFact ==
    ASSUME NEW rows, NEW d, NEW S, NEW t, NEW c \in MintOf(rows, d, S, t)
    PROVE  /\ c.entity \in S /\ c.rev = <<t + Rank(S, c.entity), d>> /\ c.payload = rows[c.entity]
           /\ c = [entity |-> c.entity, rev |-> c.rev, payload |-> c.payload]
  BY DEF MintOf

LEMMA StampMints ==
    ASSUME NEW s \in Database, NEW d \in Devices, NEW S \in SUBSET Entities,
           NEW t \in Nat, t > s.clock, \A e \in S : Plain(e, s.rows[e])
    PROVE  Mints(s, Stamp(s, d, S, t), d, MintOf(s.rows, d, S, t))
  <1> DEFINE n == Stamp(s, d, S, t)
             M == MintOf(s.rows, d, S, t)
  <1>1. s.clock \in Nat /\ t > 0
    BY DatabaseFields
  <1>2. IsStamp(n, s, d, S, t)
    BY <1>1, StampIs
  <1> HIDE DEF n
  <1>3. /\ n \in Database /\ M \in SUBSET Change /\ n.rows = s.rows
        /\ n.outbox = s.outbox \cup M /\ n.clock = t + Cardinality(S) - 1
        /\ \A e \in S : n.state[e] = [rev |-> <<t + Rank(S, e), d>>, hash |-> s.rows[e]]
        /\ \A e \in Entities \ S : n.state[e] = s.state[e]
    BY <1>2 DEF IsStamp
  <1> HIDE DEF M
  <1>4. n.clock >= s.clock
    BY <1>1, <1>3, EntitiesFinite
  <1>5. ASSUME NEW c \in M
        PROVE  /\ c.rev[2] = d /\ s.clock < c.rev[1] /\ c.rev[1] <= n.clock
               /\ n.state[c.entity] = [rev |-> c.rev, hash |-> c.payload]
               /\ c \in n.outbox /\ Plain(c.entity, c.payload)
    <2>1. c.entity \in S /\ c.rev = <<t + Rank(S, c.entity), d>> /\ c.payload = s.rows[c.entity]
      BY MintFact DEF M
    <2>2. Rank(S, c.entity) \in Nat /\ Rank(S, c.entity) <= Cardinality(S) - 1 /\ Cardinality(S) \in Nat
      BY <2>1, RankFact, EntitiesFinite
    <2>3. c.rev[2] = d /\ c.rev[1] = t + Rank(S, c.entity)
      BY <2>1
    <2>4. s.clock < c.rev[1] /\ c.rev[1] <= n.clock
      BY <1>1, <1>3, <2>2, <2>3
    <2>5. QED
      BY <1>3, <2>1, <2>3, <2>4
  <1>6. ASSUME NEW c \in M, NEW o \in M, c.rev = o.rev PROVE c = o
    <2>1. /\ c.entity \in S /\ c.rev = <<t + Rank(S, c.entity), d>> /\ c.payload = s.rows[c.entity]
          /\ o.entity \in S /\ o.rev = <<t + Rank(S, o.entity), d>> /\ o.payload = s.rows[o.entity]
          /\ c = [entity |-> c.entity, rev |-> c.rev, payload |-> c.payload]
          /\ o = [entity |-> o.entity, rev |-> o.rev, payload |-> o.payload]
      BY MintFact DEF M
    <2>2. Rank(S, c.entity) = Rank(S, o.entity)
      <3>1. Rank(S, c.entity) \in Nat /\ Rank(S, o.entity) \in Nat
        BY <2>1, RankFact
      <3>2. t + Rank(S, c.entity) = t + Rank(S, o.entity)
        BY <1>6, <2>1
      <3>3. QED
        BY <3>1, <3>2
    <2>3. c.entity = o.entity
      BY <2>1, <2>2, RankDiffers
    <2>4. QED
      BY <1>6, <2>1, <2>3
  <1>7. ASSUME NEW e \in Entities, n.state[e] # s.state[e]
        PROVE  \E c \in M : c.entity = e
    <2>1. \A x \in Entities \ S : n.state[x] = s.state[x]
      BY <1>3
    <2>2. e \in S
      BY <1>7, <2>1
    <2> DEFINE c == [entity |-> e, rev |-> <<t + Rank(S, e), d>>, payload |-> s.rows[e]]
    <2>3. c \in M /\ c.entity = e
      BY <2>2 DEF M, MintOf
    <2>4. QED
      BY <2>3
  <1>8. QED
    BY <1>3, <1>4, <1>5, <1>6, <1>7 DEF Mints, n, M

LEMMA MintsTwice ==
    ASSUME NEW s \in Database, NEW n, NEW k, NEW d, NEW M, NEW N,
           Mints(s, n, d, M), Mints(n, k, d, N), s.outbox \subseteq n.outbox, n.outbox \subseteq k.outbox,
           \A c \in M, o \in N : c.entity # o.entity
    PROVE  Mints(s, k, d, M \cup N)
  <1>1. /\ s.clock \in Nat /\ n.clock \in Nat /\ k.clock \in Nat
        /\ n.clock >= s.clock /\ k.clock >= n.clock /\ k.clock >= s.clock
    <2>1. n \in Database /\ k \in Database
      BY DEF Mints
    <2>2. s.clock \in Nat /\ n.clock \in Nat /\ k.clock \in Nat
      BY <2>1, DatabaseFields
    <2>3. QED
      BY <2>2 DEF Mints
  <1>2. ASSUME NEW c \in M \cup N
        PROVE  c \in Change /\ c.rev[1] \in Nat /\ c.entity \in Entities
    BY ChangeFields, RevisionFact DEF Mints
  <1>3. ASSUME NEW c \in M
        PROVE  /\ c.rev[2] = d /\ s.clock < c.rev[1] /\ c.rev[1] <= n.clock /\ c.rev[1] <= k.clock
               /\ k.state[c.entity] = [rev |-> c.rev, hash |-> c.payload]
               /\ c \in k.outbox /\ Plain(c.entity, c.payload)
    <2>1. /\ c.rev[2] = d /\ s.clock < c.rev[1] /\ c.rev[1] <= n.clock /\ c \in n.outbox
          /\ Plain(c.entity, c.payload) /\ n.state[c.entity] = [rev |-> c.rev, hash |-> c.payload]
      BY DEF Mints
    <2>2. c.rev[1] <= k.clock
      BY <1>1, <1>2, <2>1
    <2>3. k.state[c.entity] = n.state[c.entity]
      BY <1>2 DEF Mints
    <2>4. QED
      BY <2>1, <2>2, <2>3
  <1>4. ASSUME NEW c \in N
        PROVE  /\ c.rev[2] = d /\ s.clock < c.rev[1] /\ n.clock < c.rev[1] /\ c.rev[1] <= k.clock
               /\ k.state[c.entity] = [rev |-> c.rev, hash |-> c.payload]
               /\ c \in k.outbox /\ Plain(c.entity, c.payload)
    <2>1. /\ c.rev[2] = d /\ n.clock < c.rev[1] /\ c.rev[1] <= k.clock /\ c \in k.outbox
          /\ Plain(c.entity, c.payload) /\ k.state[c.entity] = [rev |-> c.rev, hash |-> c.payload]
      BY DEF Mints
    <2>2. QED
      BY <1>1, <1>2, <2>1
  <1>5. ASSUME NEW c \in M \cup N, NEW o \in M \cup N, c.rev = o.rev PROVE c = o
    <2>1. ASSUME NEW a \in M, NEW b \in N PROVE a.rev # b.rev
      <3>1. a.rev[1] <= n.clock /\ n.clock < b.rev[1] /\ a.rev[1] \in Nat /\ b.rev[1] \in Nat
        BY <1>2, <1>3, <1>4
      <3>2. a.rev[1] # b.rev[1]
        BY <1>1, <3>1
      <3>3. QED
        BY <3>2
    <2>2. \A a, b \in M : a.rev = b.rev => a = b
      BY DEF Mints
    <2>3. \A a, b \in N : a.rev = b.rev => a = b
      BY DEF Mints
    <2>4. QED
      BY <1>5, <2>1, <2>2, <2>3
  <1>6. ASSUME NEW e \in Entities
        PROVE  k.state[e] = s.state[e] \/ \E c \in M \cup N : c.entity = e
    BY DEF Mints
  <1>7. k \in Database /\ M \cup N \in SUBSET Change /\ k.outbox \subseteq s.outbox \cup M \cup N
        /\ s.outbox \subseteq k.outbox
    BY DEF Mints
  <1>8. QED
    BY <1>1, <1>3, <1>4, <1>5, <1>6, <1>7 DEF Mints

LEMMA MintsFromRows ==
    ASSUME NEW s, NEW r, NEW n, NEW d, NEW M, Mints(r, n, d, M),
           r.state = s.state, r.outbox = s.outbox, r.clock = s.clock
    PROVE  Mints(s, n, d, M)
  BY DEF Mints, Known

LEMMA RowsReplaced ==
    ASSUME NEW s \in Database, NEW D \in [Entities -> Payload \cup {Null}], NEW r,
           r = [s EXCEPT !.rows = D]
    PROVE  r \in Database /\ r.rows = D /\ r.state = s.state /\ r.outbox = s.outbox /\ r.clock = s.clock
  BY DEF Database

LEMMA UpsertedFact ==
    ASSUME NEW s \in Database, Coherent(s), NEW d \in Devices, NEW e \in Entities,
           NEW p \in Payload, NEW t \in Nat, t > s.clock, Plain(e, p),
           p.ref # Null => p.ref \in Entities /\ s.rows[p.ref] # Null
    PROVE  /\ Coherent(Upserted(s, d, e, p, t))
           /\ s.outbox \subseteq Upserted(s, d, e, p, t).outbox
           /\ \E M : Mints(s, Upserted(s, d, e, p, t), d, M)
  <1> DEFINE D == [s.rows EXCEPT ![e] = p]
             r == [s EXCEPT !.rows = D]
             n == Stamp(r, d, {e}, t)
             M == MintOf(r.rows, d, {e}, t)
  <1>1. Upserted(s, d, e, p, t) = n
    BY DEF Upserted
  <1>2. D \in [Entities -> Payload \cup {Null}]
    BY DatabaseFields
  <1>3. \A x \in Entities : D[x] = IF x = e THEN p ELSE s.rows[x]
    BY DatabaseFields
  <1> HIDE DEF D
  <1>4. r \in Database /\ r.rows = D /\ r.state = s.state /\ r.outbox = s.outbox /\ r.clock = s.clock
    BY <1>2, RowsReplaced
  <1>5. s.clock \in Nat /\ t > 0 /\ {e} \in SUBSET Entities
    BY DatabaseFields
  <1> HIDE DEF r
  <1>6. Mints(s, n, d, M)
    <2>1. Plain(e, r.rows[e])
      BY <1>3, <1>4
    <2>2. Mints(r, n, d, M)
      BY <1>4, <1>5, <2>1, StampMints
    <2>3. QED
      BY <1>4, <2>2, MintsFromRows
  <1>7. IsStamp(n, r, d, {e}, t)
    BY <1>4, <1>5, StampIs
  <1> HIDE DEF n, M
  <1>8. s.outbox \subseteq n.outbox
    BY <1>4, <1>7 DEF IsStamp
  <1>9. \A x \in Entities : /\ n.rows[x] = IF x = e THEN p ELSE s.rows[x]
                            /\ x # e => n.state[x] = s.state[x]
                            /\ x = e => n.state[x].hash = p
    <2>1. /\ n.rows = D
          /\ \A x \in {e} : n.state[x].hash = D[x]
          /\ \A x \in Entities \ {e} : n.state[x] = s.state[x]
      BY <1>4, <1>7 DEF IsStamp
    <2>2. QED
      BY <1>3, <2>1
  <1>10. p # Null /\ \A x \in Groups : x \in Entities
    BY NullAssumption DEF Entities
  <1>11. ASSUME NEW x \in Entities
         PROVE  /\ (n.rows[x] = Null) = (n.state[x].hash = Null)
                /\ n.rows[x] # Null => n.rows[x].name = n.state[x].hash.name
                /\ n.rows[x] # Null => n.rows[x].ref \in {Null, n.state[x].hash.ref}
                /\ n.rows[x] # Null /\ n.rows[x].ref # Null => ~Tombstoned(n, n.rows[x].ref)
                /\ Plain(x, n.rows[x])
                /\ x \in Snippets => n.rows[x] = n.state[x].hash
    <2>1. CASE x = e
      <3>1. n.rows[x] = p /\ n.state[x].hash = p
        BY <1>9, <2>1
      <3>2. ASSUME p.ref # Null PROVE ~Tombstoned(n, p.ref)
        <4>1. p.ref \in Entities /\ s.state[p.ref].hash # Null
          BY <3>2 DEF Coherent
        <4>2. n.state[p.ref].hash # Null
          BY <1>9, <1>10, <4>1
        <4>3. QED
          BY <4>2 DEF Tombstoned
      <3>3. QED
        BY <2>1, <3>1, <3>2
    <2>2. CASE x # e
      <3>1. n.rows[x] = s.rows[x] /\ n.state[x] = s.state[x]
        BY <1>9, <2>2
      <3>2. ASSUME s.rows[x] # Null, s.rows[x].ref # Null
            PROVE  ~Tombstoned(n, s.rows[x].ref)
        <4> DEFINE g == s.rows[x].ref
        <4>1. ~Tombstoned(s, g) /\ g \in Entities
          BY <1>10, <3>2, DatabaseFields DEF Coherent, Payload
        <4>2. g = e \/ n.state[g] = s.state[g]
          BY <1>9, <4>1
        <4>3. QED
          BY <1>9, <1>10, <4>1, <4>2 DEF Tombstoned, Known
      <3>3. QED
        BY <3>1, <3>2 DEF Coherent
    <2>3. QED
      BY <2>1, <2>2
  <1>12. Snippets \subseteq Entities
    BY DEF Entities
  <1>13. Coherent(n)
    BY <1>11, <1>12 DEF Coherent
  <1>14. QED
    BY <1>1, <1>6, <1>8, <1>13

LEMMA RowsWithoutFact ==
    ASSUME NEW rows \in [Entities -> Payload \cup {Null}], NEW e \in Entities
    PROVE  /\ RowsWithout(rows, e) \in [Entities -> Payload \cup {Null}]
           /\ RowsWithout(rows, e)[e] = Null
           /\ \A x \in Entities \ {e} :
                /\ RowsWithout(rows, e)[x] = Null <=> rows[x] = Null
                /\ rows[x] # Null =>
                     /\ RowsWithout(rows, e)[x].name = rows[x].name
                     /\ rows[x].ref = e => RowsWithout(rows, e)[x].ref = Null
                     /\ rows[x].ref # e \/ rows[x].ref = Null => RowsWithout(rows, e)[x] = rows[x]
                /\ ~(rows[x] # Null /\ rows[x].ref = e) => RowsWithout(rows, e)[x] = rows[x]
  <1>1. ASSUME NEW q \in Payload
        PROVE  [q EXCEPT !.ref = Null] \in Payload /\ [q EXCEPT !.ref = Null].name = q.name
               /\ [q EXCEPT !.ref = Null].ref = Null
    BY DEF Payload
  <1>2. ASSUME NEW x \in Entities
        PROVE  RowsWithout(rows, e)[x] = IF x = e THEN Null
                                         ELSE IF rows[x] # Null /\ rows[x].ref = e
                                              THEN [rows[x] EXCEPT !.ref = Null] ELSE rows[x]
    BY DEF RowsWithout
  <1>3. ASSUME NEW x \in Entities, rows[x] # Null
        PROVE  rows[x] \in Payload
    BY <1>3
  <1>4. ASSUME NEW x \in Entities PROVE RowsWithout(rows, e)[x] \in Payload \cup {Null}
    BY <1>1, <1>2, <1>3
  <1>5. RowsWithout(rows, e) \in [Entities -> Payload \cup {Null}]
    <2>1. RowsWithout(rows, e) = [x \in Entities |-> RowsWithout(rows, e)[x]]
      BY DEF RowsWithout
    <2>2. QED
      BY <1>4, <2>1
  <1>6. ASSUME NEW x \in Entities \ {e}
        PROVE  /\ RowsWithout(rows, e)[x] = Null <=> rows[x] = Null
               /\ rows[x] # Null =>
                    /\ RowsWithout(rows, e)[x].name = rows[x].name
                    /\ rows[x].ref = e => RowsWithout(rows, e)[x].ref = Null
                    /\ rows[x].ref # e => RowsWithout(rows, e)[x] = rows[x]
               /\ ~(rows[x] # Null /\ rows[x].ref = e) => RowsWithout(rows, e)[x] = rows[x]
    <2>1. CASE rows[x] # Null /\ rows[x].ref = e
      <3>1. rows[x] \in Payload
        BY <1>3, <2>1
      <3>2. RowsWithout(rows, e)[x] = [rows[x] EXCEPT !.ref = Null]
        BY <1>2, <2>1
      <3>3. RowsWithout(rows, e)[x] \in Payload /\ RowsWithout(rows, e)[x].name = rows[x].name
            /\ RowsWithout(rows, e)[x].ref = Null
        BY <1>1, <3>1, <3>2
      <3>4. QED
        BY <2>1, <3>3, NullAssumption
    <2>2. CASE ~(rows[x] # Null /\ rows[x].ref = e)
      <3>1. RowsWithout(rows, e)[x] = rows[x]
        BY <1>2, <2>2
      <3>2. QED
        BY <2>2, <3>1
    <2>3. QED
      BY <2>1, <2>2
  <1>7. ASSUME NEW x \in Entities \ {e}, rows[x] # Null, rows[x].ref = Null
        PROVE  RowsWithout(rows, e)[x] = rows[x]
    <2>1. \A q \in Payload : q.ref = Null => [q EXCEPT !.ref = Null] = q
      BY DEF Payload
    <2>2. rows[x] \in Payload
      BY <1>3, <1>7
    <2>3. [rows[x] EXCEPT !.ref = Null] = rows[x]
      BY <1>7, <2>1, <2>2
    <2>4. QED
      BY <1>2, <2>3
  <1>8. RowsWithout(rows, e)[e] = Null
    BY <1>2
  <1>9. QED
    BY <1>5, <1>6, <1>7, <1>8

LEMMA DeletedFact ==
    ASSUME NEW s \in Database, Coherent(s), NEW d \in Devices, NEW e \in Entities,
           NEW t \in Nat, t > s.clock
    PROVE  /\ Coherent(Deleted(s, d, e, t))
           /\ s.outbox \subseteq Deleted(s, d, e, t).outbox
           /\ \E M : Mints(s, Deleted(s, d, e, t), d, M)
  <1> DEFINE D == RowsWithout(s.rows, e)
             r == [s EXCEPT !.rows = D]
             K == Members(s, e) \ {e}
             m == Stamp(r, d, K, t)
             u == t + Cardinality(K)
             n == Stamp(m, d, {e}, u)
             M == MintOf(r.rows, d, K, t)
             N == MintOf(m.rows, d, {e}, u)
  <1>1. Deleted(s, d, e, t) = n
    BY DEF Deleted
  <1>2. s.rows \in [Entities -> Payload \cup {Null}]
    BY DatabaseFields
  <1>3. /\ D \in [Entities -> Payload \cup {Null}] /\ D[e] = Null
        /\ \A x \in Entities \ {e} :
             /\ D[x] = Null <=> s.rows[x] = Null
             /\ s.rows[x] # Null =>
                  /\ D[x].name = s.rows[x].name
                  /\ s.rows[x].ref = e => D[x].ref = Null
                  /\ s.rows[x].ref # e => D[x] = s.rows[x]
             /\ ~(s.rows[x] # Null /\ s.rows[x].ref = e) => D[x] = s.rows[x]
    BY <1>2, RowsWithoutFact
  <1> HIDE DEF D
  <1>4. r \in Database /\ r.rows = D /\ r.state = s.state /\ r.outbox = s.outbox /\ r.clock = s.clock
    BY <1>3, RowsReplaced
  <1> HIDE DEF r
  <1>5. /\ K \in SUBSET Entities /\ e \notin K /\ {e} \in SUBSET Entities
        /\ \A x \in Entities : x \in K <=> x # e /\ s.rows[x] # Null /\ s.rows[x].ref = e
    BY DEF Members
  <1> HIDE DEF K
  <1>6. /\ s.clock \in Nat /\ t > 0 /\ Cardinality(K) \in Nat /\ Cardinality({e}) = 1
        /\ u \in Nat /\ u > 0
    <2>1. s.clock \in Nat
      BY DatabaseFields
    <2>2. Cardinality(K) \in Nat /\ Cardinality({e}) = 1
      BY <1>5, EntitiesFinite, FS_Singleton
    <2>3. QED
      BY <2>1, <2>2
  <1>7. \A x \in Entities : Plain(x, D[x])
    <2> SUFFICES ASSUME NEW x \in Entities PROVE Plain(x, D[x])
      OBVIOUS
    <2>1. Plain(x, s.rows[x])
      BY DEF Coherent
    <2>2. QED
      BY <1>3, <2>1 DEF Plain
  <1>8. IsStamp(m, r, d, K, t) /\ Mints(r, m, d, M)
    <2>1. \A x \in K : Plain(x, r.rows[x])
      BY <1>4, <1>5, <1>7
    <2>2. QED
      BY <1>4, <1>5, <1>6, <2>1, StampIs, StampMints
  <1> HIDE DEF m
  <1>9. m \in Database /\ m.rows = D /\ m.clock = u - 1 /\ m.outbox = s.outbox \cup M
        /\ M = MintOf(D, d, K, t)
    BY <1>4, <1>6, <1>8 DEF IsStamp
  <1>10. IsStamp(n, m, d, {e}, u) /\ Mints(m, n, d, N)
    <2>1. \A x \in {e} : Plain(x, m.rows[x])
      BY <1>7, <1>9
    <2>2. u > m.clock
      BY <1>6, <1>9
    <2>3. QED
      BY <1>5, <1>6, <1>9, <2>1, <2>2, StampIs, StampMints
  <1> HIDE DEF u, n
  <1>11. Mints(s, m, d, M)
    BY <1>4, <1>8, MintsFromRows
  <1>12. m.outbox \subseteq n.outbox /\ s.outbox \subseteq m.outbox
    BY <1>9, <1>10 DEF IsStamp
  <1>13. \A c \in M, o \in N : c.entity # o.entity
    <2>1. \A c \in M : c.entity \in K
      BY MintFact
    <2>2. \A o \in N : o.entity \in {e}
      BY MintFact
    <2>3. QED
      BY <1>5, <2>1, <2>2
  <1> HIDE DEF M, N
  <1>14. Mints(s, n, d, M \cup N)
    BY <1>10, <1>11, <1>12, <1>13, MintsTwice
  <1>15. \A x \in Entities : /\ n.rows[x] = D[x]
                             /\ x = e => n.state[x].hash = Null
                             /\ x \in K => n.state[x].hash = D[x]
                             /\ x # e /\ x \notin K => n.state[x] = s.state[x]
    <2>1. /\ n.rows = D
          /\ \A x \in {e} : n.state[x].hash = D[x]
          /\ \A x \in Entities \ {e} : n.state[x] = m.state[x]
      BY <1>9, <1>10 DEF IsStamp
    <2>2. /\ \A x \in K : m.state[x].hash = D[x]
          /\ \A x \in Entities \ K : m.state[x] = s.state[x]
      BY <1>4, <1>8 DEF IsStamp
    <2>3. QED
      BY <1>3, <1>5, <2>1, <2>2
  <1>16. ASSUME NEW x \in Entities
         PROVE  /\ (n.rows[x] = Null) = (n.state[x].hash = Null)
                /\ n.rows[x] # Null => n.rows[x].name = n.state[x].hash.name
                /\ n.rows[x] # Null => n.rows[x].ref \in {Null, n.state[x].hash.ref}
                /\ n.rows[x] # Null /\ n.rows[x].ref # Null => ~Tombstoned(n, n.rows[x].ref)
                /\ Plain(x, n.rows[x])
                /\ x \in Snippets => n.rows[x] = n.state[x].hash
    <2>1. Plain(x, n.rows[x])
      BY <1>7, <1>15
    <2>2. CASE x = e
      BY <1>3, <1>15, <2>1, <2>2
    <2>3. CASE x \in K
      <3>1. n.rows[x] = D[x] /\ n.state[x].hash = D[x] /\ D[x].ref = Null
        BY <1>3, <1>5, <1>15, <2>3
      <3>2. QED
        BY <2>1, <3>1
    <2>4. CASE x # e /\ x \notin K
      <3>1. n.rows[x] = s.rows[x] /\ n.state[x] = s.state[x] /\ ~(s.rows[x] # Null /\ s.rows[x].ref = e)
        BY <1>3, <1>5, <1>15, <2>4
      <3>2. ASSUME s.rows[x] # Null, s.rows[x].ref # Null
            PROVE  ~Tombstoned(n, s.rows[x].ref)
        <4> DEFINE g == s.rows[x].ref
        <4>1. ~Tombstoned(s, g) /\ g \in Entities /\ g # e
          BY <3>1, <3>2, DatabaseFields DEF Coherent, Payload, Entities
        <4>2. CASE g \in K
          <5>1. n.state[g].hash = D[g] /\ D[g] # Null
            BY <1>3, <1>5, <1>15, <4>1, <4>2
          <5>2. QED
            BY <5>1 DEF Tombstoned
        <4>3. CASE g \notin K
          BY <1>15, <4>1, <4>3 DEF Tombstoned, Known
        <4>4. QED
          BY <4>2, <4>3
      <3>3. QED
        BY <3>1, <3>2 DEF Coherent
    <2>5. QED
      BY <2>2, <2>3, <2>4
  <1>17. Snippets \subseteq Entities
    BY DEF Entities
  <1>18. Coherent(n)
    BY <1>16, <1>17 DEF Coherent
  <1>19. QED
    BY <1>1, <1>12, <1>14, <1>18

LEMMA RebuiltFact ==
    ASSUME NEW s \in Database, Coherent(s), NEW d \in Devices, NEW t \in Nat, t > s.clock
    PROVE  /\ Coherent(Rebuilt(s, d, t))
           /\ \E M : /\ Mints(s, Rebuilt(s, d, t), d, M)
                     /\ \A e \in Entities : Known(s, e) => \E c \in M : c.entity = e
  <1> DEFINE r == [s EXCEPT !.outbox = {}]
             S == {e \in Entities : Known(s, e)}
             n == Stamp(r, d, S, t)
             M == MintOf(r.rows, d, S, t)
  <1>1. Rebuilt(s, d, t) = n
    BY DEF Rebuilt
  <1>2. r \in Database /\ r.rows = s.rows /\ r.state = s.state /\ r.outbox = {} /\ r.clock = s.clock
    BY DEF Database
  <1> HIDE DEF r
  <1>3. s.clock \in Nat /\ t > 0 /\ S \in SUBSET Entities
    BY DatabaseFields
  <1>4. \A e \in S : Plain(e, r.rows[e])
    BY <1>2 DEF Coherent
  <1>5. \A e \in Entities : e \in S <=> Known(s, e)
    OBVIOUS
  <1> HIDE DEF S
  <1>6. IsStamp(n, r, d, S, t) /\ Mints(r, n, d, M)
    <2>1. IsStamp(n, r, d, S, t)
      BY <1>2, <1>3, StampIs
    <2>2. t > r.clock
      BY <1>2
    <2>3. Mints(r, n, d, M)
      BY <1>2, <1>3, <1>4, <2>2, StampMints
    <2>4. QED
      BY <2>1, <2>3
  <1>7. \A e \in S : \E c \in M : c.entity = e
    <2> SUFFICES ASSUME NEW e \in S PROVE \E c \in M : c.entity = e
      OBVIOUS
    <2> DEFINE c == [entity |-> e, rev |-> <<t + Rank(S, e), d>>, payload |-> r.rows[e]]
    <2>1. c \in M /\ c.entity = e
      BY DEF MintOf
    <2>2. QED
      BY <2>1
  <1> HIDE DEF n, M
  <1>8. Mints(s, n, d, M)
    BY <1>2, <1>5, <1>6, <1>7 DEF Mints, Known
  <1>9. /\ n.rows = s.rows
        /\ \A e \in S : n.state[e].hash = s.rows[e]
        /\ \A e \in Entities \ S : n.state[e] = s.state[e]
    BY <1>2, <1>6 DEF IsStamp
  <1>10. \A e \in Entities : (s.rows[e] = Null) = (s.state[e].hash = Null)
    BY DEF Coherent
  <1>11. ASSUME NEW e \in Entities, Tombstoned(n, e) PROVE Tombstoned(s, e)
    BY <1>5, <1>9, <1>10, <1>11 DEF Tombstoned, Known
  <1>12. ASSUME NEW e \in Entities
         PROVE  /\ (n.rows[e] = Null) = (n.state[e].hash = Null)
                /\ n.rows[e] # Null => n.rows[e].name = n.state[e].hash.name
                /\ n.rows[e] # Null => n.rows[e].ref \in {Null, n.state[e].hash.ref}
                /\ n.rows[e] # Null /\ n.rows[e].ref # Null => ~Tombstoned(n, n.rows[e].ref)
                /\ Plain(e, n.rows[e])
                /\ e \in Snippets => n.rows[e] = n.state[e].hash
    <2>1. ASSUME s.rows[e] # Null, s.rows[e].ref # Null
          PROVE  ~Tombstoned(n, s.rows[e].ref)
      <3>1. s.rows[e].ref \in Entities /\ ~Tombstoned(s, s.rows[e].ref)
        BY <2>1, DatabaseFields DEF Coherent, Payload, Entities
      <3>2. QED
        BY <1>11, <3>1
    <2>2. n.rows[e] = s.rows[e] /\ (n.state[e].hash = s.rows[e] \/ n.state[e] = s.state[e])
      BY <1>9
    <2>3. QED
      BY <2>1, <2>2 DEF Coherent
  <1>13. Snippets \subseteq Entities
    BY DEF Entities
  <1>14. Coherent(n)
    BY <1>12, <1>13 DEF Coherent
  <1>15. QED
    BY <1>1, <1>5, <1>7, <1>8, <1>14

-----------------------------------------------------------------------------
(* Remote changes. *)

\* o is the change c, under a name that a conflict may have given it, or without its reference.
From(o, c) ==
    /\ o.entity = c.entity /\ o.rev = c.rev /\ (c.entity \in Snippets => o = c)
    /\ Weaker(o.payload, c.payload)

LEMMA SnippetFact == ASSUME NEW e \in Snippets PROVE e \in Entities /\ e \notin Servers
  BY StoreAssumption DEF Entities

LEMMA WeakerFact ==
    /\ \A p : Weaker(p, p) /\ Alike(p, p)
    /\ \A p, q, k : Weaker(p, q) /\ Weaker(q, k) => Weaker(p, k)
    /\ \A p, q, k, f : Weaker(p, k) /\ Weaker(q, f) /\ Alike(k, f) => Alike(p, q)
  BY DEF Weaker, Alike

LEMMA ConflictNamedFact ==
    ASSUME NEW p \in Payload, NEW e \in Entities
    PROVE  /\ ConflictNamed(p, e) \in Payload /\ ConflictNamed(p, e) # Null
           /\ ConflictNamed(p, e).ref = p.ref
           /\ Weaker(ConflictNamed(p, e), p)
  <1>1. p.name \in Name /\ p.name.marks \in Seq(Entities) /\ p.ref \in Groups \cup {Null}
    BY DEF Payload, Name
  <1>2. Append(p.name.marks, e) \in Seq(Entities)
    BY <1>1
  <1> DEFINE marks == Append(p.name.marks, e)
             name == [p.name EXCEPT !.marks = marks]
  <1>3. ConflictNamed(p, e) = [p EXCEPT !.name = name]
    BY DEF ConflictNamed
  <1> HIDE DEF marks
  <1>4. name \in Name /\ name.base = p.name.base
    BY <1>1, <1>2 DEF Name, marks
  <1> HIDE DEF name
  <1>5. ConflictNamed(p, e) \in Payload /\ ConflictNamed(p, e).ref = p.ref
        /\ ConflictNamed(p, e).name = name
    BY <1>3, <1>4 DEF Payload
  <1>6. ConflictNamed(p, e) # Null /\ p # Null
    BY <1>5, NullAssumption
  <1>7. Weaker(ConflictNamed(p, e), p)
    BY <1>4, <1>5, <1>6 DEF Weaker
  <1>8. QED
    BY <1>4, <1>5, <1>6, <1>7

LEMMA CleanRefFact ==
    ASSUME NEW s, NEW p \in Payload
    PROVE  /\ CleanRef(s, p) \in Payload /\ CleanRef(s, p) # Null /\ CleanRef(s, p).name = p.name
           /\ CleanRef(s, p).ref # Null => CleanRef(s, p).ref = p.ref /\ ~Tombstoned(s, p.ref)
           /\ p.ref = Null => CleanRef(s, p) = p
  <1>1. CASE p.ref # Null /\ Tombstoned(s, p.ref)
    <2>1. CleanRef(s, p) = [p EXCEPT !.ref = Null]
      BY <1>1 DEF CleanRef
    <2>2. CleanRef(s, p) \in Payload /\ CleanRef(s, p).name = p.name /\ CleanRef(s, p).ref = Null
      BY <2>1 DEF Payload
    <2>3. QED
      BY <1>1, <2>2, NullAssumption
  <1>2. CASE ~(p.ref # Null /\ Tombstoned(s, p.ref))
    BY <1>2, NullAssumption DEF CleanRef
  <1>3. QED
    BY <1>1, <1>2

LEMMA RivalsFact ==
    ASSUME NEW s \in Database, NEW c \in Change
    PROVE  /\ Rivals(s, c) \subseteq Entities \ Snippets /\ c.entity \notin Rivals(s, c)
           /\ \A x \in Rivals(s, c) : s.rows[x] # Null /\ s.rows[x] \in Payload
           /\ Rivals(s, c) # {} => c.payload # Null /\ c.entity \notin Snippets
  BY StoreAssumption, DatabaseFields DEF Rivals, Table, Entities

LEMMA EffectiveFact ==
    ASSUME NEW s \in Database, NEW c \in Change, Plain(c.entity, c.payload)
    PROVE  /\ Effective(s, c) \in Change /\ From(Effective(s, c), c)
           /\ Effective(s, c).payload = Null <=> c.payload = Null
           /\ Plain(c.entity, Effective(s, c).payload)
  <1>1. CASE \E x \in Rivals(s, c) : ~Outranks(s, c, x)
    <2>1. c.payload \in Payload /\ c.entity \in Entities \ Snippets
      BY <1>1, RivalsFact, ChangeFields
    <2>2. Effective(s, c) = [c EXCEPT !.payload = ConflictNamed(c.payload, c.entity)]
      BY <1>1 DEF Effective
    <2>3. /\ ConflictNamed(c.payload, c.entity) \in Payload
          /\ ConflictNamed(c.payload, c.entity).ref = c.payload.ref
          /\ Weaker(ConflictNamed(c.payload, c.entity), c.payload)
      BY <2>1, ConflictNamedFact
    <2> DEFINE p == ConflictNamed(c.payload, c.entity)
    <2> HIDE DEF p
    <2>4. [c EXCEPT !.payload = p] \in Change /\ [c EXCEPT !.payload = p].entity = c.entity
          /\ [c EXCEPT !.payload = p].rev = c.rev /\ [c EXCEPT !.payload = p].payload = p
      BY <2>3 DEF Change, p
    <2>5. QED
      BY <2>1, <2>2, <2>3, <2>4, NullAssumption DEF From, Plain, p
  <1>2. CASE ~\E x \in Rivals(s, c) : ~Outranks(s, c, x)
    BY <1>2, WeakerFact DEF Effective, From
  <1>3. QED
    BY <1>1, <1>2

\* s becomes m when a change renames what it outranks: under the same revisions, the same entities.
LEMMA MaterializedFact ==
    ASSUME NEW s \in Database, Coherent(s), NEW L \in SUBSET (Entities \ Snippets),
           \A x \in L : s.rows[x] # Null
    PROVE  LET m == Materialized(s, L)
           IN  /\ m \in Database /\ Coherent(m) /\ m.clock = s.clock
               /\ \A e \in Entities : m.state[e].rev = s.state[e].rev
               /\ \A e \in Entities \ L : m.state[e] = s.state[e]
               /\ \A e \in Entities : Weaker(m.state[e].hash, s.state[e].hash)
               /\ \A o \in m.outbox : \E c \in s.outbox : From(o, c)
               /\ \A c \in s.outbox : \E o \in m.outbox : o.entity = c.entity /\ o.rev = c.rev
  <1> DEFINE m == Materialized(s, L)
             R == [x \in Entities |->
                     IF x \in L THEN CleanRef(s, ConflictNamed(s.rows[x], x)) ELSE s.rows[x]]
             T == [x \in Entities |->
                     IF x \in L THEN [s.state[x] EXCEPT !.hash = ConflictNamed(s.rows[x], x)]
                     ELSE s.state[x]]
             new(o) == IF o.entity \in L /\ o.payload # Null /\ o.payload.name = s.rows[o.entity].name
                       THEN [o EXCEPT !.payload = ConflictNamed(o.payload, o.entity)] ELSE o
             B == {new(o) : o \in s.outbox}
  <1>1. m = [s EXCEPT !.rows = R, !.state = T, !.outbox = B]
    BY DEF Materialized
  <1>2. ASSUME NEW x \in L
        PROVE  /\ x \in Entities /\ s.rows[x] \in Payload /\ ConflictNamed(s.rows[x], x) \in Payload
               /\ ConflictNamed(s.rows[x], x) # Null /\ ConflictNamed(s.rows[x], x).ref = s.rows[x].ref
               /\ CleanRef(s, ConflictNamed(s.rows[x], x)) \in Payload
               /\ Weaker(ConflictNamed(s.rows[x], x), s.rows[x])
    <2>1. x \in Entities /\ s.rows[x] \in Payload
      BY DatabaseFields
    <2>2. ConflictNamed(s.rows[x], x) \in Payload
      BY <2>1, ConflictNamedFact
    <2>3. QED
      BY <2>1, <2>2, ConflictNamedFact, CleanRefFact
  <1>3. R \in [Entities -> Payload \cup {Null}]
    <2>1. \A x \in Entities : R[x] \in Payload \cup {Null}
      BY <1>2, DatabaseFields
    <2>2. QED
      BY <2>1
  <1>4. /\ T \in States
        /\ \A e \in Entities : T[e].rev = s.state[e].rev
        /\ \A e \in Entities \ L : T[e] = s.state[e]
        /\ \A e \in L : T[e].hash = ConflictNamed(s.rows[e], e)
    <2>1. ASSUME NEW x \in L
          PROVE  LET q == [s.state[x] EXCEPT !.hash = ConflictNamed(s.rows[x], x)]
                 IN  q \in EntityState /\ q.rev = s.state[x].rev /\ q.hash = ConflictNamed(s.rows[x], x)
      <3>1. s.state[x] \in EntityState /\ ConflictNamed(s.rows[x], x) \in Payload
        BY <1>2, DatabaseFields
      <3> DEFINE h == ConflictNamed(s.rows[x], x)
      <3> HIDE DEF h
      <3>2. LET q == [s.state[x] EXCEPT !.hash = h]
            IN  q \in EntityState /\ q.rev = s.state[x].rev /\ q.hash = h
        BY <3>1 DEF EntityState, h
      <3>3. QED
        BY <3>2 DEF h
    <2>2. \A x \in Entities : s.state[x] \in EntityState
      BY DatabaseFields
    <2>3. QED
      BY <2>1, <2>2 DEF States
  <1>5. ASSUME NEW o \in s.outbox
        PROVE  new(o) \in Change /\ From(new(o), o)
    <2>1. o \in Change /\ o.entity \in Entities /\ o.payload \in Payload \cup {Null}
      BY DatabaseFields, ChangeFields
    <2>2. CASE o.entity \in L /\ o.payload # Null /\ o.payload.name = s.rows[o.entity].name
      <3>1. /\ ConflictNamed(o.payload, o.entity) \in Payload /\ o.entity \notin Snippets
            /\ Weaker(ConflictNamed(o.payload, o.entity), o.payload)
        BY <2>1, <2>2, ConflictNamedFact
      <3> DEFINE p == ConflictNamed(o.payload, o.entity)
      <3>2. new(o) = [o EXCEPT !.payload = p]
        BY <2>2
      <3> HIDE DEF p, new
      <3>3. new(o) \in Change /\ new(o).entity = o.entity /\ new(o).rev = o.rev /\ new(o).payload = p
        BY <2>1, <3>1, <3>2 DEF Change, p
      <3>4. Weaker(p, o.payload)
        BY <3>1 DEF p
      <3>5. QED
        BY <3>1, <3>3, <3>4 DEF From
    <2>3. CASE ~(o.entity \in L /\ o.payload # Null /\ o.payload.name = s.rows[o.entity].name)
      BY <2>1, <2>3, WeakerFact DEF From
    <2>4. QED
      BY <2>2, <2>3
  <1>6. /\ B \in SUBSET Change
        /\ \A o \in B : \E c \in s.outbox : From(o, c)
        /\ \A c \in s.outbox : \E o \in B : o.entity = c.entity /\ o.rev = c.rev
    BY <1>5 DEF From
  <1>7. /\ \A x \in L : R[x] = CleanRef(s, ConflictNamed(s.rows[x], x))
        /\ \A x \in Entities \ L : R[x] = s.rows[x]
    OBVIOUS
  <1> HIDE DEF R, T, B, new
  <1>8. m \in Database /\ m.rows = R /\ m.state = T /\ m.outbox = B /\ m.clock = s.clock
    BY <1>1, <1>3, <1>4, <1>6 DEF Database, States
  <1> HIDE DEF m
  <1>9. \A e \in L : m.rows[e] # Null /\ m.state[e].hash # Null
    BY <1>2, <1>4, <1>7, <1>8, NullAssumption
  <1>10. ASSUME NEW e \in Entities PROVE Tombstoned(m, e) => Tombstoned(s, e)
    BY <1>4, <1>8, <1>9 DEF Tombstoned, Known
  <1>11. ASSUME NEW e \in Entities
         PROVE  /\ (m.rows[e] = Null) = (m.state[e].hash = Null)
                /\ m.rows[e] # Null => m.rows[e].name = m.state[e].hash.name
                /\ m.rows[e] # Null => m.rows[e].ref \in {Null, m.state[e].hash.ref}
                /\ m.rows[e] # Null /\ m.rows[e].ref # Null => ~Tombstoned(m, m.rows[e].ref)
                /\ Plain(e, m.rows[e])
                /\ e \in Snippets => m.rows[e] = m.state[e].hash
    <2>1. CASE e \in L
      <3> DEFINE p == ConflictNamed(s.rows[e], e)
      <3>1. p \in Payload /\ m.rows[e] = CleanRef(s, p) /\ m.state[e].hash = p /\ e \notin Snippets
        BY <1>2, <1>4, <1>7, <1>8, <2>1
      <3> HIDE DEF p
      <3>2. /\ m.rows[e].name = p.name
            /\ m.rows[e].ref # Null => m.rows[e].ref = p.ref /\ ~Tombstoned(s, p.ref)
        BY <3>1, CleanRefFact
      <3>3. m.rows[e].ref # Null => ~Tombstoned(m, m.rows[e].ref)
        BY <1>10, <3>1, <3>2 DEF Payload, Entities
      <3>4. e \notin Servers => m.rows[e].ref = Null
        BY <1>2, <2>1, <3>2 DEF Coherent, Plain, p
      <3>5. QED
        BY <1>9, <2>1, <3>1, <3>2, <3>3, <3>4 DEF Plain
    <2>2. CASE e \notin L
      <3>1. m.rows[e] = s.rows[e] /\ m.state[e] = s.state[e]
        BY <1>4, <1>7, <1>8, <2>2
      <3>2. ASSUME s.rows[e] # Null, s.rows[e].ref # Null
            PROVE  ~Tombstoned(m, s.rows[e].ref)
        <4>1. s.rows[e].ref \in Entities /\ ~Tombstoned(s, s.rows[e].ref)
          BY <3>2, DatabaseFields DEF Coherent, Payload, Entities
        <4>2. QED
          BY <1>10, <4>1
      <3>3. QED
        BY <3>1, <3>2 DEF Coherent
    <2>3. QED
      BY <2>1, <2>2
  <1>12. Snippets \subseteq Entities
    BY DEF Entities
  <1>13. Coherent(m)
    BY <1>11, <1>12 DEF Coherent
  <1>14. ASSUME NEW e \in Entities PROVE Weaker(m.state[e].hash, s.state[e].hash)
    <2>1. CASE e \in L
      <3>1. Weaker(s.rows[e], s.state[e].hash)
        BY <1>2, <2>1 DEF Coherent, Weaker
      <3>2. QED
        BY <1>2, <1>4, <1>8, <2>1, <3>1, WeakerFact
    <2>2. CASE e \notin L
      BY <1>4, <1>8, <2>2, WeakerFact
    <2>3. QED
      BY <2>1, <2>2
  <1>15. QED
    BY <1>4, <1>6, <1>8, <1>13, <1>14 DEF m

LEMMA FromTwice ==
    ASSUME NEW a, NEW b, NEW c, From(a, b), From(b, c)
    PROVE  From(a, c)
  BY WeakerFact DEF From

LEMMA VersionFact ==
    ASSUME NEW s
    PROVE  /\ \A o \in Versions(s) : /\ o.entity \in Entities /\ Known(s, o.entity)
                                     /\ o.rev = s.state[o.entity].rev
                                     /\ o.payload = s.state[o.entity].hash
                                     /\ o = [entity |-> o.entity, rev |-> o.rev, payload |-> o.payload]
           /\ \A e \in Entities : Known(s, e) =>
                 \E o \in Versions(s) : /\ o.entity = e /\ o.rev = s.state[e].rev
                                        /\ o.payload = s.state[e].hash
                                        /\ o = [entity |-> e, rev |-> o.rev, payload |-> o.payload]
  <1>1. ASSUME NEW e \in Entities, Known(s, e)
        PROVE  \E o \in Versions(s) : /\ o.entity = e /\ o.rev = s.state[e].rev
                                      /\ o.payload = s.state[e].hash
                                      /\ o = [entity |-> e, rev |-> o.rev, payload |-> o.payload]
    <2> DEFINE o == [entity |-> e, rev |-> s.state[e].rev, payload |-> s.state[e].hash]
    <2>1. o \in Versions(s)
      BY <1>1 DEF Versions
    <2>2. QED
      BY <2>1
  <1>2. QED
    BY <1>1 DEF Versions

LEMMA ObservedFact ==
    ASSUME NEW s \in Database, Coherent(s), NEW c \in Change
    PROVE  LET n == Observed(s, c)
           IN  /\ n \in Database /\ Coherent(n)
               /\ n.rows = s.rows /\ n.state = s.state /\ n.outbox = s.outbox
               /\ n.clock >= s.clock /\ n.clock >= c.rev[1]
  <1> DEFINE n == Observed(s, c)
             t == IF c.rev[1] > s.clock THEN c.rev[1] ELSE s.clock
  <1>1. c.rev[1] \in Nat /\ s.clock \in Nat
    BY ChangeFields, RevisionFact, DatabaseFields
  <1>2. t \in Nat /\ t >= s.clock /\ t >= c.rev[1]
    BY <1>1
  <1>3. n = [s EXCEPT !.clock = t]
    BY DEF Observed
  <1> HIDE DEF t, n
  <1>4. n \in Database /\ n.rows = s.rows /\ n.state = s.state /\ n.outbox = s.outbox /\ n.clock = t
    BY <1>2, <1>3 DEF Database
  <1>5. Coherent(n)
    BY <1>4 DEF Coherent, Tombstoned, Known
  <1>6. QED
    BY <1>2, <1>4, <1>5 DEF n

\* Database s, at most one entity newer, becomes n under the change c.
Takes(s, n, c) ==
    /\ n \in Database /\ Coherent(n) /\ n.clock >= s.clock /\ n.clock >= c.rev[1]
    /\ \A o \in n.outbox : \E k \in s.outbox : From(o, k)
    /\ \A o \in Versions(n) : \E k \in Versions(s) \cup {c} : From(o, k)
    /\ \A e \in Entities :
         \/ n.state[e].rev = s.state[e].rev
         \/ e = c.entity /\ RevLess(s.state[e].rev, c.rev) /\ n.state[e].rev = c.rev
    /\ ~RevLess(n.state[c.entity].rev, c.rev)
    /\ \A e \in Entities : n.state[e].rev = s.state[e].rev =>
         (n.state[e].hash = Null <=> s.state[e].hash = Null)
    /\ \A o \in s.outbox :
         n.state[o.entity].rev = s.state[o.entity].rev =>
            \E k \in n.outbox : k.entity = o.entity /\ k.rev = o.rev

LEMMA LessIsNotEqual ==
    ASSUME NEW a \in Revision, NEW b \in Revision, RevLess(a, b)
    PROVE  a # b
  BY RevisionFact DEF RevLess

LEMMA StoredFact ==
    ASSUME NEW s \in Database, Coherent(s), NEW c \in Change, Plain(c.entity, c.payload),
           Newer(s, c), s.clock >= c.rev[1]
    PROVE  Takes(s, Stored(s, c), c)
  <1> DEFINE eff == Effective(s, c)
             L == {x \in Rivals(s, c) : Outranks(s, c, x)}
             m == Materialized(s, L)
             e == c.entity
             q == eff.payload
             R == IF q = Null THEN RowsWithout(m.rows, e) ELSE [m.rows EXCEPT ![e] = CleanRef(m, q)]
             T == [m.state EXCEPT ![e] = [rev |-> c.rev, hash |-> q]]
             B == {o \in m.outbox : o.entity = e => RevLess(c.rev, o.rev)}
             n == Stored(s, c)
  <1>1. n = [m EXCEPT !.rows = R, !.state = T, !.outbox = B]
    BY DEF Stored
  <1>2. /\ eff \in Change /\ From(eff, c) /\ (q = Null <=> c.payload = Null) /\ Plain(e, q)
        /\ eff.entity = e /\ eff.rev = c.rev /\ q \in Payload \cup {Null}
        /\ eff = [entity |-> e, rev |-> c.rev, payload |-> q]
    <2>1. eff \in Change /\ From(eff, c) /\ (q = Null <=> c.payload = Null) /\ Plain(e, q)
      BY EffectiveFact
    <2>2. QED
      BY <2>1, ChangeFields DEF From
  <1>3. L \in SUBSET (Entities \ Snippets) /\ e \notin L /\ \A x \in L : s.rows[x] # Null
    BY RivalsFact
  <1>4. /\ m \in Database /\ Coherent(m) /\ m.clock = s.clock
        /\ \A x \in Entities : m.state[x].rev = s.state[x].rev
        /\ \A x \in Entities \ L : m.state[x] = s.state[x]
        /\ \A x \in Entities : Weaker(m.state[x].hash, s.state[x].hash)
        /\ \A o \in m.outbox : \E k \in s.outbox : From(o, k)
        /\ \A k \in s.outbox : \E o \in m.outbox : o.entity = k.entity /\ o.rev = k.rev
    BY <1>3, MaterializedFact
  <1>5. e \in Entities /\ c.rev \in Revision
    BY ChangeFields
  <1> HIDE DEF m, eff, L, q
  <1>6. R \in [Entities -> Payload \cup {Null}]
    <2>1. m.rows \in [Entities -> Payload \cup {Null}]
      BY <1>4, DatabaseFields
    <2>2. q # Null => CleanRef(m, q) \in Payload
      BY <1>2, CleanRefFact
    <2>3. RowsWithout(m.rows, e) \in [Entities -> Payload \cup {Null}]
      BY <1>5, <2>1, RowsWithoutFact
    <2>4. QED
      BY <2>1, <2>2, <2>3
  <1>7. T \in States /\ T[e].rev = c.rev /\ T[e].hash = q
        /\ \A x \in Entities \ {e} : T[x] = m.state[x]
    <2>1. m.state \in States
      BY <1>4, DatabaseFields DEF States
    <2>2. [rev |-> c.rev, hash |-> q] \in EntityState
      BY <1>2, <1>5 DEF EntityState
    <2>3. QED
      BY <1>5, <2>1, <2>2 DEF States
  <1>8. /\ q = Null => R[e] = Null
        /\ q # Null => R[e] = CleanRef(m, q)
        /\ q # Null => \A x \in Entities \ {e} : R[x] = m.rows[x]
        /\ q = Null => \A x \in Entities \ {e} :
             /\ R[x] = Null <=> m.rows[x] = Null
             /\ m.rows[x] # Null => R[x].name = m.rows[x].name
             /\ m.rows[x] # Null /\ m.rows[x].ref = e => R[x].ref = Null
             /\ m.rows[x] # Null /\ m.rows[x].ref = Null => R[x] = m.rows[x]
             /\ ~(m.rows[x] # Null /\ m.rows[x].ref = e) => R[x] = m.rows[x]
    <2>1. m.rows \in [Entities -> Payload \cup {Null}]
      BY <1>4, DatabaseFields
    <2>2. CASE q = Null
      <3>1. R = RowsWithout(m.rows, e)
        BY <2>2
      <3> HIDE DEF R
      <3>2. QED
        BY <1>5, <2>1, <2>2, <3>1, RowsWithoutFact
    <2>3. CASE q # Null
      BY <1>5, <2>1, <2>3
    <2>4. QED
      BY <2>2, <2>3
  <1>9. B \in SUBSET Change /\ B \subseteq m.outbox
        /\ \A o \in m.outbox : o.entity # e => o \in B
    BY <1>4, DatabaseFields
  <1> HIDE DEF R, T, B, n
  <1>10. n \in Database /\ n.rows = R /\ n.state = T /\ n.outbox = B /\ n.clock = s.clock
    BY <1>1, <1>4, <1>6, <1>7, <1>9 DEF Database, States
  <1>11. Coherent(n)
    <2>1. ASSUME NEW x \in Entities, x # e \/ q # Null, ~Tombstoned(m, x) PROVE ~Tombstoned(n, x)
      BY <1>5, <1>7, <1>10, <2>1 DEF Tombstoned, Known
    <2>2. ASSUME NEW x \in Entities
          PROVE  /\ (n.rows[x] = Null) = (n.state[x].hash = Null)
                 /\ n.rows[x] # Null => n.rows[x].name = n.state[x].hash.name
                 /\ n.rows[x] # Null => n.rows[x].ref \in {Null, n.state[x].hash.ref}
                 /\ n.rows[x] # Null /\ n.rows[x].ref # Null => ~Tombstoned(n, n.rows[x].ref)
                 /\ Plain(x, n.rows[x])
                 /\ x \in Snippets => n.rows[x] = n.state[x].hash
      <3>1. CASE x = e /\ q = Null
        BY <1>7, <1>8, <1>10, <3>1 DEF Plain
      <3>2. CASE x = e /\ q # Null
        <4>1. q \in Payload
          BY <1>2, <3>2
        <4>2. n.rows[e] = CleanRef(m, q) /\ n.state[e].hash = q
          BY <1>7, <1>8, <1>10, <3>2
        <4>3. /\ CleanRef(m, q) # Null /\ CleanRef(m, q).name = q.name
              /\ CleanRef(m, q).ref # Null => CleanRef(m, q).ref = q.ref /\ ~Tombstoned(m, q.ref)
              /\ q.ref = Null => CleanRef(m, q) = q
          BY <4>1, CleanRefFact
        <4>4. q.ref \in Entities \cup {Null}
          BY <4>1 DEF Payload, Entities
        <4>5. n.rows[e].ref # Null => ~Tombstoned(n, n.rows[e].ref)
          BY <2>1, <3>2, <4>2, <4>3, <4>4
        <4>6. e \notin Servers => n.rows[e] = q
          BY <1>2, <3>2, <4>2, <4>3 DEF Plain
        <4>7. n.rows[e].ref \in {Null, q.ref} /\ (e \in Snippets => n.rows[e] = q)
          BY <4>2, <4>3, <4>6, SnippetFact
        <4>8. QED
          BY <1>2, <3>2, <4>2, <4>3, <4>5, <4>6, <4>7 DEF Plain
      <3>3. CASE x # e
        <4>1. n.state[x] = m.state[x] /\ n.rows[x] = R[x]
          BY <1>7, <1>10, <3>3
        <4>2. /\ (m.rows[x] = Null) = (m.state[x].hash = Null)
              /\ m.rows[x] # Null => m.rows[x].name = m.state[x].hash.name
              /\ m.rows[x] # Null => m.rows[x].ref \in {Null, m.state[x].hash.ref}
              /\ m.rows[x] # Null /\ m.rows[x].ref # Null => ~Tombstoned(m, m.rows[x].ref)
              /\ Plain(x, m.rows[x]) /\ (x \in Snippets => m.rows[x] = m.state[x].hash)
          BY <1>4 DEF Coherent
        <4>3. m.rows[x] # Null => m.rows[x].ref \in Entities \cup {Null}
          BY <1>4, DatabaseFields DEF Payload, Entities
        <4>5. CASE m.rows[x] # Null /\ m.rows[x].ref = e /\ q = Null
          <5>1. /\ n.rows[x] # Null /\ n.rows[x].name = m.rows[x].name /\ n.rows[x].ref = Null
            BY <1>8, <3>3, <4>1, <4>5
          <5>2. x \in Snippets => m.rows[x].ref = Null
            BY <4>2, <4>5, SnippetFact DEF Plain
          <5>3. x \in Snippets => n.rows[x] = m.rows[x]
            BY <1>8, <3>3, <4>1, <4>5, <5>2
          <5>4. (m.rows[x] = Null) = (m.state[x].hash = Null)
            BY <4>2
          <5>5. (n.rows[x] = Null) = (n.state[x].hash = Null)
            BY <4>1, <4>5, <5>1, <5>4
          <5>6. QED
            BY <4>1, <4>2, <4>5, <5>1, <5>3, <5>5 DEF Plain
        <4>6. CASE ~(m.rows[x] # Null /\ m.rows[x].ref = e /\ q = Null)
          <5>1. n.rows[x] = m.rows[x]
            BY <1>8, <3>3, <4>1, <4>6
          <5>2. m.rows[x] # Null /\ m.rows[x].ref # Null => ~Tombstoned(n, m.rows[x].ref)
            BY <2>1, <4>2, <4>3, <4>6
          <5>3. QED
            BY <4>1, <4>2, <5>1, <5>2
        <4>7. QED
          BY <4>5, <4>6
      <3>4. QED
        BY <3>1, <3>2, <3>3
    <2>3. Snippets \subseteq Entities
      BY DEF Entities
    <2>4. QED
      BY <2>2, <2>3 DEF Coherent
  <1>12. \A o \in n.outbox : \E k \in s.outbox : From(o, k)
    BY <1>4, <1>9, <1>10
  <1>13. ASSUME NEW o \in Versions(n)
         PROVE  \E k \in Versions(s) \cup {c} : From(o, k)
    <2>1. /\ o.entity \in Entities /\ Known(n, o.entity)
          /\ o.rev = n.state[o.entity].rev /\ o.payload = n.state[o.entity].hash
          /\ o = [entity |-> o.entity, rev |-> o.rev, payload |-> o.payload]
      BY VersionFact
    <2>2. CASE o.entity = e
      <3>1. o = eff
        BY <1>2, <1>7, <1>10, <2>1, <2>2
      <3>2. QED
        BY <1>2, <3>1
    <2>3. CASE o.entity # e
      <3>1. n.state[o.entity] = m.state[o.entity] /\ m.state[o.entity].rev = s.state[o.entity].rev
        BY <1>4, <1>7, <1>10, <2>1, <2>3
      <3>2. Known(s, o.entity)
        BY <2>1, <3>1 DEF Known
      <3>3. PICK k \in Versions(s) : /\ k.entity = o.entity /\ k.rev = s.state[o.entity].rev
                                     /\ k.payload = s.state[o.entity].hash
                                     /\ k = [entity |-> o.entity, rev |-> k.rev, payload |-> k.payload]
        BY <2>1, <3>2, VersionFact
      <3>4. o.entity \in Snippets => m.state[o.entity] = s.state[o.entity]
        BY <1>3, <1>4, <2>1
      <3>5. From(o, k)
        BY <1>4, <2>1, <3>1, <3>3, <3>4 DEF From
      <3>6. QED
        BY <3>5
    <2>4. QED
      BY <2>2, <2>3
  <1>14. ASSUME NEW x \in Entities
         PROVE  \/ n.state[x].rev = s.state[x].rev
                \/ x = c.entity /\ RevLess(s.state[x].rev, c.rev) /\ n.state[x].rev = c.rev
    BY <1>4, <1>7, <1>10 DEF Newer
  <1>15. ASSUME NEW o \in s.outbox, n.state[o.entity].rev = s.state[o.entity].rev
         PROVE  \E k \in n.outbox : k.entity = o.entity /\ k.rev = o.rev
    <2>1. n.state[e].rev # s.state[e].rev
      BY <1>5, <1>7, <1>10, DatabaseFields, LessIsNotEqual DEF Newer
    <2>2. o.entity # e
      BY <1>15, <2>1
    <2>3. PICK k \in m.outbox : k.entity = o.entity /\ k.rev = o.rev
      BY <1>4
    <2>4. QED
      BY <1>9, <1>10, <2>2, <2>3
  <1>16. n.clock >= s.clock /\ n.clock >= c.rev[1]
    BY <1>10, DatabaseFields
  <1>17. n.state[e].rev # s.state[e].rev /\ ~RevLess(n.state[e].rev, c.rev)
    <2>1. n.state[e].rev = c.rev
      BY <1>7, <1>10
    <2>2. s.state[e].rev \in Revision /\ s.state[e].rev # c.rev
      BY <1>5, DatabaseFields, LessIsNotEqual DEF Newer
    <2>3. ~RevLess(c.rev, c.rev)
      BY <1>5, LessIsNotEqual
    <2>4. QED
      BY <2>1, <2>2, <2>3
  <1>18. ASSUME NEW x \in Entities, n.state[x].rev = s.state[x].rev
         PROVE  n.state[x].hash = Null <=> s.state[x].hash = Null
    <2>1. n.state[x] = m.state[x]
      BY <1>7, <1>10, <1>17, <1>18
    <2>2. QED
      BY <1>4, <2>1 DEF Weaker
  <1>19. QED
    BY <1>10, <1>11, <1>12, <1>13, <1>14, <1>15, <1>16, <1>17, <1>18 DEF Takes, n

LEMMA AppliedFact ==
    ASSUME NEW s \in Database, Coherent(s), NEW c \in Change, Plain(c.entity, c.payload)
    PROVE  Takes(s, Applied(s, c), c)
  <1> DEFINE h == Observed(s, c)
  <1>1. /\ h \in Database /\ Coherent(h) /\ h.rows = s.rows /\ h.state = s.state
        /\ h.outbox = s.outbox /\ h.clock >= s.clock /\ h.clock >= c.rev[1]
    BY ObservedFact
  <1> HIDE DEF h
  <1>2. Versions(h) = Versions(s)
    BY <1>1 DEF Versions, Known
  <1>3. CASE Newer(s, c)
    <2>1. Applied(s, c) = Stored(h, c)
      BY <1>3 DEF Applied, h
    <2>2. Newer(h, c)
      BY <1>1, <1>3 DEF Newer
    <2>3. Takes(h, Stored(h, c), c)
      BY <1>1, <2>2, StoredFact
    <2> DEFINE n == Stored(h, c)
    <2> HIDE DEF n
    <2>4. n.clock >= s.clock
      <3>1. n.clock \in Nat /\ h.clock \in Nat /\ s.clock \in Nat /\ n.clock >= h.clock
        BY <1>1, <2>3, DatabaseFields DEF Takes, n
      <3>2. QED
        BY <1>1, <3>1
    <2>5. Takes(h, n, c)
      BY <2>3 DEF n
    <2>6. Takes(s, n, c)
      BY <1>1, <1>2, <2>4, <2>5 DEF Takes
    <2>7. QED
      BY <2>1, <2>6 DEF n
  <1>4. CASE ~Newer(s, c)
    <2>1. Applied(s, c) = h
      BY <1>4 DEF Applied, h
    <2>2. \A o : From(o, o)
      BY WeakerFact DEF From
    <2>3. ~RevLess(h.state[c.entity].rev, c.rev)
      BY <1>1, <1>4 DEF Newer
    <2>4. QED
      BY <1>1, <1>2, <2>1, <2>2, <2>3 DEF Takes
  <1>5. QED
    BY <1>3, <1>4

-----------------------------------------------------------------------------
(* The inductive invariant.  Everything is every change anyone holds: the    *)
(* versions and outboxes of the databases, the open transactions, the saved  *)
(* envelopes, the replies on their way, the provider objects and the file.   *)

Logged(l, v) == UNION {l[v][i] : i \in DOMAIN l[v]}

InDatabases(o, b) == \E x \in Devices : o \in Facts(b[x])
InTransactions(o, t) == \E x \in Devices : o \in Facts(t[x].db) \cup t[x].todo
InUploads(o, u) == \E x \in Devices, v \in Vaults : o \in u[x][v]
InReplies(o, r) == \E x \in Devices : o \in r[x].batch
InLogs(o, l) == \E v \in Vaults : o \in Logged(l, v)

Everything ==
    {o \in Change : \/ InDatabases(o, db) \/ InTransactions(o, tx) \/ InUploads(o, uploads)
                    \/ InReplies(o, run) \/ InLogs(o, log) \/ o \in file}

\* The changes X are told apart by their revisions, all minted by the clocks of b.
Minted(X, b) ==
    /\ \A c \in X : /\ c.rev[2] \in Devices /\ c.rev[1] <= b[c.rev[2]].clock
                    /\ Plain(c.entity, c.payload)
    /\ \A c, o \in X : c.rev = o.rev => /\ c.entity = o.entity /\ (c.entity \in Snippets => c = o)
                                       /\ Alike(c.payload, o.payload)

\* Database s has every change of X that device d made, or a newer one.
Knows(s, d, X) == \A c \in X : c.rev[2] = d => ~RevLess(s.state[c.entity].rev, c.rev)

\* What device d made and s still has as the newest is in the set X.
Kept(s, d, X) ==
    \A e \in Entities : s.state[e].rev[2] = d => \E c \in X : c.entity = e /\ c.rev = s.state[e].rev

Reached(s, d) == s.outbox \cup Logged(log, active[d])

DeviceInv(d) ==
    /\ Coherent(db[d]) /\ Coherent(tx[d].db)
    /\ run[d].phase # "locked" => active[d] \in Vaults
    /\ tx[d].source = "vault" => run[d].phase = "reply"
    /\ Free(d) => tx[d].todo = {}
    /\ run[d].phase \in {"reply", "committed"} => uploads[d][active[d]] \subseteq Logged(log, active[d])
    /\ Knows(db[d], d, Everything)
    /\ active[d] # Null => Kept(db[d], d, Reached(db[d], d))
    /\ ~Free(d) => /\ tx[d].db.clock >= db[d].clock
                   /\ Knows(tx[d].db, d, Everything)
                   /\ active[d] # Null => Kept(tx[d].db, d, Reached(tx[d].db, d))

SyncInv == TypeOK /\ Minted(Everything, db) /\ \A d \in Devices : DeviceInv(d)

Transaction == [source : {"none", "vault", "file"}, db : Database, todo : SUBSET Change]
Round == [phase : Phases, cursor : Nat, batch : SUBSET Change]

LEMMA EmptyFact ==
    /\ EmptyDatabase \in Database /\ Coherent(EmptyDatabase) /\ Facts(EmptyDatabase) = {}
    /\ EmptyDatabase.clock = 0 /\ EmptyDatabase.outbox = {}
    /\ \A e \in Entities : EmptyDatabase.state[e].rev = NoRevision
  <1> DEFINE R == [e \in Entities |-> Null]
             T == [e \in Entities |-> [rev |-> NoRevision, hash |-> Null]]
  <1>1. NoRevision \in Revision
    BY DEF NoRevision, Revision
  <1>2. R \in [Entities -> Payload \cup {Null}] /\ T \in States
    BY <1>1 DEF States, EntityState
  <1>3. \A e \in Entities : R[e] = Null /\ T[e].rev = NoRevision /\ T[e].hash = Null
    OBVIOUS
  <1>4. EmptyDatabase = [rows |-> R, state |-> T, outbox |-> {}, clock |-> 0]
    BY DEF EmptyDatabase
  <1> HIDE DEF R, T
  <1>5. /\ EmptyDatabase \in Database /\ EmptyDatabase.rows = R /\ EmptyDatabase.state = T
        /\ EmptyDatabase.outbox = {} /\ EmptyDatabase.clock = 0
    BY <1>2, <1>4 DEF Database, States
  <1>6. Coherent(EmptyDatabase)
    BY <1>3, <1>5 DEF Coherent, Entities, Plain
  <1>7. Versions(EmptyDatabase) = {}
    BY <1>3, <1>5 DEF Versions, Known
  <1>8. QED
    BY <1>3, <1>5, <1>6, <1>7 DEF Facts

LEMMA NoTxFact ==
    /\ NoTx \in Transaction /\ NoTx.source = "none" /\ NoTx.db = EmptyDatabase
    /\ NoTx.todo = {} /\ Facts(NoTx.db) = {}
  BY EmptyFact DEF NoTx, Transaction

LEMMA RunFact ==
    ASSUME NEW p \in Phases
    PROVE  Run(p) \in Round /\ Run(p).phase = p /\ Run(p).batch = {}
  BY DEF Run, Round

LEMMA TypeFact ==
    ASSUME TypeOK
    PROVE  /\ tx \in [Devices -> Transaction] /\ run \in [Devices -> Round]
           /\ \A d \in Devices : /\ db[d] \in Database /\ tx[d] \in Transaction
                                 /\ tx[d].db \in Database /\ tx[d].todo \subseteq Change
                                 /\ run[d].phase \in Phases /\ run[d].batch \subseteq Change
  BY DEF TypeOK, Transaction, Round

LEMMA LessTwice ==
    ASSUME NEW a \in Revision, NEW b \in Revision, NEW c \in Revision, ~RevLess(a, c), RevLess(a, b)
    PROVE  ~RevLess(b, c)
  BY RevisionFact DEF RevLess

\* Every change of Y is in M or comes from one of X.
Come(X, Y, M) == \A o \in Y : o \in M \/ \E c \in X : From(o, c)

\* The clocks go from a to b and device d mints M.
Grown(M, a, b, d) ==
    /\ a \in [Devices -> Database] /\ b \in [Devices -> Database] /\ M \in SUBSET Change
    /\ \A x \in Devices : b[x].clock >= a[x].clock
    /\ \A c \in M : /\ c.rev[2] = d /\ a[d].clock < c.rev[1] /\ c.rev[1] <= b[d].clock
                    /\ Plain(c.entity, c.payload)
    /\ \A c, o \in M : c.rev = o.rev => c = o

LEMMA MintedKept ==
    ASSUME NEW X, NEW Y, NEW M, NEW a, NEW b, NEW d \in Devices,
           X \subseteq Change, Y \subseteq Change,
           Minted(X, a), Grown(M, a, b, d), Come(X, Y, M)
    PROVE  Minted(Y, b)
  <1>1. \A x \in Devices : a[x].clock \in Nat /\ b[x].clock \in Nat /\ b[x].clock >= a[x].clock
    BY DatabaseFields DEF Grown
  <1>2. ASSUME NEW c \in Change
        PROVE  c.rev[1] \in Nat /\ c.rev[2] \in Nat
    BY ChangeFields, RevisionFact
  <1>3. ASSUME NEW o \in Y
        PROVE  /\ o.rev[2] \in Devices /\ o.rev[1] <= b[o.rev[2]].clock /\ Plain(o.entity, o.payload)
    <2>1. CASE o \in M
      BY <2>1 DEF Grown
    <2>2. ASSUME NEW c \in X, From(o, c)
          PROVE  /\ o.rev[2] \in Devices /\ o.rev[1] <= b[o.rev[2]].clock /\ Plain(o.entity, o.payload)
      <3>1. c.rev[2] \in Devices /\ c.rev[1] <= a[c.rev[2]].clock /\ Plain(c.entity, c.payload)
        BY DEF Minted
      <3>2. c.rev[1] \in Nat
        BY <1>2
      <3>3. c.rev[1] <= b[c.rev[2]].clock
        BY <1>1, <3>1, <3>2
      <3>4. QED
        BY <2>2, <3>1, <3>3 DEF From, Plain, Weaker
    <2>3. QED
      BY <2>1, <2>2 DEF Come
  <1>4. ASSUME NEW o \in M, NEW c \in X PROVE o.rev # c.rev
    <2>1. o.rev[2] = d /\ a[d].clock < o.rev[1] /\ o \in Change
      BY DEF Grown
    <2>2. c.rev[2] \in Devices /\ c.rev[1] <= a[c.rev[2]].clock
      BY DEF Minted
    <2>3. o.rev[1] \in Nat /\ c.rev[1] \in Nat /\ a[d].clock \in Nat
      BY <1>1, <1>2, <2>1
    <2>4. c.rev[2] = d => c.rev[1] # o.rev[1]
      BY <2>1, <2>2, <2>3
    <2>5. QED
      BY <2>1, <2>4
  <1>5. ASSUME NEW o \in Y, NEW k \in Y, o.rev = k.rev
        PROVE  /\ o.entity = k.entity /\ (o.entity \in Snippets => o = k)
               /\ Alike(o.payload, k.payload)
    <2>1. CASE o \in M /\ k \in M
      BY <1>5, <2>1, WeakerFact DEF Grown
    <2>2. CASE o \notin M /\ k \notin M
      <3>1. PICK c \in X : From(o, c)
        BY <2>2 DEF Come
      <3>2. PICK f \in X : From(k, f)
        BY <2>2 DEF Come
      <3>3. c.rev = f.rev
        BY <1>5, <3>1, <3>2 DEF From
      <3>4. c.entity = f.entity /\ (c.entity \in Snippets => c = f) /\ Alike(c.payload, f.payload)
        BY <3>3 DEF Minted
      <3>5. QED
        BY <3>1, <3>2, <3>4, WeakerFact DEF From
    <2>3. CASE o \in M /\ k \notin M
      <3>1. PICK f \in X : From(k, f)
        BY <2>3 DEF Come
      <3>2. QED
        BY <1>4, <1>5, <2>3, <3>1 DEF From
    <2>4. CASE o \notin M /\ k \in M
      <3>1. PICK f \in X : From(o, f)
        BY <2>4 DEF Come
      <3>2. QED
        BY <1>4, <1>5, <2>4, <3>1 DEF From
    <2>5. QED
      BY <2>1, <2>2, <2>3, <2>4
  <1>6. QED
    BY <1>3, <1>5 DEF Minted

\* The revisions of n are those of s, or later ones.
Follows(n, s) ==
    \A e \in Entities : n.state[e].rev = s.state[e].rev \/ RevLess(s.state[e].rev, n.state[e].rev)

LEMMA KnowsKept ==
    ASSUME NEW X, NEW Y, NEW M, NEW s \in Database, NEW n \in Database, NEW d,
           X \subseteq Change, Knows(s, d, X), Follows(n, s), Come(X, Y, M), \A c \in M : c.rev[2] # d
    PROVE  Knows(n, d, Y)
  <1> SUFFICES ASSUME NEW o \in Y, o.rev[2] = d PROVE ~RevLess(n.state[o.entity].rev, o.rev)
    BY DEF Knows
  <1>1. PICK c \in X : From(o, c)
    BY DEF Come
  <1>2. c.rev = o.rev /\ c.entity = o.entity
    BY <1>1 DEF From
  <1>3. ~RevLess(s.state[c.entity].rev, c.rev)
    BY <1>2 DEF Knows
  <1>4. c.entity \in Entities /\ c.rev \in Revision
    BY ChangeFields
  <1>5. s.state[c.entity].rev \in Revision /\ n.state[c.entity].rev \in Revision
    BY <1>4, DatabaseFields
  <1>6. QED
    BY <1>2, <1>3, <1>4, <1>5, LessTwice DEF Follows

LEMMA MintedState ==
    ASSUME NEW s, NEW n, NEW d, NEW M, Mints(s, n, d, M), NEW c \in M
    PROVE  /\ c.entity \in Entities /\ n.state[c.entity].rev = c.rev /\ c.rev \in Revision
           /\ s.clock < c.rev[1] /\ c \in n.outbox
  <1>1. n.state[c.entity] = [rev |-> c.rev, hash |-> c.payload]
    BY DEF Mints
  <1>2. n.state[c.entity].rev = c.rev
    BY <1>1
  <1>3. c \in Change
    BY DEF Mints
  <1>4. QED
    BY <1>2, <1>3, ChangeFields DEF Mints

\* A device knows what it has just minted, and what it minted before.
LEMMA KnowsMinted ==
    ASSUME NEW X, NEW Y, NEW M, NEW s \in Database, NEW n, NEW d \in Devices, NEW b,
           X \subseteq Change, Knows(s, d, X), Minted(X, b), b[d] = s,
           Mints(s, n, d, M), Come(X, Y, M)
    PROVE  Knows(n, d, Y)
  <1> SUFFICES ASSUME NEW o \in Y, o.rev[2] = d PROVE ~RevLess(n.state[o.entity].rev, o.rev)
    BY DEF Knows
  <1>1. ASSUME NEW c \in M PROVE n.state[c.entity].rev = c.rev /\ s.clock < c.rev[1] /\ c.rev \in Revision
    BY MintedState
  <1>2. CASE o \in M
    BY <1>1, <1>2, RevisionFact DEF RevLess
  <1>3. ASSUME NEW c \in X, From(o, c) PROVE ~RevLess(n.state[o.entity].rev, o.rev)
    <2>1. c.rev = o.rev /\ c.entity = o.entity
      BY <1>3 DEF From
    <2>2. ~RevLess(s.state[c.entity].rev, c.rev)
      BY <2>1 DEF Knows
    <2>3. c.entity \in Entities /\ c.rev \in Revision /\ c.rev[1] <= s.clock /\ s.clock \in Nat
      BY <2>1, ChangeFields, DatabaseFields DEF Minted
    <2>4. CASE n.state[c.entity] = s.state[c.entity]
      BY <2>1, <2>2, <2>4
    <2>5. ASSUME NEW k \in M, k.entity = c.entity PROVE ~RevLess(n.state[c.entity].rev, c.rev)
      <3>1. n.state[c.entity].rev = k.rev /\ s.clock < k.rev[1] /\ k.rev \in Revision
        BY <1>1, <2>5
      <3>2. k.rev[1] \in Nat /\ c.rev[1] \in Nat
        BY <2>3, <3>1, RevisionFact
      <3>3. c.rev[1] < k.rev[1]
        BY <2>3, <3>1, <3>2
      <3>4. QED
        BY <3>1, <3>2, <3>3 DEF RevLess
    <2>6. QED
      BY <2>1, <2>3, <2>4, <2>5 DEF Mints
  <1>4. QED
    BY <1>2, <1>3 DEF Come

LEMMA KeptGrows ==
    ASSUME NEW s, NEW d, NEW X, NEW Y, Kept(s, d, X), X \subseteq Y
    PROVE  Kept(s, d, Y)
  BY DEF Kept

LEMMA KeptMinted ==
    ASSUME NEW s, NEW n, NEW d, NEW M, NEW A, Mints(s, n, d, M), s.outbox \subseteq n.outbox,
           Kept(s, d, s.outbox \cup A)
    PROVE  Kept(n, d, n.outbox \cup A)
  <1> SUFFICES ASSUME NEW e \in Entities, n.state[e].rev[2] = d
               PROVE  \E c \in n.outbox \cup A : c.entity = e /\ c.rev = n.state[e].rev
    BY DEF Kept
  <1>1. CASE n.state[e] = s.state[e]
    BY <1>1 DEF Kept
  <1>2. CASE \E c \in M : c.entity = e
    BY <1>2, MintedState
  <1>3. QED
    BY <1>1, <1>2 DEF Mints

LEMMA KeptRebuilt ==
    ASSUME NEW s \in Database, NEW n, NEW d \in Devices, NEW M, NEW A, Mints(s, n, d, M),
           \A e \in Entities : Known(s, e) => \E c \in M : c.entity = e
    PROVE  Kept(n, d, n.outbox \cup A)
  <1> SUFFICES ASSUME NEW e \in Entities, n.state[e].rev[2] = d
               PROVE  \E c \in n.outbox \cup A : c.entity = e /\ c.rev = n.state[e].rev
    BY DEF Kept
  <1>1. d # 0
    BY DeviceFact
  <1>2. CASE Known(s, e)
    BY <1>2, MintedState
  <1>3. CASE ~Known(s, e)
    <2>1. s.state[e].rev[2] = 0
      BY <1>3 DEF Known, NoRevision
    <2>2. \E c \in M : c.entity = e
      BY <1>1, <2>1 DEF Mints
    <2>3. QED
      BY <2>2, MintedState
  <1>4. QED
    BY <1>2, <1>3

\* A change that device d did not know is not one of its own.
LEMMA KeptTaken ==
    ASSUME NEW s, NEW n, NEW c, NEW d, NEW X, NEW A, Takes(s, n, c), c \in X,
           Knows(s, d, X), Kept(s, d, s.outbox \cup A)
    PROVE  Kept(n, d, n.outbox \cup A)
  <1> SUFFICES ASSUME NEW e \in Entities, n.state[e].rev[2] = d
               PROVE  \E k \in n.outbox \cup A : k.entity = e /\ k.rev = n.state[e].rev
    BY DEF Kept
  <1>1. n.state[e].rev = s.state[e].rev
    BY DEF Takes, Knows
  <1>2. PICK k \in s.outbox \cup A : k.entity = e /\ k.rev = s.state[e].rev
    BY <1>1 DEF Kept
  <1>3. QED
    BY <1>1, <1>2 DEF Takes

\* An acknowledged change is in the provider's object.
LEMMA KeptAcknowledged ==
    ASSUME NEW s, NEW n, NEW d, NEW A, NEW U, NEW X, NEW b, Kept(s, d, s.outbox \cup A),
           n.state = s.state, n.outbox = {o \in s.outbox : o.rev \notin {c.rev : c \in U}},
           U \subseteq A, Minted(X, b), U \subseteq X, s.outbox \subseteq X
    PROVE  Kept(n, d, n.outbox \cup A)
  <1> SUFFICES ASSUME NEW e \in Entities, n.state[e].rev[2] = d
               PROVE  \E k \in n.outbox \cup A : k.entity = e /\ k.rev = n.state[e].rev
    BY DEF Kept
  <1>1. PICK k \in s.outbox \cup A : k.entity = e /\ k.rev = s.state[e].rev
    BY DEF Kept
  <1>2. CASE k \in s.outbox /\ \E c \in U : c.rev = k.rev
    BY <1>1, <1>2 DEF Minted
  <1>3. CASE ~(k \in s.outbox /\ \E c \in U : c.rev = k.rev)
    BY <1>1, <1>3
  <1>4. QED
    BY <1>2, <1>3

-----------------------------------------------------------------------------
(* The steps.  Each is made by one device, which changes nothing of another. *)

Apart(d) ==
    /\ \A x \in Devices \ {d} : /\ db'[x] = db[x] /\ tx'[x] = tx[x] /\ uploads'[x] = uploads[x]
                                /\ active'[x] = active[x] /\ run'[x] = run[x]
    /\ \A v \in Vaults : Logged(log, v) \subseteq Logged(log', v)

LEMMA OthersKept ==
    ASSUME SyncInv, NEW d \in Devices, NEW x \in Devices \ {d}, NEW M, Apart(d),
           Grown(M, db, db', d), Come(Everything, Everything', M)
    PROVE  DeviceInv(x)'
  <1> DEFINE X == Everything
             Y == Everything'
  <1>1. /\ db'[x] = db[x] /\ tx'[x] = tx[x] /\ uploads'[x] = uploads[x]
        /\ active'[x] = active[x] /\ run'[x] = run[x]
    BY DEF Apart
  <1>2. db[x] \in Database /\ tx[x].db \in Database
    BY TypeFact DEF SyncInv
  <1>3. X \subseteq Change /\ Come(X, Y, M) /\ \A c \in M : c.rev[2] # x
    BY DEF Everything, Grown
  <1>4. DeviceInv(x)
    BY DEF SyncInv
  <1> HIDE DEF X, Y
  <1>5. \A s \in Database : Knows(s, x, X) => Knows(s, x, Y)
    BY <1>3, KnowsKept DEF Follows
  <1>6. run[x].phase # "locked" => active[x] \in Vaults
    BY <1>4 DEF DeviceInv
  <1>7. \A v \in Vaults : Logged(log, v) \subseteq Logged(log', v)
    BY DEF Apart
  <1>8. active[x] # Null => Logged(log, active[x]) \subseteq Logged(log', active[x])
    BY <1>7 DEF SyncInv, TypeOK
  <1>9. \A s : active[x] # Null /\ Kept(s, x, Reached(s, x)) => Kept(s, x, s.outbox \cup Logged(log', active[x]))
    <2> SUFFICES ASSUME NEW s, active[x] # Null, Kept(s, x, Reached(s, x))
                 PROVE  Kept(s, x, s.outbox \cup Logged(log', active[x]))
      OBVIOUS
    <2>1. Reached(s, x) \subseteq s.outbox \cup Logged(log', active[x])
      BY <1>8 DEF Reached
    <2>2. QED
      BY <2>1, KeptGrows
  <1>10. Coherent(db'[x]) /\ Coherent(tx'[x].db) /\ (tx'[x].source = "vault" => run'[x].phase = "reply")
         /\ (run'[x].phase # "locked" => active'[x] \in Vaults)
         /\ (tx'[x].source = "none" => tx'[x].todo = {})
    BY <1>1, <1>4 DEF DeviceInv, Free
  <1>11. run'[x].phase \in {"reply", "committed"} => uploads'[x][active'[x]] \subseteq Logged(log', active'[x])
    BY <1>1, <1>4, <1>6, <1>7 DEF DeviceInv
  <1>12. Knows(db'[x], x, Y)
    BY <1>1, <1>2, <1>4, <1>5 DEF DeviceInv, X
  <1>13. active'[x] # Null => Kept(db'[x], x, Reached(db[x], x)')
    BY <1>1, <1>4, <1>9 DEF DeviceInv, Reached
  <1>14. tx'[x].source # "none" => /\ tx'[x].db.clock >= db'[x].clock
                                   /\ Knows(tx'[x].db, x, Y)
                                   /\ active'[x] # Null => Kept(tx'[x].db, x, Reached(tx[x].db, x)')
    BY <1>1, <1>2, <1>4, <1>5, <1>9 DEF DeviceInv, Reached, Free, X
  <1>15. QED
    BY <1>10, <1>11, <1>12, <1>13, <1>14 DEF DeviceInv, Y, Free

LEMMA StepKept ==
    ASSUME SyncInv, NEW d \in Devices, NEW M, TypeOK', Apart(d),
           Grown(M, db, db', d), Come(Everything, Everything', M), DeviceInv(d)'
    PROVE  SyncInv'
  <1>1. Minted(Everything', db')
    <2>1. Everything \subseteq Change /\ Everything' \subseteq Change
      BY DEF Everything
    <2>2. Minted(Everything, db)
      BY DEF SyncInv
    <2>3. QED
      BY <2>1, <2>2, MintedKept
  <1>2. \A x \in Devices \ {d} : DeviceInv(x)'
    BY OthersKept
  <1>3. QED
    BY <1>1, <1>2 DEF SyncInv

LEMMA SpendFact ==
    ASSUME TypeOK, NEW what \in {"edits", "breaks", "files"}, Spend(what)
    PROVE  spent' \in [edits : Nat, breaks : Nat, files : Nat]
  <1>1. spent \in [edits : Nat, breaks : Nat, files : Nat]
    BY DEF TypeOK
  <1>2. CASE what = "edits"
    BY <1>1, <1>2 DEF Spend
  <1>3. CASE what = "breaks"
    BY <1>1, <1>3 DEF Spend
  <1>4. CASE what = "files"
    BY <1>1, <1>4 DEF Spend
  <1>5. QED
    BY <1>2, <1>3, <1>4

LEMMA FactsMinted ==
    ASSUME NEW s, NEW n, NEW d, NEW M, Mints(s, n, d, M), NEW o \in Facts(n)
    PROVE  o \in M \/ o \in Facts(s)
  <1>1. CASE o \in n.outbox
    BY <1>1 DEF Mints, Facts
  <1>2. CASE o \in Versions(n)
    <2>1. /\ o.entity \in Entities /\ Known(n, o.entity)
          /\ o.rev = n.state[o.entity].rev /\ o.payload = n.state[o.entity].hash
          /\ o = [entity |-> o.entity, rev |-> o.rev, payload |-> o.payload]
      BY <1>2, VersionFact
    <2>2. CASE n.state[o.entity] = s.state[o.entity]
      <3>1. Known(s, o.entity)
        BY <2>1, <2>2 DEF Known
      <3>2. PICK k \in Versions(s) : /\ k.entity = o.entity /\ k.rev = s.state[o.entity].rev
                                     /\ k.payload = s.state[o.entity].hash
                                     /\ k = [entity |-> o.entity, rev |-> k.rev, payload |-> k.payload]
        BY <2>1, <3>1, VersionFact
      <3>3. o = k
        BY <2>1, <2>2, <3>2
      <3>4. QED
        BY <3>2, <3>3 DEF Facts
    <2>3. CASE \E c \in M : c.entity = o.entity
      <3>1. PICK c \in M : c.entity = o.entity
        BY <2>3
      <3>2. n.state[c.entity] = [rev |-> c.rev, hash |-> c.payload] /\ c \in Change
        BY DEF Mints
      <3>3. o.rev = c.rev /\ o.payload = c.payload
        BY <2>1, <3>1, <3>2
      <3>4. c = [entity |-> c.entity, rev |-> c.rev, payload |-> c.payload]
        BY <3>2, ChangeFields
      <3>5. o = c
        BY <2>1, <3>1, <3>3, <3>4
      <3>6. QED
        BY <3>5
    <2>4. QED
      BY <2>1, <2>2, <2>3 DEF Mints
  <1>3. QED
    BY <1>1, <1>2 DEF Facts

LEMMA FactsAreChanges ==
    ASSUME NEW s \in Database
    PROVE  Facts(s) \subseteq Change
  <1>1. ASSUME NEW o \in Versions(s) PROVE o \in Change
    <2>1. /\ o.entity \in Entities /\ o.rev \in Revision /\ o.payload \in Payload \cup {Null}
          /\ o = [entity |-> o.entity, rev |-> o.rev, payload |-> o.payload]
      BY VersionFact, DatabaseFields
    <2>2. QED
      BY <2>1, ChangeFact
  <1>2. QED
    BY <1>1, DatabaseFields DEF Facts

LEMMA SameIsFrom == ASSUME NEW c PROVE From(c, c)
  BY WeakerFact DEF From

\* A step that mints: the databases change and nothing else that holds changes.
LEMMA MintingComes ==
    ASSUME SyncInv, NEW d \in Devices, NEW n, NEW M, Mints(db[d], n, d, M),
           db' = [db EXCEPT ![d] = n], UNCHANGED <<tx, uploads, log, file>>,
           run' = run \/ \E p \in Phases : run' = [run EXCEPT ![d] = Run(p)]
    PROVE  Come(Everything, Everything', M) /\ Grown(M, db, db', d)
  <1>1. db \in [Devices -> Database] /\ n \in Database
    BY DEF SyncInv, TypeOK, Mints
  <1>2. db'[d] = n /\ \A x \in Devices \ {d} : db'[x] = db[x]
    BY <1>1
  <1>3. ASSUME NEW o \in Everything'
        PROVE  o \in M \/ \E c \in Everything : From(o, c)
    <2>1. o \in Change
      BY DEF Everything
    <2>2. CASE InDatabases(o, db')
      <3>1. o \in M \/ InDatabases(o, db)
        BY <1>2, <2>2, FactsMinted DEF InDatabases
      <3>2. QED
        BY <2>1, <3>1, SameIsFrom DEF Everything
    <2>3. CASE InReplies(o, run')
      <3>1. run \in [Devices -> Round]
        BY TypeFact DEF SyncInv
      <3>2. InReplies(o, run)
        BY <2>3, <3>1, RunFact DEF InReplies
      <3>3. QED
        BY <2>1, <3>2, SameIsFrom DEF Everything
    <2>4. CASE InTransactions(o, tx) \/ InUploads(o, uploads) \/ InLogs(o, log) \/ o \in file
      BY <2>1, <2>4, SameIsFrom DEF Everything
    <2>5. QED
      BY <2>2, <2>3, <2>4 DEF Everything
  <1>4. Grown(M, db, db', d)
    <2>1. db' \in [Devices -> Database]
      BY <1>1
    <2>2. \A x \in Devices : db'[x].clock >= db[x].clock
      <3>1. \A x \in Devices : db[x].clock \in Nat
        BY <1>1, DatabaseFields
      <3>2. n.clock >= db[d].clock
        BY DEF Mints
      <3>3. QED
        BY <1>2, <3>1, <3>2
    <2>3. QED
      BY <1>1, <1>2, <2>1, <2>2 DEF Grown, Mints
  <1>5. QED
    BY <1>3, <1>4 DEF Come

\* A local edit: device d mints revisions and keeps what is pending.
Edited(d) ==
    \E n, M : /\ Free(d) /\ Mints(db[d], n, d, M) /\ Coherent(n)
              /\ db[d].outbox \subseteq n.outbox /\ db' = [db EXCEPT ![d] = n] /\ Spend("edits")
              /\ UNCHANGED <<tx, uploads, cursors, active, run, log, file>>

LEMMA EditKept ==
    ASSUME SyncInv, NEW d \in Devices, Edited(d) PROVE SyncInv'
  <1> PICK n, M : /\ Free(d) /\ Mints(db[d], n, d, M) /\ Coherent(n)
                  /\ db[d].outbox \subseteq n.outbox /\ db' = [db EXCEPT ![d] = n] /\ Spend("edits")
                  /\ UNCHANGED <<tx, uploads, cursors, active, run, log, file>>
    BY DEF Edited
  <1>1. TypeOK /\ DeviceInv(d) /\ Minted(Everything, db)
    BY DEF SyncInv
  <1>2. TypeOK'
    <2>1. spent' \in [edits : Nat, breaks : Nat, files : Nat]
      BY <1>1, SpendFact
    <2>2. n \in Database
      BY DEF Mints
    <2>3. QED
      BY <1>1, <2>1, <2>2 DEF TypeOK
  <1>3. db'[d] = n /\ \A x \in Devices \ {d} : db'[x] = db[x]
    BY <1>1 DEF TypeOK
  <1>4. Apart(d)
    BY <1>3 DEF Apart
  <1>5. Come(Everything, Everything', M) /\ Grown(M, db, db', d)
    BY MintingComes
  <1>6. DeviceInv(d)'
    <2>1. Knows(n, d, Everything')
      <3>1. db[d] \in Database /\ Everything \subseteq Change /\ Knows(db[d], d, Everything)
        BY <1>1, TypeFact DEF DeviceInv, Everything
      <3>2. QED
        BY <1>1, <1>5, <3>1, KnowsMinted
    <2>2. active[d] # Null => Kept(n, d, n.outbox \cup Logged(log, active[d]))
      BY <1>1, KeptMinted DEF DeviceInv, Reached
    <2>3. QED
      BY <1>1, <1>3, <2>1, <2>2 DEF DeviceInv, Free, Reached
  <1>7. QED
    BY <1>2, <1>4, <1>5, <1>6, StepKept

LEMMA ChoiceFact ==
    ASSUME NEW s \in Database, NEW e \in Entities, NEW p \in Choices(s, e)
    PROVE  /\ p \in Payload /\ Plain(e, p)
           /\ p.ref # Null => p.ref \in Entities /\ s.rows[p.ref] # Null
  <1>1. PICK b \in Names, g \in {Null} \cup (IF e \in Servers THEN {x \in Groups : s.rows[x] # Null} ELSE {}) :
           p = [name |-> [base |-> b, marks |-> <<>>], ref |-> g]
    BY DEF Choices
  <1>2. [base |-> b, marks |-> <<>>] \in Name
    BY DEF Name
  <1>3. p \in Payload /\ p.ref = g
    BY <1>1, <1>2 DEF Payload
  <1>4. QED
    BY <1>3, StoreAssumption DEF Plain, Entities

LEMMA RenamedFact ==
    ASSUME NEW s \in Database, NEW e \in Entities, s.rows[e] # Null, NEW q \in Choices(s, e)
    PROVE  LET p == [q EXCEPT !.name = s.rows[e].name]
           IN  /\ p \in Payload /\ Plain(e, p)
               /\ p.ref # Null => p.ref \in Entities /\ s.rows[p.ref] # Null
  <1>1. s.rows[e].name \in Name
    BY DatabaseFields DEF Payload
  <1>2. q \in Payload /\ Plain(e, q) /\ q # Null
    BY ChoiceFact, NullAssumption
  <1> DEFINE name == s.rows[e].name
             p == [q EXCEPT !.name = name]
  <1> HIDE DEF name
  <1>3. p \in Payload /\ p.ref = q.ref
    BY <1>1, <1>2 DEF Payload, name
  <1>4. QED
    BY <1>2, <1>3, ChoiceFact DEF Plain, name

LEMMA TickFact ==
    ASSUME NEW d, NEW k, NEW t \in Ticks(d, k)
    PROVE  t \in Nat /\ t > db[d].clock
  BY SyncAssumption DEF Ticks

LEMMA LocalAddEdits == ASSUME SyncInv, NEW d \in Devices, LocalAdd(d) PROVE Edited(d)
  <1>1. PICK e \in Entities : \E p \in Choices(db[d], e), t \in Ticks(d, 1) :
           /\ Free(d) /\ Spend("edits") /\ db' = [db EXCEPT ![d] = Upserted(db[d], d, e, p, t)]
           /\ UNCHANGED <<tx, uploads, cursors, active, run, log, file>>
    BY DEF LocalAdd
  <1>2. PICK p \in Choices(db[d], e), t \in Ticks(d, 1) :
           /\ Free(d) /\ Spend("edits") /\ db' = [db EXCEPT ![d] = Upserted(db[d], d, e, p, t)]
           /\ UNCHANGED <<tx, uploads, cursors, active, run, log, file>>
    BY <1>1
  <1>3. db[d] \in Database /\ Coherent(db[d])
    BY TypeFact DEF SyncInv, DeviceInv
  <1>4. t \in Nat /\ t > db[d].clock
    BY TickFact
  <1>5. /\ p \in Payload /\ Plain(e, p)
        /\ p.ref # Null => p.ref \in Entities /\ db[d].rows[p.ref] # Null
    BY <1>3, ChoiceFact
  <1>6. /\ Coherent(Upserted(db[d], d, e, p, t))
        /\ db[d].outbox \subseteq Upserted(db[d], d, e, p, t).outbox
        /\ \E M : Mints(db[d], Upserted(db[d], d, e, p, t), d, M)
    BY <1>3, <1>4, <1>5, UpsertedFact
  <1>7. QED
    BY <1>2, <1>6 DEF Edited

LEMMA LocalUpdateEdits == ASSUME SyncInv, NEW d \in Devices, LocalUpdate(d) PROVE Edited(d)
  <1>1. PICK e \in Entities \ Groups :
           /\ Free(d) /\ Spend("edits") /\ db[d].rows[e] # Null
           /\ \E p \in Choices(db[d], e) \cup {[q EXCEPT !.name = db[d].rows[e].name] : q \in Choices(db[d], e)},
                 t \in Ticks(d, 1) : db' = [db EXCEPT ![d] = Upserted(db[d], d, e, p, t)]
           /\ UNCHANGED <<tx, uploads, cursors, active, run, log, file>>
    BY DEF LocalUpdate
  <1>2. PICK p \in Choices(db[d], e) \cup {[q EXCEPT !.name = db[d].rows[e].name] : q \in Choices(db[d], e)},
             t \in Ticks(d, 1) : db' = [db EXCEPT ![d] = Upserted(db[d], d, e, p, t)]
    BY <1>1
  <1>3. db[d] \in Database /\ Coherent(db[d])
    BY TypeFact DEF SyncInv, DeviceInv
  <1>4. t \in Nat /\ t > db[d].clock
    BY TickFact
  <1>5. /\ p \in Payload /\ Plain(e, p)
        /\ p.ref # Null => p.ref \in Entities /\ db[d].rows[p.ref] # Null
    <2>1. CASE p \in Choices(db[d], e)
      BY <1>3, <2>1, ChoiceFact
    <2>2. ASSUME NEW q \in Choices(db[d], e), p = [q EXCEPT !.name = db[d].rows[e].name]
          PROVE  /\ p \in Payload /\ Plain(e, p)
                 /\ p.ref # Null => p.ref \in Entities /\ db[d].rows[p.ref] # Null
      <3>1. db[d].rows[e] # Null
        BY <1>1
      <3>2. QED
        BY <1>3, <2>2, <3>1, RenamedFact
    <2>3. QED
      BY <2>1, <2>2
  <1>6. /\ Coherent(Upserted(db[d], d, e, p, t))
        /\ db[d].outbox \subseteq Upserted(db[d], d, e, p, t).outbox
        /\ \E M : Mints(db[d], Upserted(db[d], d, e, p, t), d, M)
    BY <1>3, <1>4, <1>5, UpsertedFact
  <1>7. QED
    BY <1>1, <1>2, <1>6 DEF Edited

LEMMA LocalDeleteEdits == ASSUME SyncInv, NEW d \in Devices, LocalDelete(d) PROVE Edited(d)
  <1>1. PICK e \in Entities :
           /\ Free(d) /\ Spend("edits")
           /\ \E t \in Ticks(d, 1 + Cardinality(Members(db[d], e))) :
                 db' = [db EXCEPT ![d] = Deleted(db[d], d, e, t)]
           /\ UNCHANGED <<tx, uploads, cursors, active, run, log, file>>
    BY DEF LocalDelete
  <1>2. PICK t \in Ticks(d, 1 + Cardinality(Members(db[d], e))) :
           db' = [db EXCEPT ![d] = Deleted(db[d], d, e, t)]
    BY <1>1
  <1>3. db[d] \in Database /\ Coherent(db[d])
    BY TypeFact DEF SyncInv, DeviceInv
  <1>4. t \in Nat /\ t > db[d].clock
    BY TickFact
  <1>5. /\ Coherent(Deleted(db[d], d, e, t))
        /\ db[d].outbox \subseteq Deleted(db[d], d, e, t).outbox
        /\ \E M : Mints(db[d], Deleted(db[d], d, e, t), d, M)
    BY <1>3, <1>4, DeletedFact
  <1>6. QED
    BY <1>1, <1>2, <1>5 DEF Edited

LEMMA JoinKept == ASSUME SyncInv, NEW d \in Devices, Join(d) PROVE SyncInv'
  <1>1. PICK v \in Vaults :
           /\ Free(d) /\ run[d].phase \in {"locked", "idle"}
           /\ \/ active[d] = v /\ UNCHANGED <<db, active>>
              \/ /\ active[d] # v
                 /\ \E t \in RebuildTicks(d) :
                      db' = [db EXCEPT ![d] = IF \E e \in Entities : Known(db[d], e)
                                              THEN Rebuilt(db[d], d, t) ELSE db[d]]
                 /\ active' = [active EXCEPT ![d] = v]
           /\ run' = [run EXCEPT ![d] = Run("idle")]
           /\ UNCHANGED <<tx, uploads, cursors, log, file, spent>>
    BY DEF Join
  <1>2. TypeOK /\ DeviceInv(d) /\ Minted(Everything, db)
    BY DEF SyncInv
  <1>3. db[d] \in Database /\ Coherent(db[d]) /\ run \in [Devices -> Round]
    BY <1>2, TypeFact DEF DeviceInv
  <1>4. Run("idle") \in Round /\ Run("idle").phase = "idle"
    BY RunFact DEF Phases
  <1>5. run'[d].phase = "idle" /\ run' \in [Devices -> Round] /\ \A x \in Devices \ {d} : run'[x] = run[x]
    BY <1>1, <1>3, <1>4
  <1>6. Everything \subseteq Change /\ Knows(db[d], d, Everything)
    BY <1>2 DEF Everything, DeviceInv
  <1>7. ASSUME NEW n, NEW M, Mints(db[d], n, d, M), Coherent(n), db' = [db EXCEPT ![d] = n],
               active' \in [Devices -> Vaults \cup {Null}], active'[d] \in Vaults,
               \A x \in Devices \ {d} : active'[x] = active[x],
               Kept(n, d, n.outbox \cup Logged(log, active'[d]))
        PROVE  SyncInv'
    <2>1. TypeOK'
      <3>1. n \in Database
        BY <1>7 DEF Mints
      <3>2. QED
        BY <1>1, <1>2, <1>5, <1>7, <3>1 DEF TypeOK, Round
    <2>2. db'[d] = n /\ \A x \in Devices \ {d} : db'[x] = db[x]
      BY <1>2, <1>7 DEF TypeOK
    <2>3. Apart(d)
      BY <1>1, <1>5, <1>7, <2>2 DEF Apart
    <2>4. Come(Everything, Everything', M) /\ Grown(M, db, db', d)
      BY <1>1, <1>7, MintingComes DEF Phases
    <2>5. Knows(n, d, Everything')
      BY <1>2, <1>3, <1>6, <1>7, <2>4, KnowsMinted
    <2>6. DeviceInv(d)'
      BY <1>1, <1>2, <1>5, <1>7, <2>2, <2>5 DEF DeviceInv, Free, Reached
    <2>7. QED
      BY <2>1, <2>3, <2>4, <2>6, StepKept
  <1>8. Mints(db[d], db[d], d, {})
    BY <1>3, DatabaseFields DEF Mints
  <1>9. CASE active[d] = v /\ UNCHANGED <<db, active>>
    <2>1. Kept(db[d], d, db[d].outbox \cup Logged(log, active'[d]))
      BY <1>2, <1>9, SyncAssumption DEF DeviceInv, Reached
    <2>2. db' = [db EXCEPT ![d] = db[d]]
      BY <1>2, <1>9 DEF TypeOK
    <2>3. QED
      BY <1>2, <1>3, <1>7, <1>8, <1>9, <2>1, <2>2 DEF TypeOK
  <1>10. ASSUME NEW t \in RebuildTicks(d), active' = [active EXCEPT ![d] = v],
                db' = [db EXCEPT ![d] = IF \E e \in Entities : Known(db[d], e)
                                        THEN Rebuilt(db[d], d, t) ELSE db[d]]
         PROVE  SyncInv'
    <2>1. active' \in [Devices -> Vaults \cup {Null}] /\ active'[d] = v
          /\ \A x \in Devices \ {d} : active'[x] = active[x]
      BY <1>2, <1>10 DEF TypeOK
    <2>2. t \in Nat /\ t > db[d].clock
      <3>1. db[d].clock \in Nat
        BY <1>3, DatabaseFields
      <3>2. QED
        BY <3>1, TickFact DEF RebuildTicks
    <2>3. CASE \E e \in Entities : Known(db[d], e)
      <3> DEFINE n == Rebuilt(db[d], d, t)
      <3>1. Coherent(n) /\ \E M : /\ Mints(db[d], n, d, M)
                                  /\ \A e \in Entities : Known(db[d], e) => \E c \in M : c.entity = e
        BY <1>3, <2>2, RebuiltFact
      <3> HIDE DEF n
      <3>2. PICK M : /\ Mints(db[d], n, d, M)
                     /\ \A e \in Entities : Known(db[d], e) => \E c \in M : c.entity = e
        BY <3>1
      <3>3. Kept(n, d, n.outbox \cup Logged(log, v))
        BY <1>3, <3>2, KeptRebuilt
      <3>4. db' = [db EXCEPT ![d] = n]
        BY <1>10, <2>3 DEF n
      <3>5. QED
        BY <1>7, <2>1, <3>1, <3>2, <3>3, <3>4
    <2>4. CASE ~\E e \in Entities : Known(db[d], e)
      <3>1. Kept(db[d], d, db[d].outbox \cup Logged(log, v))
        BY <2>4, DeviceFact DEF Kept, Known, NoRevision
      <3>2. db' = [db EXCEPT ![d] = db[d]]
        BY <1>10, <2>4
      <3>3. QED
        BY <1>3, <1>7, <1>8, <2>1, <3>1, <3>2
    <2>5. QED
      BY <2>3, <2>4
  <1>11. QED
    BY <1>1, <1>9, <1>10

\* A step that moves what is held: nothing is minted and no clock goes back.
LEMMA MoveKept ==
    ASSUME SyncInv, NEW d \in Devices, TypeOK', Apart(d), DeviceInv(d)',
           db'[d].clock >= db[d].clock, Come(Everything, Everything', {})
    PROVE  SyncInv'
  <1>1. Grown({}, db, db', d)
    <2>1. db \in [Devices -> Database] /\ db' \in [Devices -> Database]
      BY DEF SyncInv, TypeOK
    <2>2. \A x \in Devices : db'[x].clock >= db[x].clock
      BY <2>1, DatabaseFields DEF Apart
    <2>3. QED
      BY <2>1, <2>2 DEF Grown
  <1>2. QED
    BY <1>1, StepKept

\* No database changes: what devices know and keep stays.
LEMMA RestKept ==
    ASSUME SyncInv, NEW d \in Devices, UNCHANGED <<db, active>>, TypeOK', Apart(d),
           Come(Everything, Everything', {}),
           run'[d].phase # "locked" => active[d] \in Vaults,
           tx'[d].source = "vault" => run'[d].phase = "reply",
           tx'[d].source = "none" => tx'[d].todo = {},
           run'[d].phase \in {"reply", "committed"} =>
              uploads'[d][active[d]] \subseteq Logged(log', active[d]),
           \/ tx'[d] = tx[d]
           \/ tx'[d] = NoTx
           \/ tx'[d].db = db[d]
           \/ /\ tx[d].source # "none"
              /\ \E c \in Everything : Takes(tx[d].db, tx'[d].db, c)
    PROVE  SyncInv'
  <1>1. TypeOK /\ DeviceInv(d) /\ Everything \subseteq Change /\ Minted(Everything, db)
    BY DEF SyncInv, Everything
  <1>2. /\ db[d] \in Database /\ tx[d].db \in Database /\ db[d].clock \in Nat /\ tx[d].db.clock \in Nat
    BY <1>1, TypeFact, DatabaseFields
  <1>3. active[d] # Null => Logged(log, active[d]) \subseteq Logged(log', active[d])
    BY <1>1 DEF Apart, TypeOK
  <1> DEFINE A == Logged(log, active[d])
             B == Logged(log', active[d])
             X == Everything
             Y == Everything'
  <1> HIDE DEF A, B, X, Y
  <1>4. ASSUME NEW s \in Database, Knows(s, d, X) PROVE Knows(s, d, Y)
    BY <1>1, <1>4, KnowsKept DEF Follows, X, Y
  <1>5. ASSUME NEW s, active[d] # Null, Kept(s, d, s.outbox \cup A) PROVE Kept(s, d, s.outbox \cup B)
    BY <1>3, <1>5, KeptGrows DEF A, B
  <1>6. Coherent(db[d]) /\ Knows(db[d], d, X) /\ (active[d] # Null => Kept(db[d], d, db[d].outbox \cup A))
    BY <1>1 DEF DeviceInv, Reached, A, X
  <1>7. Knows(db[d], d, Y) /\ (active[d] # Null => Kept(db[d], d, db[d].outbox \cup B))
    BY <1>2, <1>4, <1>5, <1>6
  <1> DEFINE Good(s) == /\ s.clock >= db[d].clock /\ Knows(s, d, Y)
                        /\ active[d] # Null => Kept(s, d, s.outbox \cup B)
  <1>8. Good(db[d])
    BY <1>2, <1>7
  <1>9. Coherent(tx[d].db) /\ (tx[d].source # "none" =>
           tx[d].db.clock >= db[d].clock /\ Knows(tx[d].db, d, X)
             /\ (active[d] # Null => Kept(tx[d].db, d, tx[d].db.outbox \cup A)))
    BY <1>1 DEF DeviceInv, Reached, Free, A, X
  <1>10. tx[d].source # "none" => Good(tx[d].db)
    BY <1>2, <1>4, <1>5, <1>9
  <1>11. ASSUME tx[d].source # "none", NEW c \in Everything, Takes(tx[d].db, tx'[d].db, c)
         PROVE  Good(tx'[d].db) /\ Coherent(tx'[d].db)
    <2> DEFINE s == tx[d].db
               n == tx'[d].db
    <2>1. n \in Database /\ n.clock >= s.clock /\ Coherent(n)
      BY <1>11 DEF Takes
    <2>2. c.rev \in Revision /\ c.entity \in Entities
      BY <1>1, ChangeFields
    <2>3. Follows(n, s)
      BY <1>11 DEF Takes, Follows
    <2>4. Knows(n, d, Y)
      BY <1>1, <1>2, <1>9, <1>11, <2>1, <2>3, KnowsKept DEF X, Y
    <2>5. active[d] # Null => Kept(n, d, n.outbox \cup A)
      BY <1>9, <1>11, KeptTaken DEF X
    <2>6. n.clock >= db[d].clock
      <3>1. n.clock \in Nat
        BY <2>1, DatabaseFields
      <3>2. QED
        BY <1>2, <1>9, <1>11, <2>1, <3>1
    <2>7. QED
      BY <1>5, <2>1, <2>4, <2>5, <2>6
  <1>12. (tx'[d].source # "none" => Good(tx'[d].db)) /\ Coherent(tx'[d].db)
    <2>1. CASE tx'[d] = tx[d]
      BY <1>9, <1>10, <2>1
    <2>2. CASE tx'[d] = NoTx
      BY <2>2, NoTxFact, EmptyFact
    <2>3. CASE tx'[d].db = db[d]
      BY <1>6, <1>8, <2>3
    <2>4. CASE tx[d].source # "none" /\ \E c \in Everything : Takes(tx[d].db, tx'[d].db, c)
      BY <1>11, <2>4
    <2>5. QED
      BY <2>1, <2>2, <2>3, <2>4
  <1>13. DeviceInv(d)'
    BY <1>6, <1>7, <1>12 DEF DeviceInv, Reached, Free, B, Y
  <1>14. db'[d].clock >= db[d].clock
    BY <1>2
  <1>15. QED
    BY <1>13, <1>14, MoveKept

LEMMA SubsetComes ==
    ASSUME Everything' \subseteq Everything
    PROVE  Come(Everything, Everything', {})
  BY SameIsFrom DEF Come

\* A sync that only changes its phase.
LEMMA PhaseKept ==
    ASSUME SyncInv, NEW d \in Devices, NEW p \in {"locked", "idle"},
           run' = [run EXCEPT ![d] = Run(p)], run[d].phase # "locked" \/ p = "locked",
           \/ tx[d].source # "vault" /\ tx' = tx
           \/ tx' = [tx EXCEPT ![d] = NoTx],
           spent' \in [edits : Nat, breaks : Nat, files : Nat],
           UNCHANGED <<db, uploads, cursors, active, log, file>>
    PROVE  SyncInv'
  <1>1. TypeOK /\ DeviceInv(d)
    BY DEF SyncInv
  <1>2. run \in [Devices -> Round] /\ tx \in [Devices -> Transaction]
    BY <1>1, TypeFact
  <1>3. Run(p) \in Round /\ Run(p).phase = p /\ Run(p).batch = {}
    BY RunFact DEF Phases
  <1>4. /\ run' \in [Devices -> Round] /\ run'[d].phase = p /\ run'[d].batch = {}
        /\ \A x \in Devices \ {d} : run'[x] = run[x]
    BY <1>2, <1>3
  <1>5. /\ tx' \in [Devices -> Transaction] /\ tx'[d].source # "vault" /\ (tx'[d] = tx[d] \/ tx'[d] = NoTx)
        /\ (tx'[d].source = "none" => tx'[d].todo = {})
        /\ \A x \in Devices \ {d} : tx'[x] = tx[x]
    BY <1>1, <1>2, NoTxFact DEF DeviceInv, Free
  <1>6. TypeOK'
    BY <1>1, <1>4, <1>5 DEF TypeOK, Transaction, Round
  <1>7. Apart(d)
    BY <1>4, <1>5 DEF Apart
  <1>8. Everything' \subseteq Everything
    <2> SUFFICES ASSUME NEW o \in Everything' PROVE o \in Everything
      OBVIOUS
    <2>1. InReplies(o, run') => InReplies(o, run)
      BY <1>4 DEF InReplies
    <2>2. InTransactions(o, tx') => InTransactions(o, tx)
      BY <1>5, NoTxFact DEF InTransactions
    <2>3. QED
      BY <2>1, <2>2 DEF Everything
  <1>9. run'[d].phase # "locked" => active[d] \in Vaults
    BY <1>1, <1>4 DEF DeviceInv
  <1>10. QED
    BY <1>4, <1>5, <1>6, <1>7, <1>8, <1>9, SubsetComes, RestKept

LEMMA LockKept == ASSUME SyncInv, NEW d \in Devices, Lock(d) PROVE SyncInv'
  <1>1. spent' \in [edits : Nat, breaks : Nat, files : Nat]
    BY SpendFact DEF Lock, SyncInv
  <1>2. tx[d].source # "vault" /\ tx' = tx
    <2>1. tx[d].source = "vault" => run[d].phase = "reply"
      BY DEF SyncInv, DeviceInv
    <2>2. tx' = tx /\ run[d].phase = "idle"
      BY DEF Lock
    <2>3. QED
      BY <2>1, <2>2
  <1>3. QED
    BY <1>1, <1>2, PhaseKept DEF Lock

LEMMA NetworkFailsKept == ASSUME SyncInv, NEW d \in Devices, NetworkFails(d) PROVE SyncInv'
  <1>1. spent' \in [edits : Nat, breaks : Nat, files : Nat]
    BY SpendFact DEF NetworkFails, SyncInv
  <1>2. QED
    BY <1>1, PhaseKept DEF NetworkFails, Free

LEMMA CrashKept == ASSUME SyncInv, NEW d \in Devices, Crash(d) PROVE SyncInv'
  <1>1. spent' \in [edits : Nat, breaks : Nat, files : Nat]
    BY SpendFact DEF Crash, SyncInv
  <1>2. QED
    BY <1>1, PhaseKept DEF Crash

LEMMA PrepareUploadKept == ASSUME SyncInv, NEW d \in Devices, PrepareUpload(d) PROVE SyncInv'
  <1>1. TypeOK /\ DeviceInv(d)
    BY DEF SyncInv
  <1>2. run \in [Devices -> Round] /\ db[d] \in Database
    BY <1>1, TypeFact
  <1>3. Run("exchange") \in Round /\ Run("exchange").phase = "exchange" /\ Run("exchange").batch = {}
    BY RunFact DEF Phases
  <1>4. /\ run' \in [Devices -> Round] /\ run'[d].phase = "exchange" /\ run'[d].batch = {}
        /\ \A x \in Devices \ {d} : run'[x] = run[x]
    BY <1>2, <1>3 DEF PrepareUpload
  <1>5. active[d] \in Vaults /\ tx[d].source = "none" /\ tx[d].todo = {}
        /\ UNCHANGED <<db, tx, cursors, active, log, file, spent>>
    BY <1>1 DEF PrepareUpload, DeviceInv, Free
  <1> DEFINE U == Oldest(db[d].outbox, BatchLimit)
  <1>6. U \subseteq db[d].outbox /\ db[d].outbox \subseteq Change
    BY <1>2, DatabaseFields DEF Oldest
  <1> HIDE DEF U
  <1>7. uploads' = uploads \/ uploads' = [uploads EXCEPT ![d][active[d]] = U]
    BY DEF PrepareUpload, U
  <1>8. /\ uploads' \in [Devices -> [Vaults -> SUBSET Change]]
        /\ \A x \in Devices \ {d} : uploads'[x] = uploads[x]
        /\ \A v \in Vaults : uploads'[d][v] \subseteq uploads[d][v] \cup U
    <2>1. uploads \in [Devices -> [Vaults -> SUBSET Change]]
      BY <1>1 DEF TypeOK
    <2>2. CASE uploads' = uploads
      BY <2>1, <2>2
    <2>3. CASE uploads' = [uploads EXCEPT ![d][active[d]] = U]
      BY <1>5, <1>6, <2>1, <2>3
    <2>4. QED
      BY <1>7, <2>2, <2>3
  <1>9. TypeOK'
    BY <1>1, <1>4, <1>5, <1>8 DEF TypeOK, Round
  <1>10. Apart(d)
    BY <1>4, <1>5, <1>8 DEF Apart
  <1>11. Everything' \subseteq Everything
    <2> SUFFICES ASSUME NEW o \in Everything' PROVE o \in Everything
      OBVIOUS
    <2>1. InReplies(o, run') => InReplies(o, run)
      BY <1>4 DEF InReplies
    <2>2. InUploads(o, uploads') => InUploads(o, uploads) \/ InDatabases(o, db)
      BY <1>6, <1>8 DEF InUploads, InDatabases, Facts
    <2>3. QED
      BY <1>5, <2>1, <2>2 DEF Everything
  <1>12. QED
    BY <1>4, <1>5, <1>9, <1>10, <1>11, SubsetComes, RestKept

LEMMA ExchangeKept == ASSUME SyncInv, NEW d \in Devices, Exchange(d) PROVE SyncInv'
  <1> DEFINE v == active[d]
             up == uploads[d][v]
             envelopes == IF up = {} \/ \E i \in DOMAIN log[v] : log[v][i] = up
                          THEN log[v] ELSE Append(log[v], up)
             batch == UNION {envelopes[i] : i \in (cursors[d][v] + 1)..Len(envelopes)}
             reply == [phase |-> "reply", cursor |-> Len(envelopes), batch |-> batch]
  <1>1. /\ run[d].phase = "exchange" /\ log' = [log EXCEPT ![v] = envelopes]
        /\ run' = [run EXCEPT ![d] = reply]
        /\ UNCHANGED <<db, tx, uploads, cursors, active, file, spent>>
    BY DEF Exchange
  <1>2. TypeOK /\ DeviceInv(d)
    BY DEF SyncInv
  <1>3. /\ run \in [Devices -> Round] /\ log \in [Vaults -> Seq(SUBSET Change)]
        /\ uploads \in [Devices -> [Vaults -> SUBSET Change]] /\ cursors \in [Devices -> [Vaults -> Nat]]
    BY <1>2, TypeFact DEF TypeOK
  <1>4. v \in Vaults
    BY <1>1, <1>2 DEF DeviceInv
  <1>5. /\ envelopes \in Seq(SUBSET Change)
        /\ UNION {envelopes[i] : i \in DOMAIN envelopes} \subseteq Logged(log, v) \cup up
        /\ Logged(log, v) \cup up \subseteq UNION {envelopes[i] : i \in DOMAIN envelopes}
    <2>1. log[v] \in Seq(SUBSET Change) /\ up \in SUBSET Change
      BY <1>3, <1>4
    <2>2. CASE up = {} \/ \E i \in DOMAIN log[v] : log[v][i] = up
      BY <2>1, <2>2 DEF Logged
    <2>3. CASE ~(up = {} \/ \E i \in DOMAIN log[v] : log[v][i] = up)
      <3>1. envelopes = Append(log[v], up)
        BY <2>3
      <3>2. /\ DOMAIN envelopes = 1..(Len(log[v]) + 1) /\ DOMAIN log[v] = 1..Len(log[v])
            /\ envelopes[Len(log[v]) + 1] = up /\ Len(log[v]) \in Nat
            /\ \A i \in 1..Len(log[v]) : envelopes[i] = log[v][i]
            /\ envelopes \in Seq(SUBSET Change)
        BY <2>1, <3>1
      <3> HIDE DEF envelopes, up
      <3>3. \A i \in DOMAIN envelopes : i \in DOMAIN log[v] \/ i = Len(log[v]) + 1
        BY <3>2
      <3>4. \A i \in DOMAIN log[v] : i \in DOMAIN envelopes
        BY <3>2
      <3>5. Len(log[v]) + 1 \in DOMAIN envelopes
        BY <3>2
      <3>6. UNION {envelopes[i] : i \in DOMAIN envelopes} \subseteq Logged(log, v) \cup up
        BY <3>2, <3>3 DEF Logged
      <3>7. Logged(log, v) \subseteq UNION {envelopes[i] : i \in DOMAIN envelopes}
        BY <3>2, <3>4 DEF Logged
      <3>8. up \subseteq UNION {envelopes[i] : i \in DOMAIN envelopes}
        BY <3>2, <3>5
      <3>9. QED
        BY <3>2, <3>6, <3>7, <3>8
    <2>4. QED
      BY <2>2, <2>3
  <1>6. batch \subseteq UNION {envelopes[i] : i \in DOMAIN envelopes} /\ batch \subseteq Change
        /\ Len(envelopes) \in Nat
    <2> HIDE DEF envelopes
    <2>1. Len(envelopes) \in Nat /\ DOMAIN envelopes = 1..Len(envelopes) /\ cursors[d][v] \in Nat
          /\ \A i \in DOMAIN envelopes : envelopes[i] \subseteq Change
      BY <1>3, <1>4, <1>5
    <2>2. \A i \in (cursors[d][v] + 1)..Len(envelopes) : i \in DOMAIN envelopes
      BY <2>1
    <2>3. QED
      BY <2>1, <2>2
  <1> HIDE DEF envelopes, batch
  <1>7. reply \in Round /\ reply.phase = "reply" /\ reply.batch = batch
    BY <1>6 DEF Round, Phases
  <1> HIDE DEF reply
  <1>8. /\ run' \in [Devices -> Round] /\ run'[d].phase = "reply" /\ run'[d].batch = batch
        /\ \A x \in Devices \ {d} : run'[x] = run[x]
    BY <1>1, <1>3, <1>7
  <1>9. /\ log' \in [Vaults -> Seq(SUBSET Change)] /\ log'[v] = envelopes
        /\ \A w \in Vaults \ {v} : log'[w] = log[w]
    BY <1>1, <1>3, <1>4, <1>5
  <1>10. /\ Logged(log', v) = Logged(log, v) \cup up
         /\ \A w \in Vaults \ {v} : Logged(log', w) = Logged(log, w)
    <2>1. Logged(log', v) = UNION {envelopes[i] : i \in DOMAIN envelopes}
      BY <1>9 DEF Logged
    <2>2. \A w \in Vaults \ {v} : Logged(log', w) = Logged(log, w)
      BY <1>9 DEF Logged
    <2>3. QED
      BY <1>5, <2>1, <2>2
  <1>11. TypeOK'
    BY <1>1, <1>2, <1>8, <1>9 DEF TypeOK, Round
  <1>12. Apart(d)
    BY <1>1, <1>8, <1>10 DEF Apart
  <1>13. Everything' \subseteq Everything
    <2> SUFFICES ASSUME NEW o \in Everything' PROVE o \in Everything
      OBVIOUS
    <2>1. InLogs(o, log') => InLogs(o, log) \/ InUploads(o, uploads)
      BY <1>4, <1>10 DEF InLogs, InUploads
    <2>2. InReplies(o, run') => InReplies(o, run) \/ InLogs(o, log) \/ InUploads(o, uploads)
      <3>1. batch \subseteq Logged(log, v) \cup up
        BY <1>5, <1>6
      <3>2. QED
        BY <1>4, <1>8, <3>1 DEF InReplies, InLogs, InUploads
    <2>3. QED
      BY <1>1, <2>1, <2>2 DEF Everything
  <1>14. active[d] \in Vaults /\ (tx'[d].source = "none" => tx'[d].todo = {})
    BY <1>1, <1>2, <1>4 DEF DeviceInv, Free
  <1>15. uploads'[d][active[d]] \subseteq Logged(log', active[d])
    BY <1>1, <1>10
  <1>16. QED
    BY <1>1, <1>8, <1>11, <1>12, <1>13, <1>14, <1>15, SubsetComes, RestKept

\* A transaction opens on the committed database.
LEMMA BeginKept ==
    ASSUME SyncInv, NEW d \in Devices, NEW from \in {"vault", "file"}, NEW todo \in SUBSET Change,
           tx' = [tx EXCEPT ![d] = [source |-> from, db |-> db[d], todo |-> todo]],
           from = "vault" => run[d].phase = "reply", todo \subseteq run[d].batch \cup file,
           UNCHANGED <<db, uploads, cursors, active, run, log, file, spent>>
    PROVE  SyncInv'
  <1>1. TypeOK /\ DeviceInv(d) /\ db[d] \in Database /\ tx \in [Devices -> Transaction]
    BY TypeFact DEF SyncInv
  <1> DEFINE q == [source |-> from, db |-> db[d], todo |-> todo]
  <1>2. q \in Transaction /\ q.source = from /\ q.db = db[d] /\ q.todo = todo
    BY <1>1 DEF Transaction
  <1> HIDE DEF q
  <1>3. /\ tx' \in [Devices -> Transaction] /\ tx'[d] = q
        /\ \A x \in Devices \ {d} : tx'[x] = tx[x]
    <2>1. tx' = [tx EXCEPT ![d] = q]
      BY DEF q
    <2>2. QED
      BY <1>1, <1>2, <2>1
  <1>4. TypeOK'
    BY <1>1, <1>3 DEF TypeOK, Transaction
  <1>5. Apart(d)
    BY <1>3 DEF Apart
  <1>6. Everything' \subseteq Everything
    <2> SUFFICES ASSUME NEW o \in Everything' PROVE o \in Everything
      OBVIOUS
    <2>1. InTransactions(o, tx') =>
             InTransactions(o, tx) \/ InDatabases(o, db) \/ InReplies(o, run) \/ o \in file
      BY <1>2, <1>3 DEF InTransactions, InDatabases, InReplies
    <2>2. QED
      BY <2>1 DEF Everything
  <1>7. /\ run'[d].phase # "locked" => active[d] \in Vaults
        /\ run'[d].phase \in {"reply", "committed"} =>
              uploads'[d][active[d]] \subseteq Logged(log', active[d])
    BY <1>1 DEF DeviceInv
  <1>8. (tx'[d].source = "vault" => run'[d].phase = "reply") /\ tx'[d].db = db[d]
        /\ tx'[d].source # "none"
    BY <1>2, <1>3
  <1>9. QED
    BY <1>4, <1>5, <1>6, <1>7, <1>8, SubsetComes, RestKept

LEMMA BeginApplyKept == ASSUME SyncInv, NEW d \in Devices, BeginApply(d) PROVE SyncInv'
  <1>1. run[d].batch \in SUBSET Change
    BY TypeFact DEF SyncInv
  <1>2. QED
    BY <1>1, BeginKept DEF BeginApply

LEMMA BeginImportKept == ASSUME SyncInv, NEW d \in Devices, BeginImport(d) PROVE SyncInv'
  <1>1. file \in SUBSET Change
    BY DEF SyncInv, TypeOK
  <1>2. QED
    BY <1>1, BeginKept DEF BeginImport

LEMMA RollBackKept == ASSUME SyncInv, NEW d \in Devices, RollBack(d) PROVE SyncInv'
  <1>1. TypeOK /\ DeviceInv(d)
    BY DEF SyncInv
  <1>2. /\ tx' = [tx EXCEPT ![d] = NoTx]
        /\ UNCHANGED <<db, uploads, cursors, active, log, file, spent>>
    BY DEF RollBack
  <1>3. spent' \in [edits : Nat, breaks : Nat, files : Nat]
    BY <1>1, <1>2 DEF TypeOK
  <1>4. CASE tx[d].source = "vault"
    <2>1. run' = [run EXCEPT ![d] = Run("idle")] /\ run[d].phase # "locked"
      BY <1>1, <1>4 DEF RollBack, DeviceInv
    <2>2. QED
      BY <1>2, <1>3, <2>1, PhaseKept
  <1>5. CASE tx[d].source # "vault"
    <2>1. run' = run
      BY <1>5 DEF RollBack
    <2>2. tx' \in [Devices -> Transaction] /\ tx'[d] = NoTx /\ \A x \in Devices \ {d} : tx'[x] = tx[x]
      BY <1>1, <1>2, TypeFact, NoTxFact
    <2>3. TypeOK'
      BY <1>1, <1>2, <2>1, <2>2 DEF TypeOK, Transaction
    <2>4. Apart(d)
      BY <1>2, <2>1, <2>2 DEF Apart
    <2>5. Everything' \subseteq Everything
      <3> SUFFICES ASSUME NEW o \in Everything' PROVE o \in Everything
        OBVIOUS
      <3>1. InTransactions(o, tx') => InTransactions(o, tx)
        BY <2>2, NoTxFact DEF InTransactions
      <3>2. QED
        BY <1>2, <2>1, <3>1 DEF Everything
    <2>6. /\ run'[d].phase # "locked" => active[d] \in Vaults
          /\ run'[d].phase \in {"reply", "committed"} =>
                uploads'[d][active[d]] \subseteq Logged(log', active[d])
      BY <1>1, <1>2, <2>1 DEF DeviceInv
    <2>7. tx'[d].source # "vault" /\ tx'[d].todo = {}
      BY <2>2, NoTxFact
    <2>8. QED
      BY <1>2, <2>2, <2>3, <2>4, <2>5, <2>6, <2>7, SubsetComes, RestKept
  <1>6. QED
    BY <1>4, <1>5

LEMMA ApplyChangeKept == ASSUME SyncInv, NEW d \in Devices, ApplyChange(d) PROVE SyncInv'
  <1>1. TypeOK /\ DeviceInv(d) /\ Minted(Everything, db)
    BY DEF SyncInv
  <1>2. PICK c \in tx[d].todo :
           /\ tx' = [tx EXCEPT ![d].db = Applied(tx[d].db, c), ![d].todo = tx[d].todo \ {c}]
           /\ UNCHANGED <<db, uploads, cursors, active, run, log, file, spent>>
    BY DEF ApplyChange, First
  <1>3. c \in Everything
    BY <1>1, <1>2, TypeFact DEF Everything, InTransactions
  <1>4. c \in Change /\ Plain(c.entity, c.payload)
    BY <1>1, <1>3 DEF Everything, Minted
  <1>5. tx[d].db \in Database /\ Coherent(tx[d].db) /\ tx \in [Devices -> Transaction]
    BY <1>1, TypeFact DEF DeviceInv
  <1> DEFINE s == tx[d].db
             n == Applied(s, c)
             left == tx[d].todo \ {c}
  <1>6. Takes(s, n, c)
    BY <1>4, <1>5, AppliedFact
  <1>7. tx' = [tx EXCEPT ![d].db = n, ![d].todo = left]
    BY <1>2
  <1>8. n \in Database /\ left \subseteq Change /\ left \subseteq tx[d].todo
    BY <1>1, <1>6, TypeFact DEF Takes
  <1> HIDE DEF n, left, s
  <1>9. /\ tx' \in [Devices -> Transaction] /\ tx'[d].db = n /\ tx'[d].todo = left
        /\ tx'[d].source = tx[d].source
        /\ \A x \in Devices \ {d} : tx'[x] = tx[x]
    BY <1>5, <1>7, <1>8 DEF Transaction
  <1>10. TypeOK'
    BY <1>1, <1>2, <1>9 DEF TypeOK, Transaction
  <1>11. Apart(d)
    BY <1>2, <1>9 DEF Apart
  <1>12. Come(Everything, Everything', {})
    <2> SUFFICES ASSUME NEW o \in Everything' PROVE \E k \in Everything : From(o, k)
      BY DEF Come
    <2>1. CASE InTransactions(o, tx')
      <3>1. CASE o \in Facts(n)
        <4>1. Facts(s) \subseteq Everything \cup {o2 \in Facts(s) : o2 \notin Change}
          BY DEF Everything, InTransactions, s
        <4>2. PICK k \in Facts(s) \cup {c} : From(o, k)
          BY <1>6, <3>1 DEF Takes, Facts
        <4>3. Facts(s) \subseteq Change
          BY <1>5, FactsAreChanges DEF s
        <4>4. QED
          BY <1>3, <4>1, <4>2, <4>3
      <3>2. CASE o \in left \/ InTransactions(o, tx)
        <4>1. InTransactions(o, tx)
          BY <1>8, <3>2 DEF InTransactions
        <4>2. QED
          BY <4>1, SameIsFrom DEF Everything
      <3>3. QED
        BY <1>9, <2>1, <3>1, <3>2 DEF InTransactions
    <2>2. CASE ~InTransactions(o, tx')
      BY <1>2, <2>2, SameIsFrom DEF Everything
    <2>3. QED
      BY <2>1, <2>2
  <1>13. /\ run'[d].phase # "locked" => active[d] \in Vaults
         /\ tx'[d].source = "vault" => run'[d].phase = "reply"
         /\ run'[d].phase \in {"reply", "committed"} =>
               uploads'[d][active[d]] \subseteq Logged(log', active[d])
    BY <1>1, <1>2, <1>9 DEF DeviceInv
  <1>14. tx[d].source # "none"
    BY <1>1, <1>2 DEF DeviceInv, Free
  <1>15. \E k \in Everything : Takes(tx[d].db, tx'[d].db, k)
    BY <1>3, <1>6, <1>9 DEF s
  <1>16. UNCHANGED <<db, active>> /\ (tx'[d].source = "none" => tx'[d].todo = {})
    BY <1>2, <1>9, <1>14
  <1>17. QED
    BY <1>10, <1>11, <1>12, <1>13, <1>14, <1>15, <1>16, RestKept

LEMMA ExportFileKept == ASSUME SyncInv, NEW d \in Devices, ExportFile(d) PROVE SyncInv'
  <1>1. TypeOK /\ DeviceInv(d) /\ db[d] \in Database /\ Coherent(db[d])
    BY TypeFact DEF SyncInv, DeviceInv
  <1>2. /\ file' = Snapshot(db[d]) /\ spent' \in [edits : Nat, breaks : Nat, files : Nat]
        /\ UNCHANGED <<db, tx, uploads, cursors, active, run, log>>
    BY <1>1, SpendFact DEF ExportFile
  <1>3. ASSUME NEW o \in Snapshot(db[d])
        PROVE  o \in Change /\ \E c \in Versions(db[d]) : From(o, c)
    <2>1. PICK e \in Entities :
             /\ Known(db[d], e)
             /\ o = [entity |-> e, rev |-> db[d].state[e].rev, payload |-> db[d].rows[e]]
      BY DEF Snapshot
    <2>2. o \in Change /\ o.entity = e /\ o.rev = db[d].state[e].rev /\ o.payload = db[d].rows[e]
      BY <1>1, <2>1, DatabaseFields, ChangeFact
    <2>3. PICK c \in Versions(db[d]) : /\ c.entity = e /\ c.rev = db[d].state[e].rev
                                       /\ c.payload = db[d].state[e].hash
                                       /\ c = [entity |-> e, rev |-> c.rev, payload |-> c.payload]
      BY <2>1, VersionFact
    <2>4. e \in Snippets => db[d].rows[e] = db[d].state[e].hash
      BY <1>1 DEF Coherent
    <2>5. QED
      <3>1. Weaker(db[d].rows[e], db[d].state[e].hash)
        BY <1>1, DatabaseFields DEF Coherent, Weaker
      <3>2. QED
        BY <2>1, <2>2, <2>3, <2>4, <3>1 DEF From
  <1>4. TypeOK'
    BY <1>1, <1>2, <1>3 DEF TypeOK
  <1>5. Apart(d)
    BY <1>2 DEF Apart
  <1>6. Come(Everything, Everything', {})
    <2> SUFFICES ASSUME NEW o \in Everything' PROVE \E c \in Everything : From(o, c)
      BY DEF Come
    <2>1. CASE o \in file'
      <3>1. PICK c \in Versions(db[d]) : From(o, c)
        BY <1>2, <1>3, <2>1
      <3>2. c \in Change
        BY <1>1, FactsAreChanges DEF Facts
      <3>3. c \in Everything
        BY <3>2 DEF Everything, InDatabases, Facts
      <3>4. QED
        BY <3>1, <3>3
    <2>2. CASE o \notin file'
      BY <1>2, <2>2, SameIsFrom DEF Everything
    <2>3. QED
      BY <2>1, <2>2
  <1>7. /\ run'[d].phase # "locked" => active[d] \in Vaults
        /\ tx'[d].source = "vault" => run'[d].phase = "reply"
        /\ tx'[d].source = "none" => tx'[d].todo = {}
        /\ run'[d].phase \in {"reply", "committed"} =>
              uploads'[d][active[d]] \subseteq Logged(log', active[d])
    BY <1>1, <1>2 DEF DeviceInv, Free
  <1>8. QED
    BY <1>2, <1>4, <1>5, <1>6, <1>7, RestKept

LEMMA CommitKept == ASSUME SyncInv, NEW d \in Devices, Commit(d) PROVE SyncInv'
  <1>1. TypeOK /\ DeviceInv(d)
    BY DEF SyncInv
  <1>2. /\ tx[d].source # "none" /\ tx' = [tx EXCEPT ![d] = NoTx]
        /\ db' = [db EXCEPT ![d] = tx[d].db]
        /\ UNCHANGED <<uploads, active, log, file, spent>>
    BY DEF Commit, Free
  <1>3. /\ db \in [Devices -> Database] /\ tx \in [Devices -> Transaction] /\ run \in [Devices -> Round]
        /\ tx[d].db \in Database
    BY <1>1, TypeFact DEF TypeOK
  <1>4. /\ db' \in [Devices -> Database] /\ db'[d] = tx[d].db
        /\ \A x \in Devices \ {d} : db'[x] = db[x]
    BY <1>2, <1>3
  <1>5. /\ tx' \in [Devices -> Transaction] /\ tx'[d] = NoTx /\ \A x \in Devices \ {d} : tx'[x] = tx[x]
    BY <1>2, <1>3, NoTxFact
  <1>6. /\ run' \in [Devices -> Round] /\ run'[d].batch \subseteq run[d].batch
        /\ \A x \in Devices \ {d} : run'[x] = run[x]
        /\ run'[d].phase # "locked" => active[d] \in Vaults
        /\ run'[d].phase \in {"reply", "committed"} => run[d].phase \in {"reply", "committed"}
        /\ cursors' \in [Devices -> [Vaults -> Nat]]
    <2>1. cursors \in [Devices -> [Vaults -> Nat]]
      BY <1>1 DEF TypeOK
    <2>2. CASE tx[d].source = "vault"
      <3>1. run[d].phase = "reply" /\ active[d] \in Vaults
        BY <1>1, <2>2 DEF DeviceInv
      <3>2. Run("committed") \in Round /\ Run("committed").phase = "committed" /\ Run("committed").batch = {}
        BY RunFact DEF Phases
      <3>3. /\ run' = [run EXCEPT ![d] = Run("committed")]
            /\ cursors' = [cursors EXCEPT ![d][active[d]] = run[d].cursor]
        BY <2>2 DEF Commit
      <3>4. run[d].cursor \in Nat
        BY <1>3 DEF Round
      <3>5. cursors' \in [Devices -> [Vaults -> Nat]]
        BY <2>1, <3>1, <3>3, <3>4
      <3>6. QED
        BY <1>3, <3>1, <3>2, <3>3, <3>5
    <2>3. CASE tx[d].source # "vault"
      <3>1. UNCHANGED <<cursors, run>>
        BY <2>3 DEF Commit
      <3>2. QED
        BY <1>1, <1>3, <2>1, <3>1 DEF DeviceInv
    <2>4. QED
      BY <2>2, <2>3
  <1>7. TypeOK'
    BY <1>1, <1>2, <1>4, <1>5, <1>6 DEF TypeOK, Transaction, Round
  <1>8. Apart(d)
    BY <1>2, <1>4, <1>5, <1>6 DEF Apart
  <1>9. Everything' \subseteq Everything
    <2> SUFFICES ASSUME NEW o \in Everything' PROVE o \in Everything
      OBVIOUS
    <2>1. InDatabases(o, db') => InDatabases(o, db) \/ InTransactions(o, tx)
      BY <1>4 DEF InDatabases, InTransactions
    <2>2. InTransactions(o, tx') => InTransactions(o, tx)
      BY <1>5, NoTxFact DEF InTransactions
    <2>3. InReplies(o, run') => InReplies(o, run)
      BY <1>6 DEF InReplies
    <2>4. QED
      BY <1>2, <2>1, <2>2, <2>3 DEF Everything
  <1>10. Come(Everything, Everything', {})
    BY <1>9, SubsetComes
  <1>11. /\ Coherent(tx[d].db) /\ tx[d].db.clock >= db[d].clock /\ Knows(tx[d].db, d, Everything)
         /\ active[d] # Null => Kept(tx[d].db, d, Reached(tx[d].db, d))
    BY <1>1, <1>2 DEF DeviceInv, Free
  <1>12. Knows(db'[d], d, Everything')
    <2>1. Everything \subseteq Change
      BY DEF Everything
    <2>2. QED
      BY <1>3, <1>4, <1>10, <1>11, <2>1, KnowsKept DEF Follows
  <1>13. active'[d] # Null => Kept(db'[d], d, Reached(db[d], d)')
    BY <1>2, <1>4, <1>11 DEF Reached
  <1>14. run'[d].phase \in {"reply", "committed"} =>
            uploads'[d][active'[d]] \subseteq Logged(log', active'[d])
    BY <1>1, <1>2, <1>6 DEF DeviceInv
  <1>15. Coherent(NoTx.db) /\ NoTx.source = "none" /\ NoTx.todo = {}
    BY NoTxFact, EmptyFact
  <1>16. DeviceInv(d)'
    BY <1>2, <1>4, <1>5, <1>6, <1>11, <1>12, <1>13, <1>14, <1>15 DEF DeviceInv, Free
  <1>17. QED
    BY <1>4, <1>7, <1>8, <1>10, <1>11, <1>16, MoveKept

LEMMA AcknowledgeKept == ASSUME SyncInv, NEW d \in Devices, Acknowledge(d) PROVE SyncInv'
  <1> DEFINE v == active[d]
             U == uploads[d][v]
             left == {o \in db[d].outbox : o.rev \notin {c.rev : c \in U}}
             p == IF left = {} THEN "idle" ELSE "draining"
             n == [db[d] EXCEPT !.outbox = left]
  <1>1. /\ Free(d) /\ run[d].phase = "committed"
        /\ db' = [db EXCEPT ![d].outbox = left]
        /\ uploads' = [uploads EXCEPT ![d][v] = {}]
        /\ run' = [run EXCEPT ![d] = Run(p)]
        /\ UNCHANGED <<tx, cursors, active, log, file, spent>>
    BY DEF Acknowledge
  <1>2. TypeOK /\ DeviceInv(d) /\ Minted(Everything, db) /\ Everything \subseteq Change
    BY DEF SyncInv, Everything
  <1>3. /\ db \in [Devices -> Database] /\ run \in [Devices -> Round] /\ db[d] \in Database
        /\ uploads \in [Devices -> [Vaults -> SUBSET Change]]
    BY <1>2, TypeFact DEF TypeOK
  <1>4. v \in Vaults /\ U \subseteq Logged(log, v)
    BY <1>1, <1>2 DEF DeviceInv
  <1>5. left \subseteq db[d].outbox /\ left \subseteq Change
    BY <1>3, DatabaseFields
  <1>6. /\ n \in Database /\ n.rows = db[d].rows /\ n.state = db[d].state
        /\ n.outbox = left /\ n.clock = db[d].clock
    <2> HIDE DEF left
    <2>1. QED
      BY <1>3, <1>5 DEF Database
  <1>7. db' = [db EXCEPT ![d] = n]
    BY <1>1, <1>3
  <1>8. p \in Phases /\ p \in {"idle", "draining"}
    BY DEF Phases
  <1> HIDE DEF n, left, p
  <1>9. /\ db' \in [Devices -> Database] /\ db'[d] = n /\ \A x \in Devices \ {d} : db'[x] = db[x]
    BY <1>3, <1>6, <1>7
  <1>10. /\ run' \in [Devices -> Round] /\ run'[d].phase = p /\ run'[d].batch = {}
         /\ \A x \in Devices \ {d} : run'[x] = run[x]
    BY <1>1, <1>3, <1>8, RunFact
  <1>11. /\ uploads' \in [Devices -> [Vaults -> SUBSET Change]]
         /\ \A x \in Devices, w \in Vaults : uploads'[x][w] \subseteq uploads[x][w]
         /\ \A x \in Devices \ {d} : uploads'[x] = uploads[x]
    BY <1>1, <1>3, <1>4
  <1>12. TypeOK'
    BY <1>1, <1>2, <1>9, <1>10, <1>11 DEF TypeOK, Round
  <1>13. Apart(d)
    BY <1>1, <1>9, <1>10, <1>11 DEF Apart
  <1>14. Facts(n) \subseteq Facts(db[d])
    BY <1>5, <1>6 DEF Facts, Versions, Known
  <1>15. Everything' \subseteq Everything
    <2> SUFFICES ASSUME NEW o \in Everything' PROVE o \in Everything
      OBVIOUS
    <2>1. InDatabases(o, db') => InDatabases(o, db)
      BY <1>9, <1>14 DEF InDatabases
    <2>2. InUploads(o, uploads') => InUploads(o, uploads)
      BY <1>11 DEF InUploads
    <2>3. InReplies(o, run') => InReplies(o, run)
      BY <1>10 DEF InReplies
    <2>4. QED
      BY <1>1, <2>1, <2>2, <2>3 DEF Everything
  <1>16. Come(Everything, Everything', {})
    BY <1>15, SubsetComes
  <1>17. Coherent(n)
    <2>1. Coherent(db[d])
      BY <1>2 DEF DeviceInv
    <2>2. \A e : Tombstoned(n, e) <=> Tombstoned(db[d], e)
      BY <1>6 DEF Tombstoned, Known
    <2>3. QED
      BY <1>6, <2>1, <2>2 DEF Coherent
  <1>18. Knows(n, d, Everything')
    <2>1. Follows(n, db[d])
      BY <1>6 DEF Follows
    <2>2. Knows(db[d], d, Everything)
      BY <1>2 DEF DeviceInv
    <2>3. QED
      BY <1>2, <1>3, <1>6, <1>16, <2>1, <2>2, KnowsKept
  <1>19. Kept(n, d, n.outbox \cup Logged(log, v))
    <2>1. Kept(db[d], d, db[d].outbox \cup Logged(log, v))
      BY <1>2, <1>4, SyncAssumption DEF DeviceInv, Reached
    <2>2. U \subseteq Change
      BY <1>3, <1>4
    <2>3. U \subseteq Everything
      BY <1>4, <2>2 DEF Everything, InUploads
    <2>4. db[d].outbox \subseteq Everything
      BY <1>3, DatabaseFields DEF Everything, InDatabases, Facts
    <2>5. n.outbox = {o \in db[d].outbox : o.rev \notin {c.rev : c \in U}}
      BY <1>6 DEF left
    <2> HIDE DEF U
    <2>6. QED
      BY <1>2, <1>4, <1>6, <2>1, <2>3, <2>4, <2>5, KeptAcknowledged
  <1>20. DeviceInv(d)'
    <2>1. Coherent(tx[d].db) /\ tx[d].source = "none" /\ tx[d].todo = {}
      BY <1>1, <1>2 DEF DeviceInv, Free
    <2>2. QED
      BY <1>1, <1>4, <1>8, <1>9, <1>10, <1>17, <1>18, <1>19, <2>1 DEF DeviceInv, Free, Reached
  <1>21. db'[d].clock >= db[d].clock
    BY <1>3, <1>6, <1>9, DatabaseFields
  <1>22. QED
    BY <1>12, <1>13, <1>16, <1>20, <1>21, MoveKept

-----------------------------------------------------------------------------
LEMMA SyncInit == Init => SyncInv
  <1> SUFFICES ASSUME Init PROVE SyncInv
    OBVIOUS
  <1>1. Run("locked") \in Round /\ Run("locked").phase = "locked" /\ Run("locked").batch = {}
    BY RunFact DEF Phases
  <1>2. <<>> \in Seq(SUBSET Change) /\ DOMAIN <<>> = {}
    OBVIOUS
  <1>3. [edits |-> 0, breaks |-> 0, files |-> 0] \in [edits : Nat, breaks : Nat, files : Nat]
    OBVIOUS
  <1>4. TypeOK
    <2>1. /\ db = [d \in Devices |-> EmptyDatabase] /\ tx = [d \in Devices |-> NoTx]
          /\ uploads = [d \in Devices |-> [v \in Vaults |-> {}]]
          /\ cursors = [d \in Devices |-> [v \in Vaults |-> 0]]
          /\ active = [d \in Devices |-> Null] /\ run = [d \in Devices |-> Run("locked")]
          /\ log = [v \in Vaults |-> <<>>] /\ file = {}
          /\ spent = [edits |-> 0, breaks |-> 0, files |-> 0]
      BY DEF Init
    <2>2. db \in [Devices -> Database] /\ tx \in [Devices -> Transaction]
      BY <2>1, EmptyFact, NoTxFact
    <2>3. run \in [Devices -> Round] /\ log \in [Vaults -> Seq(SUBSET Change)]
      BY <1>1, <1>2, <2>1
    <2>4. QED
      BY <1>3, <2>1, <2>2, <2>3 DEF TypeOK, Transaction, Round
  <1>5. Everything = {}
    <2> SUFFICES ASSUME NEW o \in Everything PROVE FALSE
      OBVIOUS
    <2>1. ~InDatabases(o, db) /\ ~InTransactions(o, tx)
      BY EmptyFact, NoTxFact DEF Init, InDatabases, InTransactions
    <2>2. ~InUploads(o, uploads) /\ ~InReplies(o, run) /\ o \notin file
      BY <1>1 DEF Init, InUploads, InReplies
    <2>3. ~InLogs(o, log)
      BY <1>2 DEF Init, InLogs, Logged
    <2>4. QED
      BY <2>1, <2>2, <2>3 DEF Everything
  <1>6. Minted(Everything, db)
    BY <1>5 DEF Minted
  <1>7. ASSUME NEW d \in Devices PROVE DeviceInv(d)
    <2>1. db[d] = EmptyDatabase /\ tx[d] = NoTx /\ active[d] = Null /\ run[d] = Run("locked")
      BY DEF Init
    <2>2. Knows(db[d], d, Everything)
      BY <1>5 DEF Knows
    <2>3. QED
      BY <1>1, <2>1, <2>2, EmptyFact, NoTxFact DEF DeviceInv, Free
  <1>8. QED
    BY <1>4, <1>6, <1>7 DEF SyncInv

LEMMA SyncNext == SyncInv /\ [Next]_vars => SyncInv'
  <1> SUFFICES ASSUME SyncInv, [Next]_vars PROVE SyncInv'
    OBVIOUS
  <1>1. CASE Next
    <2>1. PICK d \in Devices :
            \/ LocalAdd(d) \/ LocalUpdate(d) \/ LocalDelete(d)
            \/ Join(d) \/ Lock(d)
            \/ PrepareUpload(d) \/ Exchange(d) \/ BeginApply(d) \/ Acknowledge(d)
            \/ ApplyChange(d) \/ RollBack(d) \/ Commit(d)
            \/ ExportFile(d) \/ BeginImport(d)
            \/ NetworkFails(d) \/ Crash(d)
      BY <1>1 DEF Next
    <2>2. CASE LocalAdd(d) \/ LocalUpdate(d) \/ LocalDelete(d)
      BY <2>2, LocalAddEdits, LocalUpdateEdits, LocalDeleteEdits, EditKept
    <2>3. CASE Join(d) \/ Lock(d) \/ NetworkFails(d) \/ Crash(d)
      BY <2>3, JoinKept, LockKept, NetworkFailsKept, CrashKept
    <2>4. CASE PrepareUpload(d) \/ Exchange(d) \/ BeginApply(d) \/ Acknowledge(d)
      BY <2>4, PrepareUploadKept, ExchangeKept, BeginApplyKept, AcknowledgeKept
    <2>5. CASE ApplyChange(d) \/ RollBack(d) \/ Commit(d)
      BY <2>5, ApplyChangeKept, RollBackKept, CommitKept
    <2>6. CASE ExportFile(d) \/ BeginImport(d)
      BY <2>6, ExportFileKept, BeginImportKept
    <2>7. QED
      BY <2>1, <2>2, <2>3, <2>4, <2>5, <2>6
  <1>2. CASE UNCHANGED vars
    <2>1. UNCHANGED <<db, tx, uploads, cursors, active, run, log, file, spent>>
      BY <1>2 DEF vars
    <2>2. TypeOK' /\ Everything' = Everything /\ \A d \in Devices : DeviceInv(d)'
      BY <2>1 DEF SyncInv, TypeOK, Everything, DeviceInv, Free, Reached
    <2>3. QED
      BY <2>1, <2>2 DEF SyncInv
  <1>3. QED
    BY <1>1, <1>2

LEMMA SyncInvariant == Spec => []SyncInv
  BY SyncInit, SyncNext, PTL DEF Spec

\* The databases, open transactions, envelopes, rounds, provider objects and files are of their types.
THEOREM SyncTypeCorrect == Spec => []TypeOK
  <1>1. SyncInv => TypeOK
    BY DEF SyncInv
  <1>2. QED
    BY <1>1, SyncInvariant, PTL

\* Rows and sync state agree on every device, and no row refers to an entity
\* known to be deleted, in whatever order tombstones and references arrive.
THEOREM StoresConsistent == Spec => []StoreConsistent
  <1>1. SyncInv => StoreConsistent
    BY DEF SyncInv, DeviceInv, Coherent, StoreConsistent, RowMatchesState, NoDanglingReference
  <1>2. QED
    BY <1>1, SyncInvariant, PTL

\* No revision is minted twice: wherever one is found, its author's clock has
\* passed it, and one revision never names two changes.
THEOREM RevisionsMintedOnce == Spec => []MintedOnce
  <1>1. ASSUME SyncInv PROVE MintedOnce
    <2>1. TypeOK /\ Minted(Everything, db)
      BY <1>1 DEF SyncInv
    <2>2. Elsewhere \subseteq Everything
      <3> SUFFICES ASSUME NEW o \in Elsewhere PROVE o \in Everything
        OBVIOUS
      <3>1. \/ InLogs(o, log) \/ o \in file
            \/ \E d \in Devices : o \in db[d].outbox
            \/ \E d \in Devices : o \in tx[d].todo \cup tx[d].db.outbox
            \/ \E d \in Devices : o \in run[d].batch
            \/ \E d \in Devices, v \in Vaults : o \in uploads[d][v]
        <4> DEFINE A == UNION {UNION {log[v][i] : i \in DOMAIN log[v]} : v \in Vaults}
                   B == UNION {db[d].outbox \cup tx[d].todo \cup tx[d].db.outbox \cup run[d].batch
                                 \cup UNION {uploads[d][v] : v \in Vaults} : d \in Devices}
        <4>1. Elsewhere = A \cup file \cup B
          BY DEF Elsewhere
        <4>2. CASE o \in A
          <5>1. InLogs(o, log)
            BY <4>2 DEF InLogs, Logged
          <5>2. QED
            BY <5>1
        <4>3. CASE o \in B
          <5>1. PICK d \in Devices :
                   o \in db[d].outbox \cup tx[d].todo \cup tx[d].db.outbox \cup run[d].batch
                            \cup UNION {uploads[d][v] : v \in Vaults}
            BY <4>3
          <5>2. QED
            BY <5>1
        <4> HIDE DEF A, B
        <4>4. QED
          BY <4>1, <4>2, <4>3
      <3>2. o \in Change
        <4>1. CASE InLogs(o, log)
          <5>1. PICK v \in Vaults : \E i \in DOMAIN log[v] : o \in log[v][i]
            BY <4>1 DEF InLogs, Logged
          <5>2. log[v] \in Seq(SUBSET Change)
            BY <2>1 DEF TypeOK
          <5>3. QED
            BY <5>1, <5>2
        <4>2. CASE o \in file
          BY <2>1, <4>2 DEF TypeOK
        <4>3. CASE \E d \in Devices : o \in db[d].outbox \cup tx[d].todo \cup tx[d].db.outbox \cup run[d].batch
          BY <2>1, <4>3, TypeFact, DatabaseFields
        <4>4. CASE \E d \in Devices, v \in Vaults : o \in uploads[d][v]
          BY <2>1, <4>4 DEF TypeOK
        <4>5. QED
          BY <3>1, <4>1, <4>2, <4>3, <4>4
      <3>3. QED
        BY <3>1, <3>2 DEF Everything, InDatabases, InTransactions, InReplies, InUploads, Facts
    <2>3. ASSUME NEW d \in Devices, NEW c \in Elsewhere, c.rev[2] = d PROVE c.rev[1] <= db[d].clock
      BY <2>1, <2>2, <2>3 DEF Minted
    <2>4. ASSUME NEW d \in Devices, NEW x \in Devices, NEW e \in Entities, db[x].state[e].rev[2] = d
          PROVE  db[x].state[e].rev[1] <= db[d].clock
      <3>1. Known(db[x], e)
        BY <2>4, DeviceFact DEF Known, NoRevision
      <3>2. PICK o \in Versions(db[x]) : o.rev = db[x].state[e].rev
        BY <3>1, VersionFact
      <3>3. o \in Change
        BY <2>1, TypeFact, FactsAreChanges DEF Facts
      <3>4. o \in Everything
        BY <3>3 DEF Everything, InDatabases, Facts
      <3>5. QED
        BY <2>1, <2>4, <3>2, <3>4 DEF Minted
    <2>5. ASSUME NEW c \in Elsewhere, NEW o \in Elsewhere, c.rev = o.rev
          PROVE  c.entity = o.entity /\ (c.entity \in Snippets => c = o)
      BY <2>1, <2>2, <2>5 DEF Minted
    <2>6. QED
      BY <2>3, <2>4, <2>5 DEF MintedOnce
  <1>2. QED
    BY <1>1, SyncInvariant, PTL

\* An edit that is still the newest version its author knows is in the author's
\* outbox or in the provider's object of the active vault.
THEOREM EditsNotLost == Spec => []EditNotLost
  <1>1. ASSUME SyncInv PROVE EditNotLost
    <2> SUFFICES ASSUME NEW d \in Devices, NEW e \in Entities,
                        db[d].state[e].rev[2] = d, active[d] # Null
                 PROVE  \E c \in db[d].outbox \cup UNION {log[active[d]][i] : i \in DOMAIN log[active[d]]} :
                           c.entity = e /\ c.rev = db[d].state[e].rev
      BY DEF EditNotLost
    <2>1. Kept(db[d], d, Reached(db[d], d))
      BY <1>1 DEF SyncInv, DeviceInv
    <2>2. QED
      BY <2>1 DEF Kept, Reached, Logged
  <1>2. QED
    BY <1>1, SyncInvariant, PTL

-----------------------------------------------------------------------------
(* What a cursor stands for: a device knows every change of the envelopes it *)
(* has read, up to the ones it is about to apply.                            *)

\* Database s knows the first n envelopes of the object l, apart from the changes T.
Took(s, l, n, T) ==
    \A i \in 1..n : \A c \in l[i] : c \in T \/ ~RevLess(s.state[c.entity].rev, c.rev)

\* The clock has passed every version, and an entity without a version has no content.
Dated(s) ==
    \A e \in Entities : /\ s.state[e].rev[1] <= s.clock
                        /\ s.state[e].rev = NoRevision => s.state[e].hash = Null

DeviceTook(d) ==
    /\ Dated(db[d])
    /\ \A v \in Vaults : cursors[d][v] <= Len(log[v]) /\ Took(db[d], log[v], cursors[d][v], {})
    /\ run[d].phase = "reply" =>
         /\ run[d].cursor <= Len(log[active[d]])
         /\ Took(db[d], log[active[d]], run[d].cursor, run[d].batch)
    /\ ~Free(d) => Follows(tx[d].db, db[d]) /\ Dated(tx[d].db)
    /\ tx[d].source = "vault" => Took(tx[d].db, log[active[d]], run[d].cursor, tx[d].todo)

TookInv == \A d \in Devices : DeviceTook(d)

\* The object m is l with envelopes added.
Extends(m, l) == Len(l) <= Len(m) /\ \A i \in 1..Len(l) : m[i] = l[i]

LEMMA LessThrough ==
    ASSUME NEW a \in Revision, NEW b \in Revision, NEW c \in Revision, RevLess(a, b), RevLess(b, c)
    PROVE  RevLess(a, c)
  BY RevisionFact DEF RevLess

LEMMA FollowsSame ==
    ASSUME NEW s, NEW n, n.state = s.state
    PROVE  Follows(n, s)
  BY DEF Follows

LEMMA FollowsTwice ==
    ASSUME NEW s \in Database, NEW n \in Database, NEW k \in Database, Follows(n, s), Follows(k, n)
    PROVE  Follows(k, s)
  <1> SUFFICES ASSUME NEW e \in Entities
               PROVE  k.state[e].rev = s.state[e].rev \/ RevLess(s.state[e].rev, k.state[e].rev)
    BY DEF Follows
  <1>1. s.state[e].rev \in Revision /\ n.state[e].rev \in Revision /\ k.state[e].rev \in Revision
    BY DatabaseFields
  <1>2. QED
    BY <1>1, LessThrough DEF Follows

LEMMA TookKept ==
    ASSUME NEW s \in Database, NEW n \in Database, NEW l \in Seq(SUBSET Change),
           NEW m, NEW k \in Nat, NEW T, NEW U,
           Took(s, l, k, T), k <= Len(l), Extends(m, l), Follows(n, s), T \subseteq U
    PROVE  Took(n, m, k, U)
  <1> SUFFICES ASSUME NEW i \in 1..k, NEW c \in m[i], c \notin U
               PROVE  ~RevLess(n.state[c.entity].rev, c.rev)
    BY DEF Took
  <1>1. Len(l) \in Nat /\ DOMAIN l = 1..Len(l)
    OBVIOUS
  <1>2. i \in 1..Len(l)
    BY <1>1
  <1>3. c \in l[i] /\ l[i] \in SUBSET Change
    BY <1>1, <1>2 DEF Extends
  <1>4. c.entity \in Entities /\ c.rev \in Revision
    BY <1>3, ChangeFields
  <1>5. ~RevLess(s.state[c.entity].rev, c.rev)
    BY <1>3 DEF Took
  <1>6. s.state[c.entity].rev \in Revision /\ n.state[c.entity].rev \in Revision
    BY <1>4, DatabaseFields
  <1>7. QED
    BY <1>4, <1>5, <1>6, LessTwice DEF Follows

LEMMA MintsFollow ==
    ASSUME NEW s \in Database, Dated(s), NEW n, NEW d, NEW M, Mints(s, n, d, M)
    PROVE  Follows(n, s) /\ Dated(n)
  <1>1. n \in Database /\ n.clock >= s.clock /\ n.clock \in Nat /\ s.clock \in Nat
    BY DatabaseFields DEF Mints
  <1>2. ASSUME NEW e \in Entities
        PROVE  /\ n.state[e].rev = s.state[e].rev \/ RevLess(s.state[e].rev, n.state[e].rev)
               /\ n.state[e].rev[1] <= n.clock
               /\ n.state[e].rev = NoRevision => n.state[e].hash = Null
    <2>1. s.state[e].rev \in Revision /\ n.state[e].rev \in Revision
      BY <1>1, DatabaseFields
    <2>2. s.state[e].rev[1] \in Nat /\ n.state[e].rev[1] \in Nat /\ s.state[e].rev[1] <= s.clock
      BY <2>1, RevisionFact DEF Dated
    <2>3. CASE n.state[e] = s.state[e]
      <3>1. n.state[e].rev[1] <= n.clock
        BY <1>1, <2>2, <2>3
      <3>2. QED
        BY <2>3, <3>1 DEF Dated
    <2>4. ASSUME NEW c \in M, c.entity = e
          PROVE  s.clock < n.state[e].rev[1] /\ n.state[e].rev[1] <= n.clock
      <3>1. n.state[e].rev = c.rev /\ s.clock < c.rev[1]
        BY <2>4, MintedState
      <3>2. c.rev[1] <= n.clock
        BY DEF Mints
      <3>3. QED
        BY <3>1, <3>2
    <2>5. CASE s.clock < n.state[e].rev[1] /\ n.state[e].rev[1] <= n.clock
      <3>1. s.state[e].rev[1] < n.state[e].rev[1] /\ n.state[e].rev[1] # 0
        BY <1>1, <2>2, <2>5
      <3>2. QED
        BY <2>5, <3>1 DEF RevLess, NoRevision
    <2>6. QED
      BY <2>3, <2>4, <2>5 DEF Mints
  <1>3. QED
    BY <1>2 DEF Follows, Dated

LEMMA TakesFollow ==
    ASSUME NEW s \in Database, Dated(s), NEW n, NEW c \in Change, Takes(s, n, c)
    PROVE  Follows(n, s) /\ Dated(n) /\ ~RevLess(n.state[c.entity].rev, c.rev)
  <1>1. n \in Database /\ n.clock >= s.clock /\ n.clock >= c.rev[1]
        /\ n.clock \in Nat /\ s.clock \in Nat /\ c.rev \in Revision /\ c.rev[1] \in Nat
    BY DatabaseFields, ChangeFields, RevisionFact DEF Takes
  <1>2. ASSUME NEW e \in Entities
        PROVE  /\ n.state[e].rev[1] <= n.clock
               /\ n.state[e].rev = NoRevision => n.state[e].hash = Null
    <2>1. s.state[e].rev \in Revision /\ s.state[e].rev[1] \in Nat /\ s.state[e].rev[1] <= s.clock
      BY DatabaseFields, RevisionFact DEF Dated
    <2>2. CASE n.state[e].rev = s.state[e].rev
      <3>1. n.state[e].hash = Null <=> s.state[e].hash = Null
        BY <2>2 DEF Takes
      <3>2. n.state[e].rev[1] <= n.clock
        BY <1>1, <2>1, <2>2
      <3>3. QED
        BY <2>2, <3>1, <3>2 DEF Dated
    <2>3. CASE RevLess(s.state[e].rev, c.rev) /\ n.state[e].rev = c.rev
      <3>1. c.rev # NoRevision
        BY <1>1, <2>1, <2>3, RevisionFact DEF RevLess, NoRevision
      <3>2. QED
        BY <1>1, <2>3, <3>1
    <2>4. QED
      BY <2>2, <2>3 DEF Takes
  <1>3. QED
    BY <1>2 DEF Follows, Dated, Takes

\* A step of device d changes nothing of another, and takes nothing from a provider's object.
Still(d) ==
    /\ \A x \in Devices \ {d} : /\ db'[x] = db[x] /\ tx'[x] = tx[x] /\ cursors'[x] = cursors[x]
                                /\ active'[x] = active[x] /\ run'[x] = run[x]
    /\ \A v \in Vaults : Extends(log'[v], log[v])

LEMMA OthersTook ==
    ASSUME SyncInv, NEW d \in Devices, DeviceTook(d), NEW x \in Devices \ {d}, DeviceTook(x), Still(d)
    PROVE  DeviceTook(x)'
  <1>1. /\ db'[x] = db[x] /\ tx'[x] = tx[x] /\ cursors'[x] = cursors[x]
        /\ active'[x] = active[x] /\ run'[x] = run[x]
    BY DEF Still
  <1>2. /\ TypeOK /\ db[x] \in Database /\ tx[x].db \in Database /\ run[x].cursor \in Nat
        /\ \A v \in Vaults : cursors[x][v] \in Nat /\ log[v] \in Seq(SUBSET Change)
    BY TypeFact DEF SyncInv, TypeOK, Round
  <1>3. /\ run[x].phase = "reply" => active[x] \in Vaults
        /\ tx[x].source = "vault" => run[x].phase = "reply"
    BY DEF SyncInv, DeviceInv
  <1>4. \A s : Follows(s, s)
    BY DEF Follows
  <1>5. ASSUME NEW v \in Vaults
        PROVE  cursors[x][v] <= Len(log'[v]) /\ Took(db[x], log'[v], cursors[x][v], {})
    <2>1. Len(log[v]) \in Nat /\ cursors[x][v] <= Len(log[v]) /\ Extends(log'[v], log[v])
          /\ Took(db[x], log[v], cursors[x][v], {})
      BY <1>2 DEF DeviceTook, Still
    <2>2. Took(db[x], log'[v], cursors[x][v], {})
      BY <1>2, <1>4, <2>1, TookKept
    <2>3. QED
      BY <1>2, <2>1, <2>2 DEF Extends
  <1>6. ASSUME run[x].phase = "reply"
        PROVE  /\ run[x].cursor <= Len(log'[active[x]])
               /\ Took(db[x], log'[active[x]], run[x].cursor, run[x].batch)
               /\ tx[x].source = "vault" =>
                     Took(tx[x].db, log'[active[x]], run[x].cursor, tx[x].todo)
    <2>1. active[x] \in Vaults
      BY <1>3, <1>6
    <2>2. /\ run[x].cursor <= Len(log[active[x]]) /\ Extends(log'[active[x]], log[active[x]])
          /\ Took(db[x], log[active[x]], run[x].cursor, run[x].batch)
          /\ tx[x].source = "vault" => Took(tx[x].db, log[active[x]], run[x].cursor, tx[x].todo)
      BY <1>6, <2>1 DEF DeviceTook, Still
    <2>3. Took(db[x], log'[active[x]], run[x].cursor, run[x].batch)
      BY <1>2, <1>4, <2>1, <2>2, TookKept
    <2>4. tx[x].source = "vault" => Took(tx[x].db, log'[active[x]], run[x].cursor, tx[x].todo)
      BY <1>2, <1>4, <2>1, <2>2, TookKept
    <2>5. QED
      BY <1>2, <2>1, <2>2, <2>3, <2>4 DEF Extends
  <1>7. QED
    BY <1>1, <1>3, <1>5, <1>6 DEF DeviceTook, Free

LEMMA StepTook ==
    ASSUME SyncInv, TookInv, NEW d \in Devices, Still(d), DeviceTook(d)'
    PROVE  TookInv'
  BY OthersTook DEF TookInv

\* A step that reads no envelope.
LEMMA RestTook ==
    ASSUME SyncInv, SyncInv', TookInv, NEW d \in Devices, log' = log, cursors' = cursors,
           \A x \in Devices \ {d} : /\ db'[x] = db[x] /\ tx'[x] = tx[x]
                                    /\ active'[x] = active[x] /\ run'[x] = run[x],
           Follows(db'[d], db[d]), Dated(db'[d]),
           run'[d].phase = "reply" => run'[d] = run[d] /\ active'[d] = active[d],
           \/ tx'[d].source = "none"
           \/ tx'[d] = tx[d] /\ db'[d] = db[d] /\ run'[d] = run[d] /\ active'[d] = active[d]
           \/ tx'[d] = tx[d] /\ db'[d] = db[d] /\ tx[d].source = "file"
           \/ tx'[d].source = "file" /\ tx'[d].db = db'[d]
    PROVE  TookInv'
  <1>1. /\ TypeOK /\ TypeOK' /\ db[d] \in Database /\ db'[d] \in Database /\ run[d].cursor \in Nat
        /\ \A v \in Vaults : cursors[d][v] \in Nat /\ log[v] \in Seq(SUBSET Change)
    BY TypeFact DEF SyncInv, TypeOK, Round
  <1>2. DeviceTook(d)
    BY DEF TookInv
  <1>3. \A v \in Vaults : Len(log[v]) \in Nat /\ Extends(log[v], log[v])
    BY <1>1 DEF Extends
  <1>4. ASSUME NEW v \in Vaults
        PROVE  cursors[d][v] <= Len(log[v]) /\ Took(db'[d], log[v], cursors[d][v], {})
    <2>1. cursors[d][v] <= Len(log[v]) /\ Took(db[d], log[v], cursors[d][v], {})
      BY <1>2 DEF DeviceTook
    <2>2. Took(db'[d], log[v], cursors[d][v], {})
      BY <1>1, <1>3, <2>1, TookKept
    <2>3. QED
      BY <2>1, <2>2
  <1>5. ASSUME run'[d].phase = "reply"
        PROVE  /\ run'[d].cursor <= Len(log[active'[d]])
               /\ Took(db'[d], log[active'[d]], run'[d].cursor, run'[d].batch)
    <2>1. run[d].phase = "reply" /\ run'[d] = run[d] /\ active'[d] = active[d] /\ active[d] \in Vaults
      BY <1>5 DEF SyncInv, DeviceInv
    <2>2. QED
      BY <1>1, <1>2, <1>3, <2>1, TookKept DEF DeviceTook
  <1>6. tx'[d].source # "none" => Follows(tx'[d].db, db'[d]) /\ Dated(tx'[d].db)
    BY <1>2 DEF DeviceTook, Free, Follows
  <1>7. tx'[d].source = "vault" => Took(tx'[d].db, log[active'[d]], run'[d].cursor, tx'[d].todo)
    BY <1>2 DEF DeviceTook
  <1>8. DeviceTook(d)'
    BY <1>4, <1>5, <1>6, <1>7 DEF DeviceTook, Free
  <1>9. Still(d)
    BY <1>3 DEF Still
  <1>10. QED
    BY <1>8, <1>9, StepTook

LEMMA EditTook ==
    ASSUME SyncInv, SyncInv', TookInv, NEW d \in Devices, Edited(d) PROVE TookInv'
  <1> PICK n, M : /\ Free(d) /\ Mints(db[d], n, d, M) /\ db' = [db EXCEPT ![d] = n]
                  /\ UNCHANGED <<tx, uploads, cursors, active, run, log, file>>
    BY DEF Edited
  <1>1. db \in [Devices -> Database] /\ db[d] \in Database /\ Dated(db[d])
    BY DEF SyncInv, TypeOK, TookInv, DeviceTook
  <1>2. db'[d] = n /\ \A x \in Devices \ {d} : db'[x] = db[x]
    BY <1>1
  <1>3. Follows(n, db[d]) /\ Dated(n)
    BY <1>1, MintsFollow
  <1>4. tx'[d].source = "none"
    BY DEF Free
  <1>5. QED
    BY <1>2, <1>3, <1>4, RestTook

LEMMA JoinTook ==
    ASSUME SyncInv, SyncInv', TookInv, NEW d \in Devices, Join(d) PROVE TookInv'
  <1>1. PICK v \in Vaults :
           /\ Free(d)
           /\ \/ active[d] = v /\ UNCHANGED <<db, active>>
              \/ /\ \E t \in RebuildTicks(d) :
                      db' = [db EXCEPT ![d] = IF \E e \in Entities : Known(db[d], e)
                                              THEN Rebuilt(db[d], d, t) ELSE db[d]]
                 /\ active' = [active EXCEPT ![d] = v]
           /\ run' = [run EXCEPT ![d] = Run("idle")]
           /\ UNCHANGED <<tx, uploads, cursors, log, file, spent>>
    BY DEF Join
  <1>2. /\ db \in [Devices -> Database] /\ active \in [Devices -> Vaults \cup {Null}]
        /\ run \in [Devices -> Round] /\ db[d] \in Database /\ Coherent(db[d]) /\ Dated(db[d])
    BY TypeFact DEF SyncInv, TypeOK, DeviceInv, TookInv, DeviceTook
  <1>3. run'[d].phase = "idle" /\ \A x \in Devices \ {d} : run'[x] = run[x]
    BY <1>1, <1>2, RunFact DEF Phases
  <1>4. tx'[d].source = "none" /\ \A x \in Devices \ {d} : active'[x] = active[x]
    BY <1>1, <1>2 DEF Free
  <1>5. ASSUME NEW n, db' = [db EXCEPT ![d] = n], Follows(n, db[d]), Dated(n)
        PROVE  TookInv'
    <2>1. db'[d] = n /\ \A x \in Devices \ {d} : db'[x] = db[x]
      BY <1>2, <1>5
    <2>2. QED
      BY <1>1, <1>3, <1>4, <1>5, <2>1, RestTook
  <1>6. Follows(db[d], db[d])
    BY DEF Follows
  <1>7. CASE db' = db
    <2>1. db' = [db EXCEPT ![d] = db[d]]
      BY <1>2, <1>7
    <2>2. QED
      BY <1>2, <1>5, <1>6, <2>1
  <1>8. ASSUME NEW t \in RebuildTicks(d),
               db' = [db EXCEPT ![d] = IF \E e \in Entities : Known(db[d], e)
                                       THEN Rebuilt(db[d], d, t) ELSE db[d]]
        PROVE  TookInv'
    <2>1. t \in Nat /\ t > db[d].clock
      <3>1. db[d].clock \in Nat
        BY <1>2, DatabaseFields
      <3>2. QED
        BY <3>1, TickFact DEF RebuildTicks
    <2>2. PICK M : Mints(db[d], Rebuilt(db[d], d, t), d, M)
      BY <1>2, <2>1, RebuiltFact
    <2>3. Follows(Rebuilt(db[d], d, t), db[d]) /\ Dated(Rebuilt(db[d], d, t))
      BY <1>2, <2>2, MintsFollow
    <2>4. QED
      BY <1>2, <1>5, <1>6, <1>8, <2>3
  <1>9. QED
    BY <1>1, <1>7, <1>8

LEMMA AcknowledgeTook ==
    ASSUME SyncInv, SyncInv', TookInv, NEW d \in Devices, Acknowledge(d) PROVE TookInv'
  <1> DEFINE left == {o \in db[d].outbox : o.rev \notin {c.rev : c \in uploads[d][active[d]]}}
             p == IF left = {} THEN "idle" ELSE "draining"
             n == [db[d] EXCEPT !.outbox = left]
  <1>1. /\ Free(d) /\ db' = [db EXCEPT ![d].outbox = left] /\ run' = [run EXCEPT ![d] = Run(p)]
        /\ UNCHANGED <<tx, cursors, active, log, file, spent>>
    BY DEF Acknowledge
  <1>2. /\ db \in [Devices -> Database] /\ run \in [Devices -> Round] /\ db[d] \in Database
        /\ Dated(db[d])
    BY TypeFact DEF SyncInv, TypeOK, TookInv, DeviceTook
  <1>3. p \in Phases /\ p # "reply"
    BY DEF Phases
  <1> HIDE DEF p, left
  <1>4. n.state = db[d].state /\ n.clock = db[d].clock
    BY <1>2 DEF Database
  <1>5. db' = [db EXCEPT ![d] = n]
    BY <1>1, <1>2
  <1> HIDE DEF n
  <1>6. db'[d] = n /\ \A x \in Devices \ {d} : db'[x] = db[x]
    BY <1>2, <1>5
  <1>7. run'[d].phase # "reply" /\ \A x \in Devices \ {d} : run'[x] = run[x]
    BY <1>1, <1>2, <1>3, RunFact
  <1>8. Follows(n, db[d]) /\ Dated(n)
    BY <1>2, <1>4 DEF Follows, Dated
  <1>9. tx'[d].source = "none"
    BY <1>1 DEF Free
  <1>10. QED
    BY <1>1, <1>6, <1>7, <1>8, <1>9, RestTook

\* A step of a round, a stop or a file that leaves the databases alone.
LEMMA QuietTook ==
    ASSUME SyncInv, SyncInv', TookInv, NEW d \in Devices,
           \/ Lock(d) \/ NetworkFails(d) \/ Crash(d) \/ PrepareUpload(d)
           \/ RollBack(d) \/ ExportFile(d) \/ BeginImport(d)
    PROVE  TookInv'
  <1>1. UNCHANGED <<db, cursors, active, log>>
    BY DEF Lock, NetworkFails, Crash, PrepareUpload, RollBack, ExportFile, BeginImport
  <1>2. /\ tx \in [Devices -> Transaction] /\ run \in [Devices -> Round]
        /\ tx[d].source \in {"none", "vault", "file"} /\ Dated(db[d])
        /\ tx[d].source = "vault" => run[d].phase = "reply"
    BY TypeFact DEF SyncInv, DeviceInv, Transaction, TookInv, DeviceTook
  <1>3. \/ run' = run
        \/ \E p \in Phases \ {"reply"} : run' = [run EXCEPT ![d] = Run(p)]
    BY DEF Lock, NetworkFails, Crash, PrepareUpload, RollBack, ExportFile, BeginImport, Phases
  <1>4. (run'[d] = run[d] \/ run'[d].phase # "reply") /\ \A x \in Devices \ {d} : run'[x] = run[x]
    <2>1. ASSUME NEW p \in Phases \ {"reply"}, run' = [run EXCEPT ![d] = Run(p)]
          PROVE  run'[d].phase # "reply" /\ \A x \in Devices \ {d} : run'[x] = run[x]
      BY <1>2, <2>1, RunFact
    <2>2. QED
      BY <1>3, <2>1
  <1>5. /\ \A x \in Devices \ {d} : tx'[x] = tx[x]
        /\ \/ tx'[d].source = "none"
           \/ tx'[d] = tx[d] /\ (run'[d] = run[d] \/ tx[d].source = "file")
           \/ tx'[d].source = "file" /\ tx'[d].db = db[d]
    <2>1. CASE Lock(d)
      <3>1. tx' = tx /\ tx[d].source # "vault"
        BY <1>2, <2>1 DEF Lock
      <3>2. QED
        BY <1>2, <3>1
    <2>2. CASE NetworkFails(d) \/ PrepareUpload(d) \/ ExportFile(d)
      BY <2>2 DEF NetworkFails, PrepareUpload, ExportFile, Free
    <2>3. CASE Crash(d) \/ RollBack(d)
      BY <1>2, <2>3, NoTxFact DEF Crash, RollBack
    <2>4. CASE BeginImport(d)
      <3> DEFINE q == [source |-> "file", db |-> db[d], todo |-> file]
      <3>1. tx' = [tx EXCEPT ![d] = q] /\ q.source = "file" /\ q.db = db[d]
        BY <2>4 DEF BeginImport
      <3> HIDE DEF q
      <3>2. QED
        BY <1>2, <3>1
    <2>5. QED
      BY <2>1, <2>2, <2>3, <2>4
  <1>6. Follows(db'[d], db[d]) /\ Dated(db'[d])
    BY <1>1, <1>2 DEF Follows
  <1>7. QED
    BY <1>1, <1>4, <1>5, <1>6, RestTook

LEMMA BeginApplyTook ==
    ASSUME SyncInv, TookInv, NEW d \in Devices, BeginApply(d) PROVE TookInv'
  <1> DEFINE q == [source |-> "vault", db |-> db[d], todo |-> run[d].batch]
  <1>1. /\ run[d].phase = "reply" /\ tx' = [tx EXCEPT ![d] = q]
        /\ UNCHANGED <<db, uploads, cursors, active, run, log, file, spent>>
    BY DEF BeginApply
  <1>2. q.source = "vault" /\ q.db = db[d] /\ q.todo = run[d].batch
    OBVIOUS
  <1> HIDE DEF q
  <1>3. tx'[d] = q /\ \A x \in Devices \ {d} : tx'[x] = tx[x]
    BY <1>1, TypeFact DEF SyncInv
  <1>4. \A v \in Vaults : Extends(log[v], log[v])
    <2>1. \A v \in Vaults : Len(log[v]) \in Nat
      BY DEF SyncInv, TypeOK
    <2>2. QED
      BY <2>1 DEF Extends
  <1>5. Still(d)
    BY <1>1, <1>3, <1>4 DEF Still
  <1>6. DeviceTook(d)'
    BY <1>1, <1>2, <1>3 DEF TookInv, DeviceTook, Free, Follows
  <1>7. QED
    BY <1>5, <1>6, StepTook

LEMMA ApplyChangeTook ==
    ASSUME SyncInv, TookInv, NEW d \in Devices, ApplyChange(d) PROVE TookInv'
  <1>1. TypeOK /\ DeviceInv(d) /\ Minted(Everything, db) /\ DeviceTook(d)
    BY DEF SyncInv, TookInv
  <1>2. PICK c \in tx[d].todo :
           /\ tx' = [tx EXCEPT ![d].db = Applied(tx[d].db, c), ![d].todo = tx[d].todo \ {c}]
           /\ UNCHANGED <<db, uploads, cursors, active, run, log, file, spent>>
    BY DEF ApplyChange, First
  <1>3. c \in Change /\ Plain(c.entity, c.payload)
    <2>1. c \in Everything
      BY <1>1, <1>2, TypeFact DEF Everything, InTransactions
    <2>2. QED
      BY <1>1, <2>1 DEF Everything, Minted
  <1>4. /\ tx[d].db \in Database /\ Coherent(tx[d].db) /\ tx \in [Devices -> Transaction]
        /\ db[d] \in Database /\ run[d].cursor \in Nat /\ tx[d].source # "none"
        /\ \A v \in Vaults : Len(log[v]) \in Nat /\ log[v] \in Seq(SUBSET Change)
    BY <1>1, <1>2, TypeFact DEF DeviceInv, Free, TypeOK, Round
  <1> DEFINE s == tx[d].db
             n == Applied(s, c)
             left == tx[d].todo \ {c}
  <1>5. Takes(s, n, c)
    BY <1>3, <1>4, AppliedFact
  <1>6. tx' = [tx EXCEPT ![d].db = n, ![d].todo = left]
    BY <1>2
  <1>7. s \in Database /\ Dated(s) /\ Follows(s, db[d])
    BY <1>1, <1>4 DEF DeviceTook, Free
  <1> HIDE DEF n, s
  <1>8. n \in Database /\ Follows(n, s) /\ Dated(n) /\ ~RevLess(n.state[c.entity].rev, c.rev)
    BY <1>3, <1>5, <1>7, TakesFollow DEF Takes
  <1>9. Follows(n, db[d])
    BY <1>4, <1>7, <1>8, FollowsTwice
  <1>10. /\ tx'[d].db = n /\ tx'[d].todo = left /\ tx'[d].source = tx[d].source
         /\ \A x \in Devices \ {d} : tx'[x] = tx[x]
    BY <1>4, <1>6 DEF Transaction
  <1>11. \A v \in Vaults : Extends(log[v], log[v])
    BY <1>4 DEF Extends
  <1>12. tx[d].source = "vault" => Took(n, log[active[d]], run[d].cursor, left)
    <2> SUFFICES ASSUME tx[d].source = "vault"
                 PROVE  Took(n, log[active[d]], run[d].cursor, left)
      OBVIOUS
    <2>1. active[d] \in Vaults /\ run[d].phase = "reply"
      BY <1>1 DEF DeviceInv
    <2>2. run[d].cursor <= Len(log[active[d]]) /\ Took(s, log[active[d]], run[d].cursor, tx[d].todo)
      BY <1>1, <2>1 DEF DeviceTook, s
    <2>3. Took(n, log[active[d]], run[d].cursor, tx[d].todo)
      BY <1>4, <1>7, <1>8, <1>11, <2>1, <2>2, TookKept
    <2>4. QED
      BY <1>8, <2>3 DEF Took
  <1>13. DeviceTook(d)'
    BY <1>1, <1>2, <1>8, <1>9, <1>10, <1>12 DEF DeviceTook, Free
  <1>14. Still(d)
    BY <1>2, <1>10, <1>11 DEF Still
  <1>15. QED
    BY <1>13, <1>14, StepTook

LEMMA CommitTook ==
    ASSUME SyncInv, TookInv, NEW d \in Devices, Commit(d) PROVE TookInv'
  <1>1. TypeOK /\ DeviceInv(d) /\ DeviceTook(d)
    BY DEF SyncInv, TookInv
  <1>2. /\ tx[d].source # "none" /\ tx[d].todo = {} /\ tx' = [tx EXCEPT ![d] = NoTx]
        /\ db' = [db EXCEPT ![d] = tx[d].db] /\ UNCHANGED <<uploads, active, log, file, spent>>
    BY DEF Commit, Free
  <1>3. /\ db \in [Devices -> Database] /\ tx \in [Devices -> Transaction] /\ run \in [Devices -> Round]
        /\ cursors \in [Devices -> [Vaults -> Nat]] /\ run[d].cursor \in Nat
        /\ db[d] \in Database /\ tx[d].db \in Database
        /\ \A v \in Vaults : Len(log[v]) \in Nat /\ log[v] \in Seq(SUBSET Change)
    BY <1>1, TypeFact DEF TypeOK, Round
  <1> DEFINE n == tx[d].db
  <1>4. Follows(n, db[d]) /\ Dated(n)
    BY <1>1, <1>2 DEF DeviceTook, Free
  <1>5. db'[d] = n /\ \A x \in Devices \ {d} : db'[x] = db[x]
    BY <1>2, <1>3
  <1>6. tx'[d].source = "none" /\ \A x \in Devices \ {d} : tx'[x] = tx[x]
    BY <1>2, <1>3, NoTxFact
  <1>7. \A v \in Vaults : Extends(log[v], log[v])
    BY <1>3 DEF Extends
  <1> HIDE DEF n
  <1>8. ASSUME NEW v \in Vaults
        PROVE  cursors[d][v] <= Len(log[v]) /\ Took(n, log[v], cursors[d][v], {})
    <2>1. cursors[d][v] <= Len(log[v]) /\ Took(db[d], log[v], cursors[d][v], {})
      BY <1>1 DEF DeviceTook
    <2>2. /\ n \in Database /\ db[d] \in Database /\ cursors[d][v] \in Nat
          /\ log[v] \in Seq(SUBSET Change) /\ Extends(log[v], log[v])
      BY <1>3, <1>7 DEF n
    <2>3. Took(n, log[v], cursors[d][v], {})
      BY <1>4, <2>1, <2>2, TookKept
    <2>4. QED
      BY <2>1, <2>3
  <1>9. CASE tx[d].source = "vault"
    <2>1. active[d] \in Vaults /\ run[d].phase = "reply"
      BY <1>1, <1>9 DEF DeviceInv
    <2>2. /\ cursors' = [cursors EXCEPT ![d][active[d]] = run[d].cursor]
          /\ run' = [run EXCEPT ![d] = Run("committed")]
      BY <1>9 DEF Commit
    <2>3. run[d].cursor <= Len(log[active[d]]) /\ Took(n, log[active[d]], run[d].cursor, {})
      BY <1>1, <1>2, <1>9, <2>1 DEF DeviceTook, n
    <2>4. /\ \A x \in Devices \ {d} : cursors'[x] = cursors[x]
          /\ \A v \in Vaults : cursors'[d][v] = IF v = active[d] THEN run[d].cursor ELSE cursors[d][v]
      BY <1>3, <2>1, <2>2
    <2>5. run'[d].phase = "committed" /\ \A x \in Devices \ {d} : run'[x] = run[x]
      BY <1>3, <2>2, RunFact DEF Phases
    <2>6. \A v \in Vaults : cursors'[d][v] <= Len(log[v]) /\ Took(n, log[v], cursors'[d][v], {})
      BY <1>8, <2>3, <2>4
    <2>7. DeviceTook(d)'
      BY <1>2, <1>4, <1>5, <1>6, <2>5, <2>6 DEF DeviceTook, Free
    <2>8. Still(d)
      BY <1>2, <1>5, <1>6, <1>7, <2>4, <2>5 DEF Still
    <2>9. QED
      BY <2>7, <2>8, StepTook
  <1>10. CASE tx[d].source # "vault"
    <2>1. UNCHANGED <<cursors, run>>
      BY <1>10 DEF Commit
    <2>2. run[d].phase = "reply" => /\ run[d].cursor <= Len(log[active[d]])
                                    /\ Took(n, log[active[d]], run[d].cursor, run[d].batch)
      <3> SUFFICES ASSUME run[d].phase = "reply"
                   PROVE  /\ run[d].cursor <= Len(log[active[d]])
                          /\ Took(n, log[active[d]], run[d].cursor, run[d].batch)
        OBVIOUS
      <3>1. active[d] \in Vaults
        BY <1>1 DEF DeviceInv
      <3>2. /\ run[d].cursor <= Len(log[active[d]])
            /\ Took(db[d], log[active[d]], run[d].cursor, run[d].batch)
        BY <1>1 DEF DeviceTook
      <3>3. n \in Database
        BY <1>3 DEF n
      <3>4. QED
        BY <1>3, <1>4, <1>7, <3>1, <3>2, <3>3, TookKept
    <2>3. DeviceTook(d)'
      BY <1>2, <1>4, <1>5, <1>6, <1>8, <2>1, <2>2 DEF DeviceTook, Free
    <2>4. Still(d)
      BY <1>2, <1>5, <1>6, <1>7, <2>1 DEF Still
    <2>5. QED
      BY <2>3, <2>4, StepTook
  <1>11. QED
    BY <1>9, <1>10

LEMMA ExchangeTook ==
    ASSUME SyncInv, TookInv, NEW d \in Devices, Exchange(d) PROVE TookInv'
  <1> DEFINE v == active[d]
             up == uploads[d][v]
             k == cursors[d][v]
             envelopes == IF up = {} \/ \E i \in DOMAIN log[v] : log[v][i] = up
                          THEN log[v] ELSE Append(log[v], up)
             batch == UNION {envelopes[i] : i \in (k + 1)..Len(envelopes)}
             reply == [phase |-> "reply", cursor |-> Len(envelopes), batch |-> batch]
  <1>1. /\ run[d].phase = "exchange" /\ log' = [log EXCEPT ![v] = envelopes]
        /\ run' = [run EXCEPT ![d] = reply]
        /\ UNCHANGED <<db, tx, uploads, cursors, active, file, spent>>
    BY DEF Exchange
  <1>2. TypeOK /\ DeviceInv(d) /\ DeviceTook(d) /\ v \in Vaults
    BY <1>1 DEF SyncInv, TookInv, DeviceInv
  <1>3. /\ log \in [Vaults -> Seq(SUBSET Change)] /\ log[v] \in Seq(SUBSET Change)
        /\ up \in SUBSET Change /\ run \in [Devices -> Round] /\ db[d] \in Database
        /\ \A w \in Vaults : /\ cursors[d][w] \in Nat /\ log[w] \in Seq(SUBSET Change)
                             /\ Len(log[w]) \in Nat /\ Extends(log[w], log[w])
    BY <1>2, TypeFact DEF TypeOK, Extends
  <1>4. Len(envelopes) \in Nat /\ Extends(envelopes, log[v])
    <2>1. CASE up = {} \/ \E i \in DOMAIN log[v] : log[v][i] = up
      BY <1>2, <1>3, <2>1
    <2>2. CASE ~(up = {} \/ \E i \in DOMAIN log[v] : log[v][i] = up)
      <3>1. envelopes = Append(log[v], up)
        BY <2>2
      <3> HIDE DEF envelopes, up
      <3>2. QED
        BY <1>3, <3>1 DEF Extends
    <2>3. QED
      BY <2>1, <2>2
  <1> HIDE DEF envelopes
  <1>5. \A i \in (k + 1)..Len(envelopes) : envelopes[i] \subseteq batch
    OBVIOUS
  <1> HIDE DEF batch
  <1>6. reply.phase = "reply" /\ reply.cursor = Len(envelopes) /\ reply.batch = batch
    OBVIOUS
  <1> HIDE DEF reply
  <1>7. run'[d] = reply /\ \A x \in Devices \ {d} : run'[x] = run[x]
    BY <1>1, <1>3
  <1>8. log'[v] = envelopes /\ \A w \in Vaults \ {v} : log'[w] = log[w]
    BY <1>1, <1>2, <1>3
  <1>9. \A w \in Vaults : Extends(log'[w], log[w])
    BY <1>3, <1>4, <1>8
  <1>10. ASSUME NEW w \in Vaults
         PROVE  cursors[d][w] <= Len(log'[w]) /\ Took(db[d], log'[w], cursors[d][w], {})
    <2>1. cursors[d][w] <= Len(log[w]) /\ Took(db[d], log[w], cursors[d][w], {})
      BY <1>2 DEF DeviceTook
    <2>2. Follows(db[d], db[d])
      BY DEF Follows
    <2>3. Took(db[d], log'[w], cursors[d][w], {})
      BY <1>3, <1>9, <2>1, <2>2, TookKept
    <2>4. Len(log[w]) <= Len(log'[w]) /\ Len(log'[w]) \in Nat
      BY <1>3, <1>4, <1>8, <1>9 DEF Extends
    <2>5. cursors[d][w] <= Len(log'[w])
      BY <1>3, <2>1, <2>4
    <2>6. QED
      BY <2>3, <2>5
  <1>11. Took(db[d], envelopes, Len(envelopes), batch)
    <2> SUFFICES ASSUME NEW i \in 1..Len(envelopes), NEW c \in envelopes[i], c \notin batch
                 PROVE  ~RevLess(db[d].state[c.entity].rev, c.rev)
      BY DEF Took
    <2>1. k \in Nat /\ i \in Nat /\ i <= Len(envelopes) /\ i >= 1
      BY <1>2, <1>3, <1>4
    <2>2. i \notin (k + 1)..Len(envelopes)
      BY <1>5
    <2> HIDE DEF k
    <2>3. i \in 1..k
      BY <1>4, <2>1, <2>2
    <2>4. Took(db[d], envelopes, k, {})
      BY <1>2, <1>8, <1>10 DEF k
    <2>5. QED
      BY <2>3, <2>4 DEF Took
  <1>12. tx[d].source # "vault"
    BY <1>1, <1>2 DEF DeviceInv
  <1>13. Len(envelopes) <= Len(envelopes)
    BY <1>4
  <1>14. DeviceTook(d)'
    BY <1>1, <1>2, <1>6, <1>7, <1>8, <1>10, <1>11, <1>12, <1>13 DEF DeviceTook, Free
  <1>15. Still(d)
    BY <1>1, <1>7, <1>9 DEF Still
  <1>16. QED
    BY <1>14, <1>15, StepTook

LEMMA TookInit == Init => TookInv
  <1> SUFFICES ASSUME Init, NEW d \in Devices PROVE DeviceTook(d)
    BY DEF TookInv
  <1>1. /\ db[d] = EmptyDatabase /\ tx[d] = NoTx /\ run[d] = Run("locked")
        /\ \A v \in Vaults : cursors[d][v] = 0 /\ log[v] = <<>>
    BY DEF Init
  <1>2. run[d].phase = "locked" /\ tx[d].source = "none"
    BY <1>1, RunFact, NoTxFact DEF Phases
  <1>3. Dated(EmptyDatabase)
    <2>1. \A e \in Entities : EmptyDatabase.state[e] = [rev |-> NoRevision, hash |-> Null]
      BY DEF EmptyDatabase
    <2>2. EmptyDatabase.clock = 0
      BY EmptyFact
    <2>3. QED
      BY <2>1, <2>2 DEF Dated, NoRevision
  <1>4. \A v \in Vaults : cursors[d][v] <= Len(log[v]) /\ Took(db[d], log[v], cursors[d][v], {})
    BY <1>1 DEF Took
  <1>5. QED
    BY <1>1, <1>2, <1>3, <1>4 DEF DeviceTook, Free

LEMMA TookNext == SyncInv /\ SyncInv' /\ TookInv /\ [Next]_vars => TookInv'
  <1> SUFFICES ASSUME SyncInv, SyncInv', TookInv, [Next]_vars PROVE TookInv'
    OBVIOUS
  <1>1. CASE Next
    <2>1. PICK d \in Devices :
            \/ LocalAdd(d) \/ LocalUpdate(d) \/ LocalDelete(d)
            \/ Join(d) \/ Lock(d)
            \/ PrepareUpload(d) \/ Exchange(d) \/ BeginApply(d) \/ Acknowledge(d)
            \/ ApplyChange(d) \/ RollBack(d) \/ Commit(d)
            \/ ExportFile(d) \/ BeginImport(d)
            \/ NetworkFails(d) \/ Crash(d)
      BY <1>1 DEF Next
    <2>2. CASE LocalAdd(d) \/ LocalUpdate(d) \/ LocalDelete(d)
      BY <2>2, LocalAddEdits, LocalUpdateEdits, LocalDeleteEdits, EditTook
    <2>3. CASE \/ Lock(d) \/ NetworkFails(d) \/ Crash(d) \/ PrepareUpload(d)
               \/ RollBack(d) \/ ExportFile(d) \/ BeginImport(d)
      BY <2>3, QuietTook
    <2>4. CASE Join(d) \/ Exchange(d) \/ BeginApply(d) \/ Acknowledge(d)
      BY <2>4, JoinTook, ExchangeTook, BeginApplyTook, AcknowledgeTook
    <2>5. CASE ApplyChange(d) \/ Commit(d)
      BY <2>5, ApplyChangeTook, CommitTook
    <2>6. QED
      BY <2>1, <2>2, <2>3, <2>4, <2>5
  <1>2. CASE UNCHANGED vars
    <2>1. UNCHANGED <<db, tx, uploads, cursors, active, run, log, file, spent>>
      BY <1>2 DEF vars
    <2>2. \A d \in Devices : DeviceTook(d)'
      BY <2>1 DEF TookInv, DeviceTook, Free
    <2>3. QED
      BY <2>2 DEF TookInv
  <1>3. QED
    BY <1>1, <1>2

LEMMA TookInvariant == Spec => [](SyncInv /\ TookInv)
  <1>1. SyncInv /\ TookInv /\ [Next]_vars => (SyncInv /\ TookInv)'
    BY SyncNext, TookNext
  <1>2. Init => SyncInv /\ TookInv
    BY SyncInit, TookInit
  <1>3. QED
    BY <1>1, <1>2, PTL DEF Spec

-----------------------------------------------------------------------------
(* What the devices of a settled vault have in common. *)

LEMMA LeastOf ==
    ASSUME NEW T \in SUBSET Nat, T # {} PROVE \E n \in T : \A m \in T : n <= m
  <1>1. PICK n \in T : \A m \in T : ~(<<m, n>> \in OpToRel(<, Nat))
    BY NatLessThanWellFounded, WFMin
  <1>2. \A m \in T : m \in Nat /\ n \in Nat /\ ~(m < n)
    BY <1>1 DEF OpToRel
  <1>3. \A m \in T : n <= m
    BY <1>2
  <1>4. QED
    BY <1>3

\* Among finitely many devices one has the newest version of an entity.
LEMMA NewestFact ==
    ASSUME NEW r \in [Devices -> Revision], Devices # {}
    PROVE  \E m \in Devices : \A x \in Devices : ~RevLess(r[m], r[x])
  <1> DEFINE Above(x) == {y \in Devices : RevLess(r[x], r[y])}
             T == {Cardinality(Above(x)) : x \in Devices}
  <1>1. ASSUME NEW x \in Devices PROVE IsFiniteSet(Above(x)) /\ Cardinality(Above(x)) \in Nat
    BY StoreAssumption, FS_Subset, FS_CardinalityType
  <1>2. PICK m \in Devices : \A x \in Devices : Cardinality(Above(m)) <= Cardinality(Above(x))
    <2>1. T \in SUBSET Nat /\ T # {}
      BY <1>1
    <2> HIDE DEF T
    <2>2. PICK n \in T : \A k \in T : n <= k
      BY <2>1, LeastOf
    <2>3. PICK m \in Devices : n = Cardinality(Above(m))
      BY DEF T
    <2>4. \A x \in Devices : Cardinality(Above(x)) \in T
      BY DEF T
    <2>5. QED
      BY <2>2, <2>3, <2>4
  <1>3. ASSUME NEW x \in Devices, RevLess(r[m], r[x]) PROVE FALSE
    <2>1. ASSUME NEW y \in Above(x) PROVE y \in Above(m)
      <3>1. y \in Devices /\ RevLess(r[x], r[y])
        OBVIOUS
      <3>2. RevLess(r[m], r[y])
        BY <1>3, <3>1, LessThrough
      <3>3. QED
        BY <3>1, <3>2
    <2>2. x \in Above(m) /\ x \notin Above(x)
      <3>1. ~RevLess(r[x], r[x])
        BY LessIsNotEqual
      <3>2. QED
        BY <1>3, <3>1
    <2>3. Above(x) \in SUBSET Above(m) /\ Above(x) # Above(m)
      BY <2>1, <2>2
    <2>4. Cardinality(Above(x)) <= Cardinality(Above(m)) /\ Cardinality(Above(x)) # Cardinality(Above(m))
      BY <1>1, <2>3, FS_Subset
    <2>5. Cardinality(Above(m)) <= Cardinality(Above(x))
      BY <1>2
    <2> HIDE DEF Above
    <2>6. QED
      BY <1>1, <2>4, <2>5
  <1>4. QED
    BY <1>2, <1>3

LEMMA NeitherLess ==
    ASSUME NEW a \in Revision, NEW b \in Revision, ~RevLess(a, b), ~RevLess(b, a)
    PROVE  a = b
  BY RevisionFact DEF RevLess

\* Once a vault has settled all its devices know the same version of every
\* entity: the newest one's author has sent it, and everyone has read it.
LEMMA SameVersions ==
    ASSUME SyncInv, TookInv, NEW v \in Vaults, Settled(v), NEW e \in Entities,
           NEW d \in Devices, NEW x \in Devices
    PROVE  db[d].state[e].rev = db[x].state[e].rev
  <1> DEFINE r == [y \in Devices |-> db[y].state[e].rev]
  <1>1. r \in [Devices -> Revision] /\ \A y \in Devices : r[y] = db[y].state[e].rev /\ db[y] \in Database
    BY TypeFact, DatabaseFields DEF SyncInv
  <1> HIDE DEF r
  <1>2. PICK m \in Devices : \A y \in Devices : ~RevLess(r[m], r[y])
    BY <1>1, NewestFact
  <1>3. \A y \in Devices : r[y] \in Revision
    BY <1>1
  <1>4. CASE r[m] = NoRevision
    <2>1. \A y \in Devices : r[y] = NoRevision
      BY <1>2, <1>3, <1>4, RevisionFact DEF RevLess, NoRevision
    <2>2. QED
      BY <1>1, <2>1
  <1>5. CASE r[m] # NoRevision
    <2>1. PICK o \in Versions(db[m]) : o.entity = e /\ o.rev = r[m]
      BY <1>1, <1>5, VersionFact DEF Known
    <2>2. o \in Everything
      <3>1. o \in Change
        BY <1>1, FactsAreChanges DEF Facts
      <3>2. QED
        BY <3>1 DEF Everything, InDatabases, Facts
    <2> DEFINE a == r[m][2]
    <2>3. a \in Devices
      BY <2>1, <2>2 DEF SyncInv, Minted
    <2>4. r[a] = r[m]
      <3>1. ~RevLess(r[a], r[m])
        BY <1>1, <2>1, <2>2, <2>3 DEF SyncInv, DeviceInv, Knows
      <3>2. QED
        BY <1>2, <1>3, <2>3, <3>1, NeitherLess
    <2>5. \E i \in DOMAIN log[v] : \E c \in log[v][i] : c.entity = e /\ c.rev = r[m]
      <3>1. active[a] = v /\ db[a].outbox = {} /\ v # Null
        BY <2>3, SyncAssumption DEF Settled, InVault
      <3>2. Kept(db[a], a, Logged(log, v))
        BY <2>3, <3>1 DEF SyncInv, DeviceInv, Reached
      <3>3. db[a].state[e].rev = r[m] /\ db[a].state[e].rev[2] = a
        BY <1>1, <2>3, <2>4
      <3> HIDE DEF a
      <3>4. PICK c \in Logged(log, v) : c.entity = e /\ c.rev = r[m]
        BY <3>2, <3>3 DEF Kept
      <3>5. QED
        BY <3>4 DEF Logged
    <2>6. PICK i \in DOMAIN log[v] : \E c \in log[v][i] : c.entity = e /\ c.rev = r[m]
      BY <2>5
    <2>7. ASSUME NEW y \in Devices PROVE r[y] = r[m]
      <3>1. cursors[y][v] = Len(log[v]) /\ Took(db[y], log[v], cursors[y][v], {})
        BY DEF Settled, TookInv, DeviceTook
      <3>2. i \in 1..cursors[y][v]
        BY <3>1 DEF SyncInv, TypeOK
      <3>3. ~RevLess(r[y], r[m])
        BY <1>1, <2>6, <3>1, <3>2 DEF Took
      <3>4. QED
        BY <1>2, <1>3, <3>3, NeitherLess
    <2>8. QED
      BY <1>1, <2>7
  <1>6. QED
    BY <1>4, <1>5

\* Once a vault has settled, any two of its devices know the same version of
\* every entity.  The rows they made of it are of the same base name, the same for
\* a snippet and, where no name was contested, for a group; a server's row may
\* have lost its group on one of them (apply_remote_change, reference_is_tombstoned).
SettledAgree ==
    \A v \in Vaults : Settled(v) => \A d, x \in Devices, e \in Entities :
      LET p == db[d].rows[e]
          q == db[x].rows[e]
      IN  /\ db[d].state[e].rev = db[x].state[e].rev
          /\ Alike(p, q)
          /\ e \in Snippets => p = q
          /\ ~Contested /\ p # Null => p.name = q.name
          /\ ~Contested /\ e \notin Servers => p = q

LEMMA RowsAgree ==
    ASSUME SyncInv, TookInv, NEW v \in Vaults, Settled(v), NEW e \in Entities,
           NEW d \in Devices, NEW x \in Devices
    PROVE  /\ db[d].state[e].rev = db[x].state[e].rev
           /\ Alike(db[d].rows[e], db[x].rows[e])
           /\ e \in Snippets => db[d].rows[e] = db[x].rows[e]
           /\ ~Contested /\ db[d].rows[e] # Null => db[d].rows[e].name = db[x].rows[e].name
           /\ ~Contested /\ e \notin Servers => db[d].rows[e] = db[x].rows[e]
  <1> DEFINE p == db[d].rows[e]
             q == db[x].rows[e]
             h == db[d].state[e].hash
             k == db[x].state[e].hash
  <1>1. db[d].state[e].rev = db[x].state[e].rev
    BY SameVersions
  <1>2. /\ p \in Payload \cup {Null} /\ q \in Payload \cup {Null}
        /\ h \in Payload \cup {Null} /\ k \in Payload \cup {Null}
        /\ db[d] \in Database /\ db[x] \in Database
    BY TypeFact, DatabaseFields DEF SyncInv
  <1>3. Alike(h, k) /\ (e \in Snippets => h = k)
    <2>1. CASE Known(db[d], e)
      <3>1. Known(db[x], e)
        BY <1>1, <2>1 DEF Known
      <3>2. PICK o \in Versions(db[d]) : o.entity = e /\ o.rev = db[d].state[e].rev /\ o.payload = h
        BY <2>1, VersionFact
      <3>3. PICK f \in Versions(db[x]) : f.entity = e /\ f.rev = db[x].state[e].rev /\ f.payload = k
        BY <3>1, VersionFact
      <3>4. o \in Everything /\ f \in Everything
        <4>1. o \in Change /\ f \in Change
          BY <1>2, FactsAreChanges DEF Facts
        <4>2. QED
          BY <4>1 DEF Everything, InDatabases, Facts
      <3>5. o.rev = f.rev
        BY <1>1, <3>2, <3>3
      <3>6. Alike(o.payload, f.payload) /\ (e \in Snippets => o = f)
        BY <3>2, <3>4, <3>5 DEF SyncInv, Minted
      <3>7. QED
        BY <3>2, <3>3, <3>6
    <2>2. CASE ~Known(db[d], e)
      <3>1. h = Null /\ k = Null
        BY <1>1, <2>2 DEF Known, TookInv, DeviceTook, Dated
      <3>2. QED
        BY <3>1, WeakerFact
    <2>3. QED
      BY <2>1, <2>2
  <1>4. /\ (p = Null) = (h = Null) /\ (q = Null) = (k = Null)
        /\ p # Null => p.name = h.name /\ p.ref \in {Null, h.ref}
        /\ q # Null => q.name = k.name /\ q.ref \in {Null, k.ref}
        /\ Plain(e, p) /\ Plain(e, q)
        /\ e \in Snippets => p = h /\ q = k
    BY DEF SyncInv, DeviceInv, Coherent
  <1>5. ~Contested => (h # Null => h.name.marks = <<>>) /\ (k # Null => k.name.marks = <<>>)
    BY DEF Contested
  <1> HIDE DEF p, q, h, k
  <1>6. Alike(p, q)
    BY <1>3, <1>4 DEF Alike
  <1>7. e \in Snippets => p = q
    BY <1>3, <1>4
  <1>8. ASSUME ~Contested, p # Null PROVE p.name = q.name
    <2>1. h # Null /\ k # Null /\ q # Null /\ h \in Payload /\ k \in Payload
      BY <1>2, <1>4, <1>6, <1>8 DEF Alike
    <2>2. h.name.base = k.name.base /\ h.name.marks = k.name.marks
      BY <1>3, <1>5, <1>8, <2>1 DEF Alike
    <2>3. h.name \in Name /\ k.name \in Name
      BY <2>1 DEF Payload
    <2>4. h.name = k.name
      BY <2>2, <2>3 DEF Name
    <2>5. QED
      BY <1>4, <1>8, <2>1, <2>4
  <1>9. ASSUME ~Contested, e \notin Servers PROVE p = q
    <2>1. CASE p = Null
      BY <1>6, <2>1 DEF Alike
    <2>2. CASE p # Null
      <3>1. q # Null /\ p \in Payload /\ q \in Payload
        BY <1>2, <1>6, <2>2 DEF Alike
      <3>2. p.name = q.name /\ p.ref = Null /\ q.ref = Null
        BY <1>4, <1>8, <1>9, <2>2, <3>1 DEF Plain
      <3>3. QED
        BY <3>1, <3>2 DEF Payload
    <2>3. QED
      BY <2>1, <2>2
  <1>10. QED
    BY <1>1, <1>6, <1>7, <1>8, <1>9 DEF p, q

\* Devices of a settled vault have the same version of every entity, however many
\* devices there are, whatever was edited concurrently, lost, delivered twice,
\* imported from files or interrupted (apply_remote_batch_for_vault): their
\* rows differ at most in a conflict suffix or in a lost group.
THEOREM SettledDevicesAgree == Spec => []SettledAgree
  <1>1. SyncInv /\ TookInv => SettledAgree
    BY RowsAgree DEF SettledAgree
  <1>2. QED
    BY <1>1, TookInvariant, PTL

\* A server that is in a group on one device is in none on another.
GroupLost ==
    \E d, x \in Devices, e \in Servers :
      /\ db[d].rows[e] # Null /\ db[x].rows[e] # Null
      /\ db[d].rows[e].ref = Null /\ db[x].rows[e].ref # Null

\* Where no name was contested and no server has lost its group on some devices
\* only, the devices of a settled vault have the same rows.
THEOREM ConvergedUnlessGroupLost == Spec => [](UncontestedConvergence \/ GroupLost)
  <1>1. ASSUME SyncInv, TookInv, ~GroupLost PROVE UncontestedConvergence
    <2> SUFFICES ASSUME ~Contested, NEW v \in Vaults, Settled(v), NEW d \in Devices, NEW x \in Devices
                 PROVE  db[d].rows = db[x].rows
      BY DEF UncontestedConvergence, Convergence
    <2>1. db[d].rows \in [Entities -> Payload \cup {Null}] /\ db[x].rows \in [Entities -> Payload \cup {Null}]
      BY <1>1, TypeFact, DatabaseFields DEF SyncInv
    <2>2. ASSUME NEW e \in Entities PROVE db[d].rows[e] = db[x].rows[e]
      <3> DEFINE p == db[d].rows[e]
                 q == db[x].rows[e]
      <3>1. /\ Alike(p, q) /\ (p # Null => p.name = q.name)
            /\ e \notin Servers => p = q
        BY <1>1, RowsAgree
      <3>2. p \in Payload \cup {Null} /\ q \in Payload \cup {Null}
        BY <2>1
      <3>3. e \in Servers /\ p # Null /\ q # Null => (p.ref = Null <=> q.ref = Null)
        BY <1>1 DEF GroupLost
      <3> HIDE DEF p, q
      <3>4. p = q
        <4>1. CASE p = Null \/ e \notin Servers
          BY <3>1, <4>1 DEF Alike
        <4>2. CASE p # Null /\ e \in Servers
          <5>1. q # Null /\ p \in Payload /\ q \in Payload
            BY <3>1, <3>2, <4>2 DEF Alike
          <5>2. p.ref = q.ref /\ p.name = q.name
            BY <3>1, <3>3, <4>2, <5>1 DEF Alike
          <5>3. QED
            BY <5>1, <5>2 DEF Payload
        <4>3. QED
          BY <4>1, <4>2
      <3>5. QED
        BY <3>4 DEF p, q
    <2>3. QED
      BY <2>1, <2>2
  <1>2. SyncInv /\ TookInv => UncontestedConvergence \/ GroupLost
    BY <1>1
  <1>3. QED
    BY <1>2, TookInvariant, PTL
=============================================================================
