------------------------------ MODULE SyncStore ------------------------------
(***************************************************************************)
(* The transactional sync storage of one device (storage/sync.rs with the  *)
(* entity writes of storage/database.rs): the rows of the workspace, the   *)
(* per-entity sync state, the outbox and the hybrid logical clock, and the *)
(* functions from database to database that local writes and remote        *)
(* changes are made of.                                                    *)
(*                                                                         *)
(* Abstractions of data.  A revision "<millis>:<device>" is the pair       *)
(* <<time, device>>; a change is identified by its revision (the code      *)
(* mints the revision and the UUID of a change together); a tombstone is a *)
(* change, or a state, whose payload is Null; the content hash is the      *)
(* payload it hashes; a name is a base name followed by the entities it    *)
(* was given conflict suffixes for.  A server has one reference, its       *)
(* group; jump hosts and parent groups are handled by the same statements. *)
(* The order of the numbers is the order of the statements, "ORDER BY      *)
(* entity_kind, entity_id": an instance numbers its groups before its      *)
(* servers.                                                                *)
(***************************************************************************)
EXTENDS Integers, FiniteSets, Sequences

CONSTANTS Devices,    \* device ids, ordered as their strings are
          Snippets,   \* ids of command snippets: names need not be unique
          Groups,     \* ids of groups: unique names, never updated in place
          Servers,    \* ids of servers: unique names and a group reference
          Names,      \* base names a user may choose
          Null        \* no payload, no reference

Entities == Snippets \cup Groups \cup Servers

ASSUME StoreAssumption ==
    /\ Devices \subseteq Nat \ {0} /\ IsFiniteSet(Devices)
    /\ Entities \subseteq Nat \ {0}
    /\ IsFiniteSet(Entities)
    /\ Snippets \cap (Groups \cup Servers) = {}
    /\ Groups \cap Servers = {}

Revision == Nat \X Nat
NoRevision == <<0, 0>>

Name == [base : Names, marks : Seq(Entities)]
Payload == [name : Name, ref : Groups \cup {Null}]
Change == [entity : Entities, rev : Revision, payload : Payload \cup {Null}]
EntityState == [rev : Revision, hash : Payload \cup {Null}]

ASSUME NullAssumption == Null \notin Payload /\ Null \notin Groups

Database == [rows   : [Entities -> Payload \cup {Null}],
             state  : [Entities -> EntityState],
             outbox : SUBSET Change,
             clock  : Nat]

EmptyDatabase == [rows   |-> [e \in Entities |-> Null],
                  state  |-> [e \in Entities |-> [rev |-> NoRevision, hash |-> Null]],
                  outbox |-> {},
                  clock  |-> 0]

-----------------------------------------------------------------------------
(* Revisions. *)

RevLess(a, b) == a[1] < b[1] \/ (a[1] = b[1] /\ a[2] < b[2])

Known(s, e) == s.state[e].rev # NoRevision
Tombstoned(s, e) == Known(s, e) /\ s.state[e].hash = Null

-----------------------------------------------------------------------------
(* Local writes: the rows change first, then each touched entity is        *)
(* recorded from its row, in order, under consecutive revisions.           *)

Rank(S, e) == Cardinality({x \in S : x < e})

Stamp(s, d, S, t) ==
    LET rev(e) == <<t + Rank(S, e), d>>
    IN  [s EXCEPT
           !.state = [e \in Entities |->
                        IF e \in S THEN [rev |-> rev(e), hash |-> s.rows[e]]
                                   ELSE s.state[e]],
           !.outbox = @ \cup {[entity |-> e, rev |-> rev(e), payload |-> s.rows[e]] : e \in S},
           !.clock = t + Cardinality(S) - 1]

Members(s, g) == {x \in Entities : s.rows[x] # Null /\ s.rows[x].ref = g}

\* Mutant of RowsWithout: references to the deleted entity stay.
RowsWithoutOnly(rows, e) == [rows EXCEPT ![e] = Null]

\* The rows after detach_*_references and the DELETE of entity e.
RowsWithout(rows, e) ==
    [x \in Entities |->
       IF x = e THEN Null
       ELSE IF rows[x] # Null /\ rows[x].ref = e THEN [rows[x] EXCEPT !.ref = Null]
       ELSE rows[x]]

Upserted(s, d, e, p, t) ==
    Stamp([s EXCEPT !.rows[e] = p], d, {e}, t)

Deleted(s, d, e, t) ==
    LET detached == Stamp([s EXCEPT !.rows = RowsWithout(@, e)], d, Members(s, e) \ {e}, t)
    IN  Stamp(detached, d, {e}, t + Cardinality(Members(s, e) \ {e}))

\* activate_vault: every known entity is recorded anew in an empty outbox.
Rebuilt(s, d, t) ==
    Stamp([s EXCEPT !.outbox = {}], d, {e \in Entities : Known(s, e)}, t)

-----------------------------------------------------------------------------
(* Remote changes. *)

Table(e) == IF e \in Groups THEN Groups ELSE Servers

\* The row of the same table that already owns the incoming name.
Rivals(s, c) ==
    IF c.payload = Null \/ c.entity \in Snippets THEN {}
    ELSE {x \in Table(c.entity) \ {c.entity} :
            s.rows[x] # Null /\ s.rows[x].name = c.payload.name}

Outranks(s, c, x) ==
    \/ RevLess(s.state[x].rev, c.rev)
    \/ c.rev = s.state[x].rev /\ c.entity < x

ConflictNamed(p, e) == [p EXCEPT !.name.marks = Append(@, e)]

\* The change as it is stored: renamed when the existing owner of its name wins.
Effective(s, c) ==
    IF \E x \in Rivals(s, c) : ~Outranks(s, c, x)
    THEN [c EXCEPT !.payload = ConflictNamed(@, c.entity)]
    ELSE c

Newer(s, c) == RevLess(s.state[c.entity].rev, c.rev)

\* "Equal sync revision has different content": the batch is rolled back.
Corrupt(s, c) ==
    /\ c.rev = s.state[c.entity].rev
    /\ Effective(s, c).payload # s.state[c.entity].hash

\* Mutant of CleanRef: reference_is_tombstoned is not asked.
CleanRefKept(s, p) == p

CleanRef(s, p) ==
    IF p.ref # Null /\ Tombstoned(s, p.ref) THEN [p EXCEPT !.ref = Null] ELSE p

\* Mutant of Materialized: only the row of the losing entity is renamed.
MaterializedRowOnly(s, L) ==
    [s EXCEPT !.rows = [x \in Entities |-> IF x \in L THEN ConflictNamed(@[x], x) ELSE @[x]]]

\* A stored row that loses its name keeps its revision and is renamed in the
\* rows, in its hash and in the outbox changes that still carry the old name.
Materialized(s, L) ==
    [s EXCEPT
       !.rows = [x \in Entities |->
                   IF x \in L THEN CleanRef(s, ConflictNamed(@[x], x)) ELSE @[x]],
       !.state = [x \in Entities |->
                   IF x \in L THEN [@[x] EXCEPT !.hash = ConflictNamed(s.rows[x], x)]
                   ELSE @[x]],
       !.outbox = {IF o.entity \in L /\ o.payload # Null /\ o.payload.name = s.rows[o.entity].name
                   THEN [o EXCEPT !.payload = ConflictNamed(@, o.entity)]
                   ELSE o : o \in @}]

\* The database after a change whose revision is newer than the stored one.
Stored(s, c) ==
    LET eff == Effective(s, c)
        m   == Materialized(s, {x \in Rivals(s, c) : Outranks(s, c, x)})
    IN  [m EXCEPT
           !.rows = IF eff.payload = Null
                    THEN RowsWithout(@, c.entity)
                    ELSE [@ EXCEPT ![c.entity] = CleanRef(m, eff.payload)],
           !.state[c.entity] = [rev |-> c.rev, hash |-> eff.payload],
           !.outbox = {o \in @ : o.entity = c.entity => RevLess(c.rev, o.rev)}]

\* observe_revision comes before the comparison, so even an ignored change
\* moves the clock.
Observed(s, c) == [s EXCEPT !.clock = IF c.rev[1] > @ THEN c.rev[1] ELSE @]

Applied(s, c) ==
    IF Newer(s, c) THEN Stored(Observed(s, c), c) ELSE Observed(s, c)

-----------------------------------------------------------------------------
\* export_snapshot: one change per live row, under its stored revision.
Snapshot(s) ==
    {[entity |-> e, rev |-> s.state[e].rev, payload |-> s.rows[e]] :
        e \in {x \in Entities : Known(s, x) /\ s.state[x].hash # Null}}

\* The n oldest changes of an outbox, as "ORDER BY revision LIMIT n" returns them.
Oldest(outbox, n) ==
    {c \in outbox : Cardinality({o \in outbox : RevLess(o.rev, c.rev)}) < n}
=============================================================================
