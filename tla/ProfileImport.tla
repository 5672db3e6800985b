---------------------------- MODULE ProfileImport ----------------------------
(***************************************************************************)
(* Importing SSH profiles of other programs (ssh_import/mod.rs, openssh.rs,*)
(* putty.rs, tabby.rs).  A preview reads the files of OpenSSH, PuTTY and   *)
(* Tabby into candidates; an import adds those that are new, renames those *)
(* whose name is in use, and links the jump hosts when all are there.      *)
(* Other processes change the servers table meanwhile.                     *)
(*                                                                         *)
(* Of a profile there is what identifies it: its name, its host (for host, *)
(* port and user) and its jump host. The other parameters of OpenSSH are   *)
(* obtained like these two.                                                *)
(***************************************************************************)
EXTENDS Integers, Sequences, SequencesExt, FiniteSets, FiniteSetsExt

CONSTANTS Profiles,     \* what the three programs may have on disk
          Alphabet,     \* the names, in their order
          FirstRows,    \* rows that may be there from the start
          OtherHost,    \* the host of a server that is none of theirs
          RowIds,       \* ids of servers; bound: as many as there may be at a time
          MaxDepth,     \* nesting of Include, 16 in the code
          MaxImports,   \* bound
          MaxMeddling   \* bound: additions and deletions by other processes

Absent == "absent"
Everyone == "*"
Headings == {"host", "match"}
NoRow == [host |-> Absent]
Nobody == 0
Kinds == <<"openssh", "putty", "tabby">>

\* The files are sequences of lines, and no value in them is the one that stands for none.
IsList(seq) == seq \in Seq(ToSet(seq))
ASSUME ProfilesAssumption ==
    \A p \in Profiles :
      /\ IsList(p.tabby)
      /\ \A file \in DOMAIN p.openssh :
           /\ IsList(p.openssh[file])
           /\ \A line \in ToSet(p.openssh[file]) :
                IF line.key = "host" THEN \A pattern \in line.value : pattern.of # Absent
                ELSE line.value # Absent
ASSUME RowsAssumption ==
    /\ RowIds \subseteq Nat \ {Nobody} /\ MaxDepth \in Nat /\ MaxImports \in Nat /\ MaxMeddling \in Nat
    /\ OtherHost # Absent
    /\ \A row \in FirstRows \ {NoRow} : {"name", "host", "jump"} \subseteq DOMAIN row /\ row.jump = Nobody

VARIABLES disk,     \* the files, which nobody changes here
          saved,    \* the servers table
          import,   \* the import under way, with what it keeps in memory
          complete, \* history: sources imported in full, without a rename or a change since
          imports, meddling  \* counts

importVars == <<disk, saved, import, complete, imports, meddling>>

Final(n, source, k) == [base |-> n, source |-> source, k |-> k]
Plain(n) == Final(n, "", 0)

NoImport == [stage |-> "none"]

ImportTypeOK ==
    /\ \A i \in RowIds : saved[i] # NoRow =>
         /\ saved[i].jump \in RowIds \cup {Nobody}
         /\ \A k \in RowIds \ {i} : saved[k] # NoRow => saved[k].name # saved[i].name
    /\ import.stage \in {"none", "adding", "linking", "done", "failed"}
    /\ complete \subseteq ToSet(Kinds)
    /\ imports \in 0..MaxImports /\ meddling \in 0..MaxMeddling

\* Nothing is saved yet, or a server whose name a profile has too.
ImportInit ==
    /\ disk \in Profiles
    /\ \E first \in FirstRows : saved = [i \in RowIds |-> IF i = 1 THEN first ELSE NoRow]
    /\ import = NoImport /\ complete = {} /\ imports = 0 /\ meddling = 0

-----------------------------------------------------------------------------
(* OpenSSH. *)

Unreadable == [ok |-> FALSE, lines |-> <<>>]
Nothing == [ok |-> TRUE, lines |-> <<>>]
Followed(a, b) == [ok |-> a.ok /\ b.ok, lines |-> a.lines \o b.lines]

\* The lines of a file with those of the files it includes, as `included` reads them, in their
\* places.
InPlace(file, included) ==
    LET upTo[n \in 0..Len(file)] ==
          IF n = 0 THEN Nothing
          ELSE Followed(upTo[n - 1], IF file[n].key = "include" THEN included[file[n].value]
                                     ELSE [ok |-> TRUE, lines |-> <<file[n]>>])
    IN  upTo[Len(file)]

Written(files) == UNION {ToSet(files[f]) : f \in DOMAIN files}
Included(files) == {line.value : line \in {l \in Written(files) : l.key = "include"}}

\* expand_file, for the files that are being read above a file and the levels that are left. A
\* file that includes itself is skipped there, one that does not exist has no lines.
Expand(files) ==
    LET read[levels \in 0..(MaxDepth + 1)] ==
          [above \in SUBSET DOMAIN files |-> [file \in {"config"} \cup Included(files) |->
             IF levels = 0 THEN Unreadable
             ELSE IF file \in above \/ file \notin DOMAIN files THEN Nothing
             ELSE InPlace(files[file], read[levels - 1][above \cup {file}])]]
    IN  read[MaxDepth + 1][{}]["config"]

\* SshBlock: what comes before the first Host holds for every host, what is in a Match for none.
Block(patterns) == [patterns |-> patterns, directives |-> <<>>]
ForEveryone == {[not |-> FALSE, of |-> Everyone]}
WithLine(blocks, line) ==
    CASE line.key = "host" -> Append(blocks, Block(line.value))
      [] line.key = "match" -> Append(blocks, Block({}))
      [] OTHER -> [blocks EXCEPT ![Len(blocks)].directives = Append(@, line)]
Blocks(lines) ==
    LET upTo[n \in 0..Len(lines)] ==
          IF n = 0 THEN <<Block(ForEveryone)>> ELSE WithLine(upTo[n - 1], lines[n])
    IN  upTo[Len(lines)]

Aliases(lines) == {p.of : p \in {q \in UNION {b.patterns : b \in ToSet(Blocks(lines))} :
                                   ~q.not /\ q.of # Everyone}}

Hits(pattern, alias) == pattern.of \in {Everyone, alias}

\* patterns_match
PatternsMatch(patterns, alias) ==
    /\ \A p \in patterns : p.not => ~Hits(p, alias)
    /\ \E p \in patterns : ~p.not /\ Hits(p, alias)

\* The blocks that match a host and say something of a key,
Sayers(blocks, alias, key) ==
    {k \in DOMAIN blocks : /\ PatternsMatch(blocks[k].patterns, alias)
                           /\ \E line \in ToSet(blocks[k].directives) : line.key = key}
\* and the lines of a block that say it.
Sayings(block, key) == {i \in DOMAIN block.directives : block.directives[i].key = key}

\* Mutant of Obtained: the last value counts.
ObtainedLast(blocks, alias, key) ==
    IF Sayers(blocks, alias, key) = {} THEN Absent
    ELSE LET block == blocks[Max(Sayers(blocks, alias, key))]
         IN  block.directives[Max(Sayings(block, key))].value

\* The blocks that match in the order of the source: the first value counts.
Obtained(blocks, alias, key) ==
    IF Sayers(blocks, alias, key) = {} THEN Absent
    ELSE LET block == blocks[Min(Sayers(blocks, alias, key))]
         IN  block.directives[Min(Sayings(block, key))].value

Candidate(source, at, id, name, host, jump) ==
    [source |-> source, at |-> at, id |-> id, name |-> name, host |-> host, jump |-> jump]

OrElse(value, default) == IF value = Absent THEN default ELSE value
NotNone(jump) == IF jump = "none" THEN Absent ELSE jump  \* parse_proxy_jump

OpenSsh(lines) ==
    {Candidate("openssh", 0, a, a, OrElse(Obtained(Blocks(lines), a, "hostname"), a),
               NotNone(Obtained(Blocks(lines), a, "proxyjump"))) : a \in Aliases(lines)}

-----------------------------------------------------------------------------
(* PuTTY and Tabby. *)

\* Sessions that use SSH and name a host; their proxies are not jump hosts.
Putty(sessions) ==
    {Candidate("putty", 0, s.name, s.name, s.host, Absent) :
       s \in {t \in ToSet(sessions) : /\ t.name # "Default Settings"
                                      /\ t.protocol \in {Absent, "ssh"} /\ t.host # Absent}}

\* Profiles name their jump host by its id, which becomes its name: of profiles of any type.
NameOfId(profiles, id) ==
    LET those == {i \in DOMAIN profiles : profiles[i].host # Absent /\ profiles[i].id = id}
    IN  IF those = {} THEN id ELSE OrElse(profiles[Max(those)].name, profiles[Max(those)].host)

TabbyName(p) == OrElse(p.name, OrElse(p.id, p.host))

\* Of two profiles with one name and host the first counts (preview_import).
Tabby(profiles) ==
    LET those == {i \in DOMAIN profiles : /\ profiles[i].host # Absent
                                          /\ profiles[i].type \in {Absent, "ssh"}}
        first(i) == \A k \in those : k < i => \/ TabbyName(profiles[k]) # TabbyName(profiles[i])
                                             \/ profiles[k].host # profiles[i].host
    IN  {LET p == profiles[i]
         IN  Candidate("tabby", i, OrElse(p.id, TabbyName(p)), TabbyName(p), p.host,
                       IF p.jump = Absent THEN Absent ELSE NameOfId(profiles, p.jump)) :
           i \in {k \in those : first(k)}}

-----------------------------------------------------------------------------
(* preview_import and import_preview. *)

Lines == Expand(disk.openssh)

Read(source) ==
    CASE source = "openssh" -> OpenSsh(Lines.lines)
      [] source = "putty" -> Putty(disk.putty)
      [] OTHER -> Tabby(disk.tabby)

Rank(seq, x) == CHOOSE i \in DOMAIN seq : seq[i] = x

\* By source and name.
Before(a, b) ==
    LET key(c) == <<Rank(Kinds, c.source), Rank(Alphabet, c.name), c.at>>
    IN  \E n \in 1..3 : key(a)[n] < key(b)[n] /\ \A k \in 1..(n - 1) : key(a)[k] = key(b)[k]

\* The next of a list.
First(todo, c) == c \in todo /\ \A other \in todo \ {c} : Before(c, other)

InUse == {i \in RowIds : saved[i] # NoRow}
NextId == CHOOSE i \in RowIds \ InUse : \A k \in RowIds \ InUse : i <= k

\* One source, or all that are available. A file that cannot be read ends it.
StartImport(sources) ==
    /\ import.stage \in {"none", "done", "failed"} /\ imports < MaxImports
    /\ "openssh" \in sources => Lines.ok
    /\ import' = [stage |-> "adding", sources |-> sources, quiet |-> TRUE,
                  again |-> sources \subseteq complete,
                  todo |-> UNION {Read(s) : s \in sources},
                  existing |-> saved, used |-> {saved[i].name : i \in InUse},
                  aliases |-> {}, added |-> {}, jumps |-> <<>>]
    /\ imports' = imports + 1
    /\ UNCHANGED <<disk, saved, complete, meddling>>

\* unique_server_name
UniqueName(c, used) ==
    LET choices == {0} \cup (1..Cardinality(used) + 1)
        name(k) == IF k = 0 THEN Plain(c.name) ELSE Final(c.name, c.source, k)
        free == {k \in choices : name(k) \notin used}
    IN  name(Min(free))

\* remember_aliases: the last of a name stands for it.
Remember(aliases, c, i) ==
    {a \in aliases : a.source # c.source \/ a.name \notin {c.id, c.name}} \cup
      {[source |-> c.source, name |-> n, id |-> i] : n \in {c.id, c.name}}

\* What was on the list when the import began, with the name of the candidate.
Twin(c) == {i \in RowIds : import.existing[i] # NoRow /\ import.existing[i].name = Plain(c.name)
                           /\ import.existing[i].host = c.host}

SkipKnown ==
    /\ import.stage = "adding"
    /\ \E c \in import.todo :
         /\ First(import.todo, c) /\ Twin(c) # {}
         /\ import' = [import EXCEPT !.todo = @ \ {c},
                                     !.aliases = Remember(@, c, CHOOSE i \in Twin(c) : TRUE)]
    /\ UNCHANGED <<disk, saved, complete, imports, meddling>>

\* server_add, and credential_save for a key: a name that was taken since ends the import.
AddAs(c, name, i) ==
    /\ saved' = [saved EXCEPT ![i] = [name |-> name, host |-> c.host, jump |-> Nobody]]
    /\ import' = [import EXCEPT !.todo = @ \ {c}, !.used = @ \cup {name},
                    !.aliases = Remember(@, c, i),
                    !.added = @ \cup {[name |-> name, id |-> i]},
                    !.jumps = IF c.jump = Absent THEN @
                              ELSE Append(@, [id |-> i, source |-> c.source, to |-> c.jump])]
AddCandidate ==
    /\ import.stage = "adding" /\ InUse # RowIds
    /\ \E c \in import.todo :
         /\ First(import.todo, c) /\ Twin(c) = {}
         /\ LET name == UniqueName(c, import.used)
            IN  IF \E k \in InUse : saved[k].name = name
                THEN import' = [import EXCEPT !.stage = "failed"] /\ UNCHANGED saved
                ELSE AddAs(c, name, NextId)
    /\ UNCHANGED <<disk, complete, imports, meddling>>

StartLinking ==
    /\ import.stage = "adding" /\ import.todo = {}
    /\ import' = [import EXCEPT !.stage = "linking"]
    /\ UNCHANGED <<disk, saved, complete, imports, meddling>>

\* The servers that a jump host may be: by alias, or by name among those that were added and
\* those that were there.
ByAlias(jump) ==
    {a.id : a \in {x \in import.aliases : x.source = jump.source /\ x.name = jump.to}}
ByNewName(jump) == {a.id : a \in {x \in import.added : x.name = Plain(jump.to)}}
ByOldName(jump) ==
    {i \in RowIds : import.existing[i] # NoRow /\ import.existing[i].name = Plain(jump.to)}

\* Mutant of Linked: names come before aliases.
LinkedByName(jump) ==
    LET named == ByOldName(jump) \cup ByNewName(jump)
    IN  IF named # {} THEN named ELSE ByAlias(jump)

\* The server that stands for an alias of its source, or else has it for its name.
Linked(jump) ==
    IF ByAlias(jump) # {} THEN ByAlias(jump)
    ELSE IF ByNewName(jump) # {} THEN ByNewName(jump)
    ELSE ByOldName(jump)

LinkJump ==
    /\ import.stage = "linking" /\ import.jumps # <<>>
    /\ LET jump == Head(import.jumps)
       IN  /\ saved' = IF \E to \in Linked(jump) : to # jump.id /\ saved[jump.id] # NoRow
                       THEN [saved EXCEPT ![jump.id].jump = CHOOSE to \in Linked(jump) : TRUE]
                       ELSE saved
           /\ import' = [import EXCEPT !.jumps = Tail(@)]
    /\ UNCHANGED <<disk, complete, imports, meddling>>

Renamed == \E a \in import.added : a.name.source # ""

FinishImport ==
    /\ import.stage = "linking" /\ import.jumps = <<>>
    /\ import' = [import EXCEPT !.stage = "done"]
    /\ complete' = IF import.quiet /\ ~Renamed THEN complete \cup import.sources ELSE complete
    /\ UNCHANGED <<disk, saved, imports, meddling>>

\* The database fails, or the process ends.
BreakImport ==
    /\ import.stage \in {"adding", "linking"}
    /\ import' = [import EXCEPT !.stage = "failed"]
    /\ UNCHANGED <<disk, saved, complete, imports, meddling>>

-----------------------------------------------------------------------------
(* Other processes. *)

Meddle ==
    /\ meddling < MaxMeddling /\ meddling' = meddling + 1
    /\ complete' = {}
    /\ import' = IF import.stage = "none" THEN import ELSE [import EXCEPT !.quiet = FALSE]
    /\ UNCHANGED <<disk, imports>>

OtherAdds(n) ==
    /\ Meddle /\ InUse # RowIds /\ \A i \in InUse : saved[i].name # Plain(n)
    /\ saved' = [saved EXCEPT ![NextId] = [name |-> Plain(n), host |-> OtherHost, jump |-> Nobody]]

OtherDeletes(i) ==
    /\ Meddle /\ i \in InUse
    /\ saved' = [saved EXCEPT ![i] = NoRow]

ImportNext ==
    \/ \E sources \in {{k} : k \in ToSet(Kinds)} \cup {ToSet(Kinds)} : StartImport(sources)
    \/ SkipKnown \/ AddCandidate \/ StartLinking \/ LinkJump \/ FinishImport \/ BreakImport
    \/ \E n \in ToSet(Alphabet) : OtherAdds(n)
    \/ \E i \in RowIds : OtherDeletes(i)

ImportSpec == ImportInit /\ [][ImportNext]_importVars

-----------------------------------------------------------------------------
(* What the files say, line by line. *)

\* The Host or Match line that a line belongs to.
Heading(lines, i) ==
    LET heads == {j \in 1..(i - 1) : lines[j].key \in Headings}
    IN  IF heads = {} THEN [key |-> "host", value |-> ForEveryone] ELSE lines[Max(heads)]
Applies(lines, i, alias, key) ==
    LET h == Heading(lines, i)
    IN  lines[i].key = key /\ h.key = "host" /\ PatternsMatch(h.value, alias)
Says(lines, alias, key, default) ==
    LET those == {i \in DOMAIN lines : Applies(lines, i, alias, key)}
    IN  IF those = {} THEN default ELSE lines[Min(those)].value

\* The server that an import of `source` made of, or found for, a profile.
StandsFor(i, source, name, host) ==
    /\ i \in InUse /\ saved[i].name.base = name /\ saved[i].host = host
    /\ saved[i].name.source \in {"", source}
IsNew(i) == import.existing[i] = NoRow

\* Tabby profiles that their names and ids tell apart.
ToldApart(profiles) ==
    \A p, q \in profiles : /\ p.name # Absent /\ p.id # q.name
                           /\ p.name = q.name \/ (p.id = q.id /\ p.id # Absent) => p = q

\* An import that ends undisturbed has a server for every host of the OpenSSH files, with the
\* value that comes first there, and for every profile of Tabby; the jump host of one that it
\* added is the server of the profile that is named there, not another one of that name. Tabby
\* profiles with one name are left out, as their ids become that name, and a host named "none".
ImportedAsConfigured ==
    (import.stage = "done" /\ import.quiet) =>
      LET lines == Lines.lines
          host(a) == Says(lines, a, "hostname", a)
          profiles == ToSet(disk.tabby)
          servers == {p \in profiles : p.type = "ssh" /\ p.host # Absent}
      IN  /\ "openssh" \in import.sources => \A a \in Aliases(lines) : \E i \in InUse :
               /\ StandsFor(i, "openssh", a, host(a))
               /\ LET j == Says(lines, a, "proxyjump", Absent)
                  IN  (IsNew(i) /\ j \in Aliases(lines) \ {a, "none"}) =>
                        StandsFor(saved[i].jump, "openssh", j, host(j))
          /\ ("tabby" \in import.sources /\ ToldApart(profiles)) =>
               \A p \in servers : \E i \in InUse :
                 /\ StandsFor(i, "tabby", p.name, p.host)
                 /\ \A q \in servers \ {p} : (IsNew(i) /\ p.jump # Absent /\ p.jump = q.id) =>
                      StandsFor(saved[i].jump, "tabby", q.name, q.host)

\* Importing once more what was imported in full, and without a rename, changes nothing.
ReimportIsIdle ==
    (import.stage = "done" /\ import.quiet /\ import.again) => saved = import.existing

ImportsAreFaithful == ImportedAsConfigured /\ ReimportIsIdle
=============================================================================
