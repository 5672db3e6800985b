---------------------------- MODULE CommandLine ----------------------------
(***************************************************************************)
(* Commands of the command line, each a process of its own.  A file        *)
(* command (commands/file_tools.rs) or an SFTP prompt (commands/sftp.rs)   *)
(* takes a lease on a session: the oldest connected one of the server, or  *)
(* one that it makes and gives back at its end.  `ssh` names its session   *)
(* with a short number in a file that all commands read, change and write  *)
(* without a lock (session_alias.rs); later commands find the session by   *)
(* that number.  An SFTP prompt has a directory of its own, and the        *)
(* daemon keeps one per session for all its clients.                       *)
(*                                                                         *)
(* A message to the daemon is a step, and may fail.  The server has one    *)
(* chain of directories, so that a directory is its depth.                 *)
(***************************************************************************)
EXTENDS Integers, FiniteSets, Functions

CONSTANTS Jobs,     \* commands, each started once
          MaxSess,  \* bound: sessions
          MaxLines  \* bound: lines typed at an SFTP prompt

VARIABLES daemon,   \* the daemon's sessions: up, down (still listed), or gone
          context,  \* SftpContext.current_path of each session, or none
          store,    \* cli-sessions.json
          job,      \* the commands
          text,     \* a file on the server that the commands work on
          maker,    \* history: the command that made a session, or the application
          told,     \* history: the numbers that users were told, and for which sessions
          past,     \* history of the file: whether an edit was crossed, whether it was written
                    \* anew, and who edited it
          clash,    \* history: two commands were at the file at once
          stray     \* history: commands whose SFTP prompt started amid another's `cd`

leaseVars == <<daemon, context, store, job, text, maker, told, past, clash, stray>>

Sids == 1..MaxSess
None == -1
App == "app"
Root == 0
Home == 1
Deepest == 2
Absent == [absent |-> TRUE]
Torn == [torn |-> TRUE]
Empty == [next |-> 1, of |-> <<>>]

ASSUME LeaseAssumption == App \notin Jobs /\ MaxSess \in Nat \ {0} /\ MaxLines \in Nat

Waiting == [stage |-> "waiting"]
Over(j) == job[j].stage = "over"
Busy(j) == job[j].stage \notin {"waiting", "over"}
Leasing == {"search", "file", "sftp"}
Naming == {"session", "kill"}

LeaseTypeOK ==
    /\ daemon \in [Sids -> {"none", "up", "down", "gone"}]
    /\ \A s \in Sids : s > 1 /\ daemon[s] # "none" => daemon[s - 1] # "none"
    /\ context \in [Sids -> {None} \cup Root..Deepest]
    /\ store = Torn \/ (DOMAIN store.of \subseteq 1..(store.next - 1) /\ Range(store.of) \subseteq Sids)
    /\ \A j \in Jobs : Busy(j) => job[j].sid \in Sids \cup {None} /\ job[j].own \in BOOLEAN
    /\ text = Absent \/ (text.edits \subseteq Jobs /\ {text.whole, text.long} \subseteq BOOLEAN)
    /\ past.edited \subseteq Jobs /\ {past.crossed, past.anew} \subseteq BOOLEAN
    /\ maker \in [Sids -> Jobs \cup {App}] /\ told \subseteq Nat \X Sids /\ clash \in BOOLEAN /\ stray \subseteq Jobs

\* The application may have a session of its own, and an earlier `ssh` may have named it.
LeaseInit ==
    /\ \E before \in {"none", "up", "named"} :
         /\ daemon = [s \in Sids |-> IF s = 1 /\ before # "none" THEN "up" ELSE "none"]
         /\ store = IF before = "named" THEN [next |-> 2, of |-> [n \in {1} |-> 1]] ELSE Empty
         /\ told = IF before = "named" THEN {<<1, 1>>} ELSE {}
    /\ context = [s \in Sids |-> None] /\ job = [j \in Jobs |-> Waiting]
    /\ text = Absent \/ \E long \in BOOLEAN : text = [edits |-> {}, whole |-> TRUE, long |-> long]
    /\ past = [crossed |-> FALSE, anew |-> FALSE, edited |-> {}]
    /\ clash = FALSE /\ stray = {} /\ maker = [s \in Sids |-> App]

\* A command with other fields, or more.
With(change, r) == [f \in DOMAIN change \cup DOMAIN r |-> IF f \in DOMAIN change THEN change[f] ELSE r[f]]
Step(j, change) == job' = [job EXCEPT ![j] = With(change, @)]
Goto(j, stage) == Step(j, [stage |-> stage])
\* What remains of a command: how it ended, and what it knows of its lease.
Ended(r, end) == [stage |-> "over", kind |-> r.kind, sid |-> r.sid, own |-> r.own,
                  end |-> end, lost |-> r.lost]
Finish(j, end) == job' = [job EXCEPT ![j] = Ended(@, end)]
\* Steps that leave the file, or the sessions, or the numbers alone.
Text == UNCHANGED <<text, past>>
Sessions == UNCHANGED <<daemon, context, maker, text, past>>
File == UNCHANGED <<store, told, clash>>

-----------------------------------------------------------------------------
(* The file of short numbers. *)

\* load: what cannot be read or parsed counts as a file that is not there.
Loaded == IF store = Torn THEN Empty ELSE store
Resolved(data, n) == IF n \in DOMAIN data.of THEN data.of[n] ELSE None
Numbered(data, s) == {n \in DOMAIN data.of : data.of[n] = s}

\* save: std::fs::write empties the file, and then writes it.
AtStore(j) == Busy(j) /\ job[j].stage \in {"empty", "write"}
Tear(j) ==
    /\ job[j].stage = "empty"
    /\ store' = Torn /\ Goto(j, "write")
    /\ Sessions /\ UNCHANGED <<told, clash, stray>>
Written(j) ==
    /\ job[j].stage = "write"
    /\ store' = job[j].data
    /\ told' = IF job[j].kind = "ssh" THEN told \cup {<<job[j].data.next - 1, job[j].sid>>} ELSE told
    /\ Finish(j, job[j].end)
    /\ Sessions /\ UNCHANGED <<clash, stray>>
Clashes(j) == clash' = (clash \/ \E i \in Jobs \ {j} : AtStore(i))

\* Mutant of Forgotten: the numbering starts over behind the highest number in use.
ForgottenCompact(data, s) ==
    LET left == Restrict(data.of, DOMAIN data.of \ Numbered(data, s))
    IN [of |-> left, next |-> CHOOSE n \in 1..data.next :
                                n - 1 \in DOMAIN left \cup {0} /\ \A m \in DOMAIN left : m < n]

\* remove_by_session_id.
Forgotten(data, s) == [data EXCEPT !.of = Restrict(@, DOMAIN @ \ Numbered(data, s))]

\* register, with the next number.
Registered(data, s) ==
    [next |-> data.next + 1,
     of |-> [n \in DOMAIN data.of \cup {data.next} |-> IF n = data.next THEN s ELSE data.of[n]]]

\* `ssh` has its session: find_by_session_id, or register, which may not be able to write.
NameSession(j) ==
    /\ job[j].stage = "name" /\ Sessions /\ UNCHANGED <<store, stray>> /\ Clashes(j)
    /\ \/ /\ Numbered(Loaded, job[j].sid) # {}
          /\ \E n \in Numbered(Loaded, job[j].sid) : told' = told \cup {<<n, job[j].sid>>}
          /\ Finish(j, "ok")
       \/ /\ Numbered(Loaded, job[j].sid) = {} /\ UNCHANGED told
          /\ \/ Step(j, [stage |-> "empty",
                         data |-> Registered(Loaded, job[j].sid)])
             \/ Finish(j, "ok")

\* A number is forgotten after a session was killed. Only the file commands and `kill` do it.
ForgetSession(j) ==
    /\ job[j].stage = "forget" /\ Sessions /\ UNCHANGED <<store, told, stray>> /\ Clashes(j)
    /\ Step(j, [stage |-> "empty", data |-> Forgotten(Loaded, job[j].sid)])

-----------------------------------------------------------------------------
(* Commands. *)

BeginJob(j, kind, stage, sid) ==
    /\ job[j] = Waiting
    /\ job' = [job EXCEPT ![j] = [stage |-> stage, kind |-> kind, sid |-> sid,
                                  own |-> FALSE, end |-> "ok", lost |-> FALSE]]
    /\ Sessions /\ UNCHANGED <<store, told, stray>>

\* acquire_session and sftp::connect, with the name of a server; ssh may refuse to reuse.
BeginOnServer(j) ==
    \/ \E kind \in Leasing \cup {"ssh"} : BeginJob(j, kind, "find", None) /\ UNCHANGED clash
    \/ BeginJob(j, "ssh", "create", None) /\ UNCHANGED clash
\* main: a session is addressed with its number, or with its own identifier, which nothing checks.
BeginOnSession(j) ==
    \E kind \in Leasing \cup Naming :
      LET stage == IF kind = "kill" THEN "return" ELSE "use"
      IN \/ \E a \in told : /\ Resolved(Loaded, a[1]) # None /\ Clashes(j)
                            /\ BeginJob(j, kind, stage, Resolved(Loaded, a[1]))
         \/ /\ \E s \in Sids : daemon[s] # "none" /\ BeginJob(j, kind, stage, s)
            /\ UNCHANGED clash
BeginKillAll(j) == BeginJob(j, "killall", "list", None) /\ UNCHANGED clash

\* Mutant of FindReusable: a session that was found counts as one that was made.
FindAndOwn(j) ==
    /\ job[j].stage = "find" /\ Sessions /\ File /\ UNCHANGED stray
    /\ LET up == {s \in Sids : daemon[s] = "up"}
       IN \/ \E s \in up : /\ \A r \in up : s <= r
                          /\ Step(j, [sid |-> s, own |-> TRUE,
                                      stage |-> IF job[j].kind = "ssh" THEN "name" ELSE "use"])
          \/ up = {} /\ Goto(j, "create")
          \/ Finish(j, "failed")

\* find_reusable_session: the oldest connected session of the server.
FindReusable(j) ==
    /\ job[j].stage = "find" /\ Sessions /\ File /\ UNCHANGED stray
    /\ LET up == {s \in Sids : daemon[s] = "up"}
       IN \/ \E s \in up : /\ \A r \in up : s <= r
                          /\ Step(j, [sid |-> s, stage |-> IF job[j].kind = "ssh" THEN "name" ELSE "use"])
          \/ up = {} /\ Goto(j, "create")
          \/ Finish(j, "failed")

\* create_session. When only the reply is lost, nobody owns the session that was made.
Create(j) ==
    /\ job[j].stage = "create" /\ File /\ Text /\ UNCHANGED <<context, stray>>
    /\ \/ Finish(j, "failed") /\ UNCHANGED <<daemon, maker>>
       \/ \E s \in Sids :
            /\ maker' = [maker EXCEPT ![s] = j]
            /\ daemon[s] = "none" /\ \A r \in 1..(s - 1) : daemon[r] # "none"
            /\ daemon' = [daemon EXCEPT ![s] = "up"]
            /\ \/ Finish(j, "failed")
               \/ Step(j, [sid |-> s, own |-> job[j].kind # "ssh",
                           stage |-> IF job[j].kind = "ssh" THEN "name" ELSE "use"])

\* Whether it went well or not, a command that owns its session goes on to give it back.
Return(j, end) ==
    IF job[j].own THEN Step(j, [stage |-> "return", end |-> end]) ELSE Finish(j, end)

\* rg, exec and the like are one message, and init_sftp is one for the file commands. The daemon
\* refuses both when the session is not connected.
Use(j) ==
    /\ job[j].stage = "use" /\ job[j].kind # "sftp" /\ File /\ Text /\ UNCHANGED <<daemon, maker, stray>>
    /\ \/ Return(j, "failed") /\ UNCHANGED context
       \/ /\ daemon[job[j].sid] = "up"
          /\ IF job[j].kind = "file"
             THEN /\ context' = [context EXCEPT ![job[j].sid] = Home]
                  /\ \E stage \in {"get", "add", "stat"} : Goto(j, stage)
             ELSE Return(j, "ok") /\ UNCHANGED context

Message(j, stage) ==
    /\ job[j].stage = stage /\ File /\ UNCHANGED <<daemon, context, maker, stray>>
Reached(j) == daemon[job[j].sid] = "up"
\* Whoever has read the file and is about to write it writes on old ground.
Crossed(j) == past.crossed \/ \E i \in Jobs \ {j} : Busy(i) /\ job[i].stage = "replace"
\* The file is written anew, or was emptied by a write that failed.
WrittenAnew(j) ==
    /\ text' = [edits |-> {}, whole |-> FALSE, long |-> FALSE]
    /\ past' = [past EXCEPT !.anew = TRUE, !.crossed = Crossed(j)]

\* get_content reads; add_file writes, and may refuse to overwrite.
GetContent(j) == Message(j, "get") /\ Text /\ \E end \in {"ok", "failed"} : Return(j, end)
AddFile(j) ==
    /\ Message(j, "add")
    /\ \/ Return(j, "failed") /\ Text
       \/ Reached(j) /\ WrittenAnew(j) /\ \E end \in {"ok", "failed"} : Return(j, end)

\* edit_file: the file must exist. It is replaced, or read to replace a piece of it.
StatFile(j) ==
    /\ Message(j, "stat") /\ Text
    /\ \/ Return(j, "failed")
       \/ Reached(j) /\ text # Absent /\ \E stage \in {"add", "read"} : Goto(j, stage)

\* Mutant of ReadToEdit: the mark of an answer that was cut off is not looked at.
ReadLongToEdit(j) ==
    /\ Message(j, "read") /\ Text
    /\ \/ Return(j, "failed")
       \/ /\ Reached(j) /\ text # Absent
          /\ Step(j, [stage |-> "replace", saw |-> text.edits, all |-> text.whole /\ ~text.long])

\* An answer that was cut off at ten megabytes is not edited.
ReadToEdit(j) ==
    /\ Message(j, "read") /\ Text
    /\ \/ Return(j, "failed")
       \/ /\ Reached(j) /\ text # Absent /\ ~text.long
          /\ Step(j, [stage |-> "replace", saw |-> text.edits, all |-> text.whole])
WriteEdit(j) ==
    /\ Message(j, "replace")
    /\ \/ Return(j, "failed") /\ Text
       \/ Reached(j) /\ Return(j, "failed") /\ WrittenAnew(j)
       \/ /\ Reached(j) /\ Return(j, "ok")
          /\ text' = [edits |-> job[j].saw \cup {j}, whole |-> job[j].all, long |-> FALSE]
          /\ past' = [past EXCEPT !.crossed = Crossed(j), !.edited = @ \cup {j}]

\* Kills with which a command gives a session back or obeys its user; the reply is ignored by the
\* first, and sftp leaves the number alone.
SendKill(j) ==
    /\ job[j].stage = "return" /\ File /\ Text /\ UNCHANGED <<context, maker, stray>>
    /\ LET next == IF job[j].kind = "sftp" THEN Finish(j, job[j].end) ELSE Goto(j, "forget")
       IN \/ /\ daemon[job[j].sid] \in {"up", "down"}
             /\ daemon' = [daemon EXCEPT ![job[j].sid] = "gone"] /\ next
          \/ /\ UNCHANGED daemon
             /\ CASE job[j].kind = "kill" -> Finish(j, "failed")
                  [] job[j].kind = "sftp" ->
                       job' = [job EXCEPT ![j] = [Ended(@, @.end) EXCEPT !.lost = TRUE]]
                  [] OTHER -> Step(j, [stage |-> "forget", lost |-> TRUE])

\* kill_all: a list, and a message for each of it.
ListAll(j) ==
    /\ job[j].stage = "list" /\ Sessions /\ File /\ UNCHANGED stray
    /\ Step(j, [stage |-> "each", rest |-> {s \in Sids : daemon[s] \in {"up", "down"}}])
KillEach(j) ==
    /\ job[j].stage = "each" /\ File /\ Text /\ UNCHANGED <<context, maker, stray>>
    /\ IF job[j].rest = {} THEN Finish(j, "ok") /\ UNCHANGED daemon
       ELSE LET s == CHOOSE s \in job[j].rest : \A r \in job[j].rest : s <= r
            IN /\ Step(j, [rest |-> job[j].rest \ {s}])
               /\ \/ UNCHANGED daemon
                  \/ daemon[s] \in {"up", "down"} /\ daemon' = [daemon EXCEPT ![s] = "gone"]

-----------------------------------------------------------------------------
(* The SFTP prompt. *)

Arguments == {"/", "~", ".", "..", "child"}

From(arg, home, here) ==
    CASE arg = "/" -> Root [] arg = "~" -> home [] arg = "." -> here
      [] arg = ".." -> IF here = Root THEN Root ELSE here - 1
      [] OTHER -> here + 1

\* resolve_remote_arg and normalize_remote_path, against the prompt's own directory.
Meant(j, arg) == From(arg, job[j].home, job[j].here)

\* Mutant of Hit: the line is left to the daemon to resolve.
HitThere(j, arg) == From(arg, Home, context[job[j].sid])

\* What is sent is absolute, so that the daemon's resolve_remote_path leaves it alone.
Hit(j, arg) == Meant(j, arg)

\* init_sftp: the daemon's directory of the session starts over, and is then asked for.
PromptInit(j) ==
    /\ job[j].stage = "use" /\ job[j].kind = "sftp" /\ File /\ Text /\ UNCHANGED <<daemon, maker, stray>>
    /\ \/ Return(j, "failed") /\ UNCHANGED context
       \/ /\ daemon[job[j].sid] = "up" /\ Goto(j, "pwd")
          /\ context' = [context EXCEPT ![job[j].sid] = Home]
PromptPwd(j) ==
    /\ job[j].stage = "pwd" /\ Sessions /\ File /\ UNCHANGED stray
    /\ \/ Return(j, "failed")
       \/ /\ context[job[j].sid] # None
          /\ Step(j, [stage |-> "prompt", left |-> MaxLines, home |-> context[job[j].sid],
                      here |-> context[job[j].sid], at |-> Home, meant |-> Home])

\* A line that fails leaves the prompt where it is; `cd` lists without preserve_cwd, and moves
\* both directories; every other command leaves them alone.
PromptCd(j) ==
    /\ job[j].stage = "prompt" /\ job[j].left > 0 /\ File /\ Text /\ UNCHANGED <<daemon, maker>>
    /\ \E arg \in Arguments :
         /\ daemon[job[j].sid] = "up" /\ Hit(j, arg) <= Deepest
         /\ context' = [context EXCEPT ![job[j].sid] = Hit(j, arg)]
         /\ Step(j, [left |-> job[j].left - 1, here |-> Meant(j, arg),
                     at |-> Hit(j, arg), meant |-> Meant(j, arg)])
         /\ stray' = stray \cup {i \in Jobs : Busy(i) /\ job[i].stage = "pwd" /\ job[i].sid = job[j].sid}
PromptOther(j) ==
    /\ job[j].stage = "prompt" /\ job[j].left > 0 /\ Sessions /\ File /\ UNCHANGED stray
    /\ \/ Step(j, [left |-> job[j].left - 1])
       \/ \E arg \in Arguments :
            /\ daemon[job[j].sid] = "up" /\ Hit(j, arg) <= Deepest
            /\ Step(j, [left |-> job[j].left - 1, at |-> Hit(j, arg), meant |-> Meant(j, arg)])
PromptEnd(j) ==
    /\ job[j].stage = "prompt" /\ Sessions /\ File /\ UNCHANGED stray
    /\ Return(j, "ok")

\* The connection of a session ends: it stays in the list, and is not reused.
Drop(s) ==
    /\ daemon[s] = "up" /\ daemon' = [daemon EXCEPT ![s] = "down"]
    /\ File /\ Text /\ UNCHANGED <<context, maker, job, stray>>

LeaseNext ==
    \/ \E j \in Jobs :
         \/ BeginOnServer(j) \/ BeginOnSession(j) \/ BeginKillAll(j)
         \/ FindReusable(j) \/ Create(j) \/ Use(j) \/ GetContent(j) \/ AddFile(j)
         \/ StatFile(j) \/ ReadToEdit(j) \/ WriteEdit(j) \/ SendKill(j) \/ ListAll(j) \/ KillEach(j)
         \/ NameSession(j) \/ ForgetSession(j) \/ Tear(j) \/ Written(j)
         \/ PromptInit(j) \/ PromptPwd(j) \/ PromptCd(j) \/ PromptOther(j) \/ PromptEnd(j)
    \/ \E s \in Sids : Drop(s)

LeaseSpec == LeaseInit /\ [][LeaseNext]_leaseVars

-----------------------------------------------------------------------------
(* Properties. *)

\* A file command or SFTP prompt that made a session has killed it when it ends, unless the
\* message with the kill was lost.
LeasesReturned ==
    \A j \in Jobs : (Over(j) /\ job[j].own /\ ~job[j].lost) => daemon[job[j].sid] = "gone"

\* Without `kill` no command ends a session of the application, of `ssh`, or one that it only
\* reused.
OthersKept ==
    (\A j \in Jobs : job[j] = Waiting \/ job[j].kind \notin {"kill", "killall"}) =>
        \A s \in Sids :
          daemon[s] = "gone" => maker[s] # App /\ job[maker[s]].own /\ job[maker[s]].sid = s

\* As long as commands are at the file one at a time, a number that a user was told names the
\* session it was told for, or none.
NumbersAreTrue ==
    (~clash /\ store # Torn) =>
        \A a \in told : a[1] \in DOMAIN store.of => store.of[a[1]] = a[2]

\* A line at an SFTP prompt works where the prompt says, however the other clients of the
\* session move the daemon's directory; only a `cd` amid its start can give it a wrong home.
PromptsKeepPlace ==
    \A j \in Jobs :
        job[j].stage = "prompt" =>
            job[j].at = job[j].meant /\ (job[j].home # Home => j \in stray)

\* What an edit does not name survives it, however long the file is; and an edit that was
\* reported stays, unless a command crossed it between its read and its write. A command that
\* writes the file anew is no edit.
EditsKeepTheRest ==
    (text # Absent /\ ~past.anew) =>
        text.whole /\ (~past.crossed => past.edited \subseteq text.edits)

\* Commands keep to what is theirs: sessions, numbers, directories and lines of a file.
CommandsKeepToTheirs == LeasesReturned /\ OthersKept /\ NumbersAreTrue /\ PromptsKeepPlace /\ EditsKeepTheRest
=============================================================================
