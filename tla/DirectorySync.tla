----------------------------- MODULE DirectorySync -----------------------------
(***************************************************************************)
(* A directory transfer of sftp/sync.rs, step by step, on a remote tree    *)
(* that other commands of sftp/helpers.rs change meanwhile, over a         *)
(* connection that may break.  The transfer plans from the local tree,     *)
(* makes directories, uploads files one by one and, when asked to, lists   *)
(* the remote tree and deletes what is not planned.                        *)
(*                                                                         *)
(* A transfer to a local target takes the same steps with std::fs.  Files  *)
(* go one at a time in the order of their names; the model lets any order  *)
(* happen.  A deletion of another command is one step here.                *)
(***************************************************************************)
EXTENDS Integers, FiniteSets

CONSTANTS Paths,       \* relative paths below the two roots
          Root,
          Above,       \* [Paths -> SUBSET Paths]: the directories that a path is in
          Contents,    \* contents of files
          LocalTrees,  \* bound: the local trees to transfer
          RemoteTrees, \* bound: the remote trees to start from
          Rules,       \* bound: the sets of paths the ignore rules name
          MaxOthers    \* bound: steps of other commands

VARIABLES local, remote,  \* what each path is
          ignored,        \* paths the exclusions and .gitignore files name
          mode, deleteExtra,
          job,            \* the transfer
          others,         \* bound: steps of other commands so far
          quiet,          \* history: nobody interfered and the connection held
          before,         \* history: the remote tree the transfer found
          fresh           \* history: paths others filled after the listing

syncVars == <<local, remote, ignored, mode, deleteExtra, job, others, quiet, before, fresh>>

\* "cut" is a file that was truncated and not written to its end.
Nodes == Contents \cup {"absent", "dir", "link", "cut"}
Stages == {"idle", "mkdir", "upload", "stream", "list", "delete", "done", "failed"}

SyncTypeOK ==
    /\ local \in [Paths -> Nodes] /\ remote \in [Paths -> Nodes]
    /\ ignored \subseteq Paths /\ fresh \subseteq Paths
    /\ job.stage \in Stages
    /\ job.dirs \subseteq Paths /\ job.files \subseteq Paths
    /\ job.planned \subseteq Paths /\ job.open \in Paths \cup {Root}
    /\ DOMAIN job.listed \subseteq Paths /\ \A p \in DOMAIN job.listed : job.listed[p] \in BOOLEAN
    /\ others \in 0..MaxOthers

Lineage(p) == {p} \cup Above[p]
Below(p) == {q \in Paths : p \in Lineage(q)}
Depth(p) == Cardinality(Lineage(p))
File(node) == node \in Contents \cup {"cut"}
Present(tree, p) == tree[p] # "absent"
\* What is in a tree is in directories.
IsTree(tree) == tree \in [Paths -> Nodes] /\ \A p \in Paths : Present(tree, p) => \A q \in Above[p] : tree[q] = "dir"

ASSUME PathsAssumption ==
    /\ Root \notin Paths /\ MaxOthers \in Nat
    /\ Above \in [Paths -> SUBSET Paths]
    /\ \A p \in Paths : /\ IsFiniteSet(Above[p]) /\ p \notin Above[p]
                        /\ \A q \in Above[p] : Above[q] \subseteq Above[p]
ASSUME TreesAssumption ==
    /\ Contents \cap {"absent", "dir", "link", "cut"} = {}
    /\ \A tree \in LocalTrees \cup RemoteTrees : IsTree(tree)
    /\ \A tree \in RemoteTrees, p \in Paths : tree[p] # "link"
    /\ \A rules \in Rules : rules \subseteq Paths

NewJob == [stage |-> "idle", at |-> "idle", dirs |-> {}, files |-> {}, planned |-> {},
           open |-> Root, text |-> "absent", listed |-> <<>>]

SyncInit ==
    /\ local \in LocalTrees /\ remote \in RemoteTrees
    /\ ignored \in Rules
    /\ mode \in {"upload", "sync"} /\ deleteExtra \in BOOLEAN
    /\ job = NewJob
    /\ others = 0 /\ quiet = TRUE /\ before = remote /\ fresh = {}

-----------------------------------------------------------------------------
(* Trees. *)

\* sftp_mkdir_recursive: a component that is a file ends it. It would follow a link to a directory,
\* of which a remote tree has none here.
CanMkdir(tree, p) == \A q \in Lineage(p) : tree[q] \in {"absent", "dir"}
Mkdir(tree, p) == [q \in Paths |-> IF q \in Lineage(p) THEN "dir" ELSE tree[q]]

\* open_remote_file_for_write, write_remote_file_with_options: the file is truncated
\* and its directory made when it is missing.
CanOpen(tree, p) == tree[p] # "dir" /\ \A q \in Lineage(p) \ {p} : tree[q] \in {"absent", "dir"}
Truncated(tree, p, node) ==
    [q \in Paths |-> IF q = p THEN node ELSE IF q \in Lineage(p) THEN "dir" ELSE tree[q]]

Empty(tree, p) == \A q \in Below(p) \ {p} : ~Present(tree, q)
CanRemove(tree, p, asDir) ==
    IF asDir THEN tree[p] = "dir" /\ Empty(tree, p)
             ELSE tree[p] \notin {"absent", "dir"}
Removed(tree, gone) == [q \in Paths |-> IF q \in gone THEN "absent" ELSE tree[q]]

\* A rule that names a directory also covers what is in it.
Excluded(p) == Lineage(p) \cap ignored # {}
Planned == {p \in Paths : ~Excluded(p) /\ (local[p] = "dir" \/ local[p] \in Contents)}

\* Mutant of Protected: what is excluded, without the directories above it.
ProtectedAlone(tree) == {q \in Paths : Present(tree, q) /\ Excluded(q)}

\* sync_protected_paths: what is excluded, and every directory above it.
Protected(tree) ==
    UNION {Lineage(p) : p \in {q \in Paths : Present(tree, q) /\ Excluded(q)}}

-----------------------------------------------------------------------------
(* The transfer: transfer_directory_to_sftp. *)

Failed(at) == [job EXCEPT !.stage = "failed", !.at = at]
StepOfJob == UNCHANGED <<local, ignored, mode, deleteExtra, others, quiet, before, fresh>>

Plan ==
    /\ job.stage = "idle"
    /\ job' = [job EXCEPT !.stage = "mkdir", !.planned = Planned,
                          !.dirs = {p \in Planned : local[p] = "dir"},
                          !.files = {p \in Planned : local[p] # "dir"}]
    /\ before' = remote
    /\ UNCHANGED <<remote, local, ignored, mode, deleteExtra, others, quiet, fresh>>

MakeDirectory ==
    /\ job.stage = "mkdir"
    /\ \/ /\ job.dirs = {}
          /\ job' = [job EXCEPT !.stage = "upload"]
          /\ UNCHANGED remote
       \/ \E p \in job.dirs :
            /\ \A q \in job.dirs : Depth(p) <= Depth(q)
            /\ IF CanMkdir(remote, p)
                 THEN /\ remote' = Mkdir(remote, p)
                      /\ job' = [job EXCEPT !.dirs = @ \ {p}]
                 ELSE job' = Failed("mkdir") /\ UNCHANGED remote
    /\ StepOfJob

\* Mutant of Matches: a file that is there is taken for a copy.
MatchesPresent(p) == mode = "sync" /\ local[p] \in Contents /\ File(remote[p])

Matches(p) == mode = "sync" /\ local[p] \in Contents /\ remote[p] = local[p]

\* upload_local_file_streaming opens the local file, then truncates the remote one.
UploadFile ==
    /\ job.stage = "upload"
    /\ \/ /\ job.files = {}
          /\ job' = [job EXCEPT !.stage = IF mode = "sync" /\ deleteExtra THEN "list" ELSE "done"]
          /\ UNCHANGED remote
       \/ \E p \in job.files :
            \/ /\ Matches(p)
               /\ job' = [job EXCEPT !.files = @ \ {p}] /\ UNCHANGED remote
            \/ /\ ~Matches(p) /\ local[p] \in Contents /\ CanOpen(remote, p)
               /\ remote' = Truncated(remote, p, "cut")
               /\ job' = [job EXCEPT !.stage = "stream", !.files = @ \ {p},
                                     !.open = p, !.text = local[p]]
            \/ /\ ~Matches(p) /\ (local[p] \notin Contents \/ ~CanOpen(remote, p))
               /\ job' = Failed("upload") /\ UNCHANGED remote
    /\ StepOfJob

\* Bytes written to a file that another command removed are lost with it; of two that
\* write one file either wins, or neither.
StreamFile ==
    /\ job.stage = "stream"
    /\ job' = [job EXCEPT !.stage = "upload", !.open = Root, !.text = "absent"]
    /\ \E left \in CASE remote[job.open] = "cut" -> {job.text}
                     [] remote[job.open] \in Contents -> {job.text, remote[job.open], "cut"}
                     [] OTHER -> {remote[job.open]} :
         remote' = [remote EXCEPT ![job.open] = left]
    /\ StepOfJob

\* collect_remote_entries, and the protected paths from the rules as they are now.
ListRemote ==
    /\ job.stage = "list"
    /\ LET found == {p \in Paths : Present(remote, p)}
           extra == (found \ job.planned) \ Protected(remote)
       IN job' = [job EXCEPT !.stage = "delete",
                             !.listed = [p \in extra |-> remote[p] = "dir"]]
    /\ UNCHANGED remote /\ StepOfJob

\* Mutant of DeleteEntry: a directory is removed with what is in it.
DeleteEntryRecursive ==
    /\ job.stage = "delete"
    /\ \/ /\ DOMAIN job.listed = {}
          /\ job' = [job EXCEPT !.stage = "done"]
          /\ UNCHANGED remote
       \/ \E p \in DOMAIN job.listed :
            /\ \A q \in DOMAIN job.listed : Depth(q) <= Depth(p)
            /\ remote' = Removed(remote, Below(p))
            /\ job' = [job EXCEPT !.listed =
                         [q \in DOMAIN job.listed \ {p} |-> job.listed[q]]]
    /\ StepOfJob

\* delete_extra_sftp_entries: deepest first, and the first failure ends it.
DeleteEntry ==
    /\ job.stage = "delete"
    /\ \/ /\ DOMAIN job.listed = {}
          /\ job' = [job EXCEPT !.stage = "done"]
          /\ UNCHANGED remote
       \/ \E p \in DOMAIN job.listed :
            /\ \A q \in DOMAIN job.listed : Depth(q) <= Depth(p)
            /\ IF CanRemove(remote, p, job.listed[p])
                 THEN /\ remote' = Removed(remote, {p})
                      /\ job' = [job EXCEPT !.listed =
                                   [q \in DOMAIN job.listed \ {p} |-> job.listed[q]]]
                 ELSE job' = Failed("delete") /\ UNCHANGED remote
    /\ StepOfJob

ConnectionBreaks ==
    /\ job.stage \notin {"idle", "done", "failed"}
    /\ job' = Failed(job.stage)
    /\ quiet' = FALSE
    /\ UNCHANGED <<local, remote, ignored, mode, deleteExtra, others, before, fresh>>

-----------------------------------------------------------------------------
(* Other commands, and the user, at work on the same trees. *)

StepOfOther(p) ==
    /\ job.stage # "idle"
    /\ others < MaxOthers /\ others' = others + 1
    /\ quiet' = FALSE
    /\ fresh' = IF job.stage = "delete" /\ p \notin DOMAIN job.listed
                     /\ ~Present(remote, p) /\ Present(remote', p)
                  THEN fresh \cup {p} ELSE fresh
    /\ UNCHANGED <<mode, deleteExtra, job, before>>

\* write_remote_file_with_options; overwrite = FALSE adds EXCLUDE.
WriteRemoteFile(p, content, overwrite) ==
    /\ CanOpen(remote, p) /\ (overwrite \/ ~Present(remote, p))
    /\ remote' = Truncated(remote, p, content)
    /\ StepOfOther(p) /\ UNCHANGED <<local, ignored>>

MakeRemoteDirectory(p) ==
    /\ CanMkdir(remote, p)
    /\ remote' = Mkdir(remote, p)
    /\ StepOfOther(p) /\ UNCHANGED <<local, ignored>>

\* sftp_delete_path: as a file, as an empty directory, or all of it.
DeleteRemotePath(p, recursive) ==
    /\ Present(remote, p)
    /\ recursive \/ CanRemove(remote, p, remote[p] = "dir")
    /\ remote' = Removed(remote, Below(p))
    /\ StepOfOther(p) /\ UNCHANGED <<local, ignored>>

\* The target directory must be there; an SFTP rename replaces nothing.
RenameRemotePath(p, q) ==
    /\ Present(remote, p) /\ Empty(remote, p) /\ ~Present(remote, q)
    /\ p \notin Lineage(q)
    /\ \A r \in Lineage(q) \ {q} : remote[r] = "dir"
    /\ remote' = [remote EXCEPT ![q] = remote[p], ![p] = "absent"]
    /\ StepOfOther(q) /\ UNCHANGED <<local, ignored>>

EditLocal(p, node) ==
    /\ \A q \in Lineage(p) \ {p} : local[q] = "dir"
    /\ Empty(local, p) /\ local[p] # node
    /\ local' = [local EXCEPT ![p] = node]
    /\ UNCHANGED <<remote, ignored>> /\ StepOfOther(p)

EditRules(rules) ==
    /\ ignored' = rules /\ ignored # rules
    /\ UNCHANGED <<local, remote>>
    /\ \E p \in Paths : StepOfOther(p)

SyncNext ==
    \/ Plan \/ MakeDirectory \/ UploadFile \/ StreamFile \/ ListRemote \/ DeleteEntry
    \/ ConnectionBreaks
    \/ \E p \in Paths, c \in Contents, o \in BOOLEAN : WriteRemoteFile(p, c, o)
    \/ \E p \in Paths : MakeRemoteDirectory(p)
    \/ \E p \in Paths, r \in BOOLEAN : DeleteRemotePath(p, r)
    \/ \E p, q \in Paths : RenameRemotePath(p, q)
    \/ \E p \in Paths, node \in Contents \cup {"absent"} : EditLocal(p, node)
    \/ \E rules \in Rules : EditRules(rules)

SyncSpec == SyncInit /\ [][SyncNext]_syncVars

-----------------------------------------------------------------------------
(* Properties. *)

\* A transfer that reports success, with nobody else at work, has copied every planned
\* file and directory, has left alone what it was not asked to delete, and has deleted
\* the rest: no file is skipped although it differs, none is left truncated.
MirrorOnSuccess ==
    (job.stage = "done" /\ quiet) =>
        \A p \in Paths :
            remote[p] = IF p \in Planned THEN local[p]
                        ELSE IF mode = "sync" /\ deleteExtra /\ p \notin Protected(before)
                        THEN "absent" ELSE before[p]

\* "Retain ancestors of protected entries so nonempty protected directories never cause
\* a partial sync followed by a remove_dir failure": a deletion nobody disturbs never
\* fails half way.
DeletionNeverStuck == (job.stage = "failed" /\ quiet) => job.at # "delete"

\* How a transfer ends that nobody disturbs: nothing is half done without saying so.
TransferEndsWell == MirrorOnSuccess /\ DeletionNeverStuck

\* What another command puts on the server after the transfer listed it survives the
\* deletion, also below a directory that is about to go.
FreshEntriesSurvive ==
    [][\A p \in fresh : Present(remote, p) /\ ~Present(remote', p) => job' = job]_syncVars
=============================================================================
