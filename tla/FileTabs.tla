------------------------------- MODULE FileTabs -------------------------------
(***************************************************************************)
(* A text file open in the workspace, and its way between two windows.     *)
(* FileWorkspace.tsx loads, edits and saves it; fileEditBuffer.ts keeps    *)
(* the unsaved text of each window in memory and a recovery copy in the    *)
(* storage both windows share; detach.ts hands the tab to a window of its  *)
(* own, DetachedWindow.tsx and nativeDock.ts hand it back.                 *)
(*                                                                         *)
(* One file and one detached window at a time: the n-th window opened for  *)
(* the tab has the label n.  Storage quota errors are not modelled.        *)
(***************************************************************************)
EXTENDS Integers, FiniteSets

CONSTANTS Nothing,        \* null in the code
          Partial,     \* a cut or empty text: what a save that fails half way leaves
          Texts,       \* contents of the file that are told apart
          MaxHandoffs, \* bound: windows opened for the tab
          MaxTyped,    \* bound: edits of the user
          MaxLoads,    \* bound: superseded reads in flight, per window
          MaxSaves     \* bound: saves, and writes of other programs

Views == {"main", "detached"}
Buffers == [text : Texts \cup {Partial}, saved : Texts \cup {Partial}]
Saves == [text : Texts \cup {Partial}, base : Texts \cup {Partial},
          stage : {"sent", "written", "failed"}]
Loads == [at : Texts \cup {Partial, Nothing, "asked"}, older : 0..MaxLoads,
          busy : BOOLEAN, error : BOOLEAN]
Drops == [snapshot : Buffers \cup {Nothing}, label : 1..MaxHandoffs, expired : BOOLEAN]

ASSUME TabsAssumption ==
    /\ Texts # {} /\ Nothing # "asked" /\ Nothing \notin Buffers
    /\ MaxHandoffs \in Nat /\ MaxTyped \in Nat /\ MaxLoads \in Nat /\ MaxSaves \in Nat

VARIABLES local,    \* whether the file is of this computer, or reached over SFTP
          disk,     \* what the file holds
          stored,   \* the recovery copy in localStorage
          memory,   \* the buffer in each window's memory
          tab,      \* whether the main window's store has the tab
          phase,    \* who shows the tab, and how far a handoff has come
          locked,   \* setTextBufferLocked, per window
          loading,  \* per window: the read that counts, those it superseded, isLoading, error
          saving,   \* a save in flight, per window
          handoff,  \* the snapshot for the window being opened
          drop,     \* the last request to return the tab
          label,    \* windows opened so far
          edit,     \* history: the user's text that no save has taken and nobody discarded
          typed, saves,  \* bounds: edits, saves
          crossed   \* history: a window died, or an edit or a handoff met a read in flight

tabsVars == <<local, disk, stored, memory, tab, phase, locked, loading, saving,
              handoff, drop, label, edit, typed, saves, crossed>>

Phases == {"main", "waiting", "opening", "hydrated", "detached", "merging",
           "dropping", "accepted", "orphan"}

TabsTypeOK ==
    /\ local \in BOOLEAN /\ tab \in BOOLEAN /\ crossed \in BOOLEAN
    /\ disk \in Texts \cup {Partial}
    /\ stored \in Buffers \cup {Nothing} /\ handoff \in Buffers \cup {Nothing}
    /\ memory \in [Views -> Buffers \cup {Nothing}]
    /\ phase \in Phases
    /\ locked \in [Views -> BOOLEAN]
    /\ loading \in [Views -> Loads]
    /\ saving \in [Views -> Saves \cup {Nothing}]
    /\ drop \in Drops \cup {Nothing}
    /\ label \in 0..MaxHandoffs /\ typed \in 0..MaxTyped /\ saves \in 0..MaxSaves
    /\ edit \in Texts \cup {Nothing}

NoLoad == [at |-> Nothing, older |-> 0, busy |-> FALSE, error |-> FALSE]
OneLoad == [at |-> "asked", older |-> 0, busy |-> TRUE, error |-> FALSE]

TabsInit ==
    /\ local \in BOOLEAN
    /\ disk = CHOOSE t \in Texts : TRUE
    /\ stored = Nothing /\ handoff = Nothing /\ drop = Nothing /\ edit = Nothing
    /\ memory = [w \in Views |-> Nothing]
    /\ tab = FALSE /\ phase = "main"
    /\ locked = [w \in Views |-> FALSE]
    /\ loading = [w \in Views |-> NoLoad]
    /\ saving = [w \in Views |-> Nothing]
    /\ label = 0 /\ typed = 0 /\ saves = 0
    /\ crossed = FALSE

-----------------------------------------------------------------------------
(* Who shows the tab. *)

\* The window has a FileWorkspace for the tab.
Mounted(w) ==
    IF w = "main"
      THEN tab /\ phase \in {"main", "waiting", "opening", "hydrated", "accepted"}
      ELSE phase \in {"detached", "merging", "dropping", "accepted"}

Editable(w) == Mounted(w) /\ ~locked[w]

\* The main window has released the tab: it is the detached window's, alive or not.
Owned == phase \in {"detached", "merging", "dropping", "orphan"}

Dirty(b) == b # Nothing /\ b.text # b.saved
RecoveryCopy(b) == IF Dirty(b) THEN b ELSE Nothing

\* A FileWorkspace that appears takes the buffer, the recovery copy, or reads the file.
Found(w) == IF memory[w] # Nothing THEN memory[w] ELSE stored
Mount(w, found) ==
    /\ memory' = [memory EXCEPT ![w] = found]
    /\ loading' = [loading EXCEPT ![w] = IF found = Nothing THEN OneLoad ELSE NoLoad]

OpenFile ==
    /\ ~tab /\ phase = "main"
    /\ tab' = TRUE
    /\ Mount("main", Found("main"))
    /\ UNCHANGED <<local, disk, stored, phase, locked, saving, handoff, drop, label,
                   edit, typed, saves, crossed>>

CloseTab ==
    /\ tab /\ phase \in {"main", "waiting", "opening", "hydrated"}
    /\ tab' = FALSE
    /\ memory' = [memory EXCEPT !.main = Nothing]
    /\ stored' = Nothing
    /\ loading' = [loading EXCEPT !.main = NoLoad]
    /\ edit' = Nothing
    /\ UNCHANGED <<local, disk, phase, locked, saving, handoff, drop, label, typed,
                   saves, crossed>>

-----------------------------------------------------------------------------
(* Reading, typing and saving. *)

\* A new load makes the answer of the one in flight count for nothing.
Superseded(w) == IF loading[w].at = Nothing THEN 0 ELSE 1

\* Refresh, or Retry, after the user agreed to lose what is unsaved; the button is
\* there while a read is in flight.
Reload(w) ==
    /\ Editable(w) /\ loading[w].older + Superseded(w) <= MaxLoads
    /\ loading' = [loading EXCEPT ![w] = [at |-> "asked", busy |-> TRUE, error |-> FALSE,
                                          older |-> loading[w].older + Superseded(w)]]
    /\ edit' = Nothing
    /\ UNCHANGED <<local, disk, stored, memory, tab, phase, locked, saving, handoff,
                   drop, label, typed, saves, crossed>>

ReadFile(w) ==
    /\ loading[w].at = "asked"
    /\ loading' = [loading EXCEPT ![w].at = disk]
    /\ UNCHANGED <<local, disk, stored, memory, tab, phase, locked, saving, handoff,
                   drop, label, edit, typed, saves, crossed>>

\* The answer replaces the buffer, and a clean buffer needs no recovery copy.
FinishLoad(w) ==
    /\ loading[w].at \notin {Nothing, "asked"}
    /\ memory' = [memory EXCEPT ![w] = [text |-> loading[w].at, saved |-> loading[w].at]]
    /\ stored' = Nothing
    /\ loading' = [loading EXCEPT ![w].at = Nothing, ![w].busy = FALSE]
    /\ UNCHANGED <<local, disk, tab, phase, locked, saving, handoff, drop, label,
                   edit, typed, saves, crossed>>

\* The error is shown in the place of the editor.
FailLoad(w) ==
    /\ loading[w].at # Nothing
    /\ loading' = [loading EXCEPT ![w].at = Nothing, ![w].busy = FALSE, ![w].error = TRUE]
    /\ UNCHANGED <<local, disk, stored, memory, tab, phase, locked, saving, handoff,
                   drop, label, edit, typed, saves, crossed>>

\* Mutant of SupersededEnds: the answer of a superseded read is taken too.
SupersededLands(w) ==
    /\ loading[w].older > 0
    /\ loading' = [loading EXCEPT ![w].older = @ - 1, ![w].busy = FALSE]
    /\ memory' = [memory EXCEPT ![w] = [text |-> disk, saved |-> disk]]
    /\ stored' = Nothing
    /\ UNCHANGED <<local, disk, tab, phase, locked, saving, handoff, drop, label,
                   edit, typed, saves, crossed>>

\* The finally block of a read that was superseded: its answer is dropped, and the
\* editor is shown again, whatever is still in flight.
SupersededEnds(w) ==
    /\ loading[w].older > 0
    /\ loading' = [loading EXCEPT ![w].older = @ - 1, ![w].busy = FALSE]
    /\ UNCHANGED <<local, disk, stored, memory, tab, phase, locked, saving, handoff,
                   drop, label, edit, typed, saves, crossed>>

\* The editor of a file that was never read starts empty.
Type(w, t) ==
    /\ Editable(w) /\ ~loading[w].busy /\ ~loading[w].error
    /\ typed < MaxTyped /\ typed' = typed + 1
    /\ memory' = [memory EXCEPT ![w] =
         [text |-> t, saved |-> IF memory[w] = Nothing THEN Partial ELSE memory[w].saved]]
    /\ memory' # memory
    /\ stored' = RecoveryCopy(memory'[w])
    /\ edit' = IF Dirty(memory'[w]) THEN t ELSE Nothing
    /\ crossed' = (crossed \/ loading[w].at # Nothing)
    /\ UNCHANGED <<local, disk, tab, phase, locked, loading, saving, handoff, drop,
                   label, saves>>

BeginSave(w) ==
    /\ Editable(w) /\ saving[w] = Nothing /\ Dirty(memory[w])
    /\ saves < MaxSaves /\ saves' = saves + 1
    /\ saving' = [saving EXCEPT ![w] = [text |-> memory[w].text, base |-> memory[w].saved,
                                        stage |-> "sent"]]
    /\ UNCHANGED <<local, disk, stored, memory, tab, phase, locked, loading, handoff,
                   drop, label, edit, typed, crossed>>

\* local_file_write refuses a file that is not what the buffer was based on and
\* replaces it whole; sftp_write_file truncates the file and then writes.
WriteFile(w) ==
    /\ saving[w] # Nothing /\ saving[w].stage = "sent"
    /\ \/ /\ local => disk = saving[w].base
          /\ disk' = saving[w].text
          /\ saving' = [saving EXCEPT ![w].stage = "written"]
       \/ /\ disk' \in {disk} \cup (IF local THEN {} ELSE {Partial})
          /\ saving' = [saving EXCEPT ![w].stage = "failed"]
    /\ UNCHANGED <<local, stored, memory, tab, phase, locked, loading, handoff, drop,
                   label, edit, typed, saves, crossed>>

FinishSave(w) ==
    /\ saving[w] # Nothing /\ saving[w].stage # "sent"
    /\ IF saving[w].stage = "written" /\ memory[w] # Nothing
         THEN /\ memory' = [memory EXCEPT ![w].saved = saving[w].text]
              /\ stored' = RecoveryCopy(memory'[w])
         ELSE UNCHANGED <<memory, stored>>
    /\ edit' = IF saving[w].stage = "written" /\ edit = saving[w].text THEN Nothing ELSE edit
    /\ saving' = [saving EXCEPT ![w] = Nothing]
    /\ UNCHANGED <<local, disk, tab, phase, locked, loading, handoff, drop, label,
                   typed, saves, crossed>>

OtherProgramWrites(t) ==
    /\ saves < MaxSaves /\ saves' = saves + 1
    /\ disk # t /\ disk' = t
    /\ UNCHANGED <<local, stored, memory, tab, phase, locked, loading, saving, handoff,
                   drop, label, edit, typed, crossed>>

-----------------------------------------------------------------------------
(* To a window of its own: openDetachedWindow, DetachedWindow.tsx. *)

Lock(w, on) == locked' = [locked EXCEPT ![w] = on]

\* An owner that is gone is released first.
Detach ==
    /\ tab /\ phase \in {"main", "orphan"} /\ label < MaxHandoffs
    /\ Lock("main", TRUE)
    /\ phase' = "waiting"
    /\ UNCHANGED <<local, disk, stored, memory, tab, loading, saving, handoff, drop,
                   label, edit, typed, saves, crossed>>

\* Mutant of CaptureTransfer: does not wait for a save in flight.
CaptureWhileSaving ==
    /\ phase = "waiting" /\ tab
    /\ handoff' = Found("main")
    /\ memory' = [memory EXCEPT !.main = Found("main")]
    /\ label' = label + 1
    /\ phase' = "opening"
    /\ crossed' = (crossed \/ loading["main"].at # Nothing)
    /\ UNCHANGED <<local, disk, stored, tab, locked, loading, saving, drop, edit, typed, saves>>

CaptureTransfer ==
    /\ phase = "waiting" /\ tab /\ saving["main"] = Nothing
    /\ handoff' = Found("main")
    /\ memory' = [memory EXCEPT !.main = Found("main")]
    /\ label' = label + 1
    /\ phase' = "opening"
    /\ crossed' = (crossed \/ loading["main"].at # Nothing)
    /\ UNCHANGED <<local, disk, stored, tab, locked, loading, saving, drop, edit, typed, saves>>

\* The new window takes the snapshot, writes the recovery copy and reports ready.
Hydrate ==
    /\ phase = "opening"
    /\ memory' = [memory EXCEPT !.detached = handoff]
    /\ stored' = IF handoff = Nothing THEN stored ELSE RecoveryCopy(handoff)
    /\ phase' = "hydrated"
    /\ UNCHANGED <<local, disk, tab, locked, loading, saving, handoff, drop, label, edit,
                   typed, saves, crossed>>

\* The main window gives the tab away; its FileWorkspace goes, and a late read with it.
Commit ==
    /\ phase = "hydrated"
    /\ phase' = "detached"
    /\ handoff' = Nothing
    /\ Lock("main", FALSE)
    /\ memory' = [memory EXCEPT !.detached = Found("detached")]
    /\ loading' = [main |-> NoLoad,
                   detached |-> IF Found("detached") = Nothing THEN OneLoad ELSE NoLoad]
    /\ UNCHANGED <<local, disk, stored, tab, saving, drop, label, edit, typed, saves, crossed>>

\* The save outlasts 15 seconds, the tab is gone, or no window reports in time.
DetachFails ==
    /\ \/ phase = "waiting" /\ (saving["main"] # Nothing \/ ~tab)
       \/ phase \in {"opening", "hydrated"}
    /\ phase' = "main"
    /\ handoff' = Nothing
    /\ Lock("main", FALSE)
    /\ memory' = [memory EXCEPT !.detached = Nothing]
    /\ UNCHANGED <<local, disk, stored, tab, loading, saving, drop, label, edit, typed,
                   saves, crossed>>

\* The window is gone without returning the tab.
WindowDies ==
    /\ phase \in {"detached", "merging", "dropping"}
    /\ phase' = "orphan"
    /\ memory' = [memory EXCEPT !.detached = Nothing]
    /\ loading' = [loading EXCEPT !.detached = NoLoad]
    /\ saving' = [saving EXCEPT !.detached = Nothing]
    /\ Lock("detached", FALSE)
    /\ crossed' = TRUE
    /\ UNCHANGED <<local, disk, stored, tab, handoff, drop, label, edit, typed, saves>>

-----------------------------------------------------------------------------
(* Back to the main window: merge, requestDock, receiveWindowDrops. *)

Merge ==
    /\ phase = "detached"
    /\ Lock("detached", TRUE)
    /\ phase' = "merging"
    /\ UNCHANGED <<local, disk, stored, memory, tab, loading, saving, handoff, drop,
                   label, edit, typed, saves, crossed>>

RequestDock ==
    /\ phase = "merging" /\ saving["detached"] = Nothing
    /\ drop' = [snapshot |-> Found("detached"), label |-> label, expired |-> FALSE]
    /\ phase' = "dropping"
    /\ crossed' = (crossed \/ loading["detached"].at # Nothing)
    /\ UNCHANGED <<local, disk, stored, memory, tab, locked, loading, saving, handoff,
                   label, edit, typed, saves>>

\* Seven seconds after it was made the request is no longer accepted.
Expire ==
    /\ drop # Nothing /\ ~drop.expired
    /\ drop' = [drop EXCEPT !.expired = TRUE]
    /\ UNCHANGED <<local, disk, stored, memory, tab, phase, locked, loading, saving,
                   handoff, label, edit, typed, saves, crossed>>

\* Mutant of Acceptable: a request is accepted however old it is.
AcceptableLate == drop # Nothing /\ Owned /\ drop.label = label

Acceptable == drop # Nothing /\ Owned /\ drop.label = label /\ ~drop.expired

\* hydrateTransfer and releaseDetached in the main window, where the tab reappears.
AcceptDrop ==
    /\ Acceptable
    /\ LET kept == IF drop.snapshot = Nothing THEN memory.main ELSE drop.snapshot
           rest == IF drop.snapshot = Nothing THEN stored ELSE RecoveryCopy(drop.snapshot)
           found == IF kept = Nothing THEN rest ELSE kept
       IN /\ stored' = rest
          /\ Mount("main", found)
    /\ tab' = TRUE
    /\ drop' = Nothing
    /\ phase' = IF phase = "orphan" THEN "main" ELSE "accepted"
    /\ UNCHANGED <<local, disk, locked, saving, handoff, label, edit, typed, saves, crossed>>

RefuseDrop ==
    /\ drop # Nothing /\ ~Acceptable
    /\ drop' = Nothing
    /\ IF phase = "dropping" THEN phase' = "detached" /\ Lock("detached", FALSE)
                             ELSE UNCHANGED <<phase, locked>>
    /\ UNCHANGED <<local, disk, stored, memory, tab, loading, saving, handoff, label,
                   edit, typed, saves, crossed>>

\* The save outlasts 15 seconds, or no answer came within 8 seconds of the request.
MergeFails ==
    /\ \/ phase = "merging" /\ saving["detached"] # Nothing
       \/ phase = "dropping" /\ drop # Nothing /\ drop.expired
    /\ phase' = "detached"
    /\ Lock("detached", FALSE)
    /\ UNCHANGED <<local, disk, stored, memory, tab, loading, saving, handoff, drop,
                   label, edit, typed, saves, crossed>>

\* The acknowledgement arrives and the detached window goes.
DestroyWindow ==
    /\ phase = "accepted"
    /\ phase' = "main"
    /\ memory' = [memory EXCEPT !.detached = Nothing]
    /\ loading' = [loading EXCEPT !.detached = NoLoad]
    /\ Lock("detached", FALSE)
    /\ UNCHANGED <<local, disk, stored, tab, saving, handoff, drop, label, edit, typed,
                   saves, crossed>>

-----------------------------------------------------------------------------
\* The program ends and starts again: memory is gone, the saved workspace has the
\* tab, and what was detached is a tab of the main window until it is detached again.
RestartTabs ==
    /\ phase' = "main"
    /\ memory' = [w \in Views |-> IF w = "main" /\ tab THEN stored ELSE Nothing]
    /\ loading' = [w \in Views |-> IF w = "main" /\ tab /\ stored = Nothing
                                       THEN OneLoad ELSE NoLoad]
    /\ saving' = [w \in Views |-> Nothing]
    /\ locked' = [w \in Views |-> FALSE]
    /\ handoff' = Nothing /\ drop' = Nothing
    /\ UNCHANGED <<local, disk, stored, tab, label, edit, typed, saves, crossed>>

TabsNext ==
    \/ OpenFile \/ CloseTab
    \/ \E w \in Views : Reload(w) \/ ReadFile(w) \/ FinishLoad(w) \/ FailLoad(w)
                         \/ SupersededEnds(w)
    \/ \E w \in Views : BeginSave(w) \/ WriteFile(w) \/ FinishSave(w)
    \/ \E w \in Views, t \in Texts : Type(w, t)
    \/ \E t \in Texts : OtherProgramWrites(t)
    \/ Detach \/ CaptureTransfer \/ Hydrate \/ Commit \/ DetachFails \/ WindowDies
    \/ Merge \/ RequestDock \/ Expire \/ AcceptDrop \/ RefuseDrop \/ MergeFails
    \/ DestroyWindow \/ RestartTabs

TabsSpec == TabsInit /\ [][TabsNext]_tabsVars

-----------------------------------------------------------------------------
(* Properties. *)

\* "Unsaved text stays with its editing buffer during layout changes": what the user
\* typed and has neither saved nor discarded is in the recovery copy, and in the buffer
\* of every window in which the tab can be edited, however reads that were superseded,
\* saves, failed handoffs, the way back and restarts interleave.  Not what was typed after
\* a superseded read gave the editor back under the one that replaced it, whose answer
\* takes its place (FileWorkspace.tsx:132-161): that is `crossed`, as a handoff under a
\* read and the death of a window are.
UnsavedTextStays ==
    (edit # Nothing /\ ~crossed) =>
        /\ stored # Nothing /\ stored.text = edit
        /\ \A w \in Views : Editable(w) => memory[w] # Nothing /\ memory[w].text = edit

\* At no moment can the tab be edited in two windows: the main window accepts a
\* request to return the tab only while the sender still waits for the answer.
OneEditor == \E w \in Views : ~Editable(w)

\* An edited file keeps its text and its one editor across every handoff.
EditsAreSafe == UnsavedTextStays /\ OneEditor
=============================================================================
