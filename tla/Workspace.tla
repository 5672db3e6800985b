------------------------------ MODULE Workspace ------------------------------
(***************************************************************************)
(* The tabs and panes of the main window, and the sessions behind them.    *)
(* sessionStore.ts asks the session managers of this process and of the    *)
(* daemon for what there is, every two seconds, and creates and closes     *)
(* sessions meanwhile; the stores of file and plugin tabs follow it, and   *)
(* App.tsx fits the panes of the layout to the tabs after every change.    *)
(*                                                                         *)
(* A page stands for the file or plugin tab of a session. A layout is the  *)
(* sequence of its leaves from left to right. Tabs in windows of their own *)
(* are the subject of FileTabs.                                            *)
(***************************************************************************)
EXTENDS Integers, SequencesExt

CONSTANTS None,     \* null in the code
          Ssh,      \* SSH sessions that may come to be
          Shells,   \* local shells and coding agents that may come to be
          Paged,    \* bound: the sessions that pages are opened for
          Polls,    \* runs of syncRemoteSessions that may overlap
          MaxPanes, \* MAX_TERMINAL_PANES
          MaxPolls  \* bound: polls started

\* A session has an id of its own, whichever manager made it.
ASSUME SessionsAssumption == Ssh \cap Shells = {} /\ MaxPolls \in Nat

Sessions == Ssh \cup Shells
Leaves == {"session", "page"} \X Sessions
SessionCalls == {"none", "creating", "created", "splitting", "killing", "killed", "failed"}
Idle == [stage |-> "idle"]

VARIABLES alive,    \* the sessions the two managers hold
          born,     \* sessions that were ever created or asked for
          tabs,     \* sessions: the tab strip
          active,   \* activeSessionId
          pages,    \* sessions that have a page
          page,     \* activeTabId of the page stores
          panes,    \* the layout
          calls,    \* per session: the creation or the kill in flight
          splitting, \* the leaf a new shell will be put next to
          polls,    \* the polls in flight
          polled,   \* bound: polls so far
          twins     \* history: a session was listed twice

wsVars == <<alive, born, tabs, active, pages, page, panes, calls, splitting, polls, polled,
            twins>>

WsTypeOK ==
    /\ alive \subseteq born /\ born \subseteq Sessions
    /\ tabs \in Seq(Sessions) /\ active \in Sessions \cup {None}
    /\ pages \subseteq Sessions /\ page \in pages \cup {None}
    /\ panes \in Seq(Leaves)
    /\ calls \in [Sessions -> SessionCalls]
    /\ splitting \in Leaves \cup {None}
    /\ polls \in [Polls -> {Idle} \cup
         [stage : {"asked"}, known : SUBSET Ssh, ssh : (SUBSET Ssh) \cup {{None}},
          shells : (SUBSET Shells) \cup {{None}}, missing : SUBSET {"ssh", "shells"}]]
    /\ polled \in 0..MaxPolls /\ twins \in BOOLEAN

\* From when the fetch at the start of the window has been answered: fetchSessions
\* (sessionStore.ts:610-655) replaces all SSH tabs, whatever was created meanwhile.
WsInit ==
    /\ alive = {} /\ born = {} /\ tabs = <<>> /\ active = None
    /\ pages = {} /\ page = None /\ panes = <<>>
    /\ calls = [s \in Sessions |-> "none"]
    /\ splitting = None
    /\ polls = [p \in Polls |-> Idle] /\ polled = 0
    /\ twins = FALSE

-----------------------------------------------------------------------------
(* mosaicTree.ts, docking.ts and the two effects of App.tsx. *)

\* filter: what is in the set, in its order.
KeepOnly(seq, set) ==
    LET kept[i \in 0..Len(seq)] ==
          IF i = 0 THEN <<>>
          ELSE IF seq[i] \in set THEN Append(kept[i - 1], seq[i]) ELSE kept[i - 1]
    IN kept[Len(seq)]

InsertLeaf(tree, i, leaf) == SubSeq(tree, 1, i - 1) \o <<leaf>> \o SubSeq(tree, i, Len(tree))
IndexIn(tree, leaf) == CHOOSE i \in DOMAIN tree : tree[i] = leaf

AddPane(tree, target, leaf) ==
    IF tree = <<>> THEN <<leaf>>
    ELSE IF target \in Range(tree) THEN InsertLeaf(tree, IndexIn(tree, target) + 1, leaf)
    ELSE tree

RemovePane(tree, leaf) == KeepOnly(tree, Leaves \ {leaf})
PruneLeaves(tree, valid) == KeepOnly(tree, valid)
ReplaceLeaf(tree, old, new) == [i \in DOMAIN tree |-> IF tree[i] = old THEN new ELSE tree[i]]

\* Mutant of DockPane: the pane is inserted, and stays where it was.
DockPaneCopy(tree, target, source, before) ==
    IF tree = <<>> THEN <<source>>
    ELSE IF target = source \/ target \notin Range(tree) THEN tree
    ELSE IF source \notin Range(tree) /\ Len(tree) >= MaxPanes THEN tree
    ELSE LET i == IndexIn(tree, target)
         IN InsertLeaf(tree, IF before THEN i ELSE i + 1, source)

\* Moving a pane is removing and inserting it, never a copy; the limit is for new ones.
DockPane(tree, target, source, before) ==
    IF tree = <<>> THEN <<source>>
    ELSE IF target = source \/ target \notin Range(tree) THEN tree
    ELSE IF source \notin Range(tree) /\ Len(tree) >= MaxPanes THEN tree
    ELSE LET rest == RemovePane(tree, source)
             i == IndexIn(rest, target)
         IN InsertLeaf(rest, IF before THEN i ELSE i + 1, source)

Valid(ts, ps) == {<<"session", s>> : s \in Range(ts)} \cup {<<"page", s>> : s \in ps}
Selected(a, p) == IF p # None THEN <<"page", p>> ELSE IF a # None THEN <<"session", a>> ELSE None

\* What is selected takes a pane: the focused one of a split, or, for a session, all there
\* is. Then the leaves without a tab go, and an empty layout falls back to some tab.
Shows(tree, selected) ==
    IF selected = None \/ selected \in Range(tree) THEN {tree}
    ELSE IF Len(tree) > 1 THEN {ReplaceLeaf(tree, old, selected) : old \in Range(tree)}
    ELSE {IF selected[1] = "session" THEN <<selected>> ELSE tree}

Fallbacks(ts, ps, a) ==
    IF a \in Range(ts) THEN {<<<<"session", a>>>>}
    ELSE IF Valid(ts, ps) = {} THEN {<<>>} ELSE {<<leaf>> : leaf \in Valid(ts, ps)}

\* The effects run when what they depend on has changed, not when the layout has.
Relayout(tree) ==
    IF UNCHANGED <<tabs, pages, active, page>> THEN panes' = tree
    ELSE \E shown \in IF UNCHANGED <<active, page>> THEN {tree}
                      ELSE Shows(tree, Selected(active', page')) :
           LET left == PruneLeaves(shown, Valid(tabs', pages'))
           IN IF left # <<>> THEN panes' = left
              ELSE \E fallback \in Fallbacks(tabs', pages', active') : panes' = fallback

-----------------------------------------------------------------------------
(* The stores. *)

\* Mutant of Retain: the page that is shown is not looked at.
RetainPage(kept) == pages' = pages \cap kept /\ UNCHANGED page

\* Pages of sessions that are gone are closed with them, and another one is shown.
Retain(kept) ==
    /\ pages' = pages \cap kept
    /\ page' \in IF page \in pages' \/ pages' = pages THEN {page}
                 ELSE IF pages' = {} THEN {None} ELSE pages'

\* The session of the page that is shown is the active one.
Follow(a) == active' = IF page' # None THEN page' ELSE a

Upsert(ts, s) == IF s \in Range(ts) THEN ts ELSE Append(ts, s)

\* removeSession: the neighbour of the closed tab is shown.
RemoveSession(s) ==
    /\ tabs' = KeepOnly(tabs, Sessions \ {s})
    /\ Retain(Sessions \ {s})
    /\ Follow(IF active # s THEN active
              ELSE IF tabs' = <<>> THEN None
              ELSE LET i == IndexIn(tabs, s) IN tabs'[IF i < Len(tabs') THEN i ELSE Len(tabs')])

-----------------------------------------------------------------------------
(* Creating sessions. *)

Layout == <<tabs, active, pages, page, panes>>

\* session_connect, local_shell_create, coding_agent_launch; a split asks for a shell of
\* its own, one at a time, after it has counted the panes.
Create(s, target) ==
    /\ s \notin born
    /\ target = None \/
         (s \in Shells /\ splitting = None /\ target = <<"session", active>> /\ Len(panes) < MaxPanes)
    /\ born' = born \cup {s}
    /\ calls' = [calls EXCEPT ![s] = IF target = None THEN "creating" ELSE "splitting"]
    /\ splitting' = IF target = None THEN splitting ELSE target
    /\ UNCHANGED <<alive, Layout, polls, polled, twins>>

BackendCreates(s) ==
    /\ calls[s] \in {"creating", "splitting"} /\ s \notin alive
    /\ alive' = alive \cup {s}
    /\ UNCHANGED <<born, Layout, calls, splitting, polls, polled, twins>>

\* The answer: an SSH session or an agent takes the place a poll may have given it
\* already, a plain shell is appended. All but the shell of a split are shown.
FinishCreate(s, agent) ==
    /\ calls[s] \in {"creating", "splitting"} /\ s \in alive
    /\ agent => s \in Shells /\ calls[s] = "creating"
    /\ tabs' = IF s \in Ssh \/ agent THEN Upsert(tabs, s) ELSE Append(tabs, s)
    /\ page' = IF s \in Ssh \/ agent THEN None ELSE page
    /\ Follow(IF calls[s] = "splitting" /\ active # None THEN active ELSE s)
    /\ calls' = [calls EXCEPT ![s] = "none"]
    /\ splitting' = IF calls[s] = "splitting" THEN None ELSE splitting
    /\ twins' = (twins \/ ~IsInjective(tabs'))
    /\ UNCHANGED pages
    /\ Relayout(IF agent THEN <<<<"session", s>>>>
                ELSE IF calls[s] = "splitting"
                THEN AddPane(panes, splitting, <<"session", s>>) ELSE panes)
    /\ UNCHANGED <<alive, born, polls, polled>>

\* A session of the command line, or of an agent.
AgentCreates(s) ==
    /\ s \in Ssh /\ s \notin born
    /\ born' = born \cup {s} /\ alive' = alive \cup {s}
    /\ UNCHANGED <<Layout, calls, splitting, polls, polled, twins>>

\* Killed from elsewhere, or reaped. A local shell that exits stays listed.
SessionDies(s) ==
    /\ s \in alive \cap Ssh /\ calls[s] = "none"
    /\ alive' = alive \ {s}
    /\ UNCHANGED <<born, Layout, calls, splitting, polls, polled, twins>>

-----------------------------------------------------------------------------
(* Closing sessions. *)

Close(s) ==
    /\ s \in Range(tabs) /\ calls[s] = "none"
    /\ calls' = [calls EXCEPT ![s] = "killing"]
    /\ UNCHANGED <<alive, born, Layout, splitting, polls, polled, twins>>

\* The manager drops the session before it stops it. A session it does not have counts as
\* killed; so does, at the second try, a shell that did not stop in time at the first.
BackendKills(s) ==
    /\ calls[s] = "killing"
    /\ alive' = alive \ {s}
    /\ \E answer \in {"killed"} \cup (IF s \in alive THEN {"failed"} ELSE {}) :
         calls' = [calls EXCEPT ![s] = answer]
    /\ UNCHANGED <<born, Layout, splitting, polls, polled, twins>>

\* The tab stays when the kill failed.
FinishClose(s) ==
    /\ calls[s] \in {"killed", "failed"}
    /\ calls' = [calls EXCEPT ![s] = "none"]
    /\ IF calls[s] = "killed" /\ s \in Range(tabs)
         THEN RemoveSession(s) /\ Relayout(panes)
         ELSE UNCHANGED Layout
    /\ UNCHANGED <<alive, born, splitting, polls, polled, twins>>

-----------------------------------------------------------------------------
(* syncRemoteSessions. *)

StartPoll(p) ==
    /\ polls[p] = Idle /\ polled < MaxPolls
    /\ polls' = [polls EXCEPT ![p] =
         [stage |-> "asked", known |-> Range(tabs) \cap Ssh, ssh |-> {None},
          shells |-> {None}, missing |-> {"ssh", "shells"}]]
    /\ polled' = polled + 1
    /\ UNCHANGED <<alive, born, Layout, calls, splitting, twins>>

\* session_list and local_shell_list_sessions; a failed call answers {None}.
AnswerList(p, which) ==
    /\ polls[p] # Idle /\ which \in polls[p].missing
    /\ \E list \in {{None}, alive \cap IF which = "ssh" THEN Ssh ELSE Shells} :
         polls' = [polls EXCEPT ![p].missing = @ \ {which}, ![p][which] = list]
    /\ UNCHANGED <<alive, born, Layout, calls, splitting, polled, twins>>

\* Mutant of Stale: also sessions that came after the poll had begun.
StaleNew(q) == {s \in Ssh : s \notin q.ssh}

Stale(q) == {s \in Ssh : s \in q.known /\ s \notin q.ssh}
NewIn(q, ts) == (q.ssh \cup IF q.shells = {None} THEN {} ELSE q.shells) \ Range(ts)

MergePoll(p) ==
    /\ polls[p] # Idle /\ polls[p].missing = {}
    /\ polls' = [polls EXCEPT ![p] = Idle]
    /\ IF polls[p].ssh = {None}
         THEN UNCHANGED Layout
         ELSE /\ tabs' = KeepOnly(tabs, Sessions \ Stale(polls[p]))
                           \o SetToSeq(NewIn(polls[p], tabs))
              /\ Retain(Range(tabs'))
              /\ Follow(IF active \in Range(tabs') THEN active
                        ELSE IF tabs' = <<>> THEN None ELSE tabs'[1])
              /\ Relayout(panes)
    /\ UNCHANGED <<alive, born, calls, splitting, polled, twins>>

-----------------------------------------------------------------------------
(* The user. *)

Quiet == UNCHANGED <<alive, born, calls, splitting, polls, polled, twins>>

OpenPage(s) ==
    /\ s \in Range(tabs) \cap Paged /\ page # s
    /\ pages' = pages \cup {s} /\ page' = s /\ active' = s /\ UNCHANGED tabs
    /\ Relayout(panes) /\ Quiet

ClosePage(s) ==
    /\ s \in pages
    /\ pages' = pages \ {s}
    /\ page' \in IF page # s THEN {page} ELSE IF pages' = {} THEN {None} ELSE pages'
    /\ UNCHANGED tabs /\ Follow(active)
    /\ Relayout(RemovePane(panes, <<"page", s>>)) /\ Quiet

SelectSession(s) ==
    /\ s \in Range(tabs) /\ (active # s \/ page # None)
    /\ active' = s /\ page' = None /\ UNCHANGED <<tabs, pages>>
    /\ Relayout(panes) /\ Quiet

\* A tab dropped on a pane, or on the one view that hides the layout.
Dock(target, source, before) ==
    /\ LET base == IF target \in Range(panes) THEN panes ELSE <<target>>
           next == DockPane(base, target, source, before)
       IN /\ next # base \/ target = source
          /\ active' = source[2] /\ page' = IF source[1] = "page" THEN source[2] ELSE None
          /\ UNCHANGED <<tabs, pages>>
          /\ Relayout(next)
    /\ Quiet

RemoveTerminalPane(leaf) ==
    /\ Len(panes) > 1
    /\ LET next == RemovePane(panes, leaf)
           shells == KeepOnly(next, {"session"} \X Sessions)
       IN /\ UNCHANGED <<tabs, pages, page>>
          /\ Follow(IF leaf = <<"session", active>> /\ shells # <<>> THEN shells[1][2] ELSE active)
          /\ Relayout(next)
    /\ Quiet

WsNext ==
    \/ \E s \in Sessions :
         \/ \E target \in Leaves \cup {None} : Create(s, target)
         \/ BackendCreates(s) \/ AgentCreates(s) \/ SessionDies(s)
         \/ \E agent \in BOOLEAN : FinishCreate(s, agent)
         \/ Close(s) \/ BackendKills(s) \/ FinishClose(s)
         \/ OpenPage(s) \/ ClosePage(s) \/ SelectSession(s)
    \/ \E p \in Polls :
         \/ StartPoll(p) \/ MergePoll(p)
         \/ \E which \in {"ssh", "shells"} : AnswerList(p, which)
    \/ \E target, source \in Valid(tabs, pages), before \in BOOLEAN : Dock(target, source, before)
    \/ \E leaf \in Range(panes) : RemoveTerminalPane(leaf)

WsSpec == WsInit /\ [][WsNext]_wsVars

-----------------------------------------------------------------------------
(* Properties. *)

\* "A transient IPC failure is not evidence that sessions disappeared. Keep terminal and
\* editor state, including unsaved file contents": a tab, and a page, goes only because the
\* user closed it or because the managers no longer have its session. A list that is older
\* than a session says nothing about it.
TabsKept ==
    [][\A s \in Sessions :
        /\ (s \in Range(tabs) /\ s \notin Range(tabs')) => s \notin alive
        /\ (s \in pages /\ s \notin pages' /\ s \in Range(tabs'))
             => calls' = calls /\ polls' = polls]_wsVars

\* Each leaf of the layout is there once, and shows something that is there; while there
\* is a tab, there is a pane. A shell that a poll found before its creation was answered
\* is listed twice, and its pane can be too: that aside.
LayoutFits ==
    ~twins =>
        /\ IsInjective(panes)
        /\ Range(panes) \subseteq Valid(tabs, pages)
        /\ tabs # <<>> => panes # <<>> /\ active \in Range(tabs)
=============================================================================
