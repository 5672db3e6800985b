---------------------------- MODULE AgentApproval ----------------------------
(***************************************************************************)
(* The approval round trip of the agent gateway: AgentApprovalManager of   *)
(* mcp/approval.rs, the Tauri commands of commands/agent.rs that drive it, *)
(* and the approval store of the front end.                                *)
(*                                                                         *)
(* Three kinds of actors interleave.  Tool handlers call gate() on a       *)
(* multi-threaded runtime, and their futures may be dropped while they     *)
(* wait.  The commands are synchronous, so the main thread runs one at a   *)
(* time, but a command's steps interleave with the gates.  The front end   *)
(* handles events one at a time, and the reply to a command when it ends.  *)
(***************************************************************************)
EXTENDS Integers, Sequences, FiniteSets

CONSTANTS Requests,     \* risky commands; each is gated once, under a fresh UUID
          Window,       \* length of the auto-approve window (AUTO_APPROVE_HOURS)
          MaxTime,      \* bound: how far the wall clock runs
          MaxRestarts,  \* bound: restarts of the application
          MaxFaults,    \* bound: failed settings writes
          MaxCalls      \* bound: commands invoked and not yet taken up

ASSUME ApprovalAssumption ==
    /\ Window \in Nat \ {0}
    /\ MaxTime \in Nat /\ MaxRestarts \in Nat /\ MaxFaults \in Nat /\ MaxCalls \in Nat

VARIABLES now,        \* wall clock
          pc,         \* where each request's gate() stands
          answer,     \* what its oneshot channel carries
          pending,    \* the manager's pending map
          until,      \* auto_approve_until, 0 for None
          persisted,  \* AUTO_APPROVE_UNTIL_KEY in the settings, 0 for none
          job,        \* the command the main thread is running
          inbox,      \* commands the front end has invoked
          events,     \* events emitted to the front end, in order
          snapshot,   \* the reply to get_agent_guard_status, in flight
          ui,         \* the front-end store
          order,      \* requests in the order their sequence numbers were drawn
          restarts, faults

vars == <<now, pc, answer, pending, until, persisted, job, inbox, events,
          snapshot, ui, order, restarts, faults>>

Stages == {"idle", "checked", "inserted", "waiting",
           "approved", "denied", "cancelled", "lost"}
Answers == {"none", "approved", "denied"}
Calls == [op : {"resolve", "cancel", "status"}, id : SUBSET Requests,
          answer : Answers, grant : BOOLEAN]
Events == [kind : {"request", "resolved", "state"}, id : SUBSET Requests, until : Nat]

NoJob == [step |-> "none", id |-> {}, answer |-> "none", grant |-> FALSE, release |-> {}]
NoSnapshot == [ready |-> FALSE, pending |-> {}, until |-> 0]
ClosedUi == [phase |-> "off", queue |-> {}, resolving |-> {},
             resolved |-> {}, until |-> 0, handled |-> 0]

TypeOK ==
    /\ now \in Nat /\ until \in Nat /\ persisted \in Nat
    /\ pc \in [Requests -> Stages]
    /\ answer \in [Requests -> Answers]
    /\ pending \subseteq Requests
    /\ job \in [step : {"none", "open", "release", "close"}, id : SUBSET Requests,
                answer : Answers, grant : BOOLEAN, release : SUBSET Requests]
    /\ inbox \in Seq(Calls)
    /\ events \in Seq(Events)
    /\ snapshot \in [ready : BOOLEAN, pending : SUBSET Requests, until : Nat]
    /\ ui \in [phase : {"off", "listening", "ready"}, queue : SUBSET Requests,
               resolving : SUBSET Requests, resolved : SUBSET Requests,
               until : Nat, handled : Nat]
    /\ order \in Seq(Requests)
    /\ restarts \in Nat /\ faults \in Nat

Init ==
    /\ now = 1
    /\ pc = [r \in Requests |-> "idle"]
    /\ answer = [r \in Requests |-> "none"]
    /\ pending = {}
    /\ until = 0 /\ persisted = 0
    /\ job = NoJob
    /\ inbox = <<>> /\ events = <<>>
    /\ snapshot = NoSnapshot
    /\ ui = ClosedUi
    /\ order = <<>>
    /\ restarts = 0 /\ faults = 0

\* active_deadline: a deadline counts only while it is in the future.
Active(deadline) == now < deadline
ActiveUntil == IF Active(until) THEN until ELSE 0

\* An event reaches the front end only if its listeners are registered.
Emitted(kind, id, deadline) ==
    IF ui.phase = "off" THEN events
    ELSE Append(events, [kind |-> kind, id |-> id, until |-> deadline])

\* The store shows a deadline; handled is expiredWindowHandledRef, the expired
\* deadline a cancel has already been invoked for.
Shown(store, deadline) ==
    [store EXCEPT !.until = deadline,
                  !.handled = IF deadline # 0 /\ ~Active(deadline) THEN @ ELSE 0]

-----------------------------------------------------------------------------
(* gate() *)

\* The first step: an active window approves at once, otherwise the request
\* draws its sequence number.
GateCheck(r) ==
    /\ pc[r] = "idle"
    /\ IF Active(until)
       THEN /\ pc' = [pc EXCEPT ![r] = "approved"]
            /\ UNCHANGED order
       ELSE /\ pc' = [pc EXCEPT ![r] = "checked"]
            /\ order' = Append(order, r)
    /\ UNCHANGED <<now, answer, pending, until, persisted, job, inbox, events,
                   snapshot, ui, restarts, faults>>

GateInsert(r) ==
    /\ pc[r] = "checked"
    /\ pc' = [pc EXCEPT ![r] = "inserted"]
    /\ pending' = pending \cup {r}
    /\ UNCHANGED <<now, answer, until, persisted, job, inbox, events,
                   snapshot, ui, order, restarts, faults>>

\* The request event, after which gate() suspends on its channel.
GateEmit(r) ==
    /\ pc[r] = "inserted"
    /\ pc' = [pc EXCEPT ![r] = "waiting"]
    /\ events' = Emitted("request", {r}, 0)
    /\ UNCHANGED <<now, answer, pending, until, persisted, job, inbox,
                   snapshot, ui, order, restarts, faults>>

\* Mutant of GateReceive: an open window counts for more than the answer.
GateReceiveInWindow(r) ==
    /\ pc[r] = "waiting" /\ answer[r] # "none"
    /\ pc' = [pc EXCEPT ![r] = IF Active(until) THEN "approved" ELSE answer[r]]
    /\ UNCHANGED <<now, answer, pending, until, persisted, job, inbox, events,
                   snapshot, ui, order, restarts, faults>>

GateReceive(r) ==
    /\ pc[r] = "waiting" /\ answer[r] # "none"
    /\ pc' = [pc EXCEPT ![r] = answer[r]]
    /\ UNCHANGED <<now, answer, pending, until, persisted, job, inbox, events,
                   snapshot, ui, order, restarts, faults>>

\* Mutant of GateCancelled: without PendingApprovalCleanup.
GateCancelledLeaks(r) ==
    /\ pc[r] = "waiting"
    /\ pc' = [pc EXCEPT ![r] = "cancelled"]
    /\ UNCHANGED <<now, answer, pending, until, persisted, job, inbox, events,
                   snapshot, ui, order, restarts, faults>>

\* The agent goes away: the future is dropped at its only suspension point and
\* PendingApprovalCleanup removes what is still pending.
GateCancelled(r) ==
    /\ pc[r] = "waiting"
    /\ pc' = [pc EXCEPT ![r] = "cancelled"]
    /\ pending' = pending \ {r}
    /\ events' = IF r \in pending THEN Emitted("resolved", {r}, 0) ELSE events
    /\ UNCHANGED <<now, answer, until, persisted, job, inbox,
                   snapshot, ui, order, restarts, faults>>

-----------------------------------------------------------------------------
(* Commands on the main thread. *)

NextCall(op) == job.step = "none" /\ inbox # <<>> /\ Head(inbox).op = op

\* resolve(), under the pending lock.  An approval that opens the window takes
\* everything that is pending with it.  An unknown id changes nothing, and the
\* store shows the error.
Taken(call) == IF call.grant THEN pending ELSE call.id

TakeResolve ==
    LET call == Head(inbox)
    IN  /\ NextCall("resolve")
        /\ inbox' = Tail(inbox)
        /\ \/ /\ call.id \subseteq pending
              /\ pending' = pending \ Taken(call)
              /\ job' = [step |-> IF call.grant THEN "open" ELSE "release",
                         id |-> call.id, answer |-> call.answer,
                         grant |-> call.grant, release |-> Taken(call)]
              /\ UNCHANGED ui
           \/ /\ ~(call.id \subseteq pending)
              /\ ui' = [ui EXCEPT !.resolving = @ \ call.id]
              /\ UNCHANGED <<pending, job>>
        /\ UNCHANGED <<now, pc, answer, until, persisted, events, snapshot,
                       order, restarts, faults>>

\* Mutant of OpenWindow: the requests taken with the window are forgotten.
OpenWindowOnly ==
    /\ job.step = "open"
    /\ until' = now + Window
    /\ events' = Emitted("state", {}, now + Window)
    /\ job' = [job EXCEPT !.step = "release", !.release = job.id]
    /\ UNCHANGED <<now, pc, answer, pending, persisted, inbox, snapshot, ui,
                   order, restarts, faults>>

OpenWindow ==
    /\ job.step = "open"
    /\ until' = now + Window
    /\ events' = Emitted("state", {}, now + Window)
    /\ job' = [job EXCEPT !.step = "release"]
    /\ UNCHANGED <<now, pc, answer, pending, persisted, inbox, snapshot, ui,
                   order, restarts, faults>>

\* The request the user decided is answered first, then the others taken with it.
Release(r) ==
    /\ job.step = "release" /\ r \in job.release
    /\ r \in job.id \/ job.id \cap job.release = {}
    /\ answer' = [answer EXCEPT ![r] = job.answer]
    /\ events' = Emitted("resolved", {r}, 0)
    /\ job' = [job EXCEPT !.release = @ \ {r}]
    /\ UNCHANGED <<now, pc, pending, until, persisted, inbox, snapshot, ui,
                   order, restarts, faults>>

\* resolve_agent_approval after resolve(): the deadline read back from status()
\* is persisted, a failed write is only logged, and the reply removes the request
\* from the store.
FinishResolve ==
    /\ job.step = "release" /\ job.release = {}
    /\ \/ /\ persisted' = IF job.grant /\ Active(until) THEN until ELSE persisted
          /\ UNCHANGED faults
       \/ /\ job.grant /\ Active(until) /\ faults < MaxFaults
          /\ faults' = faults + 1
          /\ UNCHANGED persisted
    /\ ui' = [ui EXCEPT !.queue = @ \ job.id, !.resolving = @ \ job.id]
    /\ job' = NoJob
    /\ UNCHANGED <<now, pc, answer, pending, until, inbox, events, snapshot,
                   order, restarts>>

\* Mutant of TakeCancel: a failed settings write is ignored.
TakeCancelAnyway ==
    /\ NextCall("cancel")
    /\ inbox' = Tail(inbox)
    /\ job' = [NoJob EXCEPT !.step = "close"]
    /\ \/ persisted' = 0 /\ UNCHANGED faults
       \/ faults < MaxFaults /\ faults' = faults + 1 /\ UNCHANGED persisted
    /\ UNCHANGED <<now, pc, answer, pending, until, events, snapshot, ui,
                   order, restarts>>

\* cancel_agent_auto_approve: the setting first; if that write fails the window
\* stays as it is.
TakeCancel ==
    /\ NextCall("cancel")
    /\ inbox' = Tail(inbox)
    /\ \/ /\ persisted' = 0
          /\ job' = [NoJob EXCEPT !.step = "close"]
          /\ UNCHANGED faults
       \/ /\ faults < MaxFaults
          /\ faults' = faults + 1
          /\ UNCHANGED <<persisted, job>>
    /\ UNCHANGED <<now, pc, answer, pending, until, events, snapshot, ui,
                   order, restarts>>

CloseWindow ==
    /\ job.step = "close"
    /\ until' = 0
    /\ events' = Emitted("state", {}, 0)
    /\ ui' = Shown(ui, 0)
    /\ job' = NoJob
    /\ UNCHANGED <<now, pc, answer, pending, persisted, inbox, snapshot,
                   order, restarts, faults>>

TakeStatus ==
    /\ NextCall("status")
    /\ inbox' = Tail(inbox)
    /\ snapshot' = [ready |-> TRUE, pending |-> pending, until |-> ActiveUntil]
    /\ UNCHANGED <<now, pc, answer, pending, until, persisted, job, events, ui,
                   order, restarts, faults>>

-----------------------------------------------------------------------------
(* The front end. *)

Invoke(op, id, ans, grant) ==
    /\ Len(inbox) < MaxCalls
    /\ inbox' = Append(inbox, [op |-> op, id |-> id, answer |-> ans, grant |-> grant])

\* initialize(): the listeners first, then the status call.
UiStart ==
    /\ ui.phase = "off"
    /\ ui' = [ui EXCEPT !.phase = "listening"]
    /\ Invoke("status", {}, "none", FALSE)
    /\ UNCHANGED <<now, pc, answer, pending, until, persisted, job, events,
                   snapshot, order, restarts, faults>>

\* Mutant of MergeSnapshot: the snapshot replaces what events already queued.
MergeSnapshotReplaces ==
    /\ snapshot.ready
    /\ ui' = [Shown(ui, snapshot.until) EXCEPT
                 !.phase = "ready", !.queue = snapshot.pending, !.resolved = {}]
    /\ snapshot' = NoSnapshot
    /\ UNCHANGED <<now, pc, answer, pending, until, persisted, job, inbox, events,
                   order, restarts, faults>>

\* The snapshot may be older than events already handled: requests seen resolved
\* meanwhile are left out.
MergeSnapshot ==
    /\ snapshot.ready
    /\ ui' = [Shown(ui, snapshot.until) EXCEPT
                 !.phase = "ready",
                 !.queue = @ \cup (snapshot.pending \ ui.resolved),
                 !.resolved = {}]
    /\ snapshot' = NoSnapshot
    /\ UNCHANGED <<now, pc, answer, pending, until, persisted, job, inbox, events,
                   order, restarts, faults>>

HandleEvent ==
    /\ events # <<>>
    /\ events' = Tail(events)
    /\ LET e == Head(events)
       IN  ui' = CASE e.kind = "request"  -> [ui EXCEPT !.queue = @ \cup e.id]
                   [] e.kind = "resolved" -> [ui EXCEPT
                        !.queue = @ \ e.id, !.resolving = @ \ e.id,
                        !.resolved = IF ui.phase = "listening" THEN @ \cup e.id ELSE @]
                   [] e.kind = "state"    -> Shown(ui, e.until)
    /\ UNCHANGED <<now, pc, answer, pending, until, persisted, job, inbox,
                   snapshot, order, restarts, faults>>

Position(r) == CHOOSE i \in DOMAIN order : order[i] = r

\* The dialog shows the head of the queue.  Its buttons are disabled while the
\* request is being resolved, but Escape still denies.
AtHead(r) == r \in ui.queue /\ \A x \in ui.queue : Position(r) <= Position(x)

Decide(r) ==
    /\ AtHead(r)
    /\ \E ans \in {"approved", "denied"}, grant \in BOOLEAN :
         /\ grant => ans = "approved"
         /\ r \in ui.resolving => ans = "denied"
         /\ Invoke("resolve", {r}, ans, grant)
    /\ ui' = [ui EXCEPT !.resolving = @ \cup {r}]
    /\ UNCHANGED <<now, pc, answer, pending, until, persisted, job, events,
                   snapshot, order, restarts, faults>>

UserCancels ==
    /\ Active(ui.until)
    /\ Invoke("cancel", {}, "none", FALSE)
    /\ UNCHANGED <<now, pc, answer, pending, until, persisted, job, events,
                   snapshot, ui, order, restarts, faults>>

\* The dialog cancels a window it sees expired, once per deadline.
ExpiryCancels ==
    /\ ui.until # 0 /\ ~Active(ui.until) /\ ui.handled # ui.until
    /\ Invoke("cancel", {}, "none", FALSE)
    /\ ui' = [ui EXCEPT !.handled = ui.until]
    /\ UNCHANGED <<now, pc, answer, pending, until, persisted, job, events,
                   snapshot, order, restarts, faults>>

-----------------------------------------------------------------------------
Tick ==
    /\ now < MaxTime
    /\ now' = now + 1
    /\ UNCHANGED <<pc, answer, pending, until, persisted, job, inbox, events,
                   snapshot, ui, order, restarts, faults>>

\* Mutant of Restart: the time left is restored in place of the deadline, and an
\* expired one is not cut off at zero.
RestartRemaining ==
    /\ restarts < MaxRestarts
    /\ restarts' = restarts + 1
    /\ pc' = [r \in Requests |->
                IF pc[r] \in {"checked", "inserted", "waiting"} THEN "lost" ELSE pc[r]]
    /\ pending' = {}
    /\ until' = persisted - now
    /\ job' = NoJob
    /\ inbox' = <<>> /\ events' = <<>>
    /\ snapshot' = NoSnapshot
    /\ ui' = ClosedUi
    /\ UNCHANGED <<now, answer, persisted, order, faults>>

\* The application stops, between any two steps, and starts again: suspended
\* requests are gone, a persisted deadline still in the future is restored.
Restart ==
    /\ restarts < MaxRestarts
    /\ restarts' = restarts + 1
    /\ pc' = [r \in Requests |->
                IF pc[r] \in {"checked", "inserted", "waiting"} THEN "lost" ELSE pc[r]]
    /\ pending' = {}
    /\ until' = IF Active(persisted) THEN persisted ELSE 0
    /\ job' = NoJob
    /\ inbox' = <<>> /\ events' = <<>>
    /\ snapshot' = NoSnapshot
    /\ ui' = ClosedUi
    /\ UNCHANGED <<now, answer, persisted, order, faults>>

Next ==
    \/ \E r \in Requests :
         \/ GateCheck(r) \/ GateInsert(r) \/ GateEmit(r)
         \/ GateReceive(r) \/ GateCancelled(r)
         \/ Release(r) \/ Decide(r)
    \/ TakeResolve \/ OpenWindow \/ FinishResolve
    \/ TakeCancel \/ CloseWindow \/ TakeStatus
    \/ UiStart \/ MergeSnapshot \/ HandleEvent \/ UserCancels \/ ExpiryCancels
    \/ Tick \/ Restart

Spec == Init /\ [][Next]_vars

-----------------------------------------------------------------------------
Suspended(r) == pc[r] \in {"inserted", "waiting"}

\* No suspended command is forgotten or answered twice: gate() has no timeout, so
\* each suspended request must be in exactly one place that can still answer it:
\* the pending map, the set a resolve() took out of it, or its own channel.
SuspendedOnce ==
    \A r \in Requests :
      /\ Suspended(r) => r \in pending \/ r \in job.release \/ answer[r] # "none"
      /\ r \in pending => Suspended(r) /\ r \notin job.release /\ answer[r] = "none"
      /\ r \in job.release => answer[r] = "none"

\* A denial is final: a request whose denial was accepted is not run, and nothing
\* runs without an approval once it has been queued for one.
DeniedNeverRuns ==
    \A r \in Requests :
      /\ pc[r] = "approved" /\ (\E i \in DOMAIN order : order[i] = r) => answer[r] = "approved"
      /\ pc[r] = "denied" => answer[r] = "denied"

\* The user can see every request that waits for a decision, whenever it was made
\* relative to the start of the front end: it is in the queue, in an event on its
\* way there, or in the snapshot about to be merged.
WaitingIsShown ==
    \A r \in Requests :
      (ui.phase # "off" /\ pc[r] = "waiting" /\ r \in pending) =>
        \/ r \in ui.queue
        \/ \E i \in DOMAIN events : events[i].kind = "request" /\ events[i].id = {r}
        \/ ui.phase = "listening" /\ ~snapshot.ready
        \/ snapshot.ready /\ r \in snapshot.pending \ ui.resolved

\* The persisted deadline never outlives the one in memory: a window that was
\* cancelled is not open again after a restart, whichever write failed and
\* wherever the application stopped.
NoRevival ==
    Active(persisted) => persisted <= until

\* An open window leaves no request asking: what is pending is released by the
\* command that opened it, and later requests are approved on arrival.
OpenWindowReleases ==
    (Active(until) /\ job.step = "none") => \A r \in pending : pc[r] # "waiting"
=============================================================================
