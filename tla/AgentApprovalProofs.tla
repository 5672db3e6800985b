------------------------- MODULE AgentApprovalProofs -------------------------
(***************************************************************************)
(* Proofs about AgentApproval for any number of requests, any window, any  *)
(* number of restarts and failed writes.                                   *)
(***************************************************************************)
EXTENDS AgentApproval, TLAPS

(* Typing. *)

LEMMA CallIsTyped ==
    ASSUME TypeOK, inbox # <<>>
    PROVE  Head(inbox) \in Calls /\ Tail(inbox) \in Seq(Calls)
  BY DEF TypeOK

LEMMA EventIsTyped ==
    ASSUME TypeOK, events # <<>>
    PROVE  Head(events) \in Events /\ Tail(events) \in Seq(Events)
  BY DEF TypeOK

LEMMA EmittedIsTyped ==
    ASSUME TypeOK, NEW k \in {"request", "resolved", "state"},
           NEW id \in SUBSET Requests, NEW t \in Nat
    PROVE  Emitted(k, id, t) \in Seq(Events)
  <1>1. [kind |-> k, id |-> id, until |-> t] \in Events
    BY DEF Events
  <1>2. QED
    BY <1>1 DEF TypeOK, Emitted

UiType == [phase : {"off", "listening", "ready"}, queue : SUBSET Requests,
           resolving : SUBSET Requests, resolved : SUBSET Requests,
           until : Nat, handled : Nat]

LEMMA ShownIsTyped ==
    ASSUME NEW u \in UiType, NEW t \in Nat
    PROVE  Shown(u, t) \in UiType
  BY DEF Shown, UiType

LEMMA InvokeIsTyped ==
    ASSUME TypeOK, NEW op \in {"resolve", "cancel", "status"}, NEW id \in SUBSET Requests,
           NEW a \in Answers, NEW g \in BOOLEAN, Invoke(op, id, a, g)
    PROVE  inbox' \in Seq(Calls)
  <1>1. [op |-> op, id |-> id, answer |-> a, grant |-> g] \in Calls
    BY DEF Calls
  <1>2. QED
    BY <1>1 DEF TypeOK, Invoke

LEMMA TypeStep ==
    ASSUME TypeOK, [Next]_vars
    PROVE  TypeOK'
  <1> USE ApprovalAssumption
  <1>1. ASSUME NEW r \in Requests, GateCheck(r) PROVE TypeOK'
    <2>1. CASE Active(until)
      BY <1>1, <2>1 DEF TypeOK, GateCheck, Stages
    <2>2. CASE ~Active(until)
      <3>1. order' \in Seq(Requests)
        <4>1. order \in Seq(Requests) /\ order' = Append(order, r)
          BY <1>1, <2>2 DEF TypeOK, GateCheck
        <4>2. QED
          BY <4>1
      <3>2. pc' \in [Requests -> Stages]
        BY <1>1, <2>2 DEF TypeOK, GateCheck, Stages
      <3>3. QED
        BY <1>1, <3>1, <3>2 DEF TypeOK, GateCheck
    <2>3. QED
      BY <2>1, <2>2
  <1>2. ASSUME NEW r \in Requests, GateInsert(r) PROVE TypeOK'
    BY <1>2 DEF TypeOK, GateInsert, Stages
  <1>3. ASSUME NEW r \in Requests, GateEmit(r) PROVE TypeOK'
    <2>1. events' \in Seq(Events)
      BY <1>3, EmittedIsTyped DEF GateEmit
    <2>2. QED
      BY <1>3, <2>1 DEF TypeOK, GateEmit, Stages
  <1>4. ASSUME NEW r \in Requests, GateReceive(r) PROVE TypeOK'
    BY <1>4 DEF TypeOK, GateReceive, Stages, Answers
  <1>5. ASSUME NEW r \in Requests, GateCancelled(r) PROVE TypeOK'
    <2>1. events' \in Seq(Events)
      BY <1>5, EmittedIsTyped DEF GateCancelled, TypeOK
    <2>2. QED
      BY <1>5, <2>1 DEF TypeOK, GateCancelled, Stages
  <1>6. ASSUME NEW r \in Requests, Release(r) PROVE TypeOK'
    <2>1. events' \in Seq(Events)
      BY <1>6, EmittedIsTyped DEF Release
    <2>2. QED
      BY <1>6, <2>1 DEF TypeOK, Release
  <1>7. ASSUME NEW r \in Requests, Decide(r) PROVE TypeOK'
    <2>1. inbox' \in Seq(Calls)
      BY <1>7, InvokeIsTyped DEF Decide, Answers
    <2>2. QED
      BY <1>7, <2>1 DEF TypeOK, Decide
  <1>8. CASE TakeResolve
    <2>1. Head(inbox) \in Calls /\ inbox' \in Seq(Calls)
      BY <1>8, CallIsTyped DEF TakeResolve, NextCall
    <2>2. Taken(Head(inbox)) \in SUBSET Requests
      BY <2>1 DEF Taken, TypeOK, Calls
    <2>3. CASE Head(inbox).id \subseteq pending
      <3>1. pending' \in SUBSET Requests
        BY <1>8, <2>3 DEF TypeOK, TakeResolve
      <3>2. job' \in [step : {"none", "open", "release", "close"}, id : SUBSET Requests,
                      answer : Answers, grant : BOOLEAN, release : SUBSET Requests]
        BY <1>8, <2>1, <2>2, <2>3 DEF TakeResolve, Calls
      <3>3. QED
        BY <1>8, <2>1, <2>3, <3>1, <3>2 DEF TypeOK, TakeResolve
    <2>4. CASE ~(Head(inbox).id \subseteq pending)
      <3>1. UNCHANGED <<pending, job>> /\ ui' = [ui EXCEPT !.resolving = @ \ Head(inbox).id]
        BY <1>8, <2>4 DEF TakeResolve
      <3>2. ui' \in UiType
        BY <3>1 DEF TypeOK, UiType
      <3>3. QED
        BY <1>8, <2>1, <3>1, <3>2 DEF TypeOK, TakeResolve, UiType
    <2>5. QED
      BY <2>3, <2>4
  <1>9. CASE OpenWindow
    <2>1. now + Window \in Nat
      BY DEF TypeOK
    <2>2. events' \in Seq(Events)
      BY <1>9, <2>1, EmittedIsTyped DEF OpenWindow
    <2>3. QED
      BY <1>9, <2>1, <2>2 DEF TypeOK, OpenWindow
  <1>10. CASE FinishResolve
    <2>1. persisted' \in Nat /\ faults' \in Nat
      <3>1. persisted \in Nat /\ faults \in Nat /\ until \in Nat
        BY DEF TypeOK
      <3>2. persisted' \in {persisted, until} /\ faults' \in {faults, faults + 1}
        BY <1>10 DEF FinishResolve
      <3>3. QED
        BY <3>1, <3>2
    <2>2. ui' \in UiType
      BY <1>10 DEF TypeOK, FinishResolve, UiType
    <2>3. QED
      BY <1>10, <2>1, <2>2 DEF TypeOK, FinishResolve, NoJob, Answers, UiType
  <1>11. CASE TakeCancel
    <2>1. inbox' \in Seq(Calls)
      BY <1>11, CallIsTyped DEF TakeCancel, NextCall
    <2>2. /\ persisted' \in Nat /\ faults' \in Nat
          /\ job' = job \/ job' = [NoJob EXCEPT !.step = "close"]
      BY <1>11 DEF TypeOK, TakeCancel
    <2>3. QED
      BY <1>11, <2>1, <2>2 DEF TypeOK, TakeCancel, NoJob, Answers
  <1>12. CASE CloseWindow
    <2>1. events' \in Seq(Events)
      BY <1>12, EmittedIsTyped DEF CloseWindow
    <2>2. ui' \in UiType
      BY <1>12, ShownIsTyped DEF TypeOK, UiType, CloseWindow
    <2>3. QED
      BY <1>12, <2>1, <2>2 DEF TypeOK, CloseWindow, NoJob, Answers, UiType
  <1>13. CASE TakeStatus
    <2>1. inbox' \in Seq(Calls)
      BY <1>13, CallIsTyped DEF TakeStatus, NextCall
    <2>2. QED
      BY <1>13, <2>1 DEF TypeOK, TakeStatus, ActiveUntil
  <1>14. CASE UiStart
    <2>1. inbox' \in Seq(Calls)
      BY <1>14, InvokeIsTyped DEF UiStart, Answers
    <2>2. QED
      BY <1>14, <2>1 DEF TypeOK, UiStart
  <1>15. CASE MergeSnapshot
    <2>1. Shown(ui, snapshot.until) \in UiType
      BY ShownIsTyped DEF TypeOK, UiType
    <2>2. ui' \in UiType
      BY <1>15, <2>1 DEF TypeOK, UiType, MergeSnapshot
    <2>3. QED
      BY <1>15, <2>2 DEF TypeOK, MergeSnapshot, NoSnapshot, UiType
  <1>16. CASE HandleEvent
    <2>1. Head(events) \in Events /\ events' \in Seq(Events)
      BY <1>16, EventIsTyped DEF HandleEvent
    <2>2. ui' \in UiType
      BY <1>16, <2>1, ShownIsTyped DEF TypeOK, UiType, HandleEvent, Events
    <2>3. QED
      BY <1>16, <2>1, <2>2 DEF TypeOK, HandleEvent, UiType
  <1>17. CASE UserCancels
    <2>1. inbox' \in Seq(Calls)
      BY <1>17, InvokeIsTyped DEF UserCancels, Answers
    <2>2. QED
      BY <1>17, <2>1 DEF TypeOK, UserCancels
  <1>18. CASE ExpiryCancels
    <2>1. inbox' \in Seq(Calls)
      BY <1>18, InvokeIsTyped DEF ExpiryCancels, Answers
    <2>2. QED
      BY <1>18, <2>1 DEF TypeOK, ExpiryCancels
  <1>19. CASE Tick
    BY <1>19 DEF TypeOK, Tick
  <1>20. CASE Restart
    BY <1>20 DEF TypeOK, Restart, NoJob, NoSnapshot, ClosedUi, Stages, Answers
  <1>21. CASE UNCHANGED vars
    BY <1>21 DEF TypeOK, vars
  <1>22. QED
    BY <1>1, <1>2, <1>3, <1>4, <1>5, <1>6, <1>7, <1>8, <1>9, <1>10, <1>11, <1>12,
       <1>13, <1>14, <1>15, <1>16, <1>17, <1>18, <1>19, <1>20, <1>21 DEF Next
\* Every variable keeps its type: in particular what the gates send to each other
\* through channels, the inbox and the event queue is always well formed.
THEOREM ApprovalTypes == Spec => []TypeOK
  <1>1. Init => TypeOK
    BY DEF Init, TypeOK, NoJob, NoSnapshot, ClosedUi, Stages, Answers
  <1>2. TypeOK /\ [Next]_vars => TypeOK'
    BY TypeStep
  <1>3. QED
    BY <1>1, <1>2, PTL DEF Spec

-----------------------------------------------------------------------------
(* Suspended commands.  What SuspendedOnce and DeniedNeverRuns need besides     *)
(* themselves: a resolve call carries a decision, a job that takes nothing else *)
(* holds nothing, and a request that has not reached the map is unknown to      *)
(* everyone.                                                                    *)

CallsDecide ==
    \A i \in DOMAIN inbox : inbox[i].op = "resolve" => inbox[i].answer # "none"

JobDecides ==
    /\ job.release # {} => job.answer # "none"
    /\ job.step \in {"none", "close"} => job.release = {}

Drawn(r) == \E i \in DOMAIN order : order[i] = r

EarlyUnknown ==
    \A r \in Requests :
      /\ pc[r] \in {"idle", "checked"} => r \notin job.release /\ answer[r] = "none"
      /\ pc[r] = "idle" => ~Drawn(r)

LEMMA CallsDecideStep ==
    ASSUME TypeOK, CallsDecide, [Next]_vars
    PROVE  CallsDecide'
  <1>1. ASSUME inbox # <<>>, inbox' = Tail(inbox) PROVE CallsDecide'
    BY <1>1 DEF TypeOK, CallsDecide
  <1>2. ASSUME NEW op, NEW id, NEW a, NEW g, Invoke(op, id, a, g),
               op = "resolve" => a # "none"
        PROVE  CallsDecide'
    BY <1>2 DEF TypeOK, CallsDecide, Invoke
  <1>3. ASSUME NEW r \in Requests, Decide(r) PROVE CallsDecide'
    BY <1>2, <1>3 DEF Decide
  <1>4. CASE TakeResolve \/ TakeCancel \/ TakeStatus
    BY <1>1, <1>4 DEF TakeResolve, TakeCancel, TakeStatus, NextCall
  <1>5. CASE UiStart \/ UserCancels \/ ExpiryCancels
    BY <1>2, <1>5 DEF UiStart, UserCancels, ExpiryCancels
  <1>6. CASE Restart
    BY <1>6 DEF CallsDecide, Restart
  <1>7. CASE UNCHANGED inbox
    BY <1>7 DEF CallsDecide
  <1>8. QED
    BY <1>3, <1>4, <1>5, <1>6, <1>7
       DEF Next, vars, GateCheck, GateInsert, GateEmit, GateReceive, GateCancelled,
           Release, OpenWindow, FinishResolve, CloseWindow, MergeSnapshot, HandleEvent, Tick
Kept == JobDecides /\ EarlyUnknown /\ SuspendedOnce /\ DeniedNeverRuns

LEMMA KeptStep ==
    ASSUME TypeOK, CallsDecide, Kept, [Next]_vars
    PROVE  Kept'
  <1> USE DEF JobDecides, EarlyUnknown, SuspendedOnce, DeniedNeverRuns, Suspended, Drawn
  <1>1. ASSUME NEW r \in Requests, GateCheck(r) PROVE Kept'
    <2>1. CASE Active(until)
      BY <1>1, <2>1 DEF GateCheck, Kept, TypeOK, Stages
    <2>2. CASE ~Active(until)
      <3>1. /\ order' = Append(order, r) /\ pc' = [pc EXCEPT ![r] = "checked"]
            /\ UNCHANGED <<answer, pending, job>>
        BY <1>1, <2>2 DEF GateCheck
      <3>2. \A x \in Requests : x # r => (Drawn(x)' <=> Drawn(x))
        <4>1. order \in Seq(Requests)
          BY DEF TypeOK
        <4>2. /\ DOMAIN order' = 1..(Len(order) + 1) /\ DOMAIN order = 1..Len(order)
              /\ \A i \in 1..Len(order) : order'[i] = order[i]
              /\ order'[Len(order) + 1] = r /\ Len(order) \in Nat
          BY <3>1, <4>1
        <4>3. QED
          BY <4>2
      <3>3. QED
        BY <1>1, <3>1, <3>2 DEF GateCheck, Kept, TypeOK, Stages
    <2>3. QED
      BY <2>1, <2>2
  <1>2. ASSUME NEW r \in Requests, GateInsert(r) PROVE Kept'
    BY <1>2 DEF GateInsert, Kept, TypeOK, Stages
  <1>3. ASSUME NEW r \in Requests, GateEmit(r) PROVE Kept'
    BY <1>3 DEF GateEmit, Kept, TypeOK, Stages
  <1>4. ASSUME NEW r \in Requests, GateReceive(r) PROVE Kept'
    BY <1>4 DEF GateReceive, Kept, TypeOK, Stages, Answers
  <1>5. ASSUME NEW r \in Requests, GateCancelled(r) PROVE Kept'
    BY <1>5 DEF GateCancelled, Kept, TypeOK, Stages
  <1>6. ASSUME NEW r \in Requests, Release(r) PROVE Kept'
    BY <1>6 DEF Release, Kept, TypeOK, Stages
  <1>7. ASSUME NEW r \in Requests, Decide(r) PROVE Kept'
    BY <1>7 DEF Decide, Kept, TypeOK, Stages
  <1>8. CASE TakeResolve
    <2>1. CASE Head(inbox).id \subseteq pending
      <3>1. /\ job.release = {}
            /\ job'.release = Taken(Head(inbox)) /\ job'.step \in {"open", "release"}
            /\ job'.answer = Head(inbox).answer
            /\ pending' = pending \ Taken(Head(inbox))
            /\ UNCHANGED <<pc, answer, order>>
        BY <1>8, <2>1 DEF TakeResolve, NextCall, Kept
      <3>2. Taken(Head(inbox)) \subseteq pending
        BY <2>1 DEF Taken
      <3>3. Head(inbox).answer # "none"
        <4>1. inbox \in Seq(Calls) /\ inbox # <<>> /\ Head(inbox).op = "resolve"
          BY <1>8 DEF TakeResolve, NextCall, TypeOK
        <4>2. 1 \in DOMAIN inbox /\ Head(inbox) = inbox[1]
          BY <4>1
        <4>3. QED
          BY <4>1, <4>2 DEF CallsDecide
      <3>4. JobDecides'
        BY <3>1, <3>3
      <3>5. SuspendedOnce'
        BY <3>1, <3>2 DEF Kept
      <3>6. EarlyUnknown' /\ DeniedNeverRuns'
        BY <3>1, <3>2 DEF Kept
      <3>7. QED
        BY <3>4, <3>5, <3>6 DEF Kept
    <2>2. CASE ~(Head(inbox).id \subseteq pending)
      BY <1>8, <2>2 DEF TakeResolve, Kept
    <2>3. QED
      BY <2>1, <2>2
  <1>9. CASE OpenWindow
    BY <1>9 DEF OpenWindow, Kept, TypeOK
  <1>10. CASE FinishResolve
    BY <1>10 DEF FinishResolve, Kept, TypeOK, NoJob
  <1>11. CASE TakeCancel
    BY <1>11 DEF TakeCancel, Kept, TypeOK, NextCall, NoJob
  <1>12. CASE CloseWindow
    BY <1>12 DEF CloseWindow, Kept, TypeOK, NoJob
  <1>13. CASE TakeStatus
    BY <1>13 DEF TakeStatus, Kept, TypeOK
  <1>14. CASE UiStart
    BY <1>14 DEF UiStart, Kept, TypeOK
  <1>15. CASE MergeSnapshot
    BY <1>15 DEF MergeSnapshot, Kept, TypeOK
  <1>16. CASE HandleEvent
    BY <1>16 DEF HandleEvent, Kept, TypeOK
  <1>17. CASE UserCancels
    BY <1>17 DEF UserCancels, Kept, TypeOK
  <1>18. CASE ExpiryCancels
    BY <1>18 DEF ExpiryCancels, Kept, TypeOK
  <1>19. CASE Tick
    BY <1>19 DEF Tick, Kept, TypeOK
  <1>20. CASE Restart
    BY <1>20 DEF Restart, Kept, TypeOK, NoJob, Stages
  <1>21. CASE UNCHANGED vars
    BY <1>21 DEF vars, Kept
  <1>22. QED
    BY <1>1, <1>2, <1>3, <1>4, <1>5, <1>6, <1>7, <1>8, <1>9, <1>10, <1>11, <1>12, <1>13, <1>14, <1>15, <1>16, <1>17, <1>18, <1>19, <1>20, <1>21 DEF Next
LEMMA SuspendedInvariant == Spec => [](CallsDecide /\ Kept)
  <1>1. Init => CallsDecide /\ Kept
    BY DEF Init, CallsDecide, Kept, JobDecides, EarlyUnknown, Drawn, SuspendedOnce,
           Suspended, DeniedNeverRuns, NoJob
  <1>2. TypeOK /\ CallsDecide /\ Kept /\ [Next]_vars => (CallsDecide /\ Kept)'
    BY CallsDecideStep, KeptStep
  <1>3. QED
    BY <1>1, <1>2, ApprovalTypes, PTL DEF Spec

\* However gates, commands, cancellations and restarts interleave, every suspended
\* command is in exactly one place that can still answer it (approval.rs: the
\* pending map, what resolve() drained, the oneshot channel).
THEOREM SuspendedExactlyOnce == Spec => []SuspendedOnce
  <1>1. Kept => SuspendedOnce
    BY DEF Kept
  <1>2. QED
    BY <1>1, SuspendedInvariant, PTL

\* A command whose denial was accepted never runs, and a queued command runs only
\* on an approval.
THEOREM DenialsAreFinal == Spec => []DeniedNeverRuns
  <1>1. Kept => DeniedNeverRuns
    BY DEF Kept
  <1>2. QED
    BY <1>1, SuspendedInvariant, PTL

-----------------------------------------------------------------------------
(* The persisted window.  No deadline lies more than a window ahead, and while  *)
(* a cancel is half done the setting is already cleared.                        *)

WindowInv ==
    /\ until <= now + Window /\ persisted <= now + Window
    /\ job.step = "close" => persisted = 0
    /\ NoRevival

LEMMA WindowStep ==
    ASSUME TypeOK, WindowInv, [Next]_vars
    PROVE  WindowInv'
  <1> USE ApprovalAssumption DEF TypeOK, WindowInv, NoRevival, Active
  <1>1. CASE OpenWindow
    BY <1>1 DEF OpenWindow
  <1>2. CASE FinishResolve
    BY <1>2 DEF FinishResolve, NoJob
  <1>3. CASE TakeCancel
    <2>1. CASE persisted' = 0
      BY <1>3, <2>1 DEF TakeCancel
    <2>2. CASE UNCHANGED <<persisted, job>>
      BY <1>3, <2>2 DEF TakeCancel
    <2>3. QED
      BY <1>3, <2>1, <2>2 DEF TakeCancel
  <1>4. CASE CloseWindow
    BY <1>4 DEF CloseWindow, NoJob
  <1>5. CASE TakeResolve
    BY <1>5 DEF TakeResolve
  <1>6. CASE Tick
    BY <1>6 DEF Tick
  <1>7. CASE Restart
    BY <1>7 DEF Restart, NoJob
  <1>8. ASSUME NEW r \in Requests, Release(r) PROVE WindowInv'
    BY <1>8 DEF Release
  <1>9. CASE UNCHANGED <<now, until, persisted, job>>
    BY <1>9
  <1>10. QED
    BY <1>1, <1>2, <1>3, <1>4, <1>5, <1>6, <1>7, <1>8, <1>9
       DEF Next, vars, GateCheck, GateInsert, GateEmit, GateReceive, GateCancelled, Decide,
           TakeStatus, UiStart, MergeSnapshot, HandleEvent, UserCancels, ExpiryCancels

\* A window the user cancelled is not open again after a restart, whichever
\* settings write failed and wherever the application stopped.
THEOREM CancelledStaysCancelled == Spec => []NoRevival
  <1>1. Init => WindowInv
    BY ApprovalAssumption DEF Init, WindowInv, NoRevival, Active, NoJob
  <1>2. TypeOK /\ WindowInv /\ [Next]_vars => WindowInv'
    BY WindowStep
  <1>3. WindowInv => NoRevival
    BY DEF WindowInv
  <1>4. QED
    BY <1>1, <1>2, <1>3, ApprovalTypes, PTL DEF Spec

-----------------------------------------------------------------------------
(* Showing what waits.  A request the front end has seen resolved, or is about  *)
(* to, is never pending again, and one status call answers one start of the     *)
(* front end: a snapshot is neither overwritten nor merged into a later store.  *)

RequestSoon(r) == \E i \in DOMAIN events : events[i].kind = "request" /\ events[i].id = {r}
ResolvedSoon(r) == \E i \in DOMAIN events : events[i].kind = "resolved" /\ r \in events[i].id

ResolvedForGood ==
    \A r \in Requests :
      (r \in ui.resolved \/ ResolvedSoon(r) \/ r \in job.id) =>
        r \notin pending /\ pc[r] \notin {"idle", "checked"}

StatusCall(i) == inbox[i].op = "status"

OneStatus ==
    /\ ui.phase # "listening" => ~snapshot.ready /\ \A i \in DOMAIN inbox : ~StatusCall(i)
    /\ snapshot.ready => \A i \in DOMAIN inbox : ~StatusCall(i)
    /\ \A i, j \in DOMAIN inbox : StatusCall(i) /\ StatusCall(j) => i = j

LEMMA EmittedFact ==
    ASSUME TypeOK, NEW k, NEW id, NEW t, events' = Emitted(k, id, t)
    PROVE  /\ \A r : ResolvedSoon(r)' => ResolvedSoon(r) \/ (k = "resolved" /\ r \in id)
           /\ \A r : RequestSoon(r) => RequestSoon(r)'
           /\ \A r : ui.phase # "off" /\ k = "request" /\ id = {r} => RequestSoon(r)'
  <1>1. CASE ui.phase = "off"
    BY <1>1 DEF Emitted, ResolvedSoon, RequestSoon
  <1>2. CASE ui.phase # "off"
    <2> DEFINE e == [kind |-> k, id |-> id, until |-> t]
               n == Len(events) + 1
    <2>1. events \in Seq(Events)
      BY DEF TypeOK
    <2>2. events' = Append(events, e)
      BY <1>2 DEF Emitted
    <2>3. e.kind = k /\ e.id = id
      OBVIOUS
    <2> HIDE DEF e
    <2>4. /\ DOMAIN events = 1..Len(events) /\ DOMAIN events' = 1..n /\ Len(events) \in Nat
          /\ \A i \in 1..Len(events) : events'[i] = events[i]
          /\ events'[n] = e
      BY <2>1, <2>2
    <2> HIDE DEF n
    <2>5. n \in 1..n /\ (1..Len(events)) \subseteq 1..n /\ 1..n = (1..Len(events)) \cup {n}
      BY <2>4 DEF n
    <2>6. QED
      BY <1>2, <2>3, <2>4, <2>5 DEF ResolvedSoon, RequestSoon
  <1>3. QED
    BY <1>1, <1>2

LEMMA HandledFact ==
    ASSUME TypeOK, events # <<>>, events' = Tail(events)
    PROVE  /\ \A r : ResolvedSoon(r)' => ResolvedSoon(r)
           /\ \A r : RequestSoon(r) => RequestSoon(r)' \/ (Head(events).kind = "request" /\ Head(events).id = {r})
           /\ \A r : Head(events).kind = "resolved" /\ r \in Head(events).id => ResolvedSoon(r)
  <1>1. events \in Seq(Events)
    BY DEF TypeOK
  <1>2. /\ Len(events) \in Nat \ {0} /\ DOMAIN events = 1..Len(events)
        /\ DOMAIN events' = 1..(Len(events) - 1)
        /\ Head(events) = events[1]
        /\ \A i \in 1..(Len(events) - 1) : events'[i] = events[i + 1]
    BY <1>1
  <1>3. \A r : ResolvedSoon(r)' => ResolvedSoon(r)
    BY <1>2 DEF ResolvedSoon
  <1>4. ASSUME NEW r, RequestSoon(r), ~(Head(events).kind = "request" /\ Head(events).id = {r})
        PROVE  RequestSoon(r)'
    <2>1. PICK i \in DOMAIN events : events[i].kind = "request" /\ events[i].id = {r}
      BY <1>4 DEF RequestSoon
    <2>2. i # 1
      BY <1>2, <1>4, <2>1
    <2>3. i - 1 \in 1..(Len(events) - 1) /\ (i - 1) + 1 = i
      BY <1>2, <2>1, <2>2
    <2>4. QED
      BY <1>2, <2>1, <2>3 DEF RequestSoon
  <1>5. \A r : Head(events).kind = "resolved" /\ r \in Head(events).id => ResolvedSoon(r)
    BY <1>2 DEF ResolvedSoon
  <1>6. QED
    BY <1>3, <1>4, <1>5

LEMMA InvokedFact ==
    ASSUME TypeOK, NEW op, NEW id, NEW a, NEW g, Invoke(op, id, a, g)
    PROVE  /\ DOMAIN inbox' = DOMAIN inbox \cup {Len(inbox) + 1} /\ Len(inbox) + 1 \notin DOMAIN inbox
           /\ \A i \in DOMAIN inbox : StatusCall(i)' <=> StatusCall(i)
           /\ inbox'[Len(inbox) + 1].op = op
  <1> DEFINE c == [op |-> op, id |-> id, answer |-> a, grant |-> g]
  <1>1. inbox \in Seq(Calls)
    BY DEF TypeOK
  <1>2. inbox' = Append(inbox, c)
    BY DEF Invoke
  <1>3. c.op = op
    OBVIOUS
  <1> HIDE DEF c
  <1>4. /\ Len(inbox) \in Nat /\ DOMAIN inbox = 1..Len(inbox) /\ DOMAIN inbox' = 1..(Len(inbox) + 1)
        /\ \A i \in 1..Len(inbox) : inbox'[i] = inbox[i]
        /\ inbox'[Len(inbox) + 1] = c
    BY <1>1, <1>2
  <1>5. DOMAIN inbox' = DOMAIN inbox \cup {Len(inbox) + 1} /\ Len(inbox) + 1 \notin DOMAIN inbox
    BY <1>4
  <1>6. \A i \in DOMAIN inbox : StatusCall(i)' <=> StatusCall(i)
    BY <1>4 DEF StatusCall
  <1>7. inbox'[Len(inbox) + 1].op = op
    BY <1>3, <1>4
  <1>8. QED
    BY <1>5, <1>6, <1>7

LEMMA TakenFact ==
    ASSUME TypeOK, inbox # <<>>, inbox' = Tail(inbox)
    PROVE  /\ \A i \in DOMAIN inbox' : i + 1 \in DOMAIN inbox /\ (StatusCall(i)' <=> StatusCall(i + 1))
           /\ 1 \in DOMAIN inbox /\ (StatusCall(1) <=> Head(inbox).op = "status")
           /\ \A i \in DOMAIN inbox' : i + 1 # 1
           /\ \A i, j \in DOMAIN inbox' : i + 1 = j + 1 => i = j
  <1>1. inbox \in Seq(Calls)
    BY DEF TypeOK
  <1>2. /\ Len(inbox) \in Nat \ {0} /\ DOMAIN inbox = 1..Len(inbox)
        /\ DOMAIN inbox' = 1..(Len(inbox) - 1)
        /\ Head(inbox) = inbox[1]
        /\ \A i \in 1..(Len(inbox) - 1) : inbox'[i] = inbox[i + 1]
    BY <1>1
  <1>3. QED
    BY <1>2 DEF StatusCall

\* A request that has left the pending map never enters it again.
LEMMA GoneStays ==
    ASSUME TypeOK, [Next]_vars, NEW r \in Requests, r \notin pending, pc[r] \notin {"idle", "checked"}
    PROVE  r \notin pending' /\ pc'[r] \notin {"idle", "checked"}
  <1>1. ASSUME NEW x \in Requests,
               GateCheck(x) \/ GateInsert(x) \/ GateEmit(x) \/ GateReceive(x) \/ GateCancelled(x)
        PROVE  r \notin pending' /\ pc'[r] \notin {"idle", "checked"}
    BY <1>1 DEF GateCheck, GateInsert, GateEmit, GateReceive, GateCancelled, TypeOK, Answers
  <1>2. CASE TakeResolve
    BY <1>2 DEF TakeResolve
  <1>3. CASE Restart
    BY <1>3 DEF Restart
  <1>4. CASE UNCHANGED <<pc, pending>>
    BY <1>4
  <1>5. QED
    BY <1>1, <1>2, <1>3, <1>4
       DEF Next, vars, Release, Decide, OpenWindow, FinishResolve, TakeCancel, CloseWindow,
           TakeStatus, UiStart, MergeSnapshot, HandleEvent, UserCancels, ExpiryCancels, Tick

LEMMA UiFact == TypeOK => ui \in UiType
  BY DEF TypeOK, UiType

\* How handling an event changes the store.
LEMMA HandleFact ==
    ASSUME TypeOK, HandleEvent
    PROVE  /\ ui'.phase = ui.phase
           /\ \A r : r \in ui'.resolved => r \in ui.resolved \/ (Head(events).kind = "resolved" /\ r \in Head(events).id)
           /\ \A r : r \in ui.queue => r \in ui'.queue \/ (Head(events).kind = "resolved" /\ r \in Head(events).id)
           /\ \A r : Head(events).kind = "request" /\ r \in Head(events).id => r \in ui'.queue
  <1> DEFINE e == Head(events)
  <1>1. ui \in UiType /\ e.kind \in {"request", "resolved", "state"}
    BY UiFact, EventIsTyped DEF HandleEvent, Events
  <1>2. CASE e.kind = "request"
    <2>1. ui' = [ui EXCEPT !.queue = @ \cup e.id]
      BY <1>2 DEF HandleEvent
    <2>2. QED
      BY <1>1, <1>2, <2>1 DEF UiType
  <1>3. CASE e.kind = "resolved"
    <2> DEFINE seen == IF ui.phase = "listening" THEN ui.resolved \cup e.id ELSE ui.resolved
    <2>1. ui' = [ui EXCEPT !.queue = @ \ e.id, !.resolving = @ \ e.id, !.resolved = seen]
      BY <1>1, <1>3 DEF HandleEvent, UiType
    <2>2. \A r : r \in seen => r \in ui.resolved \/ r \in e.id
      OBVIOUS
    <2> HIDE DEF seen
    <2>3. ui'.phase = ui.phase /\ ui'.resolved = seen /\ ui'.queue = ui.queue \ e.id
      BY <1>1, <2>1 DEF UiType
    <2>4. QED
      BY <1>3, <2>2, <2>3
  <1>4. CASE e.kind = "state"
    <2>1. ui' = Shown(ui, e.until)
      BY <1>4 DEF HandleEvent
    <2>2. ui'.phase = ui.phase /\ ui'.queue = ui.queue /\ ui'.resolved = ui.resolved
      BY <1>1, <2>1 DEF Shown, UiType
    <2>3. QED
      BY <1>4, <2>2
  <1>5. QED
    BY <1>1, <1>2, <1>3, <1>4

LEMMA MergeFact ==
    ASSUME TypeOK, MergeSnapshot
    PROVE  /\ ui'.phase = "ready" /\ ui'.resolved = {} /\ ~snapshot'.ready
           /\ ui'.queue = ui.queue \cup (snapshot.pending \ ui.resolved)
  <1> DEFINE u == Shown(ui, snapshot.until)
  <1>1. ui \in UiType /\ u \in UiType
    BY UiFact, ShownIsTyped DEF TypeOK
  <1>2. u.queue = ui.queue
    BY <1>1 DEF Shown, UiType
  <1>3. ui' = [u EXCEPT !.phase = "ready", !.queue = @ \cup (snapshot.pending \ ui.resolved), !.resolved = {}]
    BY DEF MergeSnapshot
  <1>4. snapshot' = NoSnapshot
    BY DEF MergeSnapshot
  <1> HIDE DEF u
  <1>5. ui'.phase = "ready" /\ ui'.resolved = {} /\ ui'.queue = u.queue \cup (snapshot.pending \ ui.resolved)
    BY <1>1, <1>3 DEF UiType
  <1>6. QED
    BY <1>2, <1>4, <1>5 DEF NoSnapshot

\* What the front end does to its store in any step that is not a start, a merge,
\* an event or a restart.
Listed ==
    /\ ui'.phase = ui.phase /\ ui'.resolved = ui.resolved
    /\ ui.queue \ ui'.queue \subseteq job.id

LEMMA StoreStep ==
    ASSUME TypeOK, [Next]_vars, ~UiStart, ~MergeSnapshot, ~HandleEvent, ~Restart
    PROVE  Listed
  <1>1. ASSUME NEW r \in Requests, Decide(r) PROVE Listed
    <2>1. ui.resolving \cup {r} \in SUBSET Requests /\ ui' = [ui EXCEPT !.resolving = ui.resolving \cup {r}]
      BY <1>1 DEF Decide, TypeOK
    <2>2. ui'.phase = ui.phase /\ ui'.queue = ui.queue /\ ui'.resolved = ui.resolved
      BY <2>1, UiFact DEF UiType
    <2>3. QED
      BY <2>2 DEF Listed
  <1>2. CASE TakeResolve
    <2>1. ui' = ui \/ ui' = [ui EXCEPT !.resolving = @ \ Head(inbox).id]
      BY <1>2 DEF TakeResolve
    <2>2. QED
      BY <2>1, UiFact DEF UiType, Listed
  <1>3. CASE FinishResolve
    <2>1. ui' = [ui EXCEPT !.queue = @ \ job.id, !.resolving = @ \ job.id]
      BY <1>3 DEF FinishResolve
    <2>2. QED
      BY <2>1, UiFact DEF UiType, Listed
  <1>4. CASE CloseWindow
    <2>1. ui' = Shown(ui, 0)
      BY <1>4 DEF CloseWindow
    <2>2. QED
      BY <2>1, UiFact DEF UiType, Listed, Shown
  <1>5. CASE ExpiryCancels
    <2>1. ui' = [ui EXCEPT !.handled = ui.until]
      BY <1>5 DEF ExpiryCancels
    <2>2. QED
      BY <2>1, UiFact DEF UiType, Listed
  <1>6. CASE UNCHANGED ui
    BY <1>6 DEF Listed
  <1>7. QED
    BY <1>1, <1>2, <1>3, <1>4, <1>5, <1>6
       DEF Next, vars, GateCheck, GateInsert, GateEmit, GateReceive, GateCancelled, Release,
           OpenWindow, TakeCancel, TakeStatus, UserCancels, Tick

\* Which events a step adds and takes away.
Sent(r) == ResolvedSoon(r)' => ResolvedSoon(r)
Heard(r) == RequestSoon(r) => RequestSoon(r)'

LEMMA EventStep ==
    ASSUME TypeOK, [Next]_vars, ~HandleEvent, ~Restart, NEW r \in Requests
    PROVE  /\ Heard(r)
           /\ Sent(r) \/ Release(r) \/ (GateCancelled(r) /\ r \in pending)
  <1> USE DEF Heard, Sent
  <1>1. ASSUME NEW x \in Requests, GateEmit(x) PROVE Heard(r) /\ Sent(r)
    BY <1>1, EmittedFact DEF GateEmit
  <1>2. ASSUME NEW x \in Requests, GateCancelled(x)
        PROVE  Heard(r) /\ (Sent(r) \/ (x = r /\ r \in pending))
    <2>1. CASE x \in pending
      BY <1>2, <2>1, EmittedFact DEF GateCancelled
    <2>2. CASE x \notin pending
      BY <1>2, <2>2 DEF GateCancelled, RequestSoon, ResolvedSoon
    <2>3. QED
      BY <2>1, <2>2
  <1>3. ASSUME NEW x \in Requests, Release(x) PROVE Heard(r) /\ (Sent(r) \/ x = r)
    BY <1>3, EmittedFact DEF Release
  <1>4. CASE OpenWindow
    <2>1. events' = Emitted("state", {}, now + Window)
      BY <1>4 DEF OpenWindow
    <2>2. QED
      BY <2>1, EmittedFact
  <1>5. CASE CloseWindow
    <2>1. events' = Emitted("state", {}, 0)
      BY <1>5 DEF CloseWindow
    <2>2. QED
      BY <2>1, EmittedFact
  <1>6. CASE UNCHANGED events
    BY <1>6 DEF RequestSoon, ResolvedSoon
  <1>7. QED
    BY <1>1, <1>2, <1>3, <1>4, <1>5, <1>6
       DEF Next, vars, GateCheck, GateInsert, GateReceive, Decide, TakeResolve,
           FinishResolve, TakeCancel, TakeStatus, UiStart, MergeSnapshot, UserCancels,
           ExpiryCancels, Tick

LEMMA JobStep ==
    ASSUME TypeOK, [Next]_vars, ~TakeResolve
    PROVE  job'.id \subseteq job.id
  <1>1. job \in [step : {"none", "open", "release", "close"}, id : SUBSET Requests,
                 answer : Answers, grant : BOOLEAN, release : SUBSET Requests]
    BY DEF TypeOK
  <1>2. CASE OpenWindow
    <2>1. job' = [job EXCEPT !.step = "release"]
      BY <1>2 DEF OpenWindow
    <2>2. QED
      BY <1>1, <2>1
  <1>3. ASSUME NEW r \in Requests, Release(r) PROVE job'.id \subseteq job.id
    <2>1. job' = [job EXCEPT !.release = @ \ {r}]
      BY <1>3 DEF Release
    <2>2. QED
      BY <1>1, <2>1
  <1>4. CASE FinishResolve \/ CloseWindow \/ Restart
    BY <1>4 DEF FinishResolve, CloseWindow, Restart, NoJob
  <1>5. CASE TakeCancel
    <2>1. job' = job \/ job' = [NoJob EXCEPT !.step = "close"]
      BY <1>5 DEF TakeCancel
    <2>2. QED
      BY <2>1 DEF NoJob
  <1>6. CASE job' = job
    BY <1>6
  <1>7. QED
    BY <1>2, <1>3, <1>4, <1>5, <1>6
       DEF Next, vars, GateCheck, GateInsert, GateEmit, GateReceive, GateCancelled,
           Decide, TakeStatus, UiStart, MergeSnapshot, HandleEvent, UserCancels,
           ExpiryCancels, Tick

LEMMA ResolvedForGoodStep ==
    ASSUME TypeOK, Kept, ResolvedForGood, [Next]_vars
    PROVE  ResolvedForGood'
  <1> SUFFICES ASSUME NEW r \in Requests,
                      r \in ui'.resolved \/ ResolvedSoon(r)' \/ r \in job'.id
               PROVE  r \notin pending' /\ pc'[r] \notin {"idle", "checked"}
    BY DEF ResolvedForGood
  <1>1. CASE r \notin pending /\ pc[r] \notin {"idle", "checked"}
    BY <1>1, GoneStays
  <1>2. CASE ~(r \notin pending /\ pc[r] \notin {"idle", "checked"})
    <2>1. r \notin ui.resolved /\ ~ResolvedSoon(r) /\ r \notin job.id
      BY <1>2 DEF ResolvedForGood
    <2>2. CASE Release(r)
      BY <1>2, <2>2 DEF Release, Kept, SuspendedOnce, EarlyUnknown
    <2>3. CASE GateCancelled(r)
      BY <2>3 DEF GateCancelled, TypeOK
    <2>4. CASE HandleEvent
      <3>1. events # <<>> /\ events' = Tail(events) /\ job' = job
        BY <2>4 DEF HandleEvent
      <3>2. QED
        BY <2>1, <2>4, <3>1, HandleFact, HandledFact
    <2>5. CASE Restart
      BY <2>5 DEF Restart, NoJob, ClosedUi, ResolvedSoon
    <2>6. CASE TakeResolve
      <3>1. ui'.resolved = ui.resolved /\ events' = events
        BY <2>6, UiFact DEF TakeResolve, UiType
      <3>2. r \in job'.id
        BY <2>1, <3>1 DEF ResolvedSoon
      <3>3. CASE ~(Head(inbox).id \subseteq pending)
        BY <2>1, <2>6, <3>2, <3>3 DEF TakeResolve
      <3>4. CASE Head(inbox).id \subseteq pending
        <4>1. r \in Head(inbox).id /\ pending' = pending \ Taken(Head(inbox)) /\ pc' = pc
          BY <2>6, <3>2, <3>4 DEF TakeResolve
        <4>2. r \in pending /\ r \in Taken(Head(inbox))
          BY <3>4, <4>1 DEF Taken
        <4>3. pc[r] \notin {"idle", "checked"}
          BY <4>2 DEF Kept, SuspendedOnce, Suspended
        <4>4. QED
          BY <4>1, <4>2, <4>3
      <3>5. QED
        BY <3>3, <3>4
    <2>7. CASE ~Release(r) /\ ~GateCancelled(r) /\ ~HandleEvent /\ ~Restart /\ ~TakeResolve
      <3>1. Sent(r)
        BY <2>7, EventStep
      <3>2. r \notin job'.id
        <4>1. job'.id \subseteq job.id
          BY <2>7, JobStep
        <4>2. QED
          BY <2>1, <4>1
      <3>3. r \notin ui'.resolved
        <4>1. CASE UiStart
          BY <2>1, <4>1, UiFact DEF UiStart, UiType
        <4>2. CASE MergeSnapshot
          BY <4>2, MergeFact
        <4>3. CASE ~UiStart /\ ~MergeSnapshot
          BY <2>1, <2>7, <4>3, StoreStep DEF Listed
        <4>4. QED
          BY <4>1, <4>2, <4>3
      <3>4. QED
        BY <2>1, <3>1, <3>2, <3>3 DEF Sent
    <2>8. QED
      BY <2>2, <2>3, <2>4, <2>5, <2>6, <2>7
  <1>3. QED
    BY <1>1, <1>2

LEMMA OneStatusStep ==
    ASSUME TypeOK, OneStatus, [Next]_vars
    PROVE  OneStatus'
  <1>1. ASSUME UNCHANGED inbox, UNCHANGED snapshot, ui'.phase = ui.phase PROVE OneStatus'
    BY <1>1 DEF OneStatus, StatusCall
  <1>2. ASSUME NEW op, NEW id, NEW a, NEW g, Invoke(op, id, a, g), op # "status",
               UNCHANGED snapshot, ui'.phase = ui.phase
        PROVE  OneStatus'
    <2>1. /\ DOMAIN inbox' = DOMAIN inbox \cup {Len(inbox) + 1} /\ Len(inbox) + 1 \notin DOMAIN inbox
          /\ \A i \in DOMAIN inbox : StatusCall(i)' <=> StatusCall(i)
          /\ inbox'[Len(inbox) + 1].op # "status"
      BY <1>2, InvokedFact
    <2>2. \A i \in DOMAIN inbox' : StatusCall(i)' => i \in DOMAIN inbox /\ StatusCall(i)
      BY <2>1 DEF StatusCall
    <2>3. QED
      BY <1>2, <2>2 DEF OneStatus
  <1>3. ASSUME inbox # <<>>, inbox' = Tail(inbox), UNCHANGED snapshot, ui'.phase = ui.phase
        PROVE  OneStatus'
    <2>1. /\ \A i \in DOMAIN inbox' : i + 1 \in DOMAIN inbox /\ (StatusCall(i)' <=> StatusCall(i + 1))
          /\ \A i, j \in DOMAIN inbox' : i + 1 = j + 1 => i = j
      BY <1>3, TakenFact
    <2>2. QED
      BY <1>3, <2>1 DEF OneStatus
  <1>4. CASE UiStart
    <2>1. ui.phase = "off" /\ ui'.phase = "listening" /\ snapshot' = snapshot
          /\ Invoke("status", {}, "none", FALSE)
      BY <1>4, UiFact DEF UiStart, UiType
    <2>2. /\ DOMAIN inbox' = DOMAIN inbox \cup {Len(inbox) + 1}
          /\ \A i \in DOMAIN inbox : StatusCall(i)' <=> StatusCall(i)
      BY <2>1, InvokedFact
    <2>3. ~snapshot.ready /\ \A i \in DOMAIN inbox : ~StatusCall(i)
      BY <2>1 DEF OneStatus
    <2>4. QED
      BY <2>1, <2>2, <2>3 DEF OneStatus
  <1>5. CASE TakeStatus
    <2>1. /\ inbox # <<>> /\ inbox' = Tail(inbox) /\ Head(inbox).op = "status" /\ ui' = ui
      BY <1>5 DEF TakeStatus, NextCall
    <2>2. /\ \A i \in DOMAIN inbox' : i + 1 \in DOMAIN inbox /\ (StatusCall(i)' <=> StatusCall(i + 1))
          /\ 1 \in DOMAIN inbox /\ StatusCall(1)
          /\ \A i \in DOMAIN inbox' : i + 1 # 1
      BY <2>1, TakenFact
    <2>3. \A i \in DOMAIN inbox' : ~StatusCall(i)'
      BY <2>2 DEF OneStatus
    <2>4. ui.phase = "listening"
      BY <2>2 DEF OneStatus
    <2>5. QED
      BY <2>1, <2>3, <2>4 DEF OneStatus
  <1>6. CASE MergeSnapshot
    <2>1. snapshot.ready /\ inbox' = inbox
      BY <1>6 DEF MergeSnapshot
    <2>2. \A i \in DOMAIN inbox' : ~StatusCall(i)'
      BY <2>1 DEF OneStatus, StatusCall
    <2>3. QED
      BY <1>6, <2>2, MergeFact DEF OneStatus
  <1>7. CASE Restart
    BY <1>7 DEF Restart, OneStatus, NoSnapshot, ClosedUi
  <1>8. CASE HandleEvent
    BY <1>1, <1>8, HandleFact DEF HandleEvent
  <1>9. CASE ~UiStart /\ ~TakeStatus /\ ~MergeSnapshot /\ ~Restart /\ ~HandleEvent
    <2>1. ui'.phase = ui.phase
      BY <1>9, StoreStep DEF Listed
    <2>2. ASSUME NEW r \in Requests, Decide(r) PROVE OneStatus'
      BY <1>2, <2>1, <2>2 DEF Decide
    <2>3. CASE UserCancels \/ ExpiryCancels
      BY <1>2, <2>1, <2>3 DEF UserCancels, ExpiryCancels
    <2>4. CASE TakeResolve \/ TakeCancel
      BY <1>3, <2>1, <2>4 DEF TakeResolve, TakeCancel, NextCall
    <2>5. CASE UNCHANGED <<inbox, snapshot>>
      BY <1>1, <2>1, <2>5
    <2>6. QED
      BY <1>9, <2>2, <2>3, <2>4, <2>5
         DEF Next, vars, GateCheck, GateInsert, GateEmit, GateReceive, GateCancelled,
             Release, OpenWindow, FinishResolve, CloseWindow, Tick
  <1>10. QED
    BY <1>4, <1>5, <1>6, <1>7, <1>8, <1>9

\* The snapshot is taken by one command, merged by the store, and lost in a restart.
LEMMA SnapshotStep ==
    ASSUME [Next]_vars, ~TakeStatus, ~MergeSnapshot, ~Restart
    PROVE  snapshot' = snapshot
  BY DEF Next, vars, GateCheck, GateInsert, GateEmit, GateReceive, GateCancelled, Release,
         Decide, TakeResolve, OpenWindow, FinishResolve, TakeCancel, CloseWindow,
         UiStart, HandleEvent, UserCancels, ExpiryCancels, Tick

\* A request waits from its event on.
LEMMA WaitStep ==
    ASSUME TypeOK, [Next]_vars, NEW r \in Requests, pc'[r] = "waiting", r \in pending'
    PROVE  r \in pending /\ ~Restart /\ (pc[r] = "waiting" \/ GateEmit(r))
  <1>1. ASSUME NEW x \in Requests,
               GateCheck(x) \/ GateInsert(x) \/ GateEmit(x) \/ GateReceive(x) \/ GateCancelled(x)
        PROVE  r \in pending /\ (pc[r] = "waiting" \/ GateEmit(r))
    <2>1. CASE GateCheck(x) \/ GateReceive(x)
      BY <2>1 DEF GateCheck, GateReceive, TypeOK, Answers
    <2>2. CASE GateInsert(x)
      BY <2>2 DEF GateInsert, TypeOK
    <2>3. CASE GateEmit(x)
      BY <2>3 DEF GateEmit, TypeOK
    <2>4. CASE GateCancelled(x)
      BY <2>4 DEF GateCancelled, TypeOK
    <2>5. QED
      BY <1>1, <2>1, <2>2, <2>3, <2>4
  <1>2. ~Restart
    BY DEF Restart
  <1>3. CASE TakeResolve
    BY <1>2, <1>3 DEF TakeResolve
  <1>4. CASE UNCHANGED <<pc, pending>>
    BY <1>2, <1>4
  <1>5. QED
    BY <1>1, <1>2, <1>3, <1>4
       DEF Next, vars, Release, Decide, OpenWindow, FinishResolve, TakeCancel, CloseWindow,
           TakeStatus, UiStart, MergeSnapshot, HandleEvent, UserCancels, ExpiryCancels, Tick

\* Where the user can see a request.
IsShown(r) ==
    \/ r \in ui.queue
    \/ RequestSoon(r)
    \/ ui.phase = "listening" /\ ~snapshot.ready
    \/ snapshot.ready /\ r \in snapshot.pending \ ui.resolved

LEMMA ShownForIt ==
    WaitingIsShown <=> \A r \in Requests : (ui.phase # "off" /\ pc[r] = "waiting" /\ r \in pending) => IsShown(r)
  BY DEF WaitingIsShown, IsShown, RequestSoon

LEMMA ShownNext ==
    ASSUME \A r \in Requests : (ui'.phase # "off" /\ pc'[r] = "waiting" /\ r \in pending') => IsShown(r)'
    PROVE  WaitingIsShown'
  BY DEF WaitingIsShown, IsShown, RequestSoon

LEMMA WaitingIsShownStep ==
    ASSUME TypeOK, ResolvedForGood, ResolvedForGood', OneStatus, WaitingIsShown, [Next]_vars
    PROVE  WaitingIsShown'
  <1> SUFFICES ASSUME NEW r \in Requests, ui'.phase # "off", pc'[r] = "waiting", r \in pending'
               PROVE  IsShown(r)'
    BY ShownNext
  <1>1. r \in pending /\ ~Restart /\ (pc[r] = "waiting" \/ GateEmit(r))
    BY WaitStep
  <1>2. /\ r \notin ui.resolved /\ ~ResolvedSoon(r) /\ r \notin job.id
        /\ r \notin ui'.resolved
    BY <1>1 DEF ResolvedForGood
  <1>3. CASE GateEmit(r)
    <2>1. ui' = ui /\ events' = Emitted("request", {r}, 0)
      BY <1>3 DEF GateEmit
    <2>2. QED
      BY <2>1, EmittedFact DEF IsShown
  <1>4. CASE UiStart
    <2>1. ui'.phase = "listening" /\ ~snapshot'.ready
      BY <1>4, UiFact DEF UiStart, UiType, OneStatus
    <2>2. QED
      BY <2>1 DEF IsShown
  <1>5. CASE ~GateEmit(r) /\ ~UiStart
    <2>1. ui.phase # "off"
      <3>1. CASE MergeSnapshot
        BY <3>1 DEF MergeSnapshot, OneStatus
      <3>2. CASE HandleEvent
        BY <3>2, HandleFact
      <3>3. CASE ~MergeSnapshot /\ ~HandleEvent
        BY <1>1, <1>5, <3>3, StoreStep DEF Listed
      <3>4. QED
        BY <3>1, <3>2, <3>3
    <2>2. IsShown(r)
      BY <1>1, <1>5, <2>1, ShownForIt
    <2>3. CASE HandleEvent
      <3>1. events # <<>> /\ events' = Tail(events) /\ snapshot' = snapshot
        BY <2>3 DEF HandleEvent
      <3>2. ~(Head(events).kind = "resolved" /\ r \in Head(events).id)
        BY <1>2, <3>1, HandledFact
      <3>3. r \in ui.queue => r \in ui'.queue
        BY <2>3, <3>2, HandleFact
      <3>4. RequestSoon(r) => RequestSoon(r)' \/ r \in ui'.queue
        BY <2>3, <3>1, HandleFact, HandledFact
      <3>5. ui'.phase = ui.phase
        BY <2>3, HandleFact
      <3>6. QED
        BY <1>2, <2>2, <3>1, <3>3, <3>4, <3>5 DEF IsShown
    <2>4. CASE MergeSnapshot
      <3>1. RequestSoon(r) => RequestSoon(r)'
        BY <2>4 DEF MergeSnapshot, RequestSoon
      <3>2. snapshot.ready
        BY <2>4 DEF MergeSnapshot
      <3>3. QED
        BY <2>2, <2>4, <3>1, <3>2, MergeFact DEF IsShown
    <2>5. CASE TakeStatus
      BY <1>1, <1>2, <2>5 DEF TakeStatus, IsShown
    <2>6. CASE ~HandleEvent /\ ~MergeSnapshot /\ ~TakeStatus
      <3>1. Listed /\ Heard(r) /\ snapshot' = snapshot
        BY <1>1, <1>5, <2>6, StoreStep, EventStep, SnapshotStep
      <3>2. QED
        BY <1>2, <2>2, <3>1 DEF IsShown, Listed, Heard
    <2>7. QED
      BY <2>3, <2>4, <2>5, <2>6
  <1>6. QED
    BY <1>3, <1>4, <1>5

\* The user can see every request that waits for a decision, whenever the front end
\* started, however its snapshot and the events race, and whatever was resolved or
\* given up meanwhile.
THEOREM WaitingIsAlwaysShown == Spec => []WaitingIsShown
  <1> DEFINE Inv == ResolvedForGood /\ OneStatus /\ WaitingIsShown
  <1>1. Init => Inv
    BY DEF Init, ResolvedForGood, ResolvedSoon, OneStatus, WaitingIsShown, NoJob, NoSnapshot, ClosedUi
  <1>2. TypeOK /\ CallsDecide /\ Kept /\ Inv /\ [Next]_vars => Inv'
    BY ResolvedForGoodStep, OneStatusStep, WaitingIsShownStep
  <1>3. Inv => WaitingIsShown
    OBVIOUS
  <1> HIDE DEF Inv
  <1>4. QED
    BY <1>1, <1>2, <1>3, ApprovalTypes, SuspendedInvariant, PTL DEF Spec
=============================================================================
