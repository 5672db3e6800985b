------------------------ MODULE SessionLifecycleProofs ------------------------
(***************************************************************************)
(* Proofs about SessionLifecycle for any number of sessions, command-line  *)
(* processes, agents and calls.                                            *)
(***************************************************************************)
EXTENDS SessionLifecycle, FiniteSetTheorems, TLAPS

(* Typing. *)

LEMMA TypeInit == Init => TypeOK
  BY DEF Init, TypeOK, Lives, NoCall, NoReap, NoStream, Handlers

LEMMA KilledIsTyped ==
    ASSUME TypeOK, NEW S \in SUBSET Sessions, Killed(S)
    PROVE  sessions' \subseteq Sessions /\ life' \in [Sessions -> Lives]
  BY DEF Killed, TypeOK, Lives

LEMMA AttachedIsTyped ==
    ASSUME TypeOK, NEW s \in Sessions, Attached(s)
    PROVE  count' \in [Sessions -> Nat] /\ idle' \in [Sessions -> BOOLEAN]
  BY DEF Attached, TypeOK

LEMMA DetachedIsTyped ==
    ASSUME TypeOK, NEW s \in Sessions, Detached(s)
    PROVE  count' \in [Sessions -> Nat] /\ idle' \in [Sessions -> BOOLEAN]
  BY DEF Detached, TypeOK

LEMMA OverdrawnIsTyped ==
    ASSUME TypeOK, NEW s \in Sessions, Overdrawn(s)
    PROVE  overdrawn' \in [Sessions -> Nat]
  BY DEF Overdrawn, TypeOK

StreamRecord == [phase : Handlers, of : SUBSET Sessions, due : BOOLEAN]
StreamType == [Clients -> StreamRecord]
ReaperType == [check : SUBSET Sessions, stale : SUBSET Sessions, victim : SUBSET Sessions]
CallType == [task : {"none", "kill", "delete"}, todo : SUBSET Sessions, victims : SUBSET Sessions]

LEMMA StreamUpdate ==
    ASSUME NEW x \in StreamRecord, NEW p \in Handlers, NEW o \in SUBSET Sessions,
           NEW d \in BOOLEAN
    PROVE  /\ [x EXCEPT !.of = o] \in StreamRecord
           /\ [x EXCEPT !.phase = p] \in StreamRecord
           /\ [x EXCEPT !.due = d] \in StreamRecord
           /\ [x EXCEPT !.due = d, !.phase = p] \in StreamRecord
           /\ [x EXCEPT !.phase = p, !.due = d] \in StreamRecord
  BY DEF StreamRecord

LEMMA ReaperUpdate ==
    ASSUME NEW x \in ReaperType, NEW C \in SUBSET Sessions, NEW S \in SUBSET Sessions
    PROVE  [x EXCEPT !.check = C, !.stale = S] \in ReaperType
  BY DEF ReaperType

LEMMA CallUpdate ==
    ASSUME NEW x \in CallType, NEW K \in SUBSET Sessions, NEW V \in SUBSET Sessions
    PROVE  /\ NoCall \in CallType
           /\ [NoCall EXCEPT !.task = "kill", !.victims = V] \in CallType
           /\ [NoCall EXCEPT !.task = "delete", !.todo = K] \in CallType
           /\ [x EXCEPT !.todo = K, !.victims = V] \in CallType
  BY DEF CallType, NoCall

LEMMA EnterIsTyped ==
    ASSUME TypeOK, NEW c \in Clients, NEW p \in Handlers, Enter(c, p)
    PROVE  stream' \in StreamType
  <1>1. stream \in StreamType
    BY DEF TypeOK, StreamType, StreamRecord
  <1>2. stream' = [stream EXCEPT ![c] = [stream[c] EXCEPT !.phase = p]]
    BY DEF Enter
  <1>3. stream[c] \in StreamRecord
    BY <1>1 DEF StreamType
  <1>4. [stream[c] EXCEPT !.phase = p] \in StreamRecord
    BY <1>3, StreamUpdate
  <1>5. QED
    BY <1>1, <1>2, <1>4 DEF StreamType

LEMMA SessionTypeStep ==
    ASSUME TypeOK, NEW s \in Sessions,
           BeginCreate(s) \/ FinishCreate(s) \/ Kill(s) \/ Cleanup(s) \/ Disconnect(s)
    PROVE  TypeOK'
  <1>1. CASE BeginCreate(s) \/ Disconnect(s)
    <2>1. life' \in [Sessions -> Lives] /\ client' \in [Sessions -> BOOLEAN]
      <3>1. /\ life' = [life EXCEPT ![s] = "connecting"] \/ life' = [life EXCEPT ![s] = "gone"]
            /\ client' = client \/ client' = [client EXCEPT ![s] = FALSE]
        BY <1>1 DEF BeginCreate, Disconnect
      <3>2. life \in [Sessions -> Lives] /\ client \in [Sessions -> BOOLEAN]
        BY DEF TypeOK
      <3>3. {"connecting", "gone"} \subseteq Lives
        BY DEF Lives
      <3>4. QED
        BY <3>1, <3>2, <3>3
    <2>2. UNCHANGED <<sessions, count, idle, row, calls, reaper, stream, cli, held, overdrawn>>
      BY <1>1 DEF BeginCreate, Disconnect
    <2>3. QED
      BY <2>1, <2>2 DEF TypeOK
  <1>5. CASE Cleanup(s)
    <2>1. life' = [life EXCEPT ![s] = "disconnecting"]
          /\ UNCHANGED <<sessions, client, count, idle, row, calls, reaper, stream, cli, held, overdrawn>>
      BY <1>5 DEF Cleanup
    <2>2. QED
      BY <2>1 DEF TypeOK, Lives
  <1>2. CASE FinishCreate(s)
    <2>1. sessions' \subseteq Sessions /\ life' \in [Sessions -> Lives]
      BY <1>2 DEF FinishCreate, TypeOK, Lives
    <2>2. client' \in [Sessions -> BOOLEAN] /\ count' \in [Sessions -> Nat] /\ idle' \in [Sessions -> BOOLEAN]
      BY <1>2 DEF FinishCreate, TypeOK
    <2>3. QED
      BY <1>2, <2>1, <2>2 DEF FinishCreate, TypeOK
  <1>3. CASE Kill(s)
    BY <1>3, KilledIsTyped, {s} \in SUBSET Sessions DEF Kill, TypeOK
  <1>4. QED
    BY <1>1, <1>2, <1>3, <1>5

LEMMA ManagerTypeStep ==
    ASSUME TypeOK,
           \/ Exit \/ ReapStart
           \/ \E s \in Sessions : IdleElapses(s) \/ ReapCheck(s) \/ ReapKill(s)
    PROVE  TypeOK'
  <1>2. CASE Exit
    <2>1. stream' \in StreamType
      <3>1. \A c \in Clients : stream[c] \in StreamRecord
        BY DEF TypeOK, StreamRecord
      <3>2. \A c \in Clients : [stream[c] EXCEPT !.phase = "ended", !.due = FALSE] \in StreamRecord
        BY <3>1, StreamUpdate, {} \in SUBSET Sessions DEF Handlers
      <3>3. QED
        BY <1>2, <3>1, <3>2 DEF Exit, StreamType
    <2>2. QED
      BY <1>2, <2>1 DEF Exit, TypeOK, StreamType, StreamRecord, Lives, NoCall, NoReap
  <1>4. CASE ReapStart
    BY <1>4 DEF ReapStart, NoReap, TypeOK
  <1>5. ASSUME NEW s \in Sessions, IdleElapses(s) \/ ReapCheck(s)
        PROVE  TypeOK'
    <2>1. idle' \in [Sessions -> BOOLEAN]
      BY <1>5 DEF IdleElapses, ReapCheck, TypeOK
    <2>2. reaper' \in ReaperType
      <3>1. reaper \in ReaperType
        BY DEF TypeOK, ReaperType
      <3>2. CASE IdleElapses(s)
        BY <3>1, <3>2 DEF IdleElapses
      <3>3. CASE ReapCheck(s)
        <4>1. /\ reaper.check \ {s} \in SUBSET Sessions
              /\ (IF count[s] = 0 /\ idle[s] THEN reaper.stale \cup {s} ELSE reaper.stale)
                   \in SUBSET Sessions
          BY DEF TypeOK
        <4>2. QED
          BY <3>1, <3>3, <4>1, ReaperUpdate DEF ReapCheck
      <3>4. QED
        BY <1>5, <3>2, <3>3
    <2>3. UNCHANGED <<sessions, life, client, count, row, calls, stream, cli, held, overdrawn>>
      BY <1>5 DEF IdleElapses, ReapCheck
    <2>4. QED
      BY <2>1, <2>2, <2>3 DEF TypeOK, ReaperType
  <1>7. ASSUME NEW s \in Sessions, ReapKill(s)
        PROVE  TypeOK'
    BY <1>7, KilledIsTyped, {s} \in SUBSET Sessions DEF ReapKill, TypeOK
  <1>8. QED
    BY <1>2, <1>4, <1>5, <1>7

LEMMA CallTypeStep ==
    ASSUME TypeOK, NEW x \in Callers,
           \/ AgentKills(x) \/ AgentKilled(x) \/ AgentDropped(x)
           \/ BeginDelete(x) \/ FinishDelete(x) \/ \E s \in Sessions : DeleteKill(x, s)
    PROVE  TypeOK'
  <1>1. calls \in [Callers -> CallType] /\ calls[x] \in CallType /\ sessions \in SUBSET Sessions
    BY DEF TypeOK, CallType
  <1>2. ASSUME NEW S \in SUBSET Sessions, AgentKill(x, S)
        PROVE  TypeOK'
    <2>1. calls' \in [Callers -> CallType]
      BY <1>1, <1>2, CallUpdate DEF AgentKill
    <2>2. sessions' \subseteq Sessions /\ life' \in [Sessions -> Lives]
      BY <1>2, KilledIsTyped DEF AgentKill
    <2>3. QED
      BY <1>2, <2>1, <2>2 DEF AgentKill, TypeOK, CallType
  <1>3. ASSUME NEW s \in Sessions, DeleteKill(x, s)
        PROVE  TypeOK'
    <2>1. calls' \in [Callers -> CallType]
      <3>1. calls' = [calls EXCEPT ![x] = [calls[x] EXCEPT !.todo = calls[x].todo \ {s},
                                                          !.victims = {s} \cap sessions]]
        BY <1>1, <1>3 DEF DeleteKill
      <3>2. calls[x].todo \ {s} \in SUBSET Sessions /\ {s} \cap sessions \in SUBSET Sessions
        BY <1>1 DEF CallType
      <3>3. QED
        BY <1>1, <3>1, <3>2, CallUpdate
    <2>2. sessions' \subseteq Sessions /\ life' \in [Sessions -> Lives]
      BY <1>3, KilledIsTyped, {s} \in SUBSET Sessions DEF DeleteKill
    <2>3. QED
      BY <1>3, <2>1, <2>2 DEF DeleteKill, TypeOK, CallType
  <1>4. CASE AgentKilled(x) \/ BeginDelete(x) \/ FinishDelete(x)
    <2>1. calls' \in [Callers -> CallType]
      BY <1>1, <1>4, CallUpdate DEF AgentKilled, BeginDelete, FinishDelete
    <2>2. row' \in BOOLEAN
      BY <1>4 DEF AgentKilled, BeginDelete, FinishDelete, TypeOK
    <2>3. UNCHANGED <<sessions, life, client, count, idle, reaper, stream, cli, held, overdrawn>>
      BY <1>4 DEF AgentKilled, BeginDelete, FinishDelete
    <2>4. QED
      BY <2>1, <2>2, <2>3 DEF TypeOK, CallType
  <1>5. CASE AgentDropped(x)
    <2>1. calls' \in [Callers -> CallType]
      BY <1>1, <1>5, CallUpdate DEF AgentDropped
    <2>2. life' \in [Sessions -> Lives] /\ client' \in [Sessions -> BOOLEAN]
      BY <1>5 DEF AgentDropped, TypeOK, Lives
    <2>3. QED
      BY <1>5, <2>1, <2>2 DEF AgentDropped, TypeOK, CallType
  <1>6. ASSUME AgentKills(x)
        PROVE  TypeOK'
    <2>1. PICK S \in SUBSET Sessions : AgentKill(x, S)
      BY <1>1, <1>6 DEF AgentKills
    <2>2. QED
      BY <1>2, <2>1
  <1>7. QED
    BY <1>3, <1>4, <1>5, <1>6

LEMMA HandlerTypeStep ==
    ASSUME TypeOK, NEW c \in Clients, Handler(c)
    PROVE  TypeOK'
  <1>1. CASE Acknowledge(c)
    <2>1. stream' \in StreamType
      BY <1>1, EnterIsTyped DEF Acknowledge, Handlers
    <2>2. QED
      BY <1>1, <2>1 DEF Acknowledge, TypeOK, StreamType, StreamRecord
  <1>2. CASE Replay(c)
    <2>1. stream' \in StreamType
      BY <1>2, EnterIsTyped DEF Replay, Handlers
    <2>2. QED
      BY <1>2, <2>1 DEF Replay, TypeOK, StreamType, StreamRecord
  <1>3. CASE Forward(c)
    <2>1. stream' \in StreamType
      <3>1. stream \in StreamType /\ stream[c] \in StreamRecord
        BY DEF TypeOK, StreamType, StreamRecord
      <3>2. (IF cli[c] = "closed" THEN "detaching" ELSE stream[c].phase) \in Handlers
        BY <3>1 DEF Handlers, StreamRecord
      <3>3. stream' = [stream EXCEPT ![c] =
                         [stream[c] EXCEPT !.due = FALSE,
                                           !.phase = IF cli[c] = "closed" THEN "detaching"
                                                     ELSE stream[c].phase]]
        BY <1>3, <3>1 DEF Forward, StreamType, StreamRecord
      <3>4. QED
        BY <3>1, <3>2, <3>3, StreamUpdate DEF StreamType
    <2>2. QED
      BY <1>3, <2>1 DEF Forward, TypeOK, StreamType, StreamRecord
  <1>4. ASSUME NEW s \in Sessions, Attach(c, s)
        PROVE  TypeOK'
    <2>1. stream' \in StreamType
      BY <1>4, EnterIsTyped DEF Attach, Handlers
    <2>2. QED
      BY <1>4, <2>1, AttachedIsTyped DEF Attach, TypeOK, StreamType, StreamRecord
  <1>5. ASSUME NEW s \in Sessions, Detach(c, s)
        PROVE  TypeOK'
    <2>1. stream' \in StreamType
      BY <1>5, EnterIsTyped DEF Detach, Handlers
    <2>2. QED
      BY <1>5, <2>1, DetachedIsTyped DEF Detach, TypeOK, StreamType, StreamRecord
  <1>6. QED
    BY <1>1, <1>2, <1>3, <1>4, <1>5 DEF Handler

LEMMA OutputTypeStep ==
    ASSUME TypeOK, NEW s \in Sessions, Output(s)
    PROVE  TypeOK'
  <1>1. stream' \in StreamType
    <2>1. \A c \in Clients : stream[c] \in StreamRecord
      BY DEF TypeOK, StreamRecord
    <2>2. \A c \in Clients : [stream[c] EXCEPT !.due = TRUE] \in StreamRecord
      BY <2>1, StreamUpdate, {} \in SUBSET Sessions DEF Handlers
    <2>3. QED
      BY <2>1, <2>2 DEF Output, StreamType
  <1>2. QED
    BY <1>1 DEF Output, TypeOK, StreamType, StreamRecord

LEMMA ClientTypeStep ==
    ASSUME TypeOK, NEW c \in Clients,
           \/ Leave(c) \/ StreamCloses(c) \/ Quit(c)
           \/ \E s \in Sessions : Look(c, s) \/ Connect(c, s) \/ HandOff(c, s)
    PROVE  TypeOK'
  <1>1. CASE Leave(c) \/ StreamCloses(c) \/ Quit(c)
    BY <1>1 DEF Leave, StreamCloses, Quit, TypeOK
  <1>2. ASSUME NEW s \in Sessions, Look(c, s) \/ Connect(c, s)
        PROVE  TypeOK'
    <2>1. stream' \in StreamType
      <3>1. stream \in StreamType /\ stream[c] \in StreamRecord
        BY DEF TypeOK, StreamType, StreamRecord
      <3>2. {s} \in SUBSET Sessions
        OBVIOUS
      <3>3. CASE Look(c, s)
        <4>1. stream' = [stream EXCEPT ![c] = [stream[c] EXCEPT !.of = {s}]]
          BY <3>3 DEF Look
        <4>2. [stream[c] EXCEPT !.of = {s}] \in StreamRecord
          BY <3>1, <3>2 DEF StreamRecord
        <4>3. QED
          BY <3>1, <4>1, <4>2 DEF StreamType
      <3>4. CASE Connect(c, s)
        BY <3>1, <3>2, <3>4 DEF Connect, StreamType, StreamRecord, Handlers
      <3>5. QED
        BY <1>2, <3>3, <3>4
    <2>2. cli' \in [Clients -> {"off", "looked", "waiting", "open", "leaving", "closed"}]
      BY <1>2 DEF Look, Connect, TypeOK
    <2>3. QED
      BY <1>2, <2>1, <2>2 DEF Look, Connect, TypeOK, StreamType, StreamRecord
  <1>3. ASSUME NEW s \in Sessions, HandOff(c, s)
        PROVE  TypeOK'
    <2>1. /\ count' \in [Sessions -> Nat] /\ idle' \in [Sessions -> BOOLEAN]
          /\ overdrawn' \in [Sessions -> Nat]
      BY <1>3, DetachedIsTyped, OverdrawnIsTyped DEF HandOff, TypeOK
    <2>2. QED
      BY <1>3, <2>1 DEF HandOff, TypeOK
  <1>4. QED
    BY <1>1, <1>2, <1>3

LEMMA AttachmentTypeStep ==
    ASSUME TypeOK, NEW s \in Sessions, CallAttach(s) \/ CallDetach(s)
    PROVE  TypeOK'
  <1>1. count' \in [Sessions -> Nat] /\ idle' \in [Sessions -> BOOLEAN]
    BY AttachedIsTyped, DetachedIsTyped DEF CallAttach, CallDetach
  <1>2. held' \in [Sessions -> Nat]
    BY DEF CallAttach, CallDetach, TypeOK
  <1>3. overdrawn' \in [Sessions -> Nat]
    BY OverdrawnIsTyped DEF CallAttach, CallDetach, TypeOK
  <1>4. QED
    BY <1>1, <1>2, <1>3 DEF CallAttach, CallDetach, TypeOK

LEMMA TypeStep ==
    ASSUME TypeOK, [Next]_vars
    PROVE  TypeOK'
  <1>1. CASE UNCHANGED vars
    BY <1>1 DEF vars, TypeOK
  <1>2. CASE Next
    BY <1>2, SessionTypeStep, ManagerTypeStep, HandlerTypeStep, OutputTypeStep,
       ClientTypeStep, CallTypeStep, AttachmentTypeStep DEF Next, Handler, Callers
  <1>3. QED
    BY <1>1, <1>2

\* Every variable keeps its type; the client count in particular never falls
\* below zero, however often a client is detached.
THEOREM LifecycleTypes == Spec => []TypeOK
  <1>1. Init => TypeOK
    BY TypeInit
  <1>2. TypeOK /\ [Next]_vars => TypeOK'
    BY TypeStep
  <1>3. QED
    BY <1>1, <1>2, PTL DEF Spec

-----------------------------------------------------------------------------
(* Retirement. *)

\* A session has no SSH client before it is stored in the map.
Unconnected ==
    \A s \in Sessions : life[s] \in {"absent", "connecting"} => ~client[s]

\* What a call is tearing down was in the map once and is no more.
Claimed ==
    \A x \in Callers : \A s \in calls[x].victims :
       life[s] \notin {"absent", "connecting", "live"}

\* A caller that waits for nothing has nothing left to do.
Idle == \A x \in Callers : calls[x].task = "none" => calls[x].todo = {} /\ calls[x].victims = {}

Retirement == TypeOK /\ Unconnected /\ Claimed /\ Idle /\ GoneIsRetired

LEMMA RetirementInit == Init => Retirement
  BY TypeInit DEF Init, Retirement, Unconnected, Claimed, Idle, NoCall, GoneIsRetired

\* What kill removes from the map is being cleaned, and nothing else changes.
LEMMA KilledRetires ==
    ASSUME Retirement, NEW S \in SUBSET Sessions, Killed(S), UNCHANGED client
    PROVE  (Unconnected /\ GoneIsRetired)'
  BY DEF Killed, Retirement, TypeOK, Lives, Unconnected, GoneIsRetired

LEMMA RetirementStep ==
    ASSUME Retirement, [Next]_vars
    PROVE  (Unconnected /\ GoneIsRetired)'
  <1> USE DEF Retirement
  <1>1. ASSUME NEW s \in Sessions, BeginCreate(s) \/ FinishCreate(s) \/ Cleanup(s) \/ Disconnect(s)
        PROVE  (Unconnected /\ GoneIsRetired)'
    BY <1>1 DEF BeginCreate, FinishCreate, Cleanup, Disconnect, TypeOK, Lives,
                Unconnected, GoneIsRetired
  <1>2. ASSUME NEW s \in Sessions, NEW x \in Callers, Kill(s) \/ DeleteKill(x, s) \/ ReapKill(s)
        PROVE  (Unconnected /\ GoneIsRetired)'
    BY <1>2, KilledRetires, {s} \in SUBSET Sessions DEF Kill, DeleteKill, ReapKill
  <1>3. ASSUME NEW a \in Agents, AgentKills(a)
        PROVE  (Unconnected /\ GoneIsRetired)'
    BY <1>3, KilledRetires DEF AgentKills, AgentKill, TypeOK
  <1>4. CASE Exit
    BY <1>4 DEF Exit, TypeOK, Lives, Unconnected, GoneIsRetired
  <1>9. ASSUME NEW a \in Agents, AgentDropped(a)
        PROVE  (Unconnected /\ GoneIsRetired)'
    <2>1. \A s \in calls[a].victims : life[s] \notin {"absent", "connecting", "live"}
      BY DEF Claimed, Callers
    <2>2. sessions' = sessions /\ \A s \in Sessions : client'[s] => client[s]
      BY <1>9 DEF AgentDropped, TypeOK
    <2>3. \A s \in Sessions : \/ life'[s] = life[s]
                              \/ s \in calls[a].victims /\ life'[s] = "abandoned"
      BY <1>9 DEF AgentDropped, TypeOK
    <2>4. QED
      BY <2>1, <2>2, <2>3 DEF Unconnected, GoneIsRetired, TypeOK
  <1>5. CASE UNCHANGED <<sessions, life, client>>
    BY <1>5 DEF Unconnected, GoneIsRetired
  <1>6. CASE UNCHANGED vars
    BY <1>5, <1>6 DEF vars
  <1>7. CASE Next
    <2>1. ASSUME NEW s \in Sessions, IdleElapses(s) \/ ReapCheck(s) \/ Output(s)
          PROVE  UNCHANGED <<sessions, life, client>>
      BY <2>1 DEF IdleElapses, ReapCheck, Output
    <2>2. ASSUME NEW x \in Callers, BeginDelete(x) \/ FinishDelete(x) \/ AgentKilled(x) \/ ReapStart
          PROVE  UNCHANGED <<sessions, life, client>>
      BY <2>2 DEF BeginDelete, FinishDelete, AgentKilled, ReapStart
    <2>3. ASSUME NEW c \in Clients,
                 \/ Acknowledge(c) \/ Replay(c) \/ Forward(c)
                 \/ Leave(c) \/ StreamCloses(c) \/ Quit(c)
          PROVE  UNCHANGED <<sessions, life, client>>
      BY <2>3 DEF Acknowledge, Replay, Forward, Leave, StreamCloses, Quit
    <2>4. ASSUME NEW c \in Clients, NEW s \in Sessions,
                 \/ Attach(c, s) \/ Detach(c, s)
                 \/ Look(c, s) \/ Connect(c, s) \/ HandOff(c, s)
          PROVE  UNCHANGED <<sessions, life, client>>
      BY <2>4 DEF Attach, Detach, Look, Connect, HandOff
    <2>5. ASSUME NEW s \in Sessions, CallAttach(s) \/ CallDetach(s)
          PROVE  UNCHANGED <<sessions, life, client>>
      BY <2>5 DEF CallAttach, CallDetach
    <2>6. QED
      BY <1>1, <1>2, <1>3, <1>4, <1>5, <1>9, <1>7, <2>1, <2>2, <2>3, <2>4, <2>5 DEF Next, Callers
  <1>8. QED
    BY <1>6, <1>7

LEMMA KilledLife ==
    ASSUME Retirement, NEW S \in SUBSET Sessions, Killed(S),
           NEW s \in Sessions, life'[s] # life[s]
    PROVE  life[s] = "live" /\ life'[s] = "cleaning"
  BY DEF Killed, Retirement, GoneIsRetired

\* How the life of one session moves on in any step that moves it.
LEMMA LifeStep ==
    ASSUME Retirement, [Next]_vars, NEW s \in Sessions, life'[s] # life[s]
    PROVE  \/ life[s] = "absent" /\ life'[s] \in {"connecting", "gone"}
           \/ life[s] = "connecting" /\ life'[s] \in {"live", "gone"}
           \/ life[s] = "live" /\ life'[s] \in {"cleaning", "gone"}
           \/ life[s] = "cleaning" /\ life'[s] \in {"disconnecting", "gone"}
           \/ life[s] = "disconnecting" /\ life'[s] = "gone"
           \/ life[s] = "abandoned" /\ life'[s] = "gone"
           \/ /\ life[s] \in {"cleaning", "disconnecting"} /\ life'[s] = "abandoned"
              /\ Asked(s)
  <1> USE DEF Retirement
  <1>1. ASSUME NEW x \in Sessions, BeginCreate(x) \/ FinishCreate(x) \/ Cleanup(x) \/ Disconnect(x)
        PROVE  (life[s] = "absent" /\ life'[s] = "connecting")
               \/ (life[s] = "connecting" /\ life'[s] \in {"live", "gone"})
               \/ (life[s] = "cleaning" /\ life'[s] = "disconnecting")
               \/ (life[s] = "disconnecting" /\ life'[s] = "gone")
    BY <1>1 DEF BeginCreate, FinishCreate, Cleanup, Disconnect, TypeOK
  <1>2. ASSUME NEW x \in Sessions, NEW d \in Callers, Kill(x) \/ DeleteKill(d, x) \/ ReapKill(x)
        PROVE  life[s] = "live" /\ life'[s] = "cleaning"
    BY <1>2, KilledLife, {x} \in SUBSET Sessions DEF Kill, DeleteKill, ReapKill
  <1>3. ASSUME NEW a \in Agents, AgentKills(a)
        PROVE  life[s] = "live" /\ life'[s] = "cleaning"
    BY <1>3, KilledLife DEF AgentKills, AgentKill, TypeOK
  <1>4. ASSUME Exit
        PROVE  life[s] \in Lives \ {"absent", "gone"} /\ life'[s] = "gone"
    BY <1>4 DEF Exit, TypeOK
  <1>5. Next /\ life' # life
    BY DEF vars
  <1>6. ASSUME NEW x \in Sessions, IdleElapses(x) \/ ReapCheck(x) \/ Output(x)
        PROVE  FALSE
    BY <1>5, <1>6 DEF IdleElapses, ReapCheck, Output
  <1>7. ASSUME NEW x \in Callers, BeginDelete(x) \/ FinishDelete(x) \/ AgentKilled(x) \/ ReapStart
        PROVE  FALSE
    BY <1>5, <1>7 DEF BeginDelete, FinishDelete, AgentKilled, ReapStart
  <1>8. ASSUME NEW c \in Clients,
               \/ Acknowledge(c) \/ Replay(c) \/ Forward(c)
               \/ Leave(c) \/ StreamCloses(c) \/ Quit(c)
        PROVE  FALSE
    BY <1>5, <1>8 DEF Acknowledge, Replay, Forward, Leave, StreamCloses, Quit
  <1>9. ASSUME NEW c \in Clients, NEW x \in Sessions,
               Attach(c, x) \/ Detach(c, x) \/ Look(c, x) \/ Connect(c, x) \/ HandOff(c, x)
        PROVE  FALSE
    BY <1>5, <1>9 DEF Attach, Detach, Look, Connect, HandOff
  <1>10. ASSUME NEW x \in Sessions, CallAttach(x) \/ CallDetach(x)
         PROVE  FALSE
    BY <1>5, <1>10 DEF CallAttach, CallDetach
  <1>11. ASSUME NEW a \in Agents, AgentDropped(a)
         PROVE  /\ life[s] \in {"cleaning", "disconnecting", "abandoned"} /\ life'[s] = "abandoned"
                /\ Asked(s)
    BY <1>11 DEF AgentDropped, Torn, Claimed, TypeOK, Lives, Asked, Callers
  <1>12. ASSUME ReapStart
         PROVE  FALSE
    BY <1>5, <1>12 DEF ReapStart
  <1>13. QED
    BY <1>1, <1>2, <1>3, <1>4, <1>5, <1>6, <1>7, <1>8, <1>9, <1>10, <1>11, <1>12
       DEF Next, Lives, Callers

\* The steps that change the calls.
LEMMA CallsMove ==
    ASSUME TypeOK, [Next]_vars, calls' # calls
    PROVE  \/ Exit
           \/ \E y \in Agents : AgentDropped(y)
           \/ \E y \in Callers : \/ \E S \in SUBSET sessions : AgentKill(y, S)
                                 \/ \E z \in Sessions : DeleteKill(y, z)
                                 \/ AgentKilled(y) \/ BeginDelete(y) \/ FinishDelete(y)
  <1>1. Next
    BY DEF vars
  <1>2. ASSUME NEW z \in Sessions,
               \/ BeginCreate(z) \/ FinishCreate(z) \/ Kill(z) \/ Cleanup(z) \/ Disconnect(z)
               \/ IdleElapses(z) \/ ReapCheck(z) \/ ReapKill(z)
               \/ Output(z) \/ CallAttach(z) \/ CallDetach(z)
        PROVE  FALSE
    BY <1>2 DEF BeginCreate, FinishCreate, Kill, Cleanup, Disconnect, IdleElapses, ReapCheck,
                ReapKill, Output, CallAttach, CallDetach
  <1>3. ASSUME NEW c \in Clients,
               \/ Acknowledge(c) \/ Replay(c) \/ Forward(c)
               \/ Leave(c) \/ StreamCloses(c) \/ Quit(c) \/ ReapStart
        PROVE  FALSE
    BY <1>3 DEF Acknowledge, Replay, Forward, Leave, StreamCloses, Quit, ReapStart
  <1>4. ASSUME NEW c \in Clients, NEW z \in Sessions,
               Attach(c, z) \/ Detach(c, z) \/ Look(c, z) \/ Connect(c, z) \/ HandOff(c, z)
        PROVE  FALSE
    BY <1>4 DEF Attach, Detach, Look, Connect, HandOff
  <1>5. ASSUME ReapStart
        PROVE  FALSE
    BY <1>5 DEF ReapStart
  <1>6. ASSUME NEW a \in Agents, AgentKills(a)
        PROVE  \E S \in SUBSET sessions : AgentKill(a, S)
    BY <1>6 DEF AgentKills
  <1>7. QED
    BY <1>1, <1>2, <1>3, <1>4, <1>5, <1>6 DEF Next, Callers

LEMMA IdleStep ==
    ASSUME Retirement, [Next]_vars
    PROVE  Idle'
  <1> SUFFICES ASSUME NEW x \in Callers, calls'[x].task = "none"
               PROVE  calls'[x].todo = {} /\ calls'[x].victims = {}
    BY DEF Idle
  <1> USE DEF Retirement
  <1>1. CASE calls' = calls
    BY <1>1 DEF Idle
  <1>2. CASE Exit
    BY <1>2 DEF Exit, NoCall
  <1>3. ASSUME NEW y \in Callers,
               AgentKilled(y) \/ AgentDropped(y) \/ BeginDelete(y) \/ FinishDelete(y)
        PROVE  calls'[x] = calls[x] \/ calls'[x] = NoCall
    <2>1. CASE AgentKilled(y) \/ AgentDropped(y) \/ FinishDelete(y)
      <3>1. calls' = [calls EXCEPT ![y] = NoCall]
        BY <2>1 DEF AgentKilled, AgentDropped, FinishDelete
      <3>2. QED
        BY <3>1 DEF TypeOK
    <2>2. CASE BeginDelete(y)
      BY <2>2 DEF BeginDelete, NoCall, TypeOK
    <2>3. QED
      BY <1>3, <2>1, <2>2
  <1>4. ASSUME NEW y \in Callers, NEW S \in SUBSET sessions, AgentKill(y, S)
        PROVE  calls'[x] = calls[x]
    BY <1>4 DEF AgentKill, NoCall, TypeOK
  <1>5. ASSUME NEW y \in Callers, NEW z \in Sessions, DeleteKill(y, z)
        PROVE  calls'[x] = calls[x]
    <2>1. calls[y].task # "none"
      BY <1>5 DEF DeleteKill, Idle
    <2>2. calls \in [Callers -> CallType] /\ calls[y] \in CallType
      BY DEF TypeOK, CallType
    <2> DEFINE c == [calls[y] EXCEPT !.todo = calls[y].todo \ {z}, !.victims = {z} \cap sessions]
    <2>3. calls' = [calls EXCEPT ![y] = c]
      BY <1>5, <2>2 DEF DeleteKill
    <2>4. c.task = calls[y].task
      BY <2>2 DEF CallType
    <2> HIDE DEF c
    <2>5. QED
      BY <2>1, <2>2, <2>3, <2>4
  <1>6. ASSUME calls'[x] = calls[x] \/ calls'[x] = NoCall
        PROVE  calls'[x].todo = {} /\ calls'[x].victims = {}
    BY <1>6 DEF Idle, NoCall
  <1>7. QED
    BY <1>1, <1>2, <1>3, <1>4, <1>5, <1>6, CallsMove DEF Callers

\* Whom a step adds to what a call tears down, and whom it takes off.
LEMMA VictimsStep ==
    ASSUME Retirement, [Next]_vars, NEW x \in Callers, NEW s \in Sessions
    PROVE  /\ s \in calls'[x].victims => \/ s \in calls[x].victims
                                         \/ s \in sessions /\ life'[s] = "cleaning"
           /\ s \in calls[x].victims => \/ s \in calls'[x].victims
                                        \/ life[s] = "gone"
                                        \/ life'[s] \in {"gone", "abandoned"}
  <1> DEFINE In == s \in calls'[x].victims => s \in calls[x].victims
                                              \/ (s \in sessions /\ life'[s] = "cleaning")
             Out == s \in calls[x].victims => s \in calls'[x].victims \/ life[s] = "gone"
                                              \/ life'[s] \in {"gone", "abandoned"}
  <1> USE DEF Retirement
  <1>1. CASE calls' = calls
    BY <1>1
  <1>2. ASSUME Exit
        PROVE  In /\ Out
    BY <1>2 DEF Exit, NoCall, Claimed
  <1>3. ASSUME NEW y \in Callers, AgentKilled(y) \/ BeginDelete(y) \/ FinishDelete(y)
        PROVE  In /\ Out
    <2>1. CASE AgentKilled(y) \/ FinishDelete(y)
      <3>1. calls' = [calls EXCEPT ![y] = NoCall] /\ \A v \in calls[y].victims : life[v] = "gone"
        BY <2>1 DEF AgentKilled, FinishDelete, Done, Torn
      <3>2. calls'[x] = IF x = y THEN NoCall ELSE calls[x]
        BY <3>1 DEF TypeOK
      <3>3. QED
        BY <3>1, <3>2 DEF NoCall
    <2>2. CASE BeginDelete(y)
      BY <2>2 DEF BeginDelete, Idle, NoCall, TypeOK
    <2>3. QED
      BY <1>3, <2>1, <2>2
  <1>4. ASSUME NEW y \in Agents, AgentDropped(y)
        PROVE  In /\ Out
    BY <1>4 DEF AgentDropped, Torn, NoCall, TypeOK, Callers
  <1>5. ASSUME NEW y \in Callers, NEW S \in SUBSET sessions, AgentKill(y, S)
        PROVE  In /\ Out
    BY <1>5 DEF AgentKill, Killed, Idle, NoCall, TypeOK
  <1>6. ASSUME NEW y \in Callers, NEW z \in Sessions, DeleteKill(y, z)
        PROVE  In /\ Out
    <2>1. calls \in [Callers -> CallType] /\ calls[y] \in CallType
      BY DEF TypeOK, CallType
    <2> DEFINE c == [calls[y] EXCEPT !.todo = calls[y].todo \ {z}, !.victims = {z} \cap sessions]
    <2>2. calls' = [calls EXCEPT ![y] = c]
      BY <1>6, <2>1 DEF DeleteKill
    <2>3. c.victims = {z} \cap sessions
      BY <2>1 DEF CallType
    <2> HIDE DEF c
    <2>4. calls'[x] = IF x = y THEN c ELSE calls[x]
      BY <2>1, <2>2
    <2>5. CASE x = y
      <3>1. s \in calls'[x].victims => s = z /\ s \in sessions
        BY <2>3, <2>4, <2>5
      <3>2. s = z /\ s \in sessions => life'[s] = "cleaning"
        BY <1>6 DEF DeleteKill, Killed
      <3>3. s \in calls[x].victims => life[s] = "gone"
        BY <1>6, <2>5 DEF DeleteKill, Done, Torn
      <3>4. QED
        BY <3>1, <3>2, <3>3
    <2>6. QED
      BY <2>4, <2>5
  <1>7. QED
    BY <1>1, <1>2, <1>3, <1>4, <1>5, <1>6, CallsMove

LEMMA ClaimedStep ==
    ASSUME Retirement, [Next]_vars
    PROVE  Claimed'
  <1> SUFFICES ASSUME NEW x \in Callers, NEW s \in calls'[x].victims
               PROVE  life'[s] \notin {"absent", "connecting", "live"}
    BY DEF Claimed
  <1>1. s \in Sessions
    BY TypeStep DEF TypeOK, Retirement
  <1>2. CASE s \in calls[x].victims
    <2>1. life[s] \notin {"absent", "connecting", "live"}
      BY <1>2 DEF Retirement, Claimed
    <2>2. QED
      BY <1>1, <2>1, LifeStep
  <1>3. QED
    BY <1>1, <1>2, VictimsStep

LEMMA RetirementAlways == Spec => []Retirement
  <1>1. Init => Retirement
    BY RetirementInit
  <1>2. Retirement /\ [Next]_vars => Retirement'
    BY TypeStep, RetirementStep, ClaimedStep, IdleStep DEF Retirement
  <1>3. QED
    BY <1>1, <1>2, PTL DEF Spec

\* Whoever kills a session, and however many do at once: a session that is torn
\* down is in the map no more and has no SSH client left.
THEOREM TornDownIsRetired == Spec => []GoneIsRetired
  <1>1. Retirement => GoneIsRetired
    BY DEF Retirement
  <1>2. QED
    BY <1>1, RetirementAlways, PTL

-----------------------------------------------------------------------------
(* The promise of SessionTeardown, without its liveness. *)

\* While a session is being torn down, the call it is torn down in stays the same.
LEMMA AskedStep ==
    ASSUME Retirement, [Next]_vars, NEW s \in Sessions,
           life[s] \in {"cleaning", "disconnecting"}, life'[s] \in {"cleaning", "disconnecting"}
    PROVE  Asked(s)' <=> Asked(s)
  <1>1. s \notin sessions
    BY DEF Retirement, GoneIsRetired
  <1>2. \A x \in Callers : s \in calls'[x].victims <=> s \in calls[x].victims
    BY <1>1, VictimsStep
  <1>3. QED
    BY <1>2 DEF Asked, Callers

LEMMA StageStep ==
    ASSUME Retirement, [Next]_vars
    PROVE  [Teardown!Next]_Stage
  <1>1. Stage' \in [Sessions -> Teardown!Stages]
    BY TypeStep DEF Retirement, TypeOK, Lives, Stage, StageOf, Teardown!Stages
  <1>2. SUFFICES ASSUME NEW s \in Sessions PROVE Stage'[s] \in Teardown!After[Stage[s]]
    BY <1>1 DEF Teardown!Next
  <1>3. CASE life'[s] = life[s]
    <2>1. CASE life[s] \notin {"cleaning", "disconnecting"}
      BY <1>3, <2>1 DEF Retirement, TypeOK, Lives, Stage, StageOf, Teardown!After
    <2>2. CASE life[s] \in {"cleaning", "disconnecting"}
      <3>1. Asked(s)' <=> Asked(s)
        BY <1>3, <2>2, AskedStep
      <3>2. QED
        BY <1>3, <2>2, <3>1 DEF Stage, StageOf, Teardown!After
    <2>3. QED
      BY <2>1, <2>2
  <1>4. CASE life'[s] # life[s]
    <2>1. \/ life[s] = "absent" /\ life'[s] \in {"connecting", "gone"}
          \/ life[s] = "connecting" /\ life'[s] \in {"live", "gone"}
          \/ life[s] = "live" /\ life'[s] \in {"cleaning", "gone"}
          \/ life[s] = "cleaning" /\ life'[s] \in {"disconnecting", "gone"}
          \/ life[s] = "disconnecting" /\ life'[s] = "gone"
          \/ life[s] = "abandoned" /\ life'[s] = "gone"
          \/ life[s] \in {"cleaning", "disconnecting"} /\ life'[s] = "abandoned" /\ Asked(s)
      BY <1>4, LifeStep
    <2>2. CASE life[s] = "cleaning" /\ life'[s] = "disconnecting"
      <3>1. Asked(s)' <=> Asked(s)
        BY <2>2, AskedStep
      <3>2. QED
        BY <2>2, <3>1 DEF Stage, StageOf, Teardown!After
    <2>3. CASE ~(life[s] = "cleaning" /\ life'[s] = "disconnecting")
      BY <2>1, <2>3 DEF Stage, StageOf, Teardown!After
    <2>4. QED
      BY <2>2, <2>3
  <1>5. QED
    BY <1>3, <1>4

\* Every session is opened once, torn down at most once and for good.
THEOREM TornDownOnce == Spec => Teardown!SafetySpec
  <1>1. Init => Teardown!Init
    BY DEF Init, Teardown!Init, Stage, StageOf
  <1>2. Retirement /\ [Next]_vars => [Teardown!Next]_Stage
    BY StageStep
  <1>3. QED
    BY <1>1, <1>2, RetirementAlways, PTL DEF Spec, Teardown!SafetySpec

-----------------------------------------------------------------------------
(* The client count. *)

Holds(c, s) == Holding(c, s) \/ Leaked(c, s)
Holders(s) == {c \in Clients : Holds(c, s)}
Attachments(s) == Cardinality(Holders(s)) + held[s]
CountAt(s) == count[s] \in Attachments(s) - overdrawn[s] .. Attachments(s)

\* A client attaches to one session, and its handler starts when it connects.
OneEach ==
    \A c \in Clients : /\ cli[c] \in {"off", "looked"} => stream[c].phase = "none"
                       /\ \A s, x \in stream[c].of : s = x

\* Nobody is attached to a session before it is in the map.
Untouched ==
    \A s \in Sessions : life[s] \in {"absent", "connecting"} =>
        /\ count[s] = 0 /\ held[s] = 0
        /\ \A c \in Clients : ~Streaming(c, s)

CountInv == Retirement /\ OneEach /\ Untouched /\ CountExact

LEMMA CountAtIsExact == CountExact <=> \A s \in sessions : CountAt(s)
  BY DEF CountExact, CountAt, Attachments, Holders, Holds

LEMMA CountAtNext ==
    ASSUME \A s \in sessions' : CountAt(s)'
    PROVE  CountExact'
  BY DEF CountExact, CountAt, Attachments, Holders, Holds

LEMMA HoldersFinite ==
    ASSUME NEW s
    PROVE  IsFiniteSet(Holders(s)) /\ Cardinality(Holders(s)) \in Nat
  <1>1. Holders(s) \subseteq Clients
    BY DEF Holders
  <1>2. QED
    BY <1>1, LifecycleAssumption, FS_Subset, FS_CardinalityType

\* One more, or one less, in a finite set.
LEMMA OneMore ==
    ASSUME NEW S, NEW T, NEW x, IsFiniteSet(S), x \notin S, T = S \cup {x}
    PROVE  Cardinality(T) = Cardinality(S) + 1
  BY FS_AddElement

LEMMA OneLess ==
    ASSUME NEW S, NEW T, NEW x, IsFiniteSet(S), x \in S, T = S \ {x}
    PROVE  Cardinality(T) = Cardinality(S) - 1 /\ Cardinality(S) > 0
  <1>1. Cardinality(T) = Cardinality(S) - 1
    BY FS_RemoveElement
  <1>2. Cardinality(S) \in Nat /\ Cardinality(S) # 0
    BY FS_CardinalityType, FS_EmptySet
  <1>3. QED
    BY <1>1, <1>2

\* How the count and what it counts may move together.
LEMMA CountMoves ==
    ASSUME NEW n \in Nat, NEW a \in Nat, NEW o \in Nat, n \in a - o .. a
    PROVE  /\ n + 1 \in (a + 1) - o .. a + 1
           /\ a > 0 => (IF n > 0 THEN n - 1 ELSE 0) \in (a - 1) - o .. a - 1
           /\ (IF n > 0 THEN n - 1 ELSE 0) \in a - (IF n > 0 THEN o + 1 ELSE o) .. a
  OBVIOUS

LEMMA StreamFact ==
    ASSUME TypeOK
    PROVE  stream \in StreamType /\ \A c \in Clients : stream[c] \in StreamRecord
  BY DEF TypeOK, StreamType, StreamRecord

LEMMA EnterFact ==
    ASSUME TypeOK, NEW c \in Clients, NEW p, Enter(c, p)
    PROVE  /\ stream'[c].phase = p /\ stream'[c].of = stream[c].of
           /\ \A x \in Clients \ {c} : stream'[x] = stream[x]
  <1>1. stream \in StreamType /\ stream[c] \in StreamRecord
    BY StreamFact
  <1>2. stream' = [stream EXCEPT ![c] = [stream[c] EXCEPT !.phase = p]]
    BY DEF Enter
  <1>3. [stream[c] EXCEPT !.phase = p].phase = p /\ [stream[c] EXCEPT !.phase = p].of = stream[c].of
    BY <1>1 DEF StreamRecord
  <1>4. QED
    BY <1>1, <1>2, <1>3 DEF StreamType

\* What a step changes for the count: who holds on to a session.
Streams(c) == stream[c].phase \in {"attached", "replaying", "streaming", "detaching", "failed"}

LEMMA HoldsFact == \A c, s : Holds(c, s) <=> Streaming(c, s) /\ Streams(c)
  BY DEF Holds, Holding, Leaked, Streams

Still ==
    /\ sessions' \subseteq sessions
    /\ \A s \in sessions' : UNCHANGED <<count[s], held[s], overdrawn[s]>>
    /\ \A c \in Clients :
         /\ Streams(c) <=> Streams(c)'
         /\ Streams(c) => stream'[c].of = stream[c].of

LEMMA StillCounts ==
    ASSUME CountInv, Still
    PROVE  CountExact'
  <1> SUFFICES ASSUME NEW s \in sessions' PROVE CountAt(s)'
    BY CountAtNext
  <1>1. s \in sessions /\ count'[s] = count[s] /\ held'[s] = held[s] /\ overdrawn'[s] = overdrawn[s]
    BY DEF Still
  <1>2. Holders(s)' = Holders(s)
    <2>1. \A c : Holds(c, s)' <=> Streaming(c, s)' /\ Streams(c)'
      BY DEF Holds, Holding, Leaked, Streams
    <2>2. QED
      BY <2>1, HoldsFact DEF Still, Holders, Streaming
  <1>3. CountAt(s)
    BY <1>1, CountAtIsExact DEF CountInv
  <1>4. QED
    BY <1>1, <1>2, <1>3 DEF CountAt, Attachments

LEMMA CountExactInit == Init => OneEach /\ Untouched /\ CountExact
  <1> SUFFICES ASSUME Init PROVE OneEach /\ Untouched /\ CountExact
    OBVIOUS
  <1>1. CountExact
    BY DEF Init, CountExact
  <1>2. \A c \in Clients : stream[c].phase = "none" /\ stream[c].of = {}
    BY DEF Init, NoStream
  <1>3. OneEach
    BY <1>2 DEF OneEach
  <1>4. Untouched
    BY <1>2 DEF Init, Untouched, Streaming
  <1>5. QED
    BY <1>1, <1>3, <1>4

\* A step that brings nobody new to a session.
Avoids(s) ==
    /\ count[s] = 0 /\ held[s] = 0 => count'[s] = 0 /\ held'[s] = 0
    /\ \A c \in Clients : s \in stream'[c].of => s \in stream[c].of

LEMMA UntouchedStep ==
    ASSUME CountInv, [Next]_vars,
           \A s \in Sessions : life[s] \in {"absent", "connecting"} => Avoids(s)
    PROVE  Untouched'
  <1> SUFFICES ASSUME NEW s \in Sessions, life'[s] \in {"absent", "connecting"}
               PROVE  (count[s] = 0 /\ held[s] = 0 /\ \A c \in Clients : ~Streaming(c, s))'
    BY DEF Untouched
  <1>1. life[s] \in {"absent", "connecting"}
    <2>1. CASE life'[s] = life[s]
      BY <2>1
    <2>2. CASE life'[s] # life[s]
      BY <2>2, LifeStep DEF CountInv
    <2>3. QED
      BY <2>1, <2>2
  <1>2. Avoids(s)
    BY <1>1
  <1>3. count[s] = 0 /\ held[s] = 0 /\ \A c \in Clients : s \notin stream[c].of
    BY <1>1 DEF CountInv, Untouched, Streaming
  <1>4. QED
    BY <1>2, <1>3 DEF Avoids, Streaming

\* A step in which nobody comes or goes: the command-line processes may leave,
\* the handlers move on, and sessions may be killed.
Quiet ==
    /\ Still
    /\ UNCHANGED <<count, held>>
    /\ \A c \in Clients :
         /\ stream'[c].of = stream[c].of
         /\ stream[c].phase = "none" => stream'[c].phase = "none"
         /\ cli'[c] \in {"off", "looked"} => cli[c] \in {"off", "looked"}

LEMMA QuietStep ==
    ASSUME CountInv, [Next]_vars, Quiet
    PROVE  (OneEach /\ Untouched /\ CountExact)'
  <1>1. CountExact'
    BY StillCounts DEF Quiet
  <1>2. OneEach'
    BY DEF CountInv, OneEach, Quiet
  <1>3. Untouched'
    BY UntouchedStep DEF Quiet, Avoids
  <1>4. QED
    BY <1>1, <1>2, <1>3

LEMMA UnchangedIsQuiet ==
    ASSUME sessions' \subseteq sessions, UNCHANGED <<count, stream, cli, held, overdrawn>>
    PROVE  Quiet
  BY DEF Quiet, Still, Streams

LEMMA ManagerIsQuiet ==
    ASSUME CountInv,
           \/ ReapStart
           \/ \E a \in Agents : AgentKills(a) \/ AgentKilled(a) \/ AgentDropped(a)
           \/ \E x \in Callers : \/ BeginDelete(x) \/ FinishDelete(x)
                                 \/ \E s \in Sessions : DeleteKill(x, s)
           \/ \E s \in Sessions :
                \/ BeginCreate(s) \/ Kill(s) \/ Cleanup(s) \/ Disconnect(s)
                \/ IdleElapses(s) \/ ReapCheck(s) \/ ReapKill(s)
    PROVE  Quiet
  <1>1. ASSUME NEW s \in Sessions, NEW x \in Callers, Kill(s) \/ DeleteKill(x, s) \/ ReapKill(s)
        PROVE  sessions' \subseteq sessions /\ UNCHANGED <<count, stream, cli, held, overdrawn>>
    BY <1>1 DEF Kill, DeleteKill, ReapKill, Killed
  <1>2. ASSUME NEW s \in Sessions,
               BeginCreate(s) \/ Cleanup(s) \/ Disconnect(s) \/ IdleElapses(s) \/ ReapCheck(s)
        PROVE  UNCHANGED <<sessions, count, stream, cli, held, overdrawn>>
    BY <1>2 DEF BeginCreate, Cleanup, Disconnect, IdleElapses, ReapCheck
  <1>3. ASSUME NEW a \in Agents, AgentKills(a) \/ AgentKilled(a) \/ AgentDropped(a)
        PROVE  sessions' \subseteq sessions /\ UNCHANGED <<count, stream, cli, held, overdrawn>>
    BY <1>3 DEF AgentKills, AgentKill, AgentKilled, AgentDropped, Killed
  <1>4. ASSUME NEW x \in Callers, BeginDelete(x) \/ FinishDelete(x) \/ ReapStart
        PROVE  UNCHANGED <<sessions, count, stream, cli, held, overdrawn>>
    BY <1>4 DEF BeginDelete, FinishDelete, ReapStart
  <1>5. ASSUME ReapStart
        PROVE  UNCHANGED <<sessions, count, stream, cli, held, overdrawn>>
    BY <1>5 DEF ReapStart
  <1>6. ASSUME NEW s \in Sessions, Kill(s) \/ ReapKill(s)
        PROVE  sessions' \subseteq sessions /\ UNCHANGED <<count, stream, cli, held, overdrawn>>
    BY <1>6 DEF Kill, ReapKill, Killed
  <1>7. QED
    BY <1>1, <1>2, <1>3, <1>4, <1>5, <1>6, UnchangedIsQuiet

LEMMA ProcessIsQuiet ==
    ASSUME CountInv, NEW c \in Clients, Leave(c) \/ StreamCloses(c) \/ Quit(c)
    PROVE  Quiet
  <1>1. UNCHANGED <<sessions, count, stream, held, overdrawn>>
    BY DEF Leave, StreamCloses, Quit
  <1>2. cli'[c] \in {"leaving", "closed"} /\ \A x \in Clients \ {c} : cli'[x] = cli[x]
    BY DEF Leave, StreamCloses, Quit, CountInv, Retirement, TypeOK
  <1>3. QED
    BY <1>1, <1>2 DEF Quiet, Still, Streams

LEMMA EnterIsQuiet ==
    ASSUME CountInv, NEW c \in Clients, NEW p, Enter(c, p), Streams(c),
           p \in {"replaying", "streaming", "detaching", "failed"},
           UNCHANGED <<sessions, count, held, overdrawn>>,
           cli'[c] \notin {"off", "looked"} \/ cli'[c] = cli[c],
           \A x \in Clients \ {c} : cli'[x] = cli[x]
    PROVE  Quiet
  <1>1. /\ stream'[c].phase = p /\ stream'[c].of = stream[c].of
        /\ \A x \in Clients \ {c} : stream'[x] = stream[x]
    BY EnterFact DEF CountInv, Retirement
  <1>2. QED
    BY <1>1 DEF Quiet, Still, Streams

LEMMA HandlerIsQuiet ==
    ASSUME CountInv, NEW c \in Clients, Acknowledge(c) \/ Replay(c) \/ Forward(c)
    PROVE  Quiet
  <1>1. CASE Acknowledge(c)
    <2>1. Streams(c) /\ UNCHANGED <<sessions, count, held, overdrawn>>
      BY <1>1 DEF Acknowledge, Streams
    <2>2. \A x \in Clients \ {c} : cli'[x] = cli[x]
      BY <1>1 DEF Acknowledge, CountInv, Retirement, TypeOK
    <2>3. (cli[c] = "waiting" /\ cli'[c] = "open") \/ cli'[c] = cli[c]
      BY <1>1 DEF Acknowledge, CountInv, Retirement, TypeOK
    <2>4. Enter(c, "replaying") \/ Enter(c, "failed")
      BY <1>1 DEF Acknowledge
    <2>5. QED
      BY <2>1, <2>2, <2>3, <2>4, EnterIsQuiet
  <1>2. CASE Replay(c)
    <2>1. Streams(c) /\ UNCHANGED <<sessions, count, held, overdrawn, cli>>
      BY <1>2 DEF Replay, Streams
    <2>2. Enter(c, "streaming") \/ Enter(c, "detaching")
      BY <1>2 DEF Replay
    <2>3. QED
      BY <2>1, <2>2, EnterIsQuiet
  <1>3. CASE Forward(c)
    <2>1. Streams(c) /\ UNCHANGED <<sessions, count, held, overdrawn, cli>>
      BY <1>3 DEF Forward, Streams
    <2>2. stream \in StreamType /\ stream[c] \in StreamRecord
      BY StreamFact DEF CountInv, Retirement
    <2> DEFINE p == IF cli[c] = "closed" THEN "detaching" ELSE stream[c].phase
               r == [stream[c] EXCEPT !.due = FALSE, !.phase = p]
    <2>3. stream' = [stream EXCEPT ![c] = r]
      BY <1>3, <2>2 DEF Forward, StreamType, StreamRecord
    <2>4. r.phase = p /\ r.of = stream[c].of
      BY <2>2 DEF StreamRecord
    <2>5. p \in {"streaming", "detaching"}
      BY <1>3 DEF Forward
    <2> HIDE DEF p, r
    <2>6. stream'[c] = r /\ \A x \in Clients \ {c} : stream'[x] = stream[x]
      BY <2>2, <2>3 DEF StreamType
    <2>7. QED
      BY <2>1, <2>4, <2>5, <2>6 DEF Quiet, Still, Streams
  <1>4. QED
    BY <1>1, <1>2, <1>3

LEMMA OutputIsQuiet ==
    ASSUME CountInv, NEW s \in Sessions, Output(s)
    PROVE  Quiet
  <1>1. UNCHANGED <<sessions, count, cli, held, overdrawn>>
    BY DEF Output
  <1>2. \A c \in Clients : stream'[c].phase = stream[c].phase /\ stream'[c].of = stream[c].of
    <2>1. \A c \in Clients : stream[c] \in StreamRecord
      BY StreamFact DEF CountInv, Retirement
    <2>2. \A c \in Clients : /\ [stream[c] EXCEPT !.due = TRUE].phase = stream[c].phase
                             /\ [stream[c] EXCEPT !.due = TRUE].of = stream[c].of
      BY <2>1 DEF StreamRecord
    <2>3. \A c \in Clients : stream'[c] = [stream[c] EXCEPT !.due = TRUE] \/ stream'[c] = stream[c]
      BY DEF Output
    <2>4. QED
      BY <2>2, <2>3
  <1>3. QED
    BY <1>1, <1>2 DEF Quiet, Still, Streams

\* A session of which nothing that its count depends on moves.
LEMMA OtherSessions ==
    ASSUME CountInv, NEW x \in sessions,
           count'[x] = count[x], held'[x] = held[x], overdrawn'[x] = overdrawn[x],
           \A y \in Clients : Holds(y, x)' <=> Holds(y, x)
    PROVE  CountAt(x)'
  <1>1. Holders(x)' = Holders(x)
    BY DEF Holders
  <1>2. CountAt(x)
    BY CountAtIsExact DEF CountInv
  <1>3. QED
    BY <1>1, <1>2 DEF CountAt, Attachments

\* The count of a session, as numbers.
LEMMA CountFact ==
    ASSUME CountInv, NEW s \in sessions
    PROVE  /\ s \in Sessions /\ count[s] \in Nat /\ held[s] \in Nat /\ overdrawn[s] \in Nat
           /\ Cardinality(Holders(s)) \in Nat /\ Attachments(s) \in Nat
           /\ count[s] \in Attachments(s) - overdrawn[s] .. Attachments(s)
  <1>1. s \in Sessions /\ count[s] \in Nat /\ held[s] \in Nat /\ overdrawn[s] \in Nat
    BY DEF CountInv, Retirement, TypeOK
  <1>2. Cardinality(Holders(s)) \in Nat
    BY HoldersFinite
  <1>3. QED
    BY <1>1, <1>2, CountAtIsExact DEF CountInv, CountAt, Attachments

\* A client that moves on holds its session exactly while its handler runs.
LEMMA EnterHolds ==
    ASSUME CountInv, NEW c \in Clients, NEW s \in Sessions, NEW p, Enter(c, p), Streaming(c, s),
           UNCHANGED cli
    PROVE  /\ \A x \in Sessions, y \in Clients :
                x # s \/ y # c => (Holds(y, x)' <=> Holds(y, x))
           /\ Holds(c, s)' <=> p \in {"attached", "replaying", "streaming", "detaching", "failed"}
           /\ stream[c].phase # "none" => OneEach'
           /\ \A x \in Sessions, y \in Clients : x \in stream'[y].of <=> x \in stream[y].of
  <1>1. /\ stream'[c].phase = p /\ stream'[c].of = stream[c].of
        /\ \A y \in Clients \ {c} : stream'[y] = stream[y]
    BY EnterFact DEF CountInv, Retirement
  <1>2. \A y \in Clients : stream'[y].of = stream[y].of
    BY <1>1
  <1>3. \A x \in Sessions : x # s => ~Streaming(c, x)
    BY DEF CountInv, OneEach, Streaming
  <1>5. \A x \in Sessions, y \in Clients :
           x # s \/ y # c => (Holds(y, x)' <=> Holds(y, x))
    BY <1>1, <1>3 DEF Holds, Holding, Leaked, Streaming
  <1>6. Holds(c, s)' <=> p \in {"attached", "replaying", "streaming", "detaching", "failed"}
    BY <1>1 DEF Holds, Holding, Leaked, Streaming
  <1>7. stream[c].phase # "none" => OneEach'
    BY <1>1, <1>2 DEF CountInv, OneEach
  <1>8. QED
    BY <1>2, <1>5, <1>6, <1>7

LEMMA AttachedFact ==
    ASSUME CountInv, NEW s \in Sessions, Attached(s)
    PROVE  count'[s] = count[s] + 1 /\ \A x \in Sessions \ {s} : count'[x] = count[x]
  BY DEF Attached, CountInv, Retirement, TypeOK

LEMMA DetachedFact ==
    ASSUME CountInv, NEW s \in Sessions, Detached(s)
    PROVE  /\ count'[s] = IF count[s] > 0 THEN count[s] - 1 ELSE 0
           /\ \A x \in Sessions \ {s} : count'[x] = count[x]
  BY DEF Detached, CountInv, Retirement, TypeOK

LEMMA OverdrawnFact ==
    ASSUME CountInv, NEW s \in Sessions, Overdrawn(s)
    PROVE  /\ overdrawn'[s] = IF count[s] > 0 THEN overdrawn[s] + 1 ELSE overdrawn[s]
           /\ \A x \in Sessions \ {s} : overdrawn'[x] = overdrawn[x]
  BY DEF Overdrawn, CountInv, Retirement, TypeOK

LEMMA AttachCounts ==
    ASSUME CountInv, [Next]_vars, NEW c \in Clients, NEW s \in Sessions, Attach(c, s)
    PROVE  (OneEach /\ Untouched /\ CountExact)'
  <1>1. /\ stream[c].phase = "found" /\ Streaming(c, s) /\ Enter(c, "attached")
        /\ Attached(s) /\ UNCHANGED <<sessions, life, cli, held, overdrawn>>
    BY DEF Attach
  <1>2. /\ \A x \in Sessions, y \in Clients :
                x # s \/ y # c => (Holds(y, x)' <=> Holds(y, x))
        /\ Holds(c, s)'
        /\ OneEach'
        /\ \A x \in Sessions, y \in Clients : x \in stream'[y].of <=> x \in stream[y].of
    BY <1>1, EnterHolds
  <1>3. count'[s] = count[s] + 1 /\ \A x \in Sessions \ {s} : count'[x] = count[x]
    BY <1>1, AttachedFact
  <1>4. Untouched'
    <2>1. life[s] \notin {"absent", "connecting"}
      BY <1>1 DEF CountInv, Untouched
    <2>2. \A x \in Sessions : life[x] \in {"absent", "connecting"} => Avoids(x)
      BY <1>1, <1>2, <1>3, <2>1 DEF Avoids
    <2>3. QED
      BY <2>2, UntouchedStep
  <1>6. sessions' = sessions /\ sessions \subseteq Sessions
    BY <1>1 DEF CountInv, Retirement, TypeOK
  <1>7. ASSUME NEW x \in sessions, x # s PROVE CountAt(x)'
    BY <1>1, <1>2, <1>3, <1>6, <1>7, OtherSessions
  <1>8. ASSUME s \in sessions PROVE CountAt(s)'
    <2>1. c \notin Holders(s)
      BY <1>1 DEF Holders, Holds, Holding, Leaked
    <2>2. Holders(s)' = Holders(s) \cup {c}
      BY <1>2 DEF Holders
    <2>3. Cardinality(Holders(s)') = Cardinality(Holders(s)) + 1
      BY <2>1, <2>2, OneMore, HoldersFinite
    <2>4. Attachments(s)' = Attachments(s) + 1
      BY <1>1, <1>8, <2>3, CountFact DEF Attachments
    <2>5. QED
      BY <1>1, <1>3, <1>8, <2>4, CountFact, CountMoves DEF CountAt
  <1>9. QED
    BY <1>2, <1>4, <1>6, <1>7, <1>8, CountAtNext

LEMMA DetachCounts ==
    ASSUME CountInv, [Next]_vars, NEW c \in Clients, NEW s \in Sessions, Detach(c, s)
    PROVE  (OneEach /\ Untouched /\ CountExact)'
  <1>1. /\ stream[c].phase = "detaching" /\ Streaming(c, s) /\ Enter(c, "ended")
        /\ Detached(s) /\ UNCHANGED <<sessions, life, cli, held, overdrawn>>
    BY DEF Detach
  <1>2. /\ \A x \in Sessions, y \in Clients :
                x # s \/ y # c => (Holds(y, x)' <=> Holds(y, x))
        /\ ~Holds(c, s)'
        /\ OneEach'
        /\ \A x \in Sessions, y \in Clients : x \in stream'[y].of <=> x \in stream[y].of
    BY <1>1, EnterHolds
  <1>3. /\ count'[s] = IF count[s] > 0 THEN count[s] - 1 ELSE 0
        /\ \A x \in Sessions \ {s} : count'[x] = count[x]
    BY <1>1, DetachedFact
  <1>4. Untouched'
    <2>1. \A x \in Sessions : life[x] \in {"absent", "connecting"} => Avoids(x)
      BY <1>1, <1>2, <1>3 DEF Avoids
    <2>2. QED
      BY <2>1, UntouchedStep
  <1>6. sessions' = sessions /\ sessions \subseteq Sessions
    BY <1>1 DEF CountInv, Retirement, TypeOK
  <1>7. ASSUME NEW x \in sessions, x # s PROVE CountAt(x)'
    BY <1>1, <1>2, <1>3, <1>6, <1>7, OtherSessions
  <1>8. ASSUME s \in sessions PROVE CountAt(s)'
    <2>1. c \in Holders(s)
      BY <1>1 DEF Holders, Holds, Holding
    <2>2. Holders(s)' = Holders(s) \ {c}
      BY <1>2 DEF Holders
    <2>3. Cardinality(Holders(s)') = Cardinality(Holders(s)) - 1 /\ Cardinality(Holders(s)) > 0
      BY <2>1, <2>2, OneLess, HoldersFinite
    <2>4. Attachments(s)' = Attachments(s) - 1 /\ Attachments(s) > 0
      BY <1>1, <1>8, <2>3, CountFact DEF Attachments
    <2>5. QED
      BY <1>1, <1>3, <1>8, <2>4, CountFact, CountMoves DEF CountAt
  <1>9. QED
    BY <1>2, <1>4, <1>6, <1>7, <1>8, CountAtNext

LEMMA HandOffCounts ==
    ASSUME CountInv, [Next]_vars, NEW c \in Clients, NEW s \in Sessions, HandOff(c, s)
    PROVE  (OneEach /\ Untouched /\ CountExact)'
  <1>1. /\ cli' = [cli EXCEPT ![c] = "closed"]
        /\ UNCHANGED <<sessions, life, stream, held>>
    BY DEF HandOff
  <1>2. cli'[c] = "closed" /\ \A y \in Clients \ {c} : cli'[y] = cli[y]
    BY <1>1 DEF CountInv, Retirement, TypeOK
  <1>3. OneEach'
    BY <1>1, <1>2 DEF CountInv, OneEach
  <1>4. CASE s \notin sessions
    <2>1. UNCHANGED <<count, overdrawn>>
      BY <1>4 DEF HandOff
    <2>2. Quiet
      BY <1>1, <1>2, <2>1 DEF Quiet, Still, Streams
    <2>3. QED
      BY <2>2, QuietStep
  <1>5. CASE s \in sessions
    <2>1. Detached(s) /\ Overdrawn(s)
      BY <1>5 DEF HandOff
    <2>2. /\ count'[s] = IF count[s] > 0 THEN count[s] - 1 ELSE 0
          /\ overdrawn'[s] = IF count[s] > 0 THEN overdrawn[s] + 1 ELSE overdrawn[s]
          /\ \A x \in Sessions \ {s} : count'[x] = count[x] /\ overdrawn'[x] = overdrawn[x]
      BY <2>1, DetachedFact, OverdrawnFact
    <2>3. \A x, y : Holds(y, x)' <=> Holds(y, x)
      BY <1>1 DEF Holds, Holding, Leaked, Streaming
    <2>4. Untouched'
      <3>1. \A x \in Sessions : Avoids(x)
        BY <1>1, <2>2 DEF Avoids
      <3>2. QED
        BY <3>1, UntouchedStep
    <2>5. ASSUME NEW x \in sessions PROVE CountAt(x)'
      <3>1. x \in Sessions
        BY CountFact
      <3>2. CASE x # s
        BY <1>1, <2>2, <2>3, <3>1, <3>2, OtherSessions
      <3>3. CASE x = s
        <4>1. Attachments(s)' = Attachments(s)
          BY <1>1, <2>3 DEF Attachments, Holders
        <4>2. QED
          BY <1>5, <2>2, <3>3, <4>1, CountFact, CountMoves DEF CountAt
      <3>4. QED
        BY <3>2, <3>3
    <2>6. QED
      BY <1>1, <1>3, <2>4, <2>5, CountAtNext
  <1>6. QED
    BY <1>4, <1>5

LEMMA CallCounts ==
    ASSUME CountInv, [Next]_vars, NEW s \in Sessions, CallAttach(s) \/ CallDetach(s)
    PROVE  (OneEach /\ Untouched /\ CountExact)'
  <1>1. s \in sessions /\ life[s] = "live" /\ UNCHANGED <<sessions, life, stream, cli>>
    BY DEF CallAttach, CallDetach, CountInv, Retirement, GoneIsRetired
  <1>2. \A x \in Sessions \ {s} : count'[x] = count[x] /\ held'[x] = held[x] /\ overdrawn'[x] = overdrawn[x]
    BY AttachedFact, DetachedFact, OverdrawnFact
       DEF CallAttach, CallDetach, CountInv, Retirement, TypeOK
  <1>3. \A x, y : Holds(y, x)' <=> Holds(y, x)
    BY <1>1 DEF Holds, Holding, Leaked, Streaming
  <1>4. OneEach'
    BY <1>1 DEF CountInv, OneEach
  <1>5. Untouched'
    <2>1. \A x \in Sessions : life[x] \in {"absent", "connecting"} => Avoids(x)
      BY <1>1, <1>2 DEF Avoids
    <2>2. QED
      BY <2>1, UntouchedStep
  <1>6. ASSUME NEW x \in sessions, x # s PROVE CountAt(x)'
    BY <1>2, <1>3, <1>6, CountFact, OtherSessions
  <1>7. CountAt(s)'
    <2>1. Cardinality(Holders(s))' = Cardinality(Holders(s))
      BY <1>3 DEF Holders
    <2>2. /\ count[s] \in Nat /\ held[s] \in Nat /\ overdrawn[s] \in Nat
          /\ Cardinality(Holders(s)) \in Nat /\ Attachments(s) \in Nat
          /\ count[s] \in Attachments(s) - overdrawn[s] .. Attachments(s)
      BY <1>1, CountFact
    <2>3. CASE CallAttach(s)
      <3>1. count'[s] = count[s] + 1 /\ overdrawn'[s] = overdrawn[s]
        BY <2>3, AttachedFact DEF CallAttach
      <3>2. held'[s] = held[s] + 1
        BY <2>3 DEF CallAttach, CountInv, Retirement, TypeOK
      <3>3. Attachments(s)' = Attachments(s) + 1
        BY <2>1, <2>2, <3>2 DEF Attachments
      <3>4. QED
        BY <2>2, <3>1, <3>3, CountMoves DEF CountAt
    <2>4. CASE CallDetach(s) /\ held[s] > 0
      <3>1. count'[s] = (IF count[s] > 0 THEN count[s] - 1 ELSE 0) /\ overdrawn'[s] = overdrawn[s]
        BY <2>4, DetachedFact DEF CallDetach
      <3>2. held'[s] = held[s] - 1
        BY <2>4 DEF CallDetach, CountInv, Retirement, TypeOK
      <3>3. Attachments(s)' = Attachments(s) - 1 /\ Attachments(s) > 0
        BY <2>1, <2>2, <2>4, <3>2 DEF Attachments
      <3>4. QED
        BY <2>2, <3>1, <3>3, CountMoves DEF CountAt
    <2>5. CASE CallDetach(s) /\ held[s] = 0
      <3>1. /\ count'[s] = IF count[s] > 0 THEN count[s] - 1 ELSE 0
            /\ overdrawn'[s] = IF count[s] > 0 THEN overdrawn[s] + 1 ELSE overdrawn[s]
        BY <2>5, DetachedFact, OverdrawnFact DEF CallDetach
      <3>2. held' = held
        BY <2>5 DEF CallDetach
      <3>3. Attachments(s)' = Attachments(s)
        BY <2>1, <3>2 DEF Attachments
      <3>4. QED
        BY <2>2, <3>1, <3>3, CountMoves DEF CountAt
    <2>6. QED
      BY <2>2, <2>3, <2>4, <2>5
  <1>8. QED
    BY <1>1, <1>4, <1>5, <1>6, <1>7, CountAtNext

LEMMA CreationCounts ==
    ASSUME CountInv, [Next]_vars, NEW s \in Sessions, FinishCreate(s)
    PROVE  (OneEach /\ Untouched /\ CountExact)'
  <1>1. /\ life[s] = "connecting" /\ sessions' \subseteq sessions \cup {s}
        /\ UNCHANGED <<count, stream, cli, held, overdrawn>>
    BY DEF FinishCreate
  <1>2. OneEach'
    BY <1>1 DEF CountInv, OneEach
  <1>3. Untouched'
    BY <1>1, UntouchedStep DEF Avoids
  <1>4. \A x : Attachments(x)' = Attachments(x)
    BY <1>1 DEF Attachments, Holders, Holds, Holding, Leaked, Streaming
  <1>5. CountAt(s)'
    <2>1. count[s] = 0 /\ held[s] = 0 /\ Holders(s) = {}
      BY <1>1 DEF CountInv, Untouched, Holders, Holds, Holding, Leaked
    <2>2. Attachments(s) = 0
      BY <2>1, FS_EmptySet DEF Attachments
    <2>3. overdrawn[s] \in Nat
      BY DEF CountInv, Retirement, TypeOK
    <2>4. QED
      BY <1>1, <1>4, <2>1, <2>2, <2>3 DEF CountAt
  <1>6. ASSUME NEW x \in sessions PROVE CountAt(x)'
    <2>1. CountAt(x)
      BY CountAtIsExact DEF CountInv
    <2>2. QED
      BY <1>1, <1>4, <2>1 DEF CountAt
  <1>7. QED
    BY <1>1, <1>2, <1>3, <1>5, <1>6, CountAtNext

\* A process that looks a session up, or connects to it, finds it in the map.
LEMMA FoundFact ==
    ASSUME CountInv, NEW c \in Clients, NEW s \in Sessions, Look(c, s) \/ Connect(c, s)
    PROVE  /\ s \in sessions /\ UNCHANGED <<sessions, life, count, held, overdrawn>>
           /\ cli[c] \in {"off", "looked"} /\ stream[c].phase = "none"
           /\ stream'[c].of = {s} /\ stream'[c].phase \in {"none", "found"}
           /\ cli'[c] = "looked" => stream'[c].phase = "none"
           /\ cli'[c] \in {"looked", "waiting"}
           /\ \A x \in Clients \ {c} : cli'[x] = cli[x] /\ stream'[x] = stream[x]
  <1>1. stream \in StreamType /\ stream[c] \in StreamRecord
    BY StreamFact DEF CountInv, Retirement
  <1>2. s \in sessions /\ UNCHANGED <<sessions, life, count, held, overdrawn>>
        /\ cli[c] \in {"off", "looked"}
    BY DEF Look, Connect
  <1>3. stream[c].phase = "none"
    BY <1>2 DEF CountInv, OneEach
  <1>4. cli \in [Clients -> {"off", "looked", "waiting", "open", "leaving", "closed"}]
    BY DEF CountInv, Retirement, TypeOK
  <1>5. CASE Look(c, s)
    <2> DEFINE r == [stream[c] EXCEPT !.of = {s}]
    <2>1. stream' = [stream EXCEPT ![c] = r] /\ cli' = [cli EXCEPT ![c] = "looked"]
      BY <1>5 DEF Look
    <2>2. r.of = {s} /\ r.phase = stream[c].phase
      BY <1>1 DEF StreamRecord
    <2> HIDE DEF r
    <2>3. QED
      BY <1>1, <1>2, <1>3, <1>4, <2>1, <2>2 DEF StreamType
  <1>6. CASE Connect(c, s)
    <2> DEFINE r == [phase |-> "found", of |-> {s}, due |-> FALSE]
    <2>1. stream' = [stream EXCEPT ![c] = r] /\ cli' = [cli EXCEPT ![c] = "waiting"]
      BY <1>6 DEF Connect
    <2>2. r.of = {s} /\ r.phase = "found"
      OBVIOUS
    <2> HIDE DEF r
    <2>3. QED
      BY <1>1, <1>2, <1>3, <1>4, <2>1, <2>2 DEF StreamType
  <1>7. QED
    BY <1>5, <1>6

LEMMA FoundCounts ==
    ASSUME CountInv, [Next]_vars, NEW c \in Clients, NEW s \in Sessions, Look(c, s) \/ Connect(c, s)
    PROVE  (OneEach /\ Untouched /\ CountExact)'
  <1>1. /\ s \in sessions /\ UNCHANGED <<sessions, life, count, held, overdrawn>>
        /\ cli[c] \in {"off", "looked"} /\ stream[c].phase = "none"
        /\ stream'[c].of = {s} /\ stream'[c].phase \in {"none", "found"}
        /\ cli'[c] = "looked" => stream'[c].phase = "none"
        /\ cli'[c] \in {"looked", "waiting"}
        /\ \A x \in Clients \ {c} : cli'[x] = cli[x] /\ stream'[x] = stream[x]
    BY FoundFact
  <1>2. OneEach'
    BY <1>1 DEF CountInv, OneEach
  <1>3. Still
    BY <1>1 DEF Still, Streams
  <1>4. life[s] = "live"
    BY <1>1 DEF CountInv, Retirement, GoneIsRetired
  <1>5. \A x \in Sessions : life[x] \in {"absent", "connecting"} => Avoids(x)
    BY <1>1, <1>4 DEF Avoids
  <1>6. QED
    BY <1>2, <1>3, <1>5, StillCounts, UntouchedStep

LEMMA ExitCounts ==
    ASSUME CountInv, [Next]_vars, Exit
    PROVE  (OneEach /\ Untouched /\ CountExact)'
  <1>1. sessions' = {} /\ cli' = cli
        /\ \A s \in Sessions : count'[s] = 0 /\ held'[s] = 0
    BY DEF Exit
  <1>2. \A c \in Clients : /\ stream'[c].of = stream[c].of
                           /\ stream[c].phase = "none" => stream'[c].phase = "none"
    <2>1. \A c \in Clients : stream[c] \in StreamRecord
      BY StreamFact DEF CountInv, Retirement
    <2>2. \A c \in Clients : [stream[c] EXCEPT !.phase = "ended", !.due = FALSE].of = stream[c].of
      BY <2>1 DEF StreamRecord
    <2>3. \A c \in Clients :
             \/ stream'[c] = stream[c]
             \/ /\ stream[c].phase # "none"
                /\ stream'[c] = [stream[c] EXCEPT !.phase = "ended", !.due = FALSE]
      BY DEF Exit
    <2>4. QED
      BY <2>2, <2>3
  <1>3. OneEach'
    BY <1>1, <1>2 DEF CountInv, OneEach
  <1>4. \A s \in Sessions : Avoids(s)
    BY <1>1, <1>2 DEF Avoids
  <1>5. CountExact'
    BY <1>1 DEF CountExact
  <1>6. QED
    BY <1>3, <1>4, <1>5, UntouchedStep

LEMMA CountStep ==
    ASSUME CountInv, [Next]_vars
    PROVE  CountInv'
  <1>1. Retirement'
    BY TypeStep, RetirementStep, ClaimedStep, IdleStep DEF Retirement, CountInv
  <1>2. (OneEach /\ Untouched /\ CountExact)'
    <2>1. CASE UNCHANGED vars
      BY <2>1, UnchangedIsQuiet, QuietStep DEF vars
    <2>2. CASE Next
      BY <2>2, QuietStep, ManagerIsQuiet, ProcessIsQuiet, HandlerIsQuiet, OutputIsQuiet,
         CreationCounts, AttachCounts, DetachCounts, HandOffCounts, FoundCounts,
         CallCounts, ExitCounts DEF Next
    <2>3. QED
      BY <2>1, <2>2
  <1>3. QED
    BY <1>1, <1>2 DEF CountInv

\* The client count of an open session counts its clients: the handlers that
\* stream from it or returned without detaching, and the attachments made by calls,
\* less at most what calls and hand-offs took off without an attachment, whatever
\* order clients connect, fail to write, leave, hand off and are killed in.
THEOREM CountIsExact == Spec => []CountExact
  <1>1. Init => CountInv
    BY RetirementInit, CountExactInit DEF CountInv
  <1>2. CountInv /\ [Next]_vars => CountInv'
    BY CountStep
  <1>3. CountInv => CountExact
    BY DEF CountInv
  <1>4. QED
    BY <1>1, <1>2, <1>3, PTL DEF Spec
=============================================================================
