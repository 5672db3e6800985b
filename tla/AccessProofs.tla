---------------------------- MODULE AccessProofs -----------------------------
(***************************************************************************)
(* Proofs about the ways into sessions, each for any number of its         *)
(* sessions, calls, clients, ports, processes and starts.                  *)
(***************************************************************************)
EXTENDS MCAccess, HostKeysProofs, ForwardingProofs, TLAPS

(* Connections. *)

OpenSessions == [stage : Creating \cup {"listed", "gone"}, byAgent : BOOLEAN,
                 state : {"connecting", "connected", "disconnected", "error"},
                 stale : BOOLEAN, hop : Hops, wire : BOOLEAN, clients : 0..1]

\* Where a creation is tells what its hop is for, and a hop that is closed took the client with
\* it.
Follows(r) ==
    /\ r.hop = "dialled" => r.stage = "channel"
    /\ r.hop = "waiting" => r.stage = "through"
    /\ r.hop = "closed" => ~r.wire
    /\ r.stage = "direct" => r.hop = "none"

HopsFollow ==
    /\ sess \in [Sess -> OpenSessions \cup {NoSession}]
    /\ \A s \in Sess : sess[s] # NoSession => Follows(sess[s])

LEMMA HopsFollowInit == ConnInit => HopsFollow
  BY DEF ConnInit, HopsFollow

LEMMA OpenedFact ==
    ASSUME HopsFollow, NEW s \in Sess, sess[s].stage # "none"
    PROVE  sess[s] \in OpenSessions /\ Follows(sess[s]) /\ sess[s] # NoSession
  BY DEF HopsFollow, NoSession

\* One session moves; an identifier that is none of a session moves nothing.
LEMMA OneMoves ==
    ASSUME HopsFollow, NEW s, NEW r, sess' = [sess EXCEPT ![s] = r],
           s \in Sess => r \in OpenSessions /\ Follows(r)
    PROVE  HopsFollow'
  <1>1. CASE s \notin Sess
    <2>1. sess' = sess
      BY <1>1 DEF HopsFollow
    <2>2. QED
      BY <2>1 DEF HopsFollow
  <1>2. CASE s \in Sess
    <2>1. sess' \in [Sess -> OpenSessions \cup {NoSession}]
      BY <1>2 DEF HopsFollow
    <2>2. ASSUME NEW e \in Sess PROVE sess'[e] = IF e = s THEN r ELSE sess[e]
      BY <1>2 DEF HopsFollow
    <2>3. QED
      BY <1>2, <2>1, <2>2 DEF HopsFollow
  <1>3. QED
    BY <1>1, <1>2

-----------------------------------------------------------------------------
(* The ways a session changes. *)

LEMMA BegunFollows ==
    ASSUME HopsFollow, NEW s \in Sess, NEW byAgent \in BOOLEAN, Begun(s, byAgent)
    PROVE  HopsFollow'
  <1> DEFINE r == [stage |-> IF jump THEN "dial" ELSE "direct", state |-> "connecting",
                   byAgent |-> byAgent, stale |-> FALSE, hop |-> "none", wire |-> FALSE,
                   clients |-> 0]
  <1>1. (IF jump THEN "dial" ELSE "direct") \in Creating
    BY DEF Creating
  <1>2. r \in OpenSessions /\ Follows(r)
    BY <1>1 DEF OpenSessions, Hops, Follows
  <1>3. QED
    BY <1>2, OneMoves DEF Begun

LEMMA CreateUnconnectedFollows ==
    ASSUME HopsFollow, NEW s \in Sess, CreateUnconnected(s)
    PROVE  HopsFollow'
  <1> DEFINE r == [stage |-> "listed", state |-> "connecting", byAgent |-> FALSE, stale |-> FALSE,
                   hop |-> "none", wire |-> FALSE, clients |-> 0]
  <1>1. r \in OpenSessions /\ Follows(r)
    BY DEF OpenSessions, Hops, Follows
  <1>2. QED
    BY <1>1, OneMoves DEF CreateUnconnected

LEMMA CreationFollows ==
    ASSUME HopsFollow, NEW s \in Sess,
           \/ DialJump(s) \/ OpenChannel(s) \/ ArriveAtBridge(s) \/ TargetConnected(s)
           \/ ConnectDirectly(s) \/ OpenShell(s) \/ Store(s)
    PROVE  HopsFollow'
  <1>1. sess[s] \in OpenSessions /\ Follows(sess[s])
    BY OpenedFact DEF DialJump, OpenChannel, ArriveAtBridge, TargetConnected, ConnectDirectly,
                      OpenShell, Store, Advance
  <1>2. ASSUME NEW from, NEW to \in Creating \cup {"listed"}, NEW change \in OpenSessions,
               Advance(s, from, to, change), Follows([change EXCEPT !.stage = to])
        PROVE  HopsFollow'
    <2>1. [change EXCEPT !.stage = to] \in OpenSessions
      BY DEF OpenSessions
    <2>2. QED
      BY <1>2, <2>1, OneMoves DEF Advance
  <1>3. CASE DialJump(s)
    <2> DEFINE change == [sess[s] EXCEPT !.hop = "dialled"]
    <2>1. change \in OpenSessions /\ Follows([change EXCEPT !.stage = "channel"])
      BY <1>1, <1>3 DEF OpenSessions, Hops, Follows, DialJump, Advance
    <2>2. QED
      BY <1>2, <1>3, <2>1 DEF DialJump, Creating
  <1>4. CASE OpenChannel(s)
    <2> DEFINE change == [sess[s] EXCEPT !.hop = "waiting"]
    <2>1. change \in OpenSessions /\ Follows([change EXCEPT !.stage = "through"])
      BY <1>1 DEF OpenSessions, Hops, Follows
    <2>2. QED
      BY <1>2, <1>4, <2>1 DEF OpenChannel, Creating
  <1>5. CASE ArriveAtBridge(s)
    <2> DEFINE change == [sess[s] EXCEPT !.hop = "copying", !.wire = TRUE]
    <2>1. change \in OpenSessions /\ Follows([change EXCEPT !.stage = "accepted"])
      BY <1>1 DEF OpenSessions, Hops, Follows
    <2>2. QED
      BY <1>2, <1>5, <2>1 DEF ArriveAtBridge, Creating
  <1>6. CASE ConnectDirectly(s)
    <2> DEFINE change == [sess[s] EXCEPT !.wire = TRUE]
    <2>1. sess[s].hop = "none"
      BY <1>1, <1>6 DEF Follows, ConnectDirectly, Advance
    <2>2. change \in OpenSessions /\ Follows([change EXCEPT !.stage = "shell"])
      BY <1>1, <2>1 DEF OpenSessions, Follows
    <2>3. QED
      BY <1>2, <1>6, <2>2 DEF ConnectDirectly, Creating
  <1>7. CASE TargetConnected(s)
    <2>1. Follows([sess[s] EXCEPT !.stage = "shell"])
      BY <1>1, <1>7 DEF OpenSessions, Follows, TargetConnected, Advance
    <2>2. QED
      BY <1>1, <1>2, <1>7, <2>1 DEF TargetConnected, Creating
  <1>8. CASE OpenShell(s)
    <2> DEFINE change == [sess[s] EXCEPT !.state = "connected"]
    <2>1. change \in OpenSessions /\ Follows([change EXCEPT !.stage = "store"])
      BY <1>1, <1>8 DEF OpenSessions, Follows, OpenShell, Advance
    <2>2. QED
      BY <1>2, <1>8, <2>1 DEF OpenShell, Creating
  <1>9. CASE Store(s)
    <2> DEFINE change == [sess[s] EXCEPT !.byAgent = FALSE]
    <2>1. change \in OpenSessions /\ Follows([change EXCEPT !.stage = "listed"])
      BY <1>1, <1>9 DEF OpenSessions, Follows, Store, Advance
    <2>2. QED
      BY <1>2, <1>9, <2>1 DEF Store
  <1>10. QED
    BY <1>3, <1>4, <1>5, <1>6, <1>7, <1>8, <1>9

\* Whatever step of a creation it ends at, its hop is closed, or belongs to a client that is set.
LEMMA DropFollows ==
    ASSUME HopsFollow, NEW s \in Sess, FailCreation(s) \/ DropCreation(s)
    PROVE  HopsFollow'
  <1>1. sess[s] \in OpenSessions /\ Follows(sess[s])
    BY OpenedFact DEF FailCreation, DropCreation, Running, Creating
  <1>2. Dropped(s) \in OpenSessions
    BY <1>1 DEF Dropped, OpenSessions, Hops
  <1>3. Follows(Dropped(s))
    BY <1>1 DEF Dropped, OpenSessions, Hops, Follows
  <1>4. QED
    BY <1>2, <1>3, OneMoves DEF FailCreation, DropCreation

\* Connections break, and clients come and go.
LEMMA UseFollows ==
    ASSUME HopsFollow, NEW s \in Sess, BreakWire(s) \/ EndBridge(s) \/ BreakJump(s) \/ Attach(s)
    PROVE  HopsFollow'
  <1>1. sess[s] \in OpenSessions /\ Follows(sess[s])
    BY OpenedFact DEF BreakWire, EndBridge, BreakJump, Attach, Listed, HopsFollow
  <1>2. CASE BreakWire(s)
    <2> DEFINE r == [sess[s] EXCEPT !.wire = FALSE]
    <2>1. r \in OpenSessions /\ Follows(r)
      BY <1>1 DEF OpenSessions, Follows
    <2>2. sess' = [sess EXCEPT ![s] = r]
      BY <1>2 DEF BreakWire, HopsFollow
    <2>3. QED
      BY <2>1, <2>2, OneMoves
  <1>3. CASE EndBridge(s)
    <2> DEFINE r == [sess[s] EXCEPT !.hop = "closed"]
    <2>1. r \in OpenSessions /\ Follows(r)
      BY <1>1, <1>3 DEF OpenSessions, Hops, Follows, EndBridge
    <2>2. sess' = [sess EXCEPT ![s] = r]
      BY <1>3 DEF EndBridge, HopsFollow
    <2>3. QED
      BY <2>1, <2>2, OneMoves
  <1>4. CASE BreakJump(s)
    <2> DEFINE r == [sess[s] EXCEPT !.hop = "closed", !.wire = FALSE]
    <2>1. r \in OpenSessions /\ Follows(r)
      BY <1>1, <1>4 DEF OpenSessions, Hops, Follows, BreakJump
    <2>2. sess' = [sess EXCEPT ![s] = r]
      BY <1>4 DEF BreakJump, HopsFollow
    <2>3. QED
      BY <2>1, <2>2, OneMoves
  <1>5. CASE Attach(s)
    <2> DEFINE r == [sess[s] EXCEPT !.clients = 1 - @]
    <2>1. 1 - sess[s].clients \in 0..1
      <3>1. sess[s].clients \in 0..1
        BY <1>1 DEF OpenSessions
      <3>2. QED
        BY <3>1
    <2>2. r \in OpenSessions /\ Follows(r)
      BY <1>1, <2>1 DEF OpenSessions, Follows
    <2>3. sess' = [sess EXCEPT ![s] = r]
      BY <1>5 DEF Attach, HopsFollow
    <2>4. QED
      BY <2>2, <2>3, OneMoves
  <1>6. QED
    BY <1>2, <1>3, <1>4, <1>5

\* What a removal leaves of a session.
Gone(t) == [t EXCEPT !.stage = "gone", !.wire = FALSE, !.stale = FALSE,
                     !.state = "disconnected", !.clients = 0]

LEMMA GoneFollows ==
    ASSUME NEW t \in OpenSessions, Follows(t), t.stage = "listed"
    PROVE  Gone(t) \in OpenSessions /\ Follows(Gone(t))
  <1> DEFINE closed == [t EXCEPT !.wire = FALSE]
  <1>1. closed \in OpenSessions /\ closed.hop = t.hop /\ closed.wire = FALSE /\ closed.stage = "listed"
    BY DEF OpenSessions
  <1> DEFINE left == [closed EXCEPT !.stage = "gone"]
  <1> HIDE DEF closed
  <1>2. left \in OpenSessions /\ left.hop = t.hop /\ left.wire = FALSE /\ left.stage = "gone"
    BY <1>1 DEF OpenSessions
  <1> DEFINE empty == [left EXCEPT !.clients = 0]
  <1> HIDE DEF left
  <1>3. empty \in OpenSessions /\ empty.hop = t.hop /\ empty.wire = FALSE /\ empty.stage = "gone"
    <2>1. 0 \in 0..1
      OBVIOUS
    <2>2. QED
      BY <1>2, <2>1 DEF OpenSessions
  <1> DEFINE same == [empty EXCEPT !.stale = FALSE, !.state = "disconnected"]
  <1> HIDE DEF empty
  <1>4. same \in OpenSessions /\ same.hop = t.hop /\ same.wire = FALSE /\ same.stage = "gone"
    BY <1>3 DEF OpenSessions
  <1>5. Follows(same)
    BY <1>4 DEF Follows
  <1>6. Gone(t) = same
    BY DEF Gone, closed, left, empty, OpenSessions
  <1>7. QED
    BY <1>4, <1>5, <1>6

LEMMA RemovedFollows ==
    ASSUME HopsFollow, NEW s, sess' = Removed(s)
    PROVE  HopsFollow'
  <1>1. CASE sess' = [sess EXCEPT ![s] = Gone(sess[s])] /\ sess[s].stage = "listed"
    <2>1. ASSUME s \in Sess PROVE Gone(sess[s]) \in OpenSessions /\ Follows(Gone(sess[s]))
      BY <1>1, <2>1, OpenedFact, GoneFollows
    <2>2. QED
      BY <1>1, <2>1, OneMoves
  <1>2. CASE sess' = sess
    BY <1>2 DEF HopsFollow
  <1>3. QED
    BY <1>1, <1>2 DEF Removed, Gone, Listed, HopsFollow

LEMMA WireMissedFollows ==
    ASSUME HopsFollow, NEW s, sess' = WireMissed(s)
    PROVE  HopsFollow'
  <1> DEFINE r == [sess[s] EXCEPT !.state = "error"]
  <1>1. CASE sess' = [sess EXCEPT ![s] = r] /\ Usable(s)
    <2>1. ASSUME s \in Sess PROVE r \in OpenSessions /\ Follows(r)
      <3>1. sess[s] \in OpenSessions /\ Follows(sess[s])
        BY <1>1, <2>1, OpenedFact DEF Usable, Listed
      <3>2. QED
        BY <3>1 DEF OpenSessions, Follows
    <2>2. QED
      BY <1>1, <2>1, OneMoves
  <1>2. CASE sess' = sess
    BY <1>2 DEF HopsFollow
  <1>3. QED
    BY <1>1, <1>2 DEF WireMissed, HopsFollow

LEMMA EditFollows ==
    ASSUME HopsFollow, NEW to \in BOOLEAN, NEW later \in BOOLEAN, EditServer(to, later)
    PROVE  HopsFollow'
  <1>1. ASSUME NEW s \in Sess
        PROVE  /\ sess'[s] \in OpenSessions \cup {NoSession}
               /\ sess'[s] # NoSession => Follows(sess'[s])
    <2>1. CASE sess'[s] = sess[s]
      BY <2>1 DEF HopsFollow
    <2>2. CASE sess'[s] = [sess[s] EXCEPT !.stale = TRUE] /\ sess[s].stage # "none"
      <3>1. sess[s] \in OpenSessions /\ Follows(sess[s])
        BY <2>2, OpenedFact
      <3>2. QED
        BY <2>2, <3>1 DEF OpenSessions, Follows
    <2>3. QED
      BY <2>1, <2>2 DEF EditServer
  <1>2. sess' \in [Sess -> OpenSessions \cup {NoSession}]
    BY <1>1 DEF EditServer
  <1>3. QED
    BY <1>1, <1>2 DEF HopsFollow

-----------------------------------------------------------------------------

LEMMA SessionFollows ==
    ASSUME HopsFollow, NEW s \in Sess,
           \/ \E force \in BOOLEAN :
                (\E byAgent \in BOOLEAN : Request(s, byAgent, force)) \/ ConnectRemote(s, force)
           \/ CreateUnconnected(s)
           \/ DialJump(s) \/ OpenChannel(s) \/ ArriveAtBridge(s) \/ TargetConnected(s)
           \/ ConnectDirectly(s) \/ OpenShell(s) \/ Store(s) \/ FailCreation(s) \/ DropCreation(s)
           \/ BreakWire(s) \/ EndBridge(s) \/ BreakJump(s) \/ Kill(s) \/ Attach(s)
           \/ QuickCommand(s)
    PROVE  HopsFollow'
  BY BegunFollows, CreateUnconnectedFollows, CreationFollows, DropFollows, UseFollows,
     RemovedFollows, WireMissedFollows DEF Request, ConnectRemote, Kill, QuickCommand

LEMMA CallFollows ==
    ASSUME HopsFollow, NEW c \in Calls,
           \/ \E wait \in BOOLEAN, force \in BOOLEAN : Ssh(c, wait, force)
           \/ ListReply(c) \/ (\E s \in Sess : RequestSession(c, s)) \/ SessionCreated(c)
           \/ NoSessionYet(c) \/ Unconnectable(c) \/ ExecStarts(c) \/ ExecRefused(c)
           \/ LoseReply(c) \/ ExecAnswered(c) \/ ExecFailed(c) \/ CountClients(c)
           \/ KillReused(c)
    PROVE  HopsFollow'
  <1>1. CASE sess' = sess
    BY <1>1 DEF HopsFollow
  <1>2. CASE \E s \in Sess : RequestSession(c, s)
    BY <1>2, BegunFollows DEF RequestSession
  <1>3. CASE ExecRefused(c)
    BY <1>3, WireMissedFollows DEF ExecRefused
  <1>4. CASE ExecAnswered(c) \/ KillReused(c)
    BY <1>1, <1>4, RemovedFollows DEF ExecAnswered, KillReused
  <1>5. QED
    BY <1>1, <1>2, <1>3, <1>4 DEF Ssh, ListReply, SessionCreated, NoSessionYet, Unconnectable,
       ExecStarts, LoseReply, ExecFailed, CountClients

LEMMA HopsFollowStep == ASSUME HopsFollow, [ConnNext]_connVars PROVE HopsFollow'
  <1>1. CASE UNCHANGED connVars
    BY <1>1 DEF connVars, HopsFollow
  <1>2. CASE ConnNext
    BY <1>2, SessionFollows, CallFollows, EditFollows DEF ConnNext
  <1>3. QED
    BY <1>1, <1>2

LEMMA FollowingIsNotIdle == ASSUME HopsFollow PROVE NoIdleHop
  <1> SUFFICES ASSUME NEW s \in Sess, sess[s] # NoSession
               PROVE  /\ sess[s].hop \in {"dialled", "waiting"} => Running(s)
                      /\ (Usable(s) /\ sess[s].wire) => sess[s].hop \in {"none", "copying"}
    BY DEF NoIdleHop
  <1>1. sess[s] \in OpenSessions /\ Follows(sess[s])
    BY DEF HopsFollow
  <1>2. QED
    BY <1>1 DEF OpenSessions, Hops, Follows, Running, Creating, Usable, Listed

\* No connection to a jump host is left waiting, whatever step of a creation fails or is dropped,
\* for any number of sessions.
THEOREM HopsAreNotIdle == ConnSpec => []NoIdleHop
  <1>1. ConnInit => HopsFollow
    BY HopsFollowInit
  <1>2. HopsFollow /\ [ConnNext]_connVars => HopsFollow'
    BY HopsFollowStep
  <1>3. HopsFollow => NoIdleHop
    BY FollowingIsNotIdle
  <1>4. QED
    BY <1>1, <1>2, <1>3, PTL DEF ConnSpec

-----------------------------------------------------------------------------
(* The types of the calls. *)

OpenCalls == [stage : {"list", "create", "creating", "exec", "ran", "refused", "count", "killOld",
                       "done", "failed"},
              of : Sess \cup {"none"}, fresh : BOOLEAN, tries : 0..MaxTries]

\* A call that may still ask for a session has an attempt left: it loses one whenever it asks, and
\* one whose session was created for it asks no more.
MayAsk(k) ==
    /\ k.stage \in {"list", "create", "creating", "count", "killOld"} => ~k.fresh
    /\ k.stage \notin {"creating", "done", "failed"} /\ ~k.fresh => k.tries > 0

CallsCount ==
    /\ remote \in BOOLEAN
    /\ jump \in BOOLEAN
    /\ calls \in [Calls -> OpenCalls \cup {Idle}]
    /\ \A c \in Calls : calls[c] # Idle => MayAsk(calls[c])
    /\ runs \in [Calls -> Nat]

LEMMA CallsCountInit == ConnInit => CallsCount
  BY DEF ConnInit, CallsCount

LEMMA StartedFact ==
    ASSUME CallsCount, NEW c \in Calls, calls[c].stage # "idle"
    PROVE  calls[c] \in OpenCalls /\ MayAsk(calls[c])
  BY DEF CallsCount, Idle

\* One call goes on.
LEMMA OneGoes ==
    ASSUME CallsCount, NEW c \in Calls, NEW k \in OpenCalls, MayAsk(k),
           CallsGo(c, k), runs' \in [Calls -> Nat]
    PROVE  CallsCount'
  <1>1. calls' \in [Calls -> OpenCalls \cup {Idle}]
    BY DEF CallsCount, CallsGo
  <1>2. ASSUME NEW d \in Calls PROVE calls'[d] = IF d = c THEN k ELSE calls[d]
    BY DEF CallsCount, CallsGo
  <1>3. \A d \in Calls : calls'[d] # Idle => MayAsk(calls'[d])
    BY <1>2 DEF CallsCount
  <1>4. QED
    BY <1>1, <1>3 DEF CallsCount, CallsGo

\* It reaches another stage, with the session and the attempts it had.
LEMMA NowCounts ==
    ASSUME CallsCount, NEW c \in Calls, NEW stage, Now(c, stage), calls[c].stage # "idle",
           stage \in {"list", "create", "creating", "exec", "ran", "refused", "count", "killOld",
                      "done", "failed"},
           MayAsk([calls[c] EXCEPT !.stage = stage]), runs' \in [Calls -> Nat]
    PROVE  CallsCount'
  <1>1. [calls[c] EXCEPT !.stage = stage] \in OpenCalls
    BY StartedFact DEF OpenCalls
  <1>2. QED
    BY <1>1, OneGoes DEF Now

LEMMA SshCounts ==
    ASSUME CallsCount, NEW c \in Calls, NEW wait \in BOOLEAN, NEW force \in BOOLEAN,
           Ssh(c, wait, force)
    PROVE  CallsCount'
  <1> DEFINE attempts == IF wait THEN MaxTries ELSE 1
             k == [stage |-> IF force THEN "create" ELSE "list", of |-> "none", fresh |-> FALSE,
                   tries |-> attempts]
  <1>1. attempts \in 0..MaxTries /\ attempts > 0
    BY ConnectionsAssumption
  <1>2. CallsGo(c, k) /\ runs' \in [Calls -> Nat]
    BY DEF Ssh, CallsCount
  <1> HIDE DEF attempts
  <1>3. k \in OpenCalls /\ MayAsk(k)
    BY <1>1 DEF OpenCalls, MayAsk
  <1> HIDE DEF k
  <1>4. QED
    BY <1>2, <1>3, OneGoes

LEMMA ListReplyCounts ==
    ASSUME CallsCount, NEW c \in Calls, ListReply(c)
    PROVE  CallsCount'
  <1>1. calls[c] \in OpenCalls /\ MayAsk(calls[c]) /\ calls[c].stage = "list"
    BY StartedFact DEF ListReply
  <1>2. runs' \in [Calls -> Nat]
    BY DEF ListReply, CallsCount
  <1>3. CASE \E s \in Sess : CallsGo(c, [calls[c] EXCEPT !.stage = "exec", !.of = s])
    <2>1. PICK s \in Sess : CallsGo(c, [calls[c] EXCEPT !.stage = "exec", !.of = s])
      BY <1>3
    <2>2. [calls[c] EXCEPT !.stage = "exec", !.of = s] \in OpenCalls
      BY <1>1 DEF OpenCalls
    <2>3. MayAsk([calls[c] EXCEPT !.stage = "exec", !.of = s])
      BY <1>1 DEF OpenCalls, MayAsk
    <2>4. QED
      BY <1>2, <2>1, <2>2, <2>3, OneGoes
  <1>4. CASE Now(c, "create")
    <2>1. MayAsk([calls[c] EXCEPT !.stage = "create"])
      BY <1>1 DEF OpenCalls, MayAsk
    <2>2. QED
      BY <1>1, <1>2, <1>4, <2>1, NowCounts
  <1>5. QED
    BY <1>3, <1>4 DEF ListReply

LEMMA RequestSessionCounts ==
    ASSUME CallsCount, NEW c \in Calls, NEW s \in Sess, RequestSession(c, s)
    PROVE  CallsCount'
  <1>1. calls[c] \in OpenCalls /\ MayAsk(calls[c]) /\ calls[c].stage = "create"
    BY StartedFact DEF RequestSession
  <1>2. calls[c].tries \in 0..MaxTries /\ calls[c].tries > 0 /\ ~calls[c].fresh
    BY <1>1 DEF OpenCalls, MayAsk
  <1>3. PICK left \in 0..MaxTries : left = calls[c].tries - 1
    BY <1>2, ConnectionsAssumption
  <1> DEFINE k == [calls[c] EXCEPT !.stage = "creating", !.of = s, !.tries = left]
  <1>4. CallsGo(c, k) /\ runs' \in [Calls -> Nat]
    BY <1>1, <1>3 DEF RequestSession, CallsCount, OpenCalls
  <1>5. k \in OpenCalls
    BY <1>1 DEF OpenCalls
  <1>6. MayAsk(k)
    BY <1>1, <1>2 DEF OpenCalls, MayAsk
  <1> HIDE DEF k
  <1>7. QED
    BY <1>4, <1>5, <1>6, OneGoes

LEMMA UnconnectableCounts ==
    ASSUME CallsCount, NEW c \in Calls, Unconnectable(c)
    PROVE  CallsCount'
  <1>1. calls[c] \in OpenCalls /\ MayAsk(calls[c]) /\ calls[c].stage = "create"
    BY StartedFact DEF Unconnectable
  <1>2. calls[c].tries \in 0..MaxTries /\ ~calls[c].fresh
    BY <1>1 DEF OpenCalls, MayAsk
  <1>3. runs' \in [Calls -> Nat]
    BY DEF Unconnectable, CallsCount
  <1>4. CASE calls[c].tries > 1 /\ CallsGo(c, [calls[c] EXCEPT !.tries = calls[c].tries - 1])
    <2>1. PICK left \in 0..MaxTries : left = calls[c].tries - 1
      BY <1>2, <1>4, ConnectionsAssumption
    <2>2. left > 0
      BY <1>2, <1>4, <2>1, ConnectionsAssumption
    <2>3. [calls[c] EXCEPT !.tries = left] \in OpenCalls
      BY <1>1 DEF OpenCalls
    <2>4. MayAsk([calls[c] EXCEPT !.tries = left])
      BY <1>1, <1>2, <2>2 DEF OpenCalls, MayAsk
    <2>5. QED
      BY <1>3, <1>4, <2>1, <2>3, <2>4, OneGoes
  <1>5. CASE Now(c, "failed")
    <2>1. MayAsk([calls[c] EXCEPT !.stage = "failed"])
      BY <1>1 DEF OpenCalls, MayAsk
    <2>2. QED
      BY <1>1, <1>3, <1>5, <2>1, NowCounts
  <1>6. QED
    BY <1>4, <1>5 DEF Unconnectable

LEMMA CreationCounts ==
    ASSUME CallsCount, NEW c \in Calls, SessionCreated(c) \/ NoSessionYet(c)
    PROVE  CallsCount'
  <1>1. calls[c] \in OpenCalls /\ MayAsk(calls[c]) /\ calls[c].stage = "creating"
    BY StartedFact DEF SessionCreated, NoSessionYet
  <1>2. runs' \in [Calls -> Nat]
    BY DEF SessionCreated, NoSessionYet, CallsCount
  <1>3. CASE SessionCreated(c)
    <2> DEFINE k == [calls[c] EXCEPT !.stage = "exec", !.fresh = TRUE]
    <2>1. k \in OpenCalls /\ MayAsk(k)
      BY <1>1 DEF OpenCalls, MayAsk
    <2>2. CallsGo(c, k)
      BY <1>3 DEF SessionCreated
    <2> HIDE DEF k
    <2>3. QED
      BY <1>2, <2>1, <2>2, OneGoes
  <1>4. CASE Now(c, "create") /\ calls[c].tries > 0
    <2>1. MayAsk([calls[c] EXCEPT !.stage = "create"])
      BY <1>1, <1>4 DEF OpenCalls, MayAsk
    <2>2. QED
      BY <1>1, <1>2, <1>4, <2>1, NowCounts
  <1>5. CASE Now(c, "failed")
    <2>1. MayAsk([calls[c] EXCEPT !.stage = "failed"])
      BY <1>1 DEF OpenCalls, MayAsk
    <2>2. QED
      BY <1>1, <1>2, <1>5, <2>1, NowCounts
  <1>6. QED
    BY <1>3, <1>4, <1>5 DEF NoSessionYet

LEMMA RunCounts ==
    ASSUME CallsCount, NEW c \in Calls,
           ExecStarts(c) \/ ExecRefused(c) \/ LoseReply(c) \/ ExecAnswered(c)
    PROVE  CallsCount'
  <1>1. calls[c] \in OpenCalls /\ MayAsk(calls[c]) /\ calls[c].stage \in {"exec", "ran"}
    BY StartedFact DEF ExecStarts, ExecRefused, LoseReply, ExecAnswered
  <1>2. runs' \in [Calls -> Nat]
    <2>1. CASE runs' = [runs EXCEPT ![c] = runs[c] + 1]
      BY <2>1 DEF CallsCount
    <2>2. CASE runs' = runs
      BY <2>2 DEF CallsCount
    <2>3. QED
      BY <2>1, <2>2 DEF ExecStarts, ExecRefused, LoseReply, ExecAnswered
  <1>3. PICK stage \in {"ran", "refused", "done"} : Now(c, stage)
    BY DEF ExecStarts, ExecRefused, LoseReply, ExecAnswered
  <1>4. MayAsk([calls[c] EXCEPT !.stage = stage])
    BY <1>1, <1>3 DEF OpenCalls, MayAsk
  <1>5. QED
    BY <1>1, <1>2, <1>3, <1>4, NowCounts

LEMMA FailureCounts ==
    ASSUME CallsCount, NEW c \in Calls, ExecFailed(c) \/ CountClients(c) \/ KillReused(c)
    PROVE  CallsCount'
  <1>1. calls[c] \in OpenCalls /\ MayAsk(calls[c])
        /\ calls[c].stage \in {"refused", "count", "killOld"}
    BY StartedFact DEF ExecFailed, CountClients, KillReused
  <1>2. runs' \in [Calls -> Nat]
    BY DEF ExecFailed, CountClients, KillReused, CallsCount
  <1>3. CASE Now(c, "failed")
    <2>1. MayAsk([calls[c] EXCEPT !.stage = "failed"])
      BY <1>1 DEF OpenCalls, MayAsk
    <2>2. QED
      BY <1>1, <1>2, <1>3, <2>1, NowCounts
  <1>4. CASE ~calls[c].fresh /\ \E stage \in {"count", "killOld", "create"} : Now(c, stage)
    <2>1. PICK stage \in {"count", "killOld", "create"} : Now(c, stage)
      BY <1>4
    <2>2. MayAsk([calls[c] EXCEPT !.stage = stage])
      BY <1>1, <1>4, <2>1 DEF OpenCalls, MayAsk
    <2>3. QED
      BY <1>1, <1>2, <2>1, <2>2, NowCounts
  <1>5. CASE ExecFailed(c)
    BY <1>3, <1>4, <1>5 DEF ExecFailed
  <1>6. CASE CountClients(c) \/ KillReused(c)
    <2>1. ~calls[c].fresh
      BY <1>1, <1>6 DEF CountClients, KillReused, MayAsk
    <2>2. QED
      BY <1>4, <1>6, <2>1 DEF CountClients, KillReused
  <1>7. QED
    BY <1>5, <1>6

LEMMA SessionsOnlyMove ==
    ASSUME CallsCount, NEW s \in Sess,
           \/ \E force \in BOOLEAN :
                (\E byAgent \in BOOLEAN : Request(s, byAgent, force)) \/ ConnectRemote(s, force)
           \/ CreateUnconnected(s)
           \/ DialJump(s) \/ OpenChannel(s) \/ ArriveAtBridge(s) \/ TargetConnected(s)
           \/ ConnectDirectly(s) \/ OpenShell(s) \/ Store(s) \/ FailCreation(s) \/ DropCreation(s)
           \/ BreakWire(s) \/ EndBridge(s) \/ BreakJump(s) \/ Kill(s) \/ Attach(s)
           \/ QuickCommand(s)
    PROVE  CallsCount'
  <1>1. UNCHANGED <<remote, jump, calls, runs>>
    BY DEF Request, ConnectRemote, CreateUnconnected, Advance, DialJump, OpenChannel,
       ArriveAtBridge, TargetConnected, ConnectDirectly, OpenShell, Store, FailCreation,
       DropCreation, BreakWire, EndBridge, BreakJump, Kill, Attach, QuickCommand
  <1>2. QED
    BY <1>1 DEF CallsCount

LEMMA EditCounts ==
    ASSUME CallsCount, NEW to \in BOOLEAN, NEW later \in BOOLEAN, EditServer(to, later)
    PROVE  CallsCount'
  BY DEF EditServer, CallsCount

LEMMA CallsCountStep == ASSUME CallsCount, [ConnNext]_connVars PROVE CallsCount'
  <1>1. CASE UNCHANGED connVars
    BY <1>1 DEF connVars, CallsCount
  <1>2. CASE ConnNext
    BY <1>2, SessionsOnlyMove, EditCounts, SshCounts, ListReplyCounts, RequestSessionCounts,
       UnconnectableCounts, CreationCounts, RunCounts, FailureCounts DEF ConnNext
  <1>3. QED
    BY <1>1, <1>2

LEMMA ConnectionsAreTyped == ASSUME HopsFollow, CallsCount PROVE ConnTypeOK
  BY DEF HopsFollow, CallsCount, ConnTypeOK, OpenSessions, OpenCalls

\* Sessions, calls and the attempts a call has left keep their types: no path through
\* connect makes more attempts than --wait allows.
THEOREM ConnectionTypes == ConnSpec => []ConnTypeOK
  <1>1. ConnInit => HopsFollow /\ CallsCount
    BY HopsFollowInit, CallsCountInit
  <1>2. HopsFollow /\ CallsCount /\ [ConnNext]_connVars => (HopsFollow /\ CallsCount)'
    BY HopsFollowStep, CallsCountStep
  <1>3. HopsFollow /\ CallsCount => ConnTypeOK
    BY ConnectionsAreTyped
  <1>4. QED
    BY <1>1, <1>2, <1>3, PTL DEF ConnSpec

-----------------------------------------------------------------------------
(* Gateway. *)

(* What the application and a run of the script have, by how far they are. *)

Manifests == [status : {"missing", "running", "stopped"}, port : Ports \cup {NoPort},
              token : 0..MaxStarts]
ScriptRuns == [at : {"idle", "look", "check", "ask", "in flight", "done", "failed"},
               goal : {"initialize", "initialized", "call"}, seen : Manifests,
               launched : BOOLEAN, polls : 0..MaxLooks, retried : BOOLEAN, ran : 0..1]
AppStates == [at : {"down", "starting", "bound", "published", "serving", "draining", "stopped"},
              port : Ports \cup {NoPort}, token : 0..MaxStarts]

Typed ==
    /\ app \in AppStates /\ manifest \in Manifests /\ client \in [Clients -> ScriptRuns]
    /\ starts \in 0..MaxStarts

\* Tokens are those of starts there have been.
TokensAreOfStarts ==
    /\ app.at # "down" => app.token \in 1..starts
    /\ manifest.status = "running" => manifest.token \in 1..starts
    /\ \A c \in Clients : client[c].seen.status = "running" => client[c].seen.token \in 1..starts

\* A call has run when its request is in flight, and not before.
RunOf(cl) ==
    /\ cl.at \in {"idle", "look", "check", "ask"} => cl.ran = 0
    /\ cl.at = "in flight" => cl.ran = IF cl.goal = "call" THEN 1 ELSE 0
    /\ cl.at = "done" => cl.ran = 1
RunsInFlight == \A c \in Clients : RunOf(client[c])

GatewayInv == Typed /\ TokensAreOfStarts /\ RunsInFlight /\ ManifestIsTrue /\ AsksOneThatServed

LEMMA Zero == 0 \in 0..MaxStarts /\ 0 \in 0..MaxLooks /\ 0 \in 0..1
  BY GatewayAssumption

LEMMA BeginTyped == Begin \in ScriptRuns /\ [Begin EXCEPT !.at = "idle"] \in ScriptRuns
  <1>1. NoManifest \in Manifests
    BY GatewayAssumption DEF NoManifest, Manifests
  <1>2. 0 \in 0..MaxLooks /\ 0 \in 0..1
    BY GatewayAssumption
  <1>3. QED
    BY <1>1, <1>2 DEF Begin, ScriptRuns

LEMMA GatewayInvInit == GatewayInit => GatewayInv
  <1> SUFFICES ASSUME GatewayInit PROVE GatewayInv
    OBVIOUS
  <1>1. Typed
    BY GatewayAssumption, BeginTyped
       DEF GatewayInit, Typed, AppStates, Manifests, Down, NoManifest
  <1>2. \A c \in Clients : /\ client[c].at = "idle" /\ client[c].ran = 0
                           /\ client[c].seen.status = "missing"
    BY DEF GatewayInit, Begin, NoManifest
  <1>3. QED
    BY <1>1, <1>2 DEF GatewayInit, GatewayInv, TokensAreOfStarts, RunsInFlight, RunOf, ManifestIsTrue,
                      AsksOneThatServed, Down, NoManifest

-----------------------------------------------------------------------------
(* The application: no run of the script moves, but for those that wait when it ends. *)

LEMMA AppStep ==
    ASSUME GatewayInv,
           \/ OpenApp \/ BindGateway \/ PublishManifest \/ ServeGateway \/ ShutdownGateway
           \/ GatewayStops
    PROVE  GatewayInv'
  <1>1. CASE OpenApp
    <2>1. app' \in AppStates /\ starts' \in 0..MaxStarts /\ app'.token = starts'
          /\ starts' = starts + 1 /\ app'.at = "starting"
      BY <1>1, GatewayAssumption DEF OpenApp, Started, GatewayInv, Typed, AppStates
    <2>2. app.at = "down" /\ UNCHANGED <<manifest, client>>
      BY <1>1 DEF OpenApp
    <2>3. \A c \in Clients : client[c].at # "in flight"
      BY <2>2 DEF GatewayInv, AsksOneThatServed
    <2>4. Typed' /\ ManifestIsTrue' /\ RunsInFlight'
      BY <2>1, <2>2 DEF GatewayInv, Typed, ManifestIsTrue, RunsInFlight, RunOf
    <2>5. \A n \in 1..starts : n \in 1..starts'
      BY <2>1 DEF GatewayInv, Typed
    <2>6. starts' \in 1..starts'
      BY <2>1 DEF GatewayInv, Typed
    <2>7. TokensAreOfStarts'
      BY <2>1, <2>2, <2>5, <2>6 DEF GatewayInv, TokensAreOfStarts
    <2>8. AsksOneThatServed'
      BY <2>2, <2>3, <2>5 DEF GatewayInv, AsksOneThatServed
    <2>9. QED
      BY <2>4, <2>7, <2>8 DEF GatewayInv
  <1>2. CASE BindGateway \/ ServeGateway \/ ShutdownGateway
    <2>1. /\ app' \in AppStates /\ app'.token = app.token /\ app.at # "down"
          /\ app'.at \in {"bound", "serving", "draining"}
          /\ app'.at \in {"serving", "draining"} => app'.port = app.port
          /\ app'.at = "serving" => app.at = "published"
          /\ app'.at = "draining" => app.at = "serving"
          /\ app'.at = "bound" => app.at = "starting"
      BY <1>2 DEF BindGateway, ServeGateway, ShutdownGateway, GatewayInv, Typed, AppStates
    <2>2. UNCHANGED <<starts, manifest, client>>
      BY <1>2 DEF BindGateway, ServeGateway, ShutdownGateway
    <2>3. QED
      BY <2>1, <2>2 DEF GatewayInv, Typed, TokensAreOfStarts, RunsInFlight, RunOf, ManifestIsTrue,
                        AsksOneThatServed, Authorized
  <1>3. CASE PublishManifest
    <2>1. /\ app' \in AppStates /\ app'.token = app.token /\ app'.port = app.port
          /\ app.at = "bound" /\ app'.at = "published"
          /\ manifest' \in Manifests /\ UNCHANGED <<starts, client>>
          /\ manifest' = [status |-> "running", port |-> app.port, token |-> app.token]
      BY <1>3 DEF PublishManifest, GatewayInv, Typed, AppStates, Manifests
    <2>2. QED
      BY <2>1 DEF GatewayInv, Typed, TokensAreOfStarts, RunsInFlight, RunOf, ManifestIsTrue,
                  AsksOneThatServed, Authorized
  <1>4. CASE GatewayStops
    <2>1. /\ app' \in AppStates /\ app'.token = app.token /\ app'.at = "stopped"
          /\ app.at = "draining" /\ UNCHANGED <<starts, client>>
          /\ manifest' \in Manifests /\ manifest'.status = "stopped"
          /\ \A c \in Clients : client[c].at # "in flight"
      BY <1>4, Zero DEF GatewayStops, GatewayInv, Typed, AppStates, Manifests
    <2>2. QED
      BY <2>1 DEF GatewayInv, Typed, TokensAreOfStarts, RunsInFlight, RunOf, ManifestIsTrue,
                  AsksOneThatServed
  <1>5. QED
    BY <1>1, <1>2, <1>3, <1>4

LEMMA AppEndsStep == ASSUME GatewayInv, AppEnds PROVE GatewayInv'
  <1>1. app' = Down /\ Down \in AppStates /\ Down.at = "down" /\ UNCHANGED <<starts, manifest>>
    BY Zero DEF AppEnds, Down, AppStates
  <1>2. ASSUME NEW c \in Clients
        PROVE  /\ client'[c] \in ScriptRuns /\ client'[c].at # "in flight"
               /\ client'[c].seen = client[c].seen
               /\ client'[c] = client[c] \/ client'[c].at = "failed"
    BY DEF AppEnds, Unanswered, GatewayInv, Typed, ScriptRuns
  <1>3. client' \in [Clients -> ScriptRuns]
    BY <1>2 DEF AppEnds
  <1>4. QED
    BY <1>1, <1>2, <1>3 DEF GatewayInv, Typed, TokensAreOfStarts, RunsInFlight, RunOf, ManifestIsTrue,
                            AsksOneThatServed

-----------------------------------------------------------------------------
(* The script. *)

\* One run of the script moves; what it says of its new state is enough.
LEMMA ClientStep ==
    ASSUME GatewayInv, NEW c \in Clients, NEW cl \in ScriptRuns,
           client' = [client EXCEPT ![c] = cl], UNCHANGED <<app, starts, manifest>>,
           cl.seen.status = "running" => cl.seen.token \in 1..starts,
           cl.at \in {"idle", "look", "check", "ask"} => cl.ran = 0,
           cl.at = "in flight" => cl.ran = IF cl.goal = "call" THEN 1 ELSE 0,
           cl.at = "done" => cl.ran = 1,
           cl.at \in {"ask", "in flight"} => cl.seen.status = "running",
           cl.at = "in flight" => app.at \in {"serving", "draining"} /\ app.token = cl.seen.token
    PROVE  GatewayInv'
  <1>1. client' \in [Clients -> ScriptRuns]
    BY DEF GatewayInv, Typed
  <1>2. ASSUME NEW e \in Clients
        PROVE  client'[e] = IF e = c THEN cl ELSE client[e]
    BY DEF GatewayInv, Typed
  <1>3. Typed'
    BY <1>1 DEF GatewayInv, Typed
  <1>4. TokensAreOfStarts'
    BY <1>2 DEF GatewayInv, TokensAreOfStarts
  <1>5. RunsInFlight'
    <2> SUFFICES ASSUME NEW e \in Clients PROVE RunOf(client[e])'
      BY DEF RunsInFlight
    <2>1. CASE e = c
      BY <1>2, <2>1 DEF RunOf
    <2>2. CASE e # c
      BY <1>2, <2>2 DEF GatewayInv, RunsInFlight
    <2>3. QED
      BY <2>1, <2>2
  <1>6. AsksOneThatServed'
    <2>1. ASSUME NEW e \in Clients, client'[e].at \in {"ask", "in flight"}
          PROVE  /\ client'[e].seen.status = "running" /\ client'[e].seen.token \in 1..starts
                 /\ client'[e].at = "in flight" => /\ app.at \in {"serving", "draining"}
                                                  /\ app.token = client'[e].seen.token
      <3>1. CASE e = c
        BY <1>2, <2>1, <3>1
      <3>2. CASE e # c
        <4>1. /\ client'[e] = client[e] /\ client[e].at \in {"ask", "in flight"}
              /\ app' = app /\ starts' = starts
          BY <1>2, <2>1, <3>2
        <4>2. AsksOneThatServed
          BY DEF GatewayInv
        <4>3. QED
          BY <4>1, <4>2 DEF AsksOneThatServed, Authorized
      <3>3. QED
        BY <3>1, <3>2
    <2>2. QED
      BY <2>1 DEF AsksOneThatServed, Authorized
  <1>7. ManifestIsTrue'
    BY DEF GatewayInv, ManifestIsTrue
  <1>8. QED
    BY <1>3, <1>4, <1>5, <1>6, <1>7 DEF GatewayInv

\* What the invariant says of one run.
LEMMA ClientFact ==
    ASSUME GatewayInv, NEW c \in Clients
    PROVE  /\ client[c] \in ScriptRuns
           /\ client[c].seen.status = "running" => client[c].seen.token \in 1..starts
           /\ client[c].at \in {"idle", "look", "check", "ask"} => client[c].ran = 0
           /\ client[c].at = "in flight" => client[c].ran = IF client[c].goal = "call" THEN 1 ELSE 0
           /\ client[c].at \in {"ask", "in flight"} => client[c].seen.status = "running"
           /\ client[c].at = "in flight" => /\ app.at \in {"serving", "draining"}
                                            /\ app.token = client[c].seen.token
  BY DEF GatewayInv, Typed, TokensAreOfStarts, RunsInFlight, RunOf, AsksOneThatServed, Authorized

LEMMA LookStep ==
    ASSUME GatewayInv, NEW c \in Clients, RunScript(c) \/ ReadManifest(c) \/ NotReady(c)
    PROVE  GatewayInv'
  <1>1. CASE RunScript(c)
    <2>1. Begin.at = "look" /\ Begin.ran = 0 /\ Begin.seen.status = "missing"
      BY DEF Begin, NoManifest
    <2>2. QED
      BY <1>1, <2>1, BeginTyped, ClientStep DEF RunScript
  <1>2. CASE ReadManifest(c)
    <2> DEFINE cl == [client[c] EXCEPT !.at = "check", !.seen = manifest, !.polls = @ + 1]
    <2>1. client' = [client EXCEPT ![c] = cl] /\ UNCHANGED <<app, starts, manifest>>
      BY <1>2 DEF ReadManifest, GatewayInv, Typed
    <2>2. client[c].polls + 1 \in 0..MaxLooks
      <3>1. client[c].polls \in 0..MaxLooks
        BY ClientFact DEF ScriptRuns
      <3>2. QED
        BY <1>2, <3>1, GatewayAssumption DEF ReadManifest
    <2>3. cl \in ScriptRuns /\ cl.at = "check" /\ cl.ran = client[c].ran /\ cl.seen = manifest
      BY <2>2, ClientFact DEF ScriptRuns, GatewayInv, Typed
    <2>4. manifest.status = "running" => manifest.token \in 1..starts
      BY DEF GatewayInv, TokensAreOfStarts
    <2>5. cl.ran = 0
      BY <1>2, <2>3, ClientFact DEF ReadManifest
    <2>6. QED
      BY <2>1, <2>3, <2>4, <2>5, ClientStep
  <1>3. CASE NotReady(c)
    <2> DEFINE cl == [client[c] EXCEPT !.at = "failed"]
    <2>1. client' = [client EXCEPT ![c] = cl] /\ UNCHANGED <<app, starts, manifest>>
      BY <1>3 DEF NotReady, GatewayInv, Typed
    <2>2. cl \in ScriptRuns /\ cl.at = "failed" /\ cl.seen = client[c].seen
      BY ClientFact DEF ScriptRuns
    <2>3. QED
      BY <2>1, <2>2, ClientFact, ClientStep
  <1>4. QED
    BY <1>1, <1>2, <1>3

\* A start of the application that a client causes is one that anybody causes.
LEMMA CheckStep == ASSUME GatewayInv, NEW c \in Clients, CheckHealth(c) PROVE GatewayInv'
  <1> DEFINE good == client[c].seen.status = "running" /\ Listening(client[c]) /\ Authorized(client[c])
  <1>1. CASE good
    <2> DEFINE cl == [client[c] EXCEPT !.at = "ask"]
    <2>1. client' = [client EXCEPT ![c] = cl] /\ UNCHANGED <<app, starts, manifest>>
      BY <1>1 DEF CheckHealth, GatewayInv, Typed
    <2>2. cl \in ScriptRuns /\ cl.at = "ask" /\ cl.seen = client[c].seen /\ cl.ran = client[c].ran
      BY ClientFact DEF ScriptRuns
    <2>3. client[c].at = "check"
      BY DEF CheckHealth
    <2>4. QED
      BY <1>1, <2>1, <2>2, <2>3, ClientFact, ClientStep
  <1>2. CASE ~good
    <2> DEFINE cl == [client[c] EXCEPT !.at = "look", !.launched = TRUE]
    <2>1. client' = [client EXCEPT ![c] = cl] /\ UNCHANGED manifest /\ client[c].at = "check"
      BY <1>2 DEF CheckHealth, GatewayInv, Typed
    <2>2. cl \in ScriptRuns /\ cl.at = "look" /\ cl.seen = client[c].seen /\ cl.ran = client[c].ran
      BY ClientFact DEF ScriptRuns
    <2>3. CASE UNCHANGED <<app, starts>>
      BY <2>1, <2>2, <2>3, ClientFact, ClientStep
    <2>4. CASE Started /\ app.at = "down" /\ starts < MaxStarts
      <3>1. /\ app' \in AppStates /\ starts' \in 0..MaxStarts /\ app'.token = starts'
            /\ starts' = starts + 1 /\ app'.at = "starting"
        BY <2>4, GatewayAssumption DEF Started, GatewayInv, Typed, AppStates
      <3>2. ASSUME NEW e \in Clients
            PROVE  client'[e] = IF e = c THEN cl ELSE client[e]
        BY <2>1 DEF GatewayInv, Typed
      <3>3. client' \in [Clients -> ScriptRuns]
        BY <2>1, <2>2 DEF GatewayInv, Typed
      <3>4. Typed' /\ ManifestIsTrue'
        BY <2>1, <3>1, <3>3 DEF GatewayInv, Typed, ManifestIsTrue
      <3>5. RunsInFlight'
        <4>1. client[c].ran = 0
          BY <2>1, ClientFact
        <4>2. RunOf(cl)
          BY <2>2, <4>1 DEF RunOf
        <4>3. QED
          BY <3>2, <4>2 DEF GatewayInv, RunsInFlight
      <3>6. TokensAreOfStarts'
        BY <2>1, <2>2, <3>1, <3>2 DEF GatewayInv, Typed, TokensAreOfStarts
      <3>7. ASSUME NEW e \in Clients PROVE client'[e].at # "in flight"
        BY <2>2, <2>4, <3>2, ClientFact
      <3>8. AsksOneThatServed'
        BY <2>2, <3>1, <3>2, <3>6, <3>7, ClientFact DEF AsksOneThatServed, TokensAreOfStarts
      <3>9. QED
        BY <3>4, <3>5, <3>6, <3>8 DEF GatewayInv
    <2>5. QED
      BY <1>2, <2>3, <2>4 DEF CheckHealth, Started
  <1>3. QED
    BY <1>1, <1>2

LEMMA AskStep ==
    ASSUME GatewayInv, NEW c \in Clients, AskGateway(c) \/ SentAway(c) \/ NobodyAnswers(c)
    PROVE  GatewayInv'
  <1>1. client[c].at = "ask" /\ client[c].ran = 0 /\ UNCHANGED <<app, starts, manifest>>
    BY ClientFact DEF AskGateway, SentAway, NobodyAnswers
  <1>2. CASE AskGateway(c)
    <2> DEFINE cl == [client[c] EXCEPT !.at = "in flight",
                        !.ran = IF client[c].goal = "call" THEN @ + 1 ELSE @]
    <2>1. client' = [client EXCEPT ![c] = cl]
      BY <1>2 DEF AskGateway, GatewayInv, Typed
    <2>2. (IF client[c].goal = "call" THEN client[c].ran + 1 ELSE client[c].ran)
            = IF client[c].goal = "call" THEN 1 ELSE 0
      BY <1>1
    <2>3. /\ cl \in ScriptRuns /\ cl.at = "in flight" /\ cl.seen = client[c].seen
          /\ cl.goal = client[c].goal /\ cl.ran = IF cl.goal = "call" THEN 1 ELSE 0
      <3>1. (IF client[c].goal = "call" THEN client[c].ran + 1 ELSE client[c].ran) \in 0..1
        BY <2>2
      <3>2. client[c] \in ScriptRuns
        BY ClientFact
      <3>3. QED
        BY <2>2, <3>1, <3>2 DEF ScriptRuns
    <2>4. app.at = "serving" /\ app.token = client[c].seen.token
      BY <1>2 DEF AskGateway, Authorized
    <2>5. QED
      BY <1>1, <2>1, <2>3, <2>4, ClientFact, ClientStep
  <1>3. ASSUME client' = [client EXCEPT ![c] = [client[c] EXCEPT !.at = "failed"]]
        PROVE  GatewayInv'
    <2> DEFINE cl == [client[c] EXCEPT !.at = "failed"]
    <2>1. cl \in ScriptRuns /\ cl.at = "failed" /\ cl.seen = client[c].seen
      BY ClientFact DEF ScriptRuns
    <2>2. QED
      BY <1>1, <1>3, <2>1, ClientFact, ClientStep
  <1>4. ASSUME client' = [client EXCEPT ![c] = [Begin EXCEPT !.retried = TRUE, !.ran = client[c].ran]]
        PROVE  GatewayInv'
    <2> DEFINE cl == [Begin EXCEPT !.retried = TRUE, !.ran = client[c].ran]
    <2>1. cl \in ScriptRuns /\ cl.at = "look" /\ cl.seen.status = "missing" /\ cl.ran = 0
      <3>1. Begin.at = "look" /\ Begin.seen.status = "missing"
        BY DEF Begin, NoManifest
      <3>2. QED
        BY <1>1, <3>1, Zero, BeginTyped DEF ScriptRuns
    <2>2. QED
      BY <1>1, <1>4, <2>1, ClientStep
  <1>5. QED
    BY <1>2, <1>3, <1>4 DEF AskGateway, SentAway, NobodyAnswers, Unanswered, GatewayInv, Typed

LEMMA AnsweredStep == ASSUME GatewayInv, NEW c \in Clients, AnsweredCall(c) PROVE GatewayInv'
  <1> DEFINE then == IF client[c].goal = "call" THEN "done" ELSE "ask"
             goal == IF client[c].goal = "initialize" /\ ~client[c].retried THEN "initialized" ELSE "call"
             cl == [client[c] EXCEPT !.at = then, !.goal = goal]
  <1>1. client' = [client EXCEPT ![c] = cl] /\ UNCHANGED <<app, starts, manifest>>
    BY DEF AnsweredCall, GatewayInv, Typed
  <1>2. then \in {"done", "ask"} /\ goal \in {"initialized", "call"}
    OBVIOUS
  <1>3. cl \in ScriptRuns /\ cl.at = then /\ cl.seen = client[c].seen /\ cl.ran = client[c].ran
    <2> HIDE DEF then, goal
    <2>1. client[c] \in ScriptRuns
      BY ClientFact
    <2>2. QED
      BY <1>2, <2>1 DEF ScriptRuns
  <1>4. client[c].at = "in flight"
    BY DEF AnsweredCall
  <1>5. cl.ran = IF then = "done" THEN 1 ELSE 0
    BY <1>3, <1>4, ClientFact
  <1>6. /\ cl.at # "in flight"
        /\ cl.at = "done" => cl.ran = 1
        /\ cl.at = "ask" => cl.ran = 0
    BY <1>2, <1>3, <1>5
  <1>7. /\ cl.seen.status = "running"
        /\ cl.seen.token \in 1..starts
    BY <1>3, <1>4, ClientFact
  <1>8. cl.at \in {"done", "ask"}
    BY <1>2, <1>3
  <1> HIDE DEF cl
  <1>9. QED
    BY <1>1, <1>3, <1>6, <1>7, <1>8, ClientStep

-----------------------------------------------------------------------------

LEMMA GatewayInvStep == ASSUME GatewayInv, [GatewayNext]_gatewayVars PROVE GatewayInv'
  <1>1. CASE UNCHANGED gatewayVars
    BY <1>1 DEF gatewayVars, GatewayInv, Typed, TokensAreOfStarts, RunsInFlight, RunOf, ManifestIsTrue,
                AsksOneThatServed, Authorized
  <1>2. CASE GatewayNext
    BY <1>2, AppStep, AppEndsStep, LookStep, CheckStep, AskStep, AnsweredStep DEF GatewayNext
  <1>3. QED
    BY <1>1, <1>2

LEMMA FoundInside == ASSUME GatewayInv PROVE GatewayIsFound
  <1>1. ASSUME NEW c \in Clients PROVE client[c].ran <= 1
    <2>1. client[c].ran \in 0..1
      BY DEF GatewayInv, Typed, ScriptRuns
    <2>2. QED
      BY <2>1
  <1>2. CalledOnce
    <2>1. \A c \in Clients : client[c].at = "done" => client[c].ran = 1
      BY DEF GatewayInv, RunsInFlight, RunOf
    <2>2. QED
      BY <1>1, <2>1 DEF CalledOnce
  <1>3. QED
    BY <1>2 DEF GatewayInv, GatewayIsFound

\* However often the application comes and goes: a call is made at most once, with a gateway that
\* served under the token the client has, and the manifest is never that of an earlier start.
THEOREM GatewayFound == GatewaySpec => []GatewayIsFound
  <1>1. GatewayInit => GatewayInv
    BY GatewayInvInit
  <1>2. GatewayInv /\ [GatewayNext]_gatewayVars => GatewayInv'
    BY GatewayInvStep
  <1>3. GatewayInv => GatewayIsFound
    BY FoundInside
  <1>4. QED
    BY <1>1, <1>2, <1>3, PTL DEF GatewaySpec

\* The application, its manifest and every run of the script keep their types: ports are ports,
\* tokens are of starts there may be, and the script looks no oftener than it may.
THEOREM GatewayTypes == GatewaySpec => []GatewayTypeOK
  <1>1. GatewayInit => GatewayInv
    BY GatewayInvInit
  <1>2. GatewayInv /\ [GatewayNext]_gatewayVars => GatewayInv'
    BY GatewayInvStep
  <1>3. GatewayInv => GatewayTypeOK
    BY DEF GatewayInv, Typed, AppStates, Manifests, ScriptRuns, GatewayTypeOK
  <1>4. QED
    BY <1>1, <1>2, <1>3, PTL DEF GatewaySpec

-----------------------------------------------------------------------------
(* Endpoint. *)

Places == AtFile \cup {"off", "serving", "remote", "alone", "asking", "spawning",
                       "waiting", "occupied", "served", "gone"}
Purposes == Probes \cup Runs

\* Where a process goes next and for which purpose: everybody else stays.
LEMMA TurnsFact ==
    ASSUME EndTypeOK, NEW p \in Procs, NEW s \in Places, NEW w \in Purposes, Turns(p, s, w)
    PROVE  /\ at'[p] = s /\ why'[p] = w
           /\ \A q \in Procs \ {p} : at'[q] = at[q] /\ why'[q] = why[q]
           /\ at' \in [Procs -> Places] /\ why' \in [Procs -> Purposes]
  BY DEF EndTypeOK, Turns, Places, Purposes

LEMMA GoesFact ==
    ASSUME EndTypeOK, NEW p \in Procs, NEW s \in Places, Goes(p, s)
    PROVE  /\ at'[p] = s /\ why'[p] = why[p]
           /\ \A q \in Procs \ {p} : at'[q] = at[q] /\ why'[q] = why[q]
           /\ at' \in [Procs -> Places] /\ why' \in [Procs -> Purposes]
  <1>1. why[p] \in Purposes
    BY DEF EndTypeOK, Purposes
  <1>2. QED
    BY <1>1, TurnsFact DEF Goes

\* What a process does with the answer to its probe.
Answers(s, w, was, status) ==
    \/ s = "bind" /\ was = "start" /\ w = "serve" /\ status # "reachable"
    \/ s = "connect" /\ was = "first" /\ w = "spawn" /\ status = "free"
    \/ s = "alone" /\ was = "lost" /\ w = was /\ status # "reachable"
    \/ s \in {"remote", "waiting", "occupied", "served", "spawning"} /\ w = was

Moved(p, s, w) ==
    /\ at'[p] = s /\ why'[p] = w
    /\ \A q \in Procs \ {p} : at'[q] = at[q] /\ why'[q] = why[q]

LEMMA ReportsFact ==
    ASSUME EndTypeOK, NEW p \in Procs, NEW status \in {"reachable", "free", "occupied"},
           Reports(p, status)
    PROVE  /\ \E s \in Places, w \in Purposes : Moved(p, s, w) /\ Answers(s, w, why[p], status)
           /\ at' \in [Procs -> Places] /\ why' \in [Procs -> Purposes]
  <1> DEFINE Good == /\ \E s \in Places, w \in Purposes : Moved(p, s, w) /\ Answers(s, w, why[p], status)
                     /\ at' \in [Procs -> Places] /\ why' \in [Procs -> Purposes]
  <1>1. why[p] \in Purposes
    BY DEF EndTypeOK, Purposes
  <1>2. ASSUME NEW s \in Places, NEW w \in Purposes, Turns(p, s, w), Answers(s, w, why[p], status)
        PROVE  Good
    <2>1. Moved(p, s, w) /\ at' \in [Procs -> Places] /\ why' \in [Procs -> Purposes]
      BY <1>2, TurnsFact DEF Moved
    <2>2. QED
      BY <1>2, <2>1
  <1>3. ASSUME NEW s \in Places, Goes(p, s), Answers(s, why[p], why[p], status)
        PROVE  Good
    BY <1>1, <1>2, <1>3 DEF Goes
  <1>4. {"remote", "waiting", "occupied", "served", "spawning", "bind", "connect", "alone"} \subseteq Places
        /\ {"serve", "spawn"} \subseteq Purposes
    BY DEF Places, AtFile, Purposes, Probes, Runs
  <1>5. \A s \in {"remote", "waiting", "occupied", "served", "spawning"} :
           Goes(p, s) => Good
    BY <1>3, <1>4 DEF Answers
  <1> SUFFICES Good
    OBVIOUS
  <1> HIDE DEF Good
  <1>6. CASE why[p] = "start"
    <2>1. Goes(p, "remote") \/ (Turns(p, "bind", "serve") /\ status # "reachable")
      BY <1>6 DEF Reports
    <2>2. status # "reachable" => Answers("bind", "serve", why[p], status)
      BY <1>6 DEF Answers
    <2>3. QED
      BY <1>2, <1>4, <1>5, <2>1, <2>2
  <1>7. CASE why[p] = "lost"
    <2>1. Goes(p, "remote") \/ (Goes(p, "alone") /\ status # "reachable")
      BY <1>7 DEF Reports
    <2>2. status # "reachable" => Answers("alone", why[p], why[p], status)
      BY <1>7 DEF Answers
    <2>3. QED
      BY <1>3, <1>4, <1>5, <2>1, <2>2
  <1>8. CASE why[p] = "first"
    <2>1. Goes(p, "occupied") \/ Goes(p, "waiting") \/ (Turns(p, "connect", "spawn") /\ status = "free")
      BY <1>8 DEF Reports
    <2>2. status = "free" => Answers("connect", "spawn", why[p], status)
      BY <1>8 DEF Answers
    <2>3. QED
      BY <1>2, <1>4, <1>5, <2>1, <2>2
  <1>9. CASE why[p] \notin {"start", "lost", "first"}
    <2>1. Goes(p, "spawning") \/ Goes(p, "waiting") \/ Goes(p, "served") \/ Goes(p, "occupied")
      BY <1>9 DEF Reports
    <2>2. QED
      BY <1>5, <2>1
  <1>10. QED
    BY <1>6, <1>7, <1>8, <1>9

\* A run that fails: the application looks who has the file, a daemon leaves.
LEMMA RunFailsFact ==
    ASSUME EndTypeOK, NEW p \in Procs, RunFails(p)
    PROVE  /\ \/ p \in Apps /\ Moved(p, "connect", "lost")
              \/ p \notin Apps /\ Moved(p, "gone", why[p])
           /\ at' \in [Procs -> Places] /\ why' \in [Procs -> Purposes]
  <1>1. {"connect", "gone"} \subseteq Places /\ "lost" \in Purposes
    BY DEF Places, AtFile, Purposes, Probes
  <1>2. CASE p \in Apps
    BY <1>1, <1>2, TurnsFact DEF RunFails, Moved
  <1>3. CASE p \notin Apps
    BY <1>1, <1>3, GoesFact DEF RunFails, Moved
  <1>4. QED
    BY <1>2, <1>3

\* Who listens: servers, and probes that have not dropped their listener yet.
Listeners ==
    \A p \in Procs : /\ listener[p] = "open" => at[p] \in {"serving", "drop"}
                     /\ at[p] = "serving" => listener[p] = "open"

\* A server that a process could have connected to, and did not, is not where the
\* file leads, and never will be again.
Hears ==
    \A p \in Procs :
      /\ at[p] = "off" => heard[p] = {}
      /\ \A q \in heard[p] :
           /\ at[q] \in {"serving", "gone"}
           /\ at[p] \in AtFile \ {"connect"} /\ at[q] = "serving" => socket # q

Apart == \A p, q \in Procs : p # q => ~(at[p] \in AtFile /\ at[q] \in AtFile)

\* Where a process has found the name to be free, as long as nobody else is there.
FoundFree(p) ==
    \/ at[p] \in {"listen", "drop", "unlink", "remove"}
    \/ at[p] \in {"look", "bind", "recheck"} /\ (p \in Apps \/ why[p] \in Probes)

OneAtATime ==
    \A p \in Procs :
      /\ at[p] = "serving" => socket = p
      /\ at[p] # "alone" /\ (at[p] \in AtFile => why[p] # "lost")
      /\ at[p] \in {"listen", "drop"} => socket = p
      /\ at[p] = "connect" => why[p] \in Probes
      /\ at[p] = "look" /\ why[p] \in Runs => socket # NoFile
      /\ at[p] = "bind" /\ why[p] = "again" => socket = NoFile
      /\ FoundFree(p) => \A q \in Procs : at[q] # "serving"

EndInv == EndTypeOK /\ Listeners /\ Hears /\ (~contended => Apart /\ OneAtATime)

\* What a step has to show.
Kept == Listeners' /\ Hears' /\ (Apart /\ OneAtATime /\ Apart' => OneAtATime')

LEMMA InTypes ==
    ASSUME EndTypeOK
    PROVE  /\ socket \in Procs \cup {NoFile}
           /\ \A p \in Procs : /\ at[p] \in Places /\ why[p] \in Purposes
                               /\ listener[p] \in {"none", "bound", "open"}
                               /\ heard[p] \subseteq Procs
           /\ Answered <=> \E q \in Procs : socket = q /\ listener[q] = "open"
  BY DEF EndTypeOK, Places, Purposes, Answered, Opened

LEMMA LookKept ==
    ASSUME EndInv, NEW p \in Procs, Look(p)
    PROVE  Kept
  <1> USE DEF EndInv
  <1>1. /\ at[p] = "look" /\ UNCHANGED <<socket, listener, heard>>
        /\ \/ why[p] \in Probes /\ Moved(p, "bind", why[p])
           \/ why[p] \notin Probes /\ socket # NoFile /\ Moved(p, "recheck", why[p])
           \/ why[p] \notin Probes /\ socket = NoFile /\ p \in Apps /\ Moved(p, "connect", "lost")
           \/ why[p] \notin Probes /\ socket = NoFile /\ p \notin Apps /\ Moved(p, "gone", why[p])
    BY GoesFact, RunFailsFact DEF Look, Moved, Places, AtFile
  <1>2. Listeners'
    BY <1>1 DEF Listeners, Moved
  <1>3. Hears'
    BY <1>1, InTypes DEF Hears, Moved, AtFile
  <1>4. ASSUME Apart, OneAtATime, Apart' PROVE OneAtATime'
    BY <1>1, <1>4, InTypes DEF OneAtATime, Moved, FoundFree, Runs, Probes, AtFile, Purposes
  <1>5. QED
    BY <1>2, <1>3, <1>4 DEF Kept

\* Places outside the file that a process goes to without anybody noticing.
Aside == {"remote", "waiting", "occupied", "served", "spawning", "gone"}

\* A process that looks whether somebody answers.
Asked(p) == heard'[p] = Servers /\ \A q \in Procs \ {p} : heard'[q] = heard[q]

LEMMA AskedFact ==
    ASSUME EndInv, NEW p \in Procs, heard' = [heard EXCEPT ![p] = Servers]
    PROVE  Asked(p) /\ \A q : q \in Servers <=> q \in Procs /\ at[q] = "serving"
  BY DEF EndInv, EndTypeOK, Asked, Servers

\* Nobody answers: no server is where the file leads, and none is anywhere as long
\* as the processes are at the file one at a time.
LEMMA UnansweredFact ==
    ASSUME EndInv, ~Answered
    PROVE  /\ \A q \in Procs : at[q] = "serving" => socket # q
           /\ OneAtATime => \A q \in Procs : at[q] # "serving"
  BY InTypes DEF EndInv, Listeners, OneAtATime

\* Somebody answers, and a process that found the name free is at the file.
LEMMA AnsweredFact ==
    ASSUME EndInv, Answered, Apart, OneAtATime, NEW p \in Procs, FoundFree(p), at[p] # "drop"
    PROVE  FALSE
  <1>1. PICK q \in Procs : listener[q] = "open"
    BY InTypes DEF EndInv
  <1>2. at[q] = "serving" \/ at[q] = "drop"
    BY <1>1 DEF EndInv, Listeners
  <1>3. at[q] # "serving"
    BY DEF OneAtATime
  <1>4. at[q] # "drop"
    BY DEF Apart, FoundFree, AtFile
  <1>5. QED
    BY <1>2, <1>3, <1>4

\* A process leaves the file, and what is there stays as it is.
LEMMA AsideKept ==
    ASSUME EndInv, NEW p \in Procs, NEW s \in Aside, Moved(p, s, why[p]),
           socket' = socket,
           \A q \in Procs : listener'[q] = "open" => listener[q] = "open",
           \A q \in Procs \ {p} : listener'[q] = listener[q],
           listener'[p] # "open",
           heard' = heard \/ (Asked(p) /\ at[p] \in AtFile),
           at[p] \in {"serving", "gone"} => s = "gone"
    PROVE  Kept
  <1>1. Listeners'
    BY DEF EndInv, Listeners, Moved, Aside
  <1>2. Hears'
    <2>1. \A r \in Procs \ {p} : heard'[r] = heard[r] /\ at'[r] = at[r]
      BY DEF Asked, Moved
    <2>2. at'[p] \notin AtFile /\ at'[p] # "off"
      BY DEF Moved, Aside, AtFile
    <2>3. \A q \in heard'[p] : q \in Procs /\ at[q] \in {"serving", "gone"}
      BY InTypes DEF EndInv, Hears, Asked, Servers
    <2>4. \A r \in Procs : \A q \in heard[r] : q \in Procs
      BY InTypes DEF EndInv
    <2>5. \A q \in Procs : at[q] \in {"serving", "gone"} => at'[q] \in {"serving", "gone"} /\ (at'[q] = "serving" => at[q] = "serving")
      <3>1. at[p] \in {"serving", "gone"} => s = "gone"
        OBVIOUS
      <3>2. QED
        BY <3>1 DEF Moved, Aside
    <2>6. QED
      BY <2>1, <2>2, <2>3, <2>4, <2>5 DEF EndInv, Hears
  <1>4. ASSUME Apart, OneAtATime, Apart' PROVE OneAtATime'
    BY <1>4 DEF OneAtATime, Moved, FoundFree, Aside, AtFile
  <1>5. QED
    BY <1>1, <1>2, <1>4 DEF Kept

LEMMA ReachKept ==
    ASSUME EndInv, NEW p \in Procs, Reach(p)
    PROVE  Kept
  <1>1. Asked(p) /\ \A q : q \in Servers <=> q \in Procs /\ at[q] = "serving"
    BY AskedFact DEF Reach
  <1>2. /\ at[p] = "connect" /\ UNCHANGED <<socket, listener>>
        /\ \/ ~Answered /\ Moved(p, "look", why[p])
           \/ \E s \in Aside : Moved(p, s, why[p])
    <2>1. CASE ~Answered
      BY <2>1, GoesFact DEF Reach, Moved, Places, AtFile, EndInv
    <2>2. CASE Answered
      <3>1. Reports(p, "reachable")
        BY <2>2 DEF Reach
      <3>2. PICK s \in Places, w \in Purposes : Moved(p, s, w) /\ Answers(s, w, why[p], "reachable")
        BY <3>1, ReportsFact DEF EndInv
      <3>3. s \in Aside /\ w = why[p]
        BY <3>2 DEF Answers, Aside
      <3>4. QED
        BY <3>2, <3>3 DEF Reach
    <2>3. QED
      BY <2>1, <2>2
  <1>3. CASE \E s \in Aside : Moved(p, s, why[p])
    <2>1. PICK s \in Aside : Moved(p, s, why[p])
      BY <1>3
    <2>2. listener[p] # "open"
      BY <1>2 DEF EndInv, Listeners
    <2>3. QED
      BY <1>1, <1>2, <2>1, <2>2, AsideKept DEF AtFile
  <1>4. CASE ~Answered /\ Moved(p, "look", why[p])
    <2>1. Listeners'
      BY <1>2, <1>4 DEF EndInv, Listeners, Moved
    <2>2. Hears'
      BY <1>1, <1>2, <1>4, InTypes, UnansweredFact DEF EndInv, Hears, Moved, AtFile, Asked
    <2>3. ASSUME Apart, OneAtATime, Apart' PROVE OneAtATime'
      <3>1. \A q \in Procs : at[q] # "serving"
        BY <1>4, <2>3, UnansweredFact
      <3>2. why[p] \in Probes
        BY <1>2, <2>3 DEF OneAtATime
      <3>3. QED
        BY <1>2, <1>4, <2>3, <3>1, <3>2 DEF OneAtATime, Moved, FoundFree, AtFile, Probes, Runs
    <2>4. QED
      BY <2>1, <2>2, <2>3 DEF Kept
  <1>5. QED
    BY <1>2, <1>3, <1>4

\* A process that found the name free, or the file in the way, goes on.
LEMMA ReportKept ==
    ASSUME EndInv, NEW p \in Procs, NEW status \in {"free", "occupied"}, Reports(p, status),
           at[p] \in {"bind", "unlink", "remove"}, UNCHANGED <<listener, heard>>,
           socket' = socket \/ (socket' = NoFile /\ at[p] # "bind")
    PROVE  Kept
  <1>1. PICK s \in Places, w \in Purposes : Moved(p, s, w) /\ Answers(s, w, why[p], status)
    BY ReportsFact DEF EndInv
  <1>2. \/ s = "bind" /\ w = "serve" /\ why[p] = "start"
        \/ s = "connect" /\ w = "spawn"
        \/ s = "alone" /\ why[p] = "lost"
        \/ s \in Aside /\ w = why[p]
    BY <1>1 DEF Answers, Aside
  <1>3. Listeners'
    BY <1>1, <1>2 DEF EndInv, Listeners, Moved, Aside
  <1>4. Hears'
    BY <1>1, <1>2, InTypes, EndpointAssumption DEF EndInv, Hears, Moved, AtFile, Aside
  <1>5. ASSUME Apart, OneAtATime, Apart' PROVE OneAtATime'
    <2>1. at[p] \in AtFile /\ why[p] # "lost"
      BY <1>5 DEF OneAtATime, AtFile
    <2>2. s # "alone"
      BY <1>2, <2>1 DEF Aside
    <2>3. \A q \in Procs \ {p} : at[q] \notin AtFile
      BY <1>5, <2>1 DEF Apart
    <2>4. socket' # socket => \A q \in Procs : at[q] # "serving"
      BY <1>5 DEF OneAtATime, FoundFree
    <2>5. s = "bind" => \A q \in Procs : at[q] # "serving"
      BY <1>2, <1>5 DEF OneAtATime, FoundFree, Aside, Probes
    <2>6. QED
      BY <1>1, <1>2, <1>5, <2>2, <2>3, <2>4, <2>5
         DEF OneAtATime, Moved, FoundFree, AtFile, Aside, Probes, Runs
  <1>6. QED
    BY <1>3, <1>4, <1>5 DEF Kept


LEMMA ListenersFact ==
    ASSUME EndTypeOK, NEW p \in Procs, NEW l, listener' = [listener EXCEPT ![p] = l]
    PROVE  listener'[p] = l /\ \A q \in Procs \ {p} : listener'[q] = listener[q]
  BY DEF EndTypeOK

LEMMA BindKept ==
    ASSUME EndInv, NEW p \in Procs, Bind(p)
    PROVE  Kept
  <1> USE DEF EndInv
  <1>1. at[p] = "bind" /\ heard' = heard
    BY DEF Bind, Quietly
  <1>2. CASE socket = NoFile
    <2>1. socket' = p /\ Moved(p, "listen", why[p]) /\ listener'[p] = "bound"
          /\ \A q \in Procs \ {p} : listener'[q] = listener[q]
      <3>1. socket' = p /\ listener' = [listener EXCEPT ![p] = "bound"] /\ Goes(p, "listen")
        BY <1>1, <1>2 DEF Bind
      <3>2. "listen" \in Places
        BY DEF Places, AtFile
      <3>3. QED
        BY <3>1, <3>2, ListenersFact, GoesFact DEF Moved
    <2>2. Listeners'
      BY <1>1, <2>1 DEF Listeners, Moved
    <2>3. Hears'
      BY <1>1, <2>1, InTypes DEF Hears, Moved, AtFile
    <2>4. ASSUME Apart, OneAtATime, Apart' PROVE OneAtATime'
      <3>1. \A q \in Procs : at[q] # "serving"
        BY <1>2, <2>4, EndpointAssumption DEF OneAtATime
      <3>2. \A q \in Procs \ {p} : at[q] \notin AtFile
        BY <1>1, <2>4 DEF Apart, AtFile
      <3>3. QED
        BY <1>1, <2>1, <2>4, <3>1, <3>2, EndpointAssumption DEF OneAtATime, Moved, FoundFree, AtFile
    <2>5. QED
      BY <2>2, <2>3, <2>4 DEF Kept
  <1>3. CASE socket # NoFile
    <2>1. /\ UNCHANGED <<socket, listener>>
          /\ \/ why[p] = "serve" /\ Moved(p, "look", why[p])
             \/ why[p] = "again" /\ RunFails(p)
             \/ why[p] \in Probes /\ Moved(p, "recheck", why[p])
             \/ Reports(p, "occupied")
      BY <1>3, InTypes, GoesFact DEF Bind, Moved, Places, Purposes, AtFile, Runs, Probes
    <2>2. CASE Reports(p, "occupied")
      BY <1>1, <2>1, <2>2, ReportKept
    <2>3. CASE why[p] = "again" /\ RunFails(p)
      <3>1. \/ Moved(p, "connect", "lost")
            \/ Moved(p, "gone", why[p])
        BY <2>3, RunFailsFact
      <3>2. Listeners'
        BY <1>1, <2>1, <3>1 DEF Listeners, Moved
      <3>3. Hears'
        BY <1>1, <2>1, <3>1, InTypes DEF Hears, Moved, AtFile
      <3>4. ASSUME Apart, OneAtATime PROVE FALSE
        BY <1>1, <1>3, <2>3, <3>4 DEF OneAtATime
      <3>5. QED
        BY <3>2, <3>3, <3>4 DEF Kept
    <2>4. CASE (why[p] = "serve" /\ Moved(p, "look", why[p])) \/ (why[p] \in Probes /\ Moved(p, "recheck", why[p]))
      <3>1. Listeners'
        BY <1>1, <2>1, <2>4 DEF Listeners, Moved
      <3>2. Hears'
        BY <1>1, <2>1, <2>4, InTypes DEF Hears, Moved, AtFile
      <3>3. ASSUME Apart, OneAtATime, Apart' PROVE OneAtATime'
        BY <1>1, <1>3, <2>1, <2>4, <3>3 DEF OneAtATime, Moved, FoundFree, AtFile
      <3>4. QED
        BY <3>1, <3>2, <3>3 DEF Kept
    <2>5. QED
      BY <2>1, <2>2, <2>3, <2>4
  <1>4. QED
    BY <1>2, <1>3

LEMMA ListenKept ==
    ASSUME EndInv, NEW p \in Procs, Listen(p)
    PROVE  Kept
  <1> USE DEF EndInv
  <1>1. /\ at[p] = "listen" /\ UNCHANGED <<heard, socket>>
        /\ listener'[p] = "open" /\ \A q \in Procs \ {p} : listener'[q] = listener[q]
        /\ Moved(p, "serving", why[p]) \/ Moved(p, "drop", why[p])
    BY ListenersFact, GoesFact DEF Listen, Quietly, Moved, Places, AtFile
  <1>2. Listeners'
    BY <1>1 DEF Listeners, Moved
  <1>3. Hears'
    BY <1>1, InTypes DEF Hears, Moved, AtFile
  <1>4. ASSUME Apart, OneAtATime, Apart' PROVE OneAtATime'
    <2>1. (\A q \in Procs : at[q] # "serving") /\ socket = p
      BY <1>1, <1>4 DEF OneAtATime, FoundFree
    <2>2. \A q \in Procs \ {p} : at[q] \notin AtFile
      BY <1>1, <1>4 DEF Apart, AtFile
    <2>3. QED
      BY <1>1, <1>4, <2>1, <2>2 DEF OneAtATime, Moved, FoundFree, AtFile
  <1>5. QED
    BY <1>2, <1>3, <1>4 DEF Kept

LEMMA DropKept ==
    ASSUME EndInv, NEW p \in Procs, DropListener(p)
    PROVE  Kept
  <1> USE DEF EndInv
  <1>1. /\ at[p] = "drop" /\ heard' = heard /\ socket' = NoFile
        /\ listener'[p] = "none" /\ \A q \in Procs \ {p} : listener'[q] = listener[q]
        /\ Moved(p, "unlink", why[p])
    BY ListenersFact, GoesFact DEF DropListener, Quietly, Moved, Places, AtFile
  <1>2. Listeners'
    BY <1>1 DEF Listeners, Moved
  <1>3. Hears'
    BY <1>1, InTypes, EndpointAssumption DEF Hears, Moved, AtFile
  <1>4. ASSUME Apart, OneAtATime, Apart' PROVE OneAtATime'
    <2>1. \A q \in Procs : at[q] # "serving"
      BY <1>1, <1>4 DEF OneAtATime, FoundFree
    <2>2. \A q \in Procs \ {p} : at[q] \notin AtFile
      BY <1>1, <1>4 DEF Apart, AtFile
    <2>3. QED
      BY <1>1, <1>4, <2>1, <2>2 DEF OneAtATime, Moved, FoundFree, AtFile
  <1>5. QED
    BY <1>2, <1>3, <1>4 DEF Kept

LEMMA UnlinkKept ==
    ASSUME EndInv, NEW p \in Procs, UnlinkProbe(p)
    PROVE  Kept
  BY ReportKept DEF UnlinkProbe, Quietly

LEMMA RecheckKept ==
    ASSUME EndInv, NEW p \in Procs, Recheck(p)
    PROVE  Kept
  <1>1. /\ Asked(p) /\ \A q : q \in Servers <=> q \in Procs /\ at[q] = "serving"
        /\ at[p] = "recheck" /\ UNCHANGED <<socket, listener>>
    BY AskedFact DEF Recheck
  <1>2. listener[p] # "open"
    BY <1>1 DEF EndInv, Listeners
  <1>3. CASE ~Answered
    <2>1. Moved(p, "remove", why[p])
      BY <1>3, GoesFact DEF Recheck, Moved, Places, AtFile, EndInv
    <2>2. Listeners'
      BY <1>1, <2>1 DEF EndInv, Listeners, Moved
    <2>3. Hears'
      BY <1>1, <1>3, <2>1, InTypes, UnansweredFact DEF EndInv, Hears, Moved, AtFile, Asked
    <2>4. ASSUME Apart, OneAtATime, Apart' PROVE OneAtATime'
      <3>1. \A q \in Procs : at[q] # "serving"
        BY <1>3, <2>4, UnansweredFact
      <3>2. QED
        BY <1>1, <2>1, <2>4, <3>1 DEF OneAtATime, Moved, FoundFree, AtFile
    <2>5. QED
      BY <2>2, <2>3, <2>4 DEF Kept
  <1>4. CASE Answered /\ why[p] \in Probes
    <2>1. PICK s \in Places, w \in Purposes : Moved(p, s, w) /\ Answers(s, w, why[p], "reachable")
      BY <1>4, ReportsFact DEF Recheck, EndInv
    <2>2. s \in Aside /\ w = why[p]
      BY <2>1 DEF Answers, Aside
    <2>3. QED
      BY <1>1, <1>2, <2>1, <2>2, AsideKept DEF AtFile
  <1>5. CASE Answered /\ why[p] \notin Probes
    <2>1. (p \in Apps /\ Moved(p, "connect", "lost")) \/ (p \notin Apps /\ Moved(p, "gone", why[p]))
      BY <1>5, RunFailsFact DEF Recheck, EndInv
    <2>2. CASE Moved(p, "gone", why[p])
      BY <1>1, <1>2, <2>2, AsideKept DEF AtFile, Aside
    <2>3. CASE p \in Apps /\ Moved(p, "connect", "lost")
      <3>1. Listeners'
        BY <1>1, <2>3 DEF EndInv, Listeners, Moved
      <3>2. Hears'
        BY <1>1, <2>3, InTypes DEF EndInv, Hears, Moved, AtFile, Asked
      <3>3. ASSUME Apart, OneAtATime PROVE FALSE
        BY <1>1, <1>5, <2>3, <3>3, AnsweredFact DEF FoundFree
      <3>4. QED
        BY <3>1, <3>2, <3>3 DEF Kept
    <2>4. QED
      BY <2>1, <2>2, <2>3
  <1>6. QED
    BY <1>3, <1>4, <1>5

LEMMA RemoveKept ==
    ASSUME EndInv, NEW p \in Procs, RemoveStale(p)
    PROVE  Kept
  <1> USE DEF EndInv
  <1>1. at[p] = "remove" /\ UNCHANGED <<listener, heard>> /\ socket' = NoFile
    BY DEF RemoveStale, Quietly
  <1>2. CASE why[p] \in Probes
    BY <1>1, <1>2, ReportKept DEF RemoveStale
  <1>3. CASE why[p] \notin Probes
    <2>1. Moved(p, "bind", "again")
      BY <1>3, TurnsFact DEF RemoveStale, Moved, Places, AtFile, Purposes, Runs
    <2>2. Listeners'
      BY <1>1, <2>1 DEF Listeners, Moved
    <2>3. Hears'
      BY <1>1, <2>1, InTypes, EndpointAssumption DEF Hears, Moved, AtFile
    <2>4. ASSUME Apart, OneAtATime, Apart' PROVE OneAtATime'
      <3>1. \A q \in Procs : at[q] # "serving"
        BY <1>1, <2>4 DEF OneAtATime, FoundFree
      <3>2. \A q \in Procs \ {p} : at[q] \notin AtFile
        BY <1>1, <2>4 DEF Apart, AtFile
      <3>3. QED
        BY <1>1, <2>1, <2>4, <3>1, <3>2 DEF OneAtATime, Moved, FoundFree, AtFile
    <2>5. QED
      BY <2>2, <2>3, <2>4 DEF Kept
  <1>4. QED
    BY <1>2, <1>3

\* A process comes to the file: to connect, or, a new daemon, to bind.
LEMMA ArriveKept ==
    ASSUME EndInv, NEW p \in Procs, NEW w \in Probes \ {"lost"}, Moved(p, "connect", w),
           at[p] \in {"off", "waiting", "occupied"}, UNCHANGED <<socket, listener, heard>>
    PROVE  Kept
  <1>1. Listeners'
    BY DEF EndInv, Listeners, Moved
  <1>2. Hears'
    BY InTypes DEF EndInv, Hears, Moved, AtFile
  <1>3. ASSUME Apart, OneAtATime, Apart' PROVE OneAtATime'
    BY <1>3 DEF OneAtATime, Moved, FoundFree, AtFile
  <1>4. QED
    BY <1>1, <1>2, <1>3 DEF Kept

LEMMA SendKept ==
    ASSUME EndInv, NEW p \in Procs, StartApp(p) \/ Send(p) \/ Poll(p)
    PROVE  Kept
  <1>1. at[p] \in {"off", "waiting", "occupied"} /\ UNCHANGED <<socket, listener, heard>>
    BY DEF StartApp, Send, Poll, Quietly
  <1>2. \/ \E w \in {"start", "first", "poll", "repoll"} : Turns(p, "connect", w)
        \/ Goes(p, "served")
    BY DEF StartApp, Send, Poll
  <1>3. CASE Goes(p, "served")
    <2>1. Moved(p, "served", why[p])
      BY <1>3, GoesFact DEF EndInv, Moved, Places
    <2>2. listener[p] # "open"
      BY <1>1 DEF EndInv, Listeners
    <2>3. QED
      BY <1>1, <2>1, <2>2, AsideKept DEF Aside
  <1>4. ASSUME NEW w \in {"start", "first", "poll", "repoll"}, Turns(p, "connect", w) PROVE Kept
    <2>1. Moved(p, "connect", w)
      BY <1>4, TurnsFact DEF EndInv, Moved, Places, AtFile, Purposes, Probes
    <2>2. QED
      BY <1>1, <2>1, ArriveKept DEF Probes
  <1>5. QED
    BY <1>2, <1>3, <1>4

LEMMA StopWaitingKept ==
    ASSUME EndInv, NEW p \in Procs, StopWaiting(p)
    PROVE  Kept
  <1>1. /\ at[p] \in {"waiting", "occupied"} /\ UNCHANGED <<socket, listener, heard>>
        /\ Goes(p, "spawning") \/ Goes(p, "gone")
    BY DEF StopWaiting, Quietly
  <1>2. \E s \in Aside : Moved(p, s, why[p])
    BY <1>1, GoesFact DEF EndInv, Moved, Places, Aside
  <1>3. listener[p] # "open"
    BY <1>1 DEF EndInv, Listeners
  <1>4. QED
    BY <1>1, <1>2, <1>3, AsideKept

LEMMA ExitKept ==
    ASSUME EndInv, NEW p \in Procs, Exit(p)
    PROVE  Kept
  <1>1. /\ UNCHANGED <<socket, heard>>
        /\ listener'[p] = "none" /\ \A q \in Procs \ {p} : listener'[q] = listener[q]
        /\ Moved(p, "gone", why[p])
    BY ListenersFact, GoesFact DEF Exit, Quietly, EndInv, Moved, Places
  <1>2. QED
    BY <1>1, AsideKept DEF Aside

\* A daemon is started by a command that found the name free, or gave up waiting.
LEMMA SpawnFact ==
    ASSUME EndInv, NEW c \in Commands, NEW d \in Daemons, Spawn(c, d)
    PROVE  /\ at[c] = "spawning" /\ at[d] = "off" /\ UNCHANGED <<socket, listener, heard>>
           /\ at'[c] = "waiting" /\ at'[d] = "bind" /\ why'[d] = "serve"
           /\ \A q \in Procs \ {c, d} : at'[q] = at[q]
           /\ \A q \in Procs \ {d} : why'[q] = why[q]
           /\ at' \in [Procs -> Places] /\ why' \in [Procs -> Purposes]
  <1>1. c \in Procs /\ d \in Procs /\ c # d
    BY EndpointAssumption DEF Procs
  <1>2. at \in [Procs -> Places] /\ why \in [Procs -> Purposes]
    BY DEF EndInv, EndTypeOK, Places, Purposes
  <1>3. {"waiting", "bind"} \subseteq Places /\ "serve" \in Purposes
    BY DEF Places, AtFile, Purposes, Runs
  <1>4. QED
    BY <1>1, <1>2, <1>3 DEF Spawn, Quietly

LEMMA SpawnKept ==
    ASSUME EndInv, NEW c \in Commands, NEW d \in Daemons, Spawn(c, d)
    PROVE  Kept
  <1>1. /\ at[c] = "spawning" /\ at[d] = "off" /\ UNCHANGED <<socket, listener, heard>>
        /\ at'[c] = "waiting" /\ at'[d] = "bind" /\ why'[d] = "serve"
        /\ \A q \in Procs \ {c, d} : at'[q] = at[q]
        /\ \A q \in Procs \ {d} : why'[q] = why[q]
    BY SpawnFact
  <1>2. c \in Procs /\ d \in Procs /\ c # d /\ d \notin Apps
    BY EndpointAssumption DEF Procs
  <1>3. Listeners'
    BY <1>1, <1>2 DEF EndInv, Listeners
  <1>4. Hears'
    BY <1>1, <1>2, InTypes DEF EndInv, Hears, AtFile
  <1>5. ASSUME Apart, OneAtATime, Apart' PROVE OneAtATime'
    BY <1>1, <1>2, <1>5 DEF OneAtATime, FoundFree, AtFile, Probes, Runs
  <1>6. QED
    BY <1>3, <1>4, <1>5 DEF Kept

EndStep(p) ==
    \/ AtFileStep(p) \/ Exit(p)
    \/ p \in Apps /\ StartApp(p)
    \/ p \in Commands /\ (Send(p) \/ Poll(p) \/ StopWaiting(p) \/ \E d \in Daemons : Spawn(p, d))

LEMMA StepKept ==
    ASSUME EndInv, NEW p \in Procs, EndStep(p)
    PROVE  Kept
  BY ReachKept, LookKept, BindKept, ListenKept, DropKept, UnlinkKept, RecheckKept, RemoveKept,
     SendKept, StopWaitingKept, ExitKept, SpawnKept DEF EndStep, AtFileStep

LEMMA StepTyped ==
    ASSUME EndTypeOK, NEW p \in Procs, EndStep(p), contended' \in BOOLEAN
    PROVE  EndTypeOK'
  <1> SUFFICES /\ at' \in [Procs -> Places] /\ why' \in [Procs -> Purposes]
               /\ socket' \in Procs \cup {NoFile}
               /\ listener' \in [Procs -> {"none", "bound", "open"}]
               /\ saw' \in [Procs -> BOOLEAN] /\ polls' \in [Commands -> 0..MaxPolls]
               /\ heard' \in [Procs -> SUBSET Procs]
    BY DEF EndTypeOK, Places, Purposes
  <1>1. at' \in [Procs -> Places] /\ why' \in [Procs -> Purposes]
    <2> DEFINE Placed == at' \in [Procs -> Places] /\ why' \in [Procs -> Purposes]
    <2>1. \A s \in Places : Goes(p, s) => Placed
      BY GoesFact
    <2>2. \A s \in Places, w \in Purposes : Turns(p, s, w) => Placed
      BY TurnsFact
    <2>3. \A s \in {"reachable", "free", "occupied"} : Reports(p, s) => Placed
      BY ReportsFact
    <2>4. RunFails(p) => Placed
      BY RunFailsFact
    <2>5. ASSUME NEW d \in Daemons, p \in Commands, Spawn(p, d) PROVE Placed
      <3>1. d \in Procs /\ at \in [Procs -> Places] /\ why \in [Procs -> Purposes]
        BY DEF Procs, EndTypeOK, Places, Purposes
      <3>2. QED
        BY <2>5, <3>1 DEF Spawn, Places, AtFile, Purposes, Runs
    <2>6. /\ AtFile \cup Aside \cup {"serving"} \subseteq Places
          /\ Probes \cup Runs \subseteq Purposes
      BY DEF Places, Purposes, Aside
    <2> HIDE DEF Placed
    <2>7. ASSUME Reach(p) \/ UnlinkProbe(p) \/ Look(p) PROVE Placed
      BY <2>1, <2>3, <2>4, <2>6, <2>7 DEF Reach, UnlinkProbe, Look, AtFile
    <2>8. ASSUME Bind(p) PROVE Placed
      BY <2>1, <2>3, <2>4, <2>6, <2>8 DEF Bind, AtFile
    <2>9. ASSUME Listen(p) \/ DropListener(p) \/ Exit(p) PROVE Placed
      BY <2>1, <2>6, <2>9 DEF Listen, DropListener, Exit, AtFile, Aside
    <2>10. ASSUME Recheck(p) \/ RemoveStale(p) PROVE Placed
      BY <2>1, <2>2, <2>3, <2>4, <2>6, <2>10 DEF Recheck, RemoveStale, AtFile, Runs
    <2>11. ASSUME StartApp(p) \/ Send(p) \/ Poll(p) \/ StopWaiting(p) PROVE Placed
      BY <2>1, <2>2, <2>6, <2>11 DEF StartApp, Send, Poll, StopWaiting, AtFile, Aside, Probes
    <2>12. Placed
      BY <2>5, <2>7, <2>8, <2>9, <2>10, <2>11 DEF EndStep, AtFileStep
    <2>13. QED
      BY <2>12 DEF Placed
  <1>2. Servers \in SUBSET Procs
    BY DEF Servers
  <1>3. ASSUME AtFileStep(p) PROVE
               /\ socket' \in Procs \cup {NoFile}
               /\ listener' \in [Procs -> {"none", "bound", "open"}]
               /\ saw' \in [Procs -> BOOLEAN] /\ polls' \in [Commands -> 0..MaxPolls]
               /\ heard' \in [Procs -> SUBSET Procs]
    <2>1. CASE Reach(p) \/ Recheck(p)
      BY <1>2, <2>1 DEF Reach, Recheck, EndTypeOK
    <2>2. CASE Look(p)
      BY <2>2 DEF Look, EndTypeOK
    <2>3. CASE Bind(p)
      BY <2>3 DEF Bind, Quietly, EndTypeOK
    <2>4. CASE Listen(p) \/ DropListener(p)
      BY <2>4 DEF Listen, DropListener, Quietly, EndTypeOK
    <2>5. CASE UnlinkProbe(p) \/ RemoveStale(p)
      BY <2>5 DEF UnlinkProbe, RemoveStale, Quietly, EndTypeOK
    <2>6. QED
      BY <1>3, <2>1, <2>2, <2>3, <2>4, <2>5 DEF AtFileStep
  <1>4. ASSUME ~AtFileStep(p) PROVE
               /\ socket' \in Procs \cup {NoFile}
               /\ listener' \in [Procs -> {"none", "bound", "open"}]
               /\ saw' \in [Procs -> BOOLEAN] /\ polls' \in [Commands -> 0..MaxPolls]
               /\ heard' \in [Procs -> SUBSET Procs]
    <2>1. CASE p \in Commands /\ Poll(p)
      <3>1. polls' = [polls EXCEPT ![p] = polls[p] + 1] /\ polls[p] < MaxPolls
        BY <2>1 DEF Poll
      <3>2. polls' \in [Commands -> 0..MaxPolls]
        BY <2>1, <3>1, EndpointAssumption DEF EndTypeOK
      <3>3. QED
        BY <2>1, <3>2 DEF Poll, EndTypeOK
    <2>2. CASE Exit(p)
      BY <2>2 DEF Exit, Quietly, EndTypeOK
    <2>3. CASE ~(p \in Commands /\ Poll(p)) /\ ~Exit(p)
      BY <1>4, <2>3 DEF EndStep, StartApp, Send, StopWaiting, Spawn, Quietly, EndTypeOK
    <2>4. QED
      BY <2>1, <2>2, <2>3
  <1>5. QED
    BY <1>1, <1>3, <1>4

LEMMA EndInvInit == EndInit => EndInv
  <1> SUFFICES ASSUME EndInit PROVE EndInv
    OBVIOUS
  <1>1. EndTypeOK
    <2>1. "off" \in Places /\ "start" \in Purposes /\ 0 \in 0..MaxPolls
      BY EndpointAssumption DEF Places, Purposes, Probes
    <2>2. at \in [Procs -> Places] /\ why \in [Procs -> Purposes] /\ polls \in [Commands -> 0..MaxPolls]
      BY <2>1 DEF EndInit
    <2>3. QED
      BY <2>2 DEF EndInit, EndTypeOK, Places, Purposes
  <1>2. Listeners /\ Hears
    BY DEF EndInit, Listeners, Hears
  <1>3. Apart /\ OneAtATime
    BY DEF EndInit, Apart, OneAtATime, FoundFree, AtFile
  <1>4. QED
    BY <1>1, <1>2, <1>3 DEF EndInv

LEMMA EndInvStep ==
    ASSUME EndInv, [EndNext]_endVars
    PROVE  EndInv'
  <1>1. CASE UNCHANGED endVars
    BY <1>1 DEF endVars, EndInv, EndTypeOK, Listeners, Hears, Apart, OneAtATime, FoundFree
  <1>2. CASE EndNext
    <2>1. PICK p \in Procs : EndStep(p)
      BY <1>2 DEF EndNext, EndStep
    <2>2. contended' = (contended \/ \E q, r \in Procs : q # r /\ {at'[q], at'[r]} \subseteq AtFile)
      BY <1>2 DEF EndNext
    <2>3. EndTypeOK'
      BY <2>1, <2>2, StepTyped DEF EndInv, EndTypeOK
    <2>4. Kept
      BY <2>1, StepKept
    <2>5. ~contended' => Apart'
      BY <2>2 DEF Apart
    <2>6. ~contended' => ~contended
      BY <2>2
    <2>7. QED
      BY <2>3, <2>4, <2>5, <2>6 DEF EndInv, Kept
  <1>3. QED
    BY <1>1, <1>2

LEMMA SocketStep ==
    ASSUME EndTypeOK, NEW p \in Procs, EndStep(p), socket' # socket, socket # NoFile
    PROVE  at[p] \in AtFile \ {"connect"} /\ \A q \in Procs \ {p} : at'[q] = at[q]
  <1>1. CASE DropListener(p)
    BY <1>1, GoesFact DEF DropListener, AtFile, Places
  <1>2. CASE UnlinkProbe(p)
    BY <1>2, ReportsFact DEF UnlinkProbe, AtFile, Moved
  <1>3. CASE RemoveStale(p)
    <2>1. \A q \in Procs \ {p} : at'[q] = at[q]
      BY <1>3, ReportsFact, TurnsFact DEF RemoveStale, AtFile, Moved, Places, Purposes, Runs
    <2>2. QED
      BY <1>3, <2>1 DEF RemoveStale, AtFile
  <1>4. QED
    BY <1>1, <1>2, <1>3 DEF EndStep, AtFileStep, Reach, Look, Bind, Listen, Recheck, Exit,
       StartApp, Send, Poll, StopWaiting, Spawn

Settled ==
    \A p, q \in Procs :
      (p # q /\ at[p] # at'[p] /\ socket = q /\ q \in Servers /\ socket' # q) => q \notin heard[p]

LEMMA SettledStep ==
    ASSUME EndInv, [EndNext]_endVars
    PROVE  Settled
  <1> SUFFICES ASSUME NEW p \in Procs, NEW q \in Procs, p # q, at[p] # at'[p], socket = q,
                      q \in Servers, socket' # q, q \in heard[p]
               PROVE  FALSE
    BY DEF Settled
  <1>1. PICK x \in Procs : EndStep(x)
    BY DEF endVars, EndNext, EndStep
  <1>2. at[x] \in AtFile \ {"connect"} /\ \A r \in Procs \ {x} : at'[r] = at[r]
    BY <1>1, SocketStep, EndpointAssumption DEF EndInv
  <1>3. p = x
    BY <1>2
  <1>4. QED
    BY <1>2, <1>3 DEF EndInv, Hears, Servers

\* "Never replace a live socket" (ipc/socket.rs), for any number of applications, daemons
\* and commands: whoever takes the socket file away from a server looked for one before
\* that server was listening; and as long as no two processes are at the file at
\* once, whoever serves has the file, and the application is never left without.
THEOREM TheFileLeadsToOneServer == EndSpec => OneServer
  <1>1. EndInit => EndInv
    BY EndInvInit
  <1>2. EndInv /\ [EndNext]_endVars => EndInv'
    BY EndInvStep
  <1>3. EndInv' => SingleWinner'
    BY DEF EndInv, OneAtATime, SingleWinner
  <1>4. EndInv /\ [EndNext]_endVars => Settled
    BY SettledStep
  <1>5. QED
    BY <1>1, <1>2, <1>3, <1>4, PTL DEF EndSpec, OneServer, SettledServerStays, Settled

\* The socket file, its listeners and every process keep their types: a file is of a process, and
\* a command asks no oftener than it may.
THEOREM EndpointTypes == EndSpec => []EndTypeOK
  <1>1. EndInit => EndInv
    BY EndInvInit
  <1>2. EndInv /\ [EndNext]_endVars => EndInv'
    BY EndInvStep
  <1>3. EndInv => EndTypeOK
    BY DEF EndInv
  <1>4. QED
    BY <1>1, <1>2, <1>3, PTL DEF EndSpec

-----------------------------------------------------------------------------
(* CommandLine. *)

\* The fields of a command that has begun, and what its stage says of them.
AtNumbers == {"empty", "write"}
InHand == {"use", "get", "add", "stat", "read", "replace", "pwd", "prompt", "return", "forget", "name"}
Stages == AtNumbers \cup InHand \cup {"find", "create", "list", "each", "over"}

IsData(d) ==
    /\ d = [next |-> d.next, of |-> d.of] /\ d.next \in Nat \ {0}
    /\ DOMAIN d.of \subseteq 1..(d.next - 1) /\ \A n \in DOMAIN d.of : d.of[n] \in Sids
IsText(t) ==
    t = [edits |-> t.edits, whole |-> t.whole, long |-> t.long] /\ t.edits \subseteq Jobs /\ {t.whole, t.long} \subseteq BOOLEAN

Fields(r) ==
    /\ {"stage", "kind", "sid", "own", "end", "lost"} \subseteq DOMAIN r
    /\ r.stage \in Stages /\ r.sid \in Sids \cup {None} /\ r.own \in BOOLEAN /\ r.lost \in BOOLEAN
JobFits(r) ==
    /\ Fields(r)
    /\ r.own => r.kind \in Leasing /\ r.sid \in Sids
    /\ r.stage \in {"find", "create"} => r.kind \in Leasing \cup {"ssh"} /\ ~r.own
    /\ r.stage \in InHand => r.sid \in Sids
    /\ r.stage = "name" => r.kind = "ssh"
    /\ r.stage \in {"return", "forget"} => r.own \/ r.kind = "kill"
    /\ r.stage \in {"list", "each"} => r.kind = "killall"
    /\ r.stage = "each" => "rest" \in DOMAIN r
    /\ r.stage \in AtNumbers =>
         /\ "data" \in DOMAIN r /\ IsData(r.data)
         /\ r.kind = "ssh" => r.sid \in Sids /\ r.data.next > 1 /\ r.data.next - 1 \in DOMAIN r.data.of
                              /\ r.data.of[r.data.next - 1] = r.sid
    /\ r.stage = "replace" => {"saw", "all"} \subseteq DOMAIN r /\ r.saw \subseteq Jobs /\ r.all \in BOOLEAN
    /\ r.stage = "prompt" =>
         /\ {"left", "home", "here", "at", "meant"} \subseteq DOMAIN r /\ r.left \in Nat
         /\ r.home \in Root..Deepest /\ r.here \in Root..Deepest /\ r.at = r.meant

JobsFit == DOMAIN job = Jobs /\ \A j \in Jobs : job[j] = Waiting \/ JobFits(job[j])

WorldFits ==
    /\ daemon \in [Sids -> {"none", "up", "down", "gone"}]
    /\ \A s \in Sids : s > 1 /\ daemon[s] # "none" => daemon[s - 1] # "none"
    /\ context \in [Sids -> {None} \cup Root..Deepest]
    /\ store = Torn \/ IsData(store)
    /\ text = Absent \/ IsText(text)
    /\ past = [crossed |-> past.crossed, anew |-> past.anew, edited |-> past.edited]
    /\ past.edited \subseteq Jobs /\ {past.crossed, past.anew} \subseteq BOOLEAN
    /\ maker \in [Sids -> Jobs \cup {App}] /\ told \subseteq Nat \X Sids /\ clash \in BOOLEAN /\ stray \subseteq Jobs

\* Who owns a session has made it, and keeps it until it has killed it; nobody else ends it.
HasBegun(j) == job[j].stage # "waiting"
LeasesFit ==
    /\ \A j \in Jobs : HasBegun(j) /\ job[j].own =>
         /\ maker[job[j].sid] = j /\ daemon[job[j].sid] # "none"
         /\ job[j].stage \in AtNumbers \cup {"forget", "over"} /\ ~job[j].lost => daemon[job[j].sid] = "gone"
    /\ (\A j \in Jobs : HasBegun(j) => job[j].kind \notin {"kill", "killall"}) =>
         \A s \in Sids : daemon[s] = "gone" =>
           maker[s] \in Jobs /\ HasBegun(maker[s]) /\ job[maker[s]].own /\ job[maker[s]].sid = s

\* Numbers that users were told are behind the next one, and true, where they are still in use.
Agrees(d) == \A a \in told : a[1] < d.next /\ (a[1] \in DOMAIN d.of => d.of[a[1]] = a[2])
NumbersFit ==
    ~clash =>
      /\ store = Torn \/ Agrees(store)
      /\ store = Torn => \E j \in Jobs : job[j].stage = "write"
      /\ \A j \in Jobs : job[j].stage \in AtNumbers =>
           Agrees(job[j].data) /\ \A i \in Jobs \ {j} : job[i].stage \notin AtNumbers

PlacesFit ==
    \A j \in Jobs \ stray :
      /\ job[j].stage = "pwd" => context[job[j].sid] = Home
      /\ job[j].stage = "prompt" => job[j].home = Home

TextsFit ==
    ~past.anew =>
      /\ text # Absent => text.whole /\ (~past.crossed => past.edited \subseteq text.edits)
      /\ \A j \in Jobs : job[j].stage = "replace" => job[j].all /\ (~past.crossed => past.edited \subseteq job[j].saw)

LeaseInv == JobsFit /\ WorldFits /\ LeasesFit /\ NumbersFit /\ PlacesFit /\ TextsFit

-----------------------------------------------------------------------------
LEMMA WaitingFact == \A r : r = Waiting => r.stage = "waiting"
  BY DEF Waiting

\* A command that has begun is not waiting.
LEMMA HasBegunFact ==
    ASSUME JobsFit, NEW j \in Jobs PROVE HasBegun(j) <=> job[j] # Waiting
  BY WaitingFact DEF JobsFit, JobFits, Fields, Stages, AtNumbers, InHand, HasBegun

LEMMA TornFact == /\ ~IsData(Torn) /\ IsData(Empty)
                  /\ \A d : IsData(d) => d # Torn
  BY DEF IsData, Torn, Empty, Sids

LEMMA LeaseInvInit == LeaseInit => LeaseInv
  <1> SUFFICES ASSUME LeaseInit PROVE LeaseInv
    OBVIOUS
  <1>1. /\ job = [j \in Jobs |-> Waiting] /\ context = [s \in Sids |-> None] /\ maker = [s \in Sids |-> App]
        /\ past = [crossed |-> FALSE, anew |-> FALSE, edited |-> {}] /\ clash = FALSE /\ stray = {}
    BY DEF LeaseInit
  <1>2. 1 \in Sids /\ \A s \in Sids : s \in Nat
    BY LeaseAssumption DEF Sids
  <1>3. daemon \in [Sids -> {"none", "up"}] /\ \A s \in Sids : s > 1 => daemon[s] = "none"
    BY DEF LeaseInit
  <1>4. text = Absent \/ (IsText(text) /\ text.whole)
    <2>1. ASSUME NEW long \in BOOLEAN, NEW t, t = [edits |-> {}, whole |-> TRUE, long |-> long]
          PROVE  IsText(t) /\ t.whole
      BY <2>1 DEF IsText
    <2>2. QED
      BY <2>1 DEF LeaseInit
  <1>5. IsData(store) /\ Agrees(store) /\ told \subseteq Nat \X Sids
    <2>1. CASE store = Empty /\ told = {}
      BY <2>1, TornFact DEF Agrees
    <2>2. CASE store = [next |-> 2, of |-> [n \in {1} |-> 1]] /\ told = {<<1, 1>>}
      BY <1>2, <2>2 DEF IsData, Agrees
    <2>3. QED
      BY <2>1, <2>2 DEF LeaseInit
  <1>6. \A j \in Jobs : job[j] = Waiting /\ ~HasBegun(j) /\ job[j].stage = "waiting"
    BY <1>1, WaitingFact DEF HasBegun
  <1>7. JobsFit
    BY <1>1, <1>6 DEF JobsFit
  <1>8. WorldFits
    BY <1>1, <1>2, <1>3, <1>4, <1>5, LeaseAssumption DEF WorldFits, Root, Deepest, Sids
  <1>9. LeasesFit
    BY <1>3, <1>6 DEF LeasesFit
  <1>10. NumbersFit /\ PlacesFit /\ TextsFit
    BY <1>1, <1>4, <1>5, <1>6, TornFact DEF NumbersFit, PlacesFit, TextsFit, AtNumbers
  <1>11. QED
    BY <1>7, <1>8, <1>9, <1>10 DEF LeaseInv

\* A command becomes r. The parts of the invariant that this leaves alone:
LEMMA JobMoves ==
    ASSUME LeaseInv, NEW j \in Jobs, NEW r, JobFits(r), job' = [job EXCEPT ![j] = r]
    PROVE  /\ JobsFit' /\ job'[j] = r /\ \A i \in Jobs \ {j} : job'[i] = job[i]
           /\ r.stage # "waiting"
  BY DEF LeaseInv, JobsFit, JobFits, Fields, Stages, AtNumbers, InHand

LEMMA LeasesRest ==
    ASSUME LeaseInv, NEW j \in Jobs, NEW r, JobFits(r), job' = [job EXCEPT ![j] = r],
           UNCHANGED <<daemon, maker>>,
           \/ job[j] = Waiting /\ ~r.own
           \/ /\ job[j] # Waiting /\ r.own = job[j].own /\ (r.sid = job[j].sid \/ ~r.own)
              /\ r.kind = job[j].kind
              /\ r.own /\ r.stage \in AtNumbers \cup {"forget", "over"} /\ ~r.lost => daemon[r.sid] = "gone"
    PROVE  LeasesFit'
  <1>1. JobsFit' /\ job'[j] = r /\ (\A i \in Jobs \ {j} : job'[i] = job[i]) /\ r.stage # "waiting"
    BY JobMoves
  <1>2. \A i \in Jobs \ {j} : HasBegun(i)' <=> HasBegun(i)
    BY <1>1 DEF HasBegun
  <1>3. HasBegun(j)' /\ (HasBegun(j) <=> job[j] # Waiting)
    BY <1>1, HasBegunFact DEF HasBegun, LeaseInv
  <1>4. \A i \in Jobs : HasBegun(i)' /\ job'[i].own =>
          /\ maker[job'[i].sid] = i /\ daemon[job'[i].sid] # "none"
          /\ job'[i].stage \in AtNumbers \cup {"forget", "over"} /\ ~job'[i].lost => daemon[job'[i].sid] = "gone"
    <2>1. ASSUME NEW i \in Jobs \ {j}
          PROVE  HasBegun(i)' /\ job'[i].own =>
                   /\ maker[job'[i].sid] = i /\ daemon[job'[i].sid] # "none"
                   /\ job'[i].stage \in AtNumbers \cup {"forget", "over"} /\ ~job'[i].lost => daemon[job'[i].sid] = "gone"
      BY <1>1, <1>2 DEF LeaseInv, LeasesFit
    <2>2. r.own => /\ maker[r.sid] = j /\ daemon[r.sid] # "none"
                   /\ r.stage \in AtNumbers \cup {"forget", "over"} /\ ~r.lost => daemon[r.sid] = "gone"
      BY <1>3 DEF LeaseInv, LeasesFit
    <2>3. QED
      BY <1>1, <2>1, <2>2
  <1>5. (\A i \in Jobs : HasBegun(i)' => job'[i].kind \notin {"kill", "killall"}) =>
          \A s \in Sids : daemon[s] = "gone" =>
            maker[s] \in Jobs /\ HasBegun(maker[s])' /\ job'[maker[s]].own /\ job'[maker[s]].sid = s
    <2> SUFFICES ASSUME \A i \in Jobs : HasBegun(i)' => job'[i].kind \notin {"kill", "killall"},
                        NEW s \in Sids, daemon[s] = "gone"
                 PROVE  maker[s] \in Jobs /\ HasBegun(maker[s])' /\ job'[maker[s]].own /\ job'[maker[s]].sid = s
      OBVIOUS
    <2>1. \A i \in Jobs : HasBegun(i) => job[i].kind \notin {"kill", "killall"}
      BY <1>1, <1>2, <1>3
    <2>2. maker[s] \in Jobs /\ HasBegun(maker[s]) /\ job[maker[s]].own /\ job[maker[s]].sid = s
      BY <2>1 DEF LeaseInv, LeasesFit
    <2>3. QED
      BY <1>1, <1>2, <1>3, <2>2
  <1>6. QED
    BY <1>4, <1>5 DEF LeasesFit

LEMMA NumbersRest ==
    ASSUME LeaseInv, NEW j \in Jobs, NEW r, JobFits(r), job' = [job EXCEPT ![j] = r],
           UNCHANGED <<store, told>>, clash' = clash \/ clash' = TRUE,
           job[j].stage \notin AtNumbers, r.stage \notin AtNumbers
    PROVE  NumbersFit'
  <1>1. job'[j] = r /\ (\A i \in Jobs \ {j} : job'[i] = job[i])
    BY JobMoves
  <1>2. \A i \in Jobs : (job'[i].stage \in AtNumbers <=> job[i].stage \in AtNumbers)
                        /\ (job[i].stage \in AtNumbers => job'[i] = job[i])
    BY <1>1
  <1>3. Agrees(store)' <=> Agrees(store)
    BY DEF Agrees
  <1>4. \A i \in Jobs : job[i].stage \in AtNumbers => (Agrees(job[i].data)' <=> Agrees(job[i].data))
    BY <1>2 DEF Agrees
  <1>5. QED
    BY <1>1, <1>2, <1>3, <1>4 DEF LeaseInv, NumbersFit, AtNumbers

LEMMA PlacesRest ==
    ASSUME LeaseInv, NEW j \in Jobs, NEW r, JobFits(r), job' = [job EXCEPT ![j] = r],
           UNCHANGED <<context, stray>>, r.stage \notin {"pwd", "prompt"}
    PROVE  PlacesFit'
  BY JobMoves DEF LeaseInv, PlacesFit

LEMMA TextsRest ==
    ASSUME LeaseInv, NEW j \in Jobs, NEW r, JobFits(r), job' = [job EXCEPT ![j] = r],
           UNCHANGED <<text, past>>, r.stage # "replace"
    PROVE  TextsFit'
  BY JobMoves DEF LeaseInv, TextsFit

-----------------------------------------------------------------------------
LEMMA BeginKeeps ==
    ASSUME LeaseInv, NEW j \in Jobs, BeginOnServer(j) \/ BeginOnSession(j) \/ BeginKillAll(j)
    PROVE  LeaseInv'
  <1> DEFINE First(work, stage, sid) == [stage |-> stage, kind |-> work, sid |-> sid,
                                         own |-> FALSE, end |-> "ok", lost |-> FALSE]
  <1>1. ASSUME NEW work, NEW stage \in {"find", "create", "use", "return", "list"}, NEW sid \in Sids \cup {None},
               BeginJob(j, work, stage, sid), clash' = clash \/ clash' = TRUE,
               stage \in {"find", "create"} => work \in Leasing \cup {"ssh"},
               stage \in {"use", "return"} => sid \in Sids,
               stage = "return" => work = "kill", stage = "list" => work = "killall"
        PROVE  LeaseInv'
    <2> DEFINE r == First(work, stage, sid)
    <2>1. job[j] = Waiting /\ job' = [job EXCEPT ![j] = r]
          /\ UNCHANGED <<daemon, context, maker, text, past, store, told, stray>>
      BY <1>1 DEF BeginJob, Sessions
    <2>2. JobFits(r) /\ ~r.own /\ r.stage = stage
      BY <1>1 DEF JobFits, Fields, Stages, AtNumbers, InHand
    <2>3. job[j].stage = "waiting"
      BY <2>1, WaitingFact
    <2> HIDE DEF r
    <2>4. JobsFit' /\ LeasesFit' /\ NumbersFit' /\ PlacesFit' /\ TextsFit'
      <3>1. NumbersFit'
        BY <1>1, <2>1, <2>2, <2>3, NumbersRest DEF AtNumbers
      <3>2. QED
        BY <2>1, <2>2, <3>1, JobMoves, LeasesRest, PlacesRest, TextsRest
    <2>5. WorldFits'
      BY <1>1, <2>1 DEF LeaseInv, WorldFits
    <2>6. QED
      BY <2>4, <2>5 DEF LeaseInv
  <1>2. ASSUME Clashes(j) PROVE clash' = clash \/ clash' = TRUE
    BY <1>2 DEF Clashes, LeaseInv, WorldFits
  <1>3. CASE BeginOnServer(j)
    BY <1>1, <1>3 DEF BeginOnServer
  <1>4. CASE BeginOnSession(j)
    <2> PICK work \in Leasing \cup Naming :
          LET stage == IF work = "kill" THEN "return" ELSE "use"
          IN  \/ \E a \in told : /\ Resolved(Loaded, a[1]) # None /\ Clashes(j)
                                 /\ BeginJob(j, work, stage, Resolved(Loaded, a[1]))
              \/ (\E s \in Sids : BeginJob(j, work, stage, s)) /\ UNCHANGED clash
      BY <1>4 DEF BeginOnSession
    <2> DEFINE stage == IF work = "kill" THEN "return" ELSE "use"
    <2>0. IsData(Loaded)
      BY TornFact DEF Loaded, LeaseInv, WorldFits
    <2>1. ASSUME NEW a \in told, Resolved(Loaded, a[1]) # None, Clashes(j),
                 BeginJob(j, work, stage, Resolved(Loaded, a[1]))
          PROVE  LeaseInv'
      <3>1. Resolved(Loaded, a[1]) \in Sids
        BY <2>0, <2>1 DEF Resolved, IsData
      <3>2. QED
        BY <1>1, <1>2, <2>1, <3>1
    <2>2. ASSUME NEW s \in Sids, BeginJob(j, work, stage, s), UNCHANGED clash PROVE LeaseInv'
      BY <1>1, <2>2
    <2>3. QED
      BY <2>1, <2>2
  <1>5. CASE BeginKillAll(j)
    BY <1>1, <1>5 DEF BeginKillAll
  <1>6. QED
    BY <1>3, <1>4, <1>5

-----------------------------------------------------------------------------
\* What a command has become keeps who it is, and whether it owns its session.
KeepsItself(r, q) == r.kind = q.kind /\ r.own = q.own /\ r.lost = q.lost /\ (r.sid = q.sid \/ ~q.own)

LEMMA KnownJob ==
    ASSUME LeaseInv, NEW j \in Jobs, job[j].stage # "waiting" PROVE JobFits(job[j]) /\ job[j] # Waiting /\ HasBegun(j)
  BY WaitingFact DEF LeaseInv, JobsFit, HasBegun

LEMMA EndedFits ==
    ASSUME NEW q, JobFits(q), NEW end
    PROVE  LET r == Ended(q, end) IN JobFits(r) /\ KeepsItself(r, q) /\ r.stage = "over" /\ r.sid = q.sid
  BY DEF Ended, JobFits, Fields, Stages, AtNumbers, InHand, KeepsItself

\* A command goes on, to a stage that carries nothing of its own.
Onward(r, q) ==
    /\ DOMAIN q \subseteq DOMAIN r
    /\ r.kind = q.kind /\ r.own = q.own /\ r.sid = q.sid /\ r.lost = q.lost

LEMMA StepFits ==
    ASSUME NEW q, JobFits(q), NEW r, Onward(r, q), q.sid \in Sids,
           \/ r.stage \in {"use", "get", "add", "stat", "read", "pwd"}
           \/ r.stage \in {"return", "forget"} /\ (q.own \/ q.kind = "kill")
    PROVE  JobFits(r) /\ KeepsItself(r, q)
  BY DEF JobFits, Fields, Stages, AtNumbers, InHand, KeepsItself, Onward

LEMMA OneReturns ==
    ASSUME LeaseInv, NEW j \in Jobs, job[j].stage # "waiting", job[j].sid \in Sids, NEW end, Return(j, end)
    PROVE  \E r : /\ JobFits(r) /\ KeepsItself(r, job[j]) /\ job' = [job EXCEPT ![j] = r]
                  /\ r.sid = job[j].sid /\ r.stage = (IF job[j].own THEN "return" ELSE "over")
  <1>1. JobFits(job[j]) /\ job[j] # Waiting
    BY KnownJob
  <1>2. CASE job[j].own
    <2> DEFINE r == With([stage |-> "return", end |-> end], job[j])
    <2>1. job' = [job EXCEPT ![j] = r]
      BY <1>2 DEF Return, Step
    <2>2. Onward(r, job[j]) /\ r.stage = "return"
      BY <1>1 DEF With, JobFits, Fields, Onward
    <2> HIDE DEF r
    <2>3. JobFits(r) /\ KeepsItself(r, job[j]) /\ r.sid = job[j].sid
      BY <1>1, <1>2, <2>2, StepFits DEF Onward
    <2>4. QED
      BY <1>2, <2>1, <2>2, <2>3
  <1>3. CASE ~job[j].own
    <2>1. job' = [job EXCEPT ![j] = Ended(job[j], end)]
      BY <1>3 DEF Return, Finish
    <2>2. QED
      BY <1>1, <1>3, <2>1, EndedFits
  <1>4. QED
    BY <1>2, <1>3

\* A step of a command that is not at the file of numbers and ends no session.
LEMMA StepKeeps ==
    ASSUME LeaseInv, NEW j \in Jobs, job[j].stage # "waiting", NEW r, JobFits(r), KeepsItself(r, job[j]),
           job' = [job EXCEPT ![j] = r], UNCHANGED <<daemon, maker, store, told, clash>>,
           job[j].stage \notin AtNumbers, r.stage \notin AtNumbers,
           r.own => r.stage \notin {"forget", "over"},
           WorldFits', PlacesFit', TextsFit'
    PROVE  LeaseInv'
  <1>1. job[j] # Waiting /\ JobFits(job[j])
    BY KnownJob
  <1>2. LeasesFit'
    BY <1>1, LeasesRest DEF KeepsItself, JobFits, Fields
  <1>3. NumbersFit'
    BY NumbersRest
  <1>4. QED
    BY <1>2, <1>3, JobMoves DEF LeaseInv

\* One that leaves directories and the file that is worked on alone, too.
LEMMA PlainStep ==
    ASSUME LeaseInv, NEW j \in Jobs, job[j].stage # "waiting", NEW r, JobFits(r), KeepsItself(r, job[j]),
           job' = [job EXCEPT ![j] = r],
           UNCHANGED <<daemon, maker, store, told, clash, context, stray, text, past>>,
           job[j].stage \notin AtNumbers, r.stage \notin AtNumbers \cup {"pwd", "prompt", "replace"},
           r.own => r.stage \notin {"forget", "over"}
    PROVE  LeaseInv'
  <1>1. WorldFits'
    BY DEF LeaseInv, WorldFits
  <1>2. PlacesFit' /\ TextsFit'
    BY PlacesRest, TextsRest
  <1>3. QED
    BY <1>1, <1>2, StepKeeps

LEMMA FindKeeps ==
    ASSUME LeaseInv, NEW j \in Jobs, FindReusable(j) PROVE LeaseInv'
  <1>1. /\ job[j].stage = "find" /\ JobFits(job[j])
        /\ UNCHANGED <<daemon, maker, store, told, clash, context, stray, text, past>>
    BY KnownJob DEF FindReusable, Sessions, File
  <1>2. ASSUME NEW s \in Sids,
               Step(j, [sid |-> s, stage |-> IF job[j].kind = "ssh" THEN "name" ELSE "use"])
        PROVE  LeaseInv'
    <2> DEFINE r == With([sid |-> s, stage |-> IF job[j].kind = "ssh" THEN "name" ELSE "use"], job[j])
    <2>1. /\ DOMAIN job[j] \subseteq DOMAIN r /\ r.sid = s /\ r.stage = IF job[j].kind = "ssh" THEN "name" ELSE "use"
          /\ r.kind = job[j].kind /\ r.own = job[j].own /\ r.lost = job[j].lost
      BY <1>1 DEF With, JobFits, Fields
    <2>2. job' = [job EXCEPT ![j] = r]
      BY <1>2 DEF Step
    <2> HIDE DEF r
    <2>3. JobFits(r) /\ KeepsItself(r, job[j])
      BY <1>1, <2>1 DEF JobFits, Fields, Stages, AtNumbers, InHand, KeepsItself, Leasing
    <2>4. QED
      BY <1>1, <2>1, <2>2, <2>3, PlainStep DEF AtNumbers, JobFits
  <1>3. CASE Goto(j, "create")
    <2> DEFINE r == With([stage |-> "create"], job[j])
    <2>1. Onward(r, job[j]) /\ r.stage = "create"
      BY <1>1 DEF With, JobFits, Fields, Onward
    <2>2. job' = [job EXCEPT ![j] = r]
      BY <1>3 DEF Goto, Step
    <2> HIDE DEF r
    <2>3. JobFits(r) /\ KeepsItself(r, job[j])
      BY <1>1, <2>1 DEF JobFits, Fields, Stages, AtNumbers, InHand, KeepsItself, Onward
    <2>4. QED
      BY <1>1, <2>1, <2>2, <2>3, PlainStep DEF AtNumbers, JobFits, KeepsItself
  <1>4. CASE Finish(j, "failed")
    <2>1. job' = [job EXCEPT ![j] = Ended(job[j], "failed")]
      BY <1>4 DEF Finish
    <2> DEFINE r == Ended(job[j], "failed")
    <2>2. JobFits(r) /\ KeepsItself(r, job[j]) /\ r.stage = "over"
      BY <1>1, EndedFits
    <2> HIDE DEF r
    <2>3. QED
      BY <1>1, <2>1, <2>2, PlainStep DEF AtNumbers, JobFits, KeepsItself, r
  <1>5. QED
    BY <1>2, <1>3, <1>4 DEF FindReusable

\* A command makes a session.
LEMMA CreateKeeps ==
    ASSUME LeaseInv, NEW j \in Jobs, Create(j) PROVE LeaseInv'
  <1>1. /\ job[j].stage = "create" /\ JobFits(job[j]) /\ job[j] # Waiting /\ HasBegun(j)
        /\ UNCHANGED <<store, told, clash, context, stray, text, past>>
    BY KnownJob DEF Create, File, Text
  <1>2. job[j].kind \in Leasing \cup {"ssh"} /\ ~job[j].own
    BY <1>1 DEF JobFits
  <1>3. /\ JobFits(Ended(job[j], "failed")) /\ KeepsItself(Ended(job[j], "failed"), job[j])
        /\ Ended(job[j], "failed").stage = "over"
    BY <1>1, EndedFits
  <1>4. CASE Finish(j, "failed") /\ UNCHANGED <<daemon, maker>>
    BY <1>1, <1>2, <1>3, <1>4, PlainStep DEF AtNumbers, Finish, KeepsItself
  <1>5. ASSUME NEW s \in Sids, daemon[s] = "none", \A k \in 1..(s - 1) : daemon[k] # "none",
               maker' = [maker EXCEPT ![s] = j], daemon' = [daemon EXCEPT ![s] = "up"],
               NEW r, JobFits(r), job' = [job EXCEPT ![j] = r], r.kind = job[j].kind, r.stage \in {"over", "name", "use"},
               r.own => r.sid = s /\ r.stage # "over"
        PROVE  LeaseInv'
    <2>1. WorldFits'
      <3>1. \A k \in Sids : k > 1 /\ daemon'[k] # "none" => daemon'[k - 1] # "none"
        BY <1>5, LeaseAssumption DEF LeaseInv, WorldFits, Sids
      <3>2. QED
        BY <1>1, <1>5, <3>1 DEF LeaseInv, WorldFits
    <2>2. JobsFit' /\ job'[j] = r /\ (\A i \in Jobs \ {j} : job'[i] = job[i]) /\ HasBegun(j)'
      BY <1>5, JobMoves DEF HasBegun
    <2>3. NumbersFit' /\ PlacesFit' /\ TextsFit'
      BY <1>1, <1>5, NumbersRest, PlacesRest, TextsRest DEF AtNumbers
    <2>4. \A k \in Sids \ {s} : maker'[k] = maker[k] /\ daemon'[k] = daemon[k]
      BY <1>5 DEF LeaseInv, WorldFits
    <2>5. maker'[s] = j /\ daemon'[s] = "up"
      BY <1>5 DEF LeaseInv, WorldFits
    <2>6. ASSUME NEW i \in Jobs, HasBegun(i)', job'[i].own
          PROVE  /\ maker'[job'[i].sid] = i /\ daemon'[job'[i].sid] # "none"
                 /\ job'[i].stage \in AtNumbers \cup {"forget", "over"} /\ ~job'[i].lost => daemon'[job'[i].sid] = "gone"
      <3>1. CASE i = j
        BY <1>5, <2>2, <2>5, <2>6, <3>1 DEF AtNumbers
      <3>2. CASE i # j
        <4>1. HasBegun(i) /\ job'[i] = job[i] /\ job[i].own
          BY <2>2, <2>6, <3>2 DEF HasBegun
        <4>2. job[i].sid \in Sids
          BY <4>1, HasBegunFact DEF LeaseInv, JobsFit, JobFits
        <4>3. job[i].sid # s
          BY <1>5, <4>1 DEF LeaseInv, LeasesFit
        <4>4. QED
          BY <2>4, <4>1, <4>2, <4>3 DEF LeaseInv, LeasesFit
      <3>3. QED
        BY <3>1, <3>2
    <2>7. ASSUME \A i \in Jobs : HasBegun(i)' => job'[i].kind \notin {"kill", "killall"},
                 NEW k \in Sids, daemon'[k] = "gone"
          PROVE  maker'[k] \in Jobs /\ HasBegun(maker[k])' /\ job'[maker'[k]].own /\ job'[maker'[k]].sid = k
      <3>1. \A i \in Jobs : HasBegun(i) => job[i].kind \notin {"kill", "killall"}
        BY <1>2, <2>2, <2>7 DEF HasBegun, Leasing
      <3>2. k # s /\ daemon[k] = "gone" /\ maker'[k] = maker[k]
        BY <2>4, <2>5, <2>7
      <3>3. maker[k] \in Jobs /\ HasBegun(maker[k]) /\ job[maker[k]].own /\ job[maker[k]].sid = k
        BY <3>1, <3>2 DEF LeaseInv, LeasesFit
      <3>4. QED
        BY <1>2, <2>2, <3>2, <3>3 DEF HasBegun
    <2>8. LeasesFit'
      BY <2>6, <2>7 DEF LeasesFit
    <2>9. QED
      BY <2>1, <2>2, <2>3, <2>8 DEF LeaseInv
  <1>6. ASSUME NEW s \in Sids, daemon[s] = "none", \A k \in 1..(s - 1) : daemon[k] # "none",
               maker' = [maker EXCEPT ![s] = j], daemon' = [daemon EXCEPT ![s] = "up"],
               \/ Finish(j, "failed")
               \/ Step(j, [sid |-> s, own |-> job[j].kind # "ssh",
                           stage |-> IF job[j].kind = "ssh" THEN "name" ELSE "use"])
        PROVE  LeaseInv'
    <2>1. CASE Finish(j, "failed")
      BY <1>2, <1>3, <1>5, <1>6, <2>1 DEF Finish, KeepsItself
    <2>2. CASE Step(j, [sid |-> s, own |-> job[j].kind # "ssh",
                        stage |-> IF job[j].kind = "ssh" THEN "name" ELSE "use"])
      <3> DEFINE r == With([sid |-> s, own |-> job[j].kind # "ssh",
                            stage |-> IF job[j].kind = "ssh" THEN "name" ELSE "use"], job[j])
      <3>1. /\ DOMAIN job[j] \subseteq DOMAIN r /\ r.sid = s /\ r.kind = job[j].kind /\ r.lost = job[j].lost
            /\ r.own = (job[j].kind # "ssh") /\ r.stage = IF job[j].kind = "ssh" THEN "name" ELSE "use"
        BY <1>1 DEF With, JobFits, Fields
      <3>2. job' = [job EXCEPT ![j] = r]
        BY <2>2 DEF Step
      <3> HIDE DEF r
      <3>3. JobFits(r)
        BY <1>1, <1>2, <3>1 DEF JobFits, Fields, Stages, AtNumbers, InHand, Leasing
      <3>4. QED
        BY <1>5, <1>6, <3>1, <3>2, <3>3
    <2>3. QED
      BY <1>6, <2>1, <2>2
  <1>7. QED
    BY <1>4, <1>6 DEF Create

\* A command ends sessions: its own, or those that its user names.
LEMMA LeasesMove ==
    ASSUME LeaseInv, NEW j \in Jobs, job[j].stage # "waiting", NEW r, JobFits(r), job' = [job EXCEPT ![j] = r],
           r.kind = job[j].kind, r.own = job[j].own, r.own => r.sid = job[j].sid,
           UNCHANGED maker,
           \A s \in Sids : /\ daemon[s] # "none" => daemon'[s] # "none"
                           /\ daemon[s] = "gone" => daemon'[s] = "gone"
                           /\ daemon'[s] = "gone" /\ daemon[s] # "gone" =>
                                r.kind \in {"kill", "killall"} \/ (r.own /\ r.sid = s),
           r.own /\ r.stage \in AtNumbers \cup {"forget", "over"} /\ ~r.lost => daemon'[r.sid] = "gone"
    PROVE  LeasesFit'
  <1>0. job'[j] = r /\ (\A i \in Jobs \ {j} : job'[i] = job[i]) /\ r.stage # "waiting"
    <2>1. DOMAIN job = Jobs
      BY DEF LeaseInv, JobsFit
    <2>2. job'[j] = r /\ \A i \in Jobs \ {j} : job'[i] = job[i]
      BY <2>1
    <2>3. r.stage # "waiting"
      BY DEF JobFits, Fields, Stages, AtNumbers, InHand
    <2>4. QED
      BY <2>2, <2>3
  <1>1. job'[j] = r /\ (\A i \in Jobs \ {j} : job'[i] = job[i]) /\ HasBegun(j)' /\ HasBegun(j)
    BY <1>0 DEF HasBegun
  <1>2. \A i \in Jobs : (HasBegun(i)' <=> HasBegun(i)) /\ job'[i].own = job[i].own /\ job'[i].kind = job[i].kind
                        /\ (job[i].own => job'[i].sid = job[i].sid)
    BY <1>1 DEF HasBegun
  <1>3. \A i \in Jobs : HasBegun(i) /\ job[i].own => job[i].sid \in Sids
    BY HasBegunFact DEF LeaseInv, JobsFit, JobFits
  <1>4. ASSUME NEW i \in Jobs, HasBegun(i)', job'[i].own
        PROVE  /\ maker'[job'[i].sid] = i /\ daemon'[job'[i].sid] # "none"
               /\ job'[i].stage \in AtNumbers \cup {"forget", "over"} /\ ~job'[i].lost => daemon'[job'[i].sid] = "gone"
    <2>1. /\ maker[job[i].sid] = i /\ daemon[job[i].sid] # "none"
          /\ job[i].stage \in AtNumbers \cup {"forget", "over"} /\ ~job[i].lost => daemon[job[i].sid] = "gone"
      BY <1>2, <1>4 DEF LeaseInv, LeasesFit
    <2>2. job[i].sid \in Sids /\ job'[i].sid = job[i].sid
      BY <1>2, <1>3, <1>4
    <2>3. daemon'[job'[i].sid] # "none" /\ (daemon[job[i].sid] = "gone" => daemon'[job'[i].sid] = "gone")
      BY <2>1, <2>2
    <2>4. CASE i = j
      BY <1>1, <1>4, <2>1, <2>2, <2>3, <2>4
    <2>5. CASE i # j
      BY <1>1, <1>4, <2>1, <2>2, <2>3, <2>5
    <2>6. QED
      BY <2>4, <2>5
  <1>5. ASSUME \A i \in Jobs : HasBegun(i)' => job'[i].kind \notin {"kill", "killall"},
               NEW s \in Sids, daemon'[s] = "gone"
        PROVE  maker'[s] \in Jobs /\ HasBegun(maker[s])' /\ job'[maker'[s]].own /\ job'[maker'[s]].sid = s
    <2>1. \A i \in Jobs : HasBegun(i) => job[i].kind \notin {"kill", "killall"}
      BY <1>2, <1>5
    <2>2. CASE daemon[s] = "gone"
      <3>1. maker[s] \in Jobs /\ HasBegun(maker[s]) /\ job[maker[s]].own /\ job[maker[s]].sid = s
        BY <2>1, <2>2 DEF LeaseInv, LeasesFit
      <3>2. QED
        BY <1>2, <3>1
    <2>3. CASE daemon[s] # "gone"
      <3>1. r.own /\ r.sid = s
        BY <1>1, <1>5, <2>3
      <3>2. HasBegun(j) /\ job[j].own /\ job[j].sid = s
        BY <1>1, <3>1
      <3>3. maker[s] = j
        BY <3>2 DEF LeaseInv, LeasesFit
      <3>4. QED
        BY <1>1, <3>1, <3>3
    <2>4. QED
      BY <2>2, <2>3
  <1>6. QED
    BY <1>4, <1>5 DEF LeasesFit

LEMMA SendKillKeeps ==
    ASSUME LeaseInv, NEW j \in Jobs, SendKill(j) PROVE LeaseInv'
  <1> DEFINE s == job[j].sid
  <1>1. /\ job[j].stage = "return" /\ job[j].stage # "waiting" /\ JobFits(job[j])
        /\ UNCHANGED <<maker, store, told, clash, context, stray, text, past>>
    BY KnownJob DEF SendKill, File, Text
  <1>2. s \in Sids /\ (job[j].own \/ job[j].kind = "kill")
    BY <1>1 DEF JobFits, InHand
  <1>3. /\ daemon' \in [Sids -> {"none", "up", "down", "gone"}]
        /\ \A k \in Sids : daemon'[k] = daemon[k] \/ (k = s /\ daemon[k] \in {"up", "down"} /\ daemon'[k] = "gone")
    BY <1>2 DEF SendKill, LeaseInv, WorldFits
  <1>4. WorldFits'
    <2>1. \A k \in Sids : daemon'[k] = "none" <=> daemon[k] = "none"
      BY <1>3
    <2>2. \A k \in Sids : k > 1 => k - 1 \in Sids
      BY LeaseAssumption DEF Sids
    <2>3. \A k \in Sids : k > 1 /\ daemon'[k] # "none" => daemon'[k - 1] # "none"
      BY <2>1, <2>2 DEF LeaseInv, WorldFits
    <2>4. QED
      BY <1>1, <1>3, <2>3 DEF LeaseInv, WorldFits
  <1>5. ASSUME NEW r, JobFits(r), job' = [job EXCEPT ![j] = r], r.kind = job[j].kind, r.own = job[j].own,
               r.sid = s, r.stage \in {"over", "forget"}, r.own => r.lost \/ daemon'[s] = "gone"
        PROVE  LeaseInv'
    <2>1. LeasesFit'
      BY <1>1, <1>2, <1>3, <1>5, LeasesMove
    <2>2. NumbersFit' /\ PlacesFit' /\ TextsFit'
      BY <1>1, <1>5, NumbersRest, PlacesRest, TextsRest DEF AtNumbers
    <2>3. QED
      BY <1>4, <1>5, <2>1, <2>2, JobMoves DEF LeaseInv
  <1>6. ASSUME NEW end, NEW lost \in BOOLEAN, lost \/ daemon'[s] = "gone" \/ ~job[j].own,
               job' = [job EXCEPT ![j] = [Ended(job[j], end) EXCEPT !.lost = lost]]
        PROVE  LeaseInv'
    <2> DEFINE r == [Ended(job[j], end) EXCEPT !.lost = lost]
    <2>1. /\ JobFits(r) /\ r.kind = job[j].kind /\ r.own = job[j].own /\ r.sid = s
          /\ r.stage = "over" /\ r.lost = lost
      BY <1>1 DEF Ended, JobFits, Fields, Stages, AtNumbers, InHand
    <2> HIDE DEF r
    <2>2. QED
      BY <1>5, <1>6, <2>1 DEF r
  <1>7. ASSUME NEW end, Finish(j, end), daemon'[s] = "gone" \/ ~job[j].own PROVE LeaseInv'
    <2>1. /\ JobFits(Ended(job[j], end)) /\ KeepsItself(Ended(job[j], end), job[j])
          /\ Ended(job[j], end).stage = "over" /\ Ended(job[j], end).sid = s
      BY <1>1, EndedFits
    <2>2. QED
      BY <1>5, <1>7, <2>1 DEF Finish, KeepsItself
  <1>8. ASSUME Goto(j, "forget"), daemon'[s] = "gone" PROVE LeaseInv'
    <2> DEFINE r == With([stage |-> "forget"], job[j])
    <2>1. Onward(r, job[j]) /\ r.stage = "forget"
      BY <1>1 DEF With, JobFits, Fields, Onward
    <2> HIDE DEF r
    <2>2. JobFits(r)
      BY <1>1, <1>2, <2>1, StepFits
    <2>3. QED
      BY <1>5, <1>8, <2>1, <2>2 DEF Goto, Step, Onward, r
  <1>9. ASSUME Step(j, [stage |-> "forget", lost |-> TRUE]) PROVE LeaseInv'
    <2> DEFINE r == With([stage |-> "forget", lost |-> TRUE], job[j])
    <2>1. /\ DOMAIN job[j] \subseteq DOMAIN r /\ r.sid = s /\ r.kind = job[j].kind /\ r.lost = TRUE
          /\ r.own = job[j].own /\ r.stage = "forget"
      BY <1>1 DEF With, JobFits, Fields
    <2> HIDE DEF r
    <2>2. JobFits(r)
      BY <1>1, <1>2, <2>1 DEF JobFits, Fields, Stages, AtNumbers, InHand
    <2>3. QED
      BY <1>5, <1>9, <2>1, <2>2 DEF Step, r
  <1>10. CASE daemon' = [daemon EXCEPT ![s] = "gone"]
              /\ IF job[j].kind = "sftp" THEN Finish(j, job[j].end) ELSE Goto(j, "forget")
    <2>1. daemon'[s] = "gone"
      BY <1>2, <1>10 DEF LeaseInv, WorldFits
    <2>2. QED
      BY <1>7, <1>8, <1>10, <2>1
  <1>11. CASE CASE job[j].kind = "kill" -> Finish(j, "failed")
                [] job[j].kind = "sftp" ->
                     job' = [job EXCEPT ![j] = [Ended(job[j], job[j].end) EXCEPT !.lost = TRUE]]
                [] OTHER -> Step(j, [stage |-> "forget", lost |-> TRUE])
    <2>1. job[j].kind = "kill" => ~job[j].own
      BY <1>1 DEF JobFits, Leasing
    <2>2. CASE job[j].kind = "kill"
      BY <1>7, <1>11, <2>1, <2>2
    <2>3. CASE job[j].kind = "sftp"
      BY <1>6, <1>11, <2>3
    <2>4. CASE job[j].kind \notin {"kill", "sftp"}
      BY <1>9, <1>11, <2>4
    <2>5. QED
      BY <2>2, <2>3, <2>4
  <1>12. QED
    BY <1>10, <1>11 DEF SendKill

LEMMA KillAllKeeps ==
    ASSUME LeaseInv, NEW j \in Jobs, ListAll(j) \/ KillEach(j) PROVE LeaseInv'
  <1>1. CASE ListAll(j)
    <2> DEFINE rest == {s \in Sids : daemon[s] \in {"up", "down"}}
               r == With([stage |-> "each", rest |-> rest], job[j])
    <2>1. /\ job[j].stage = "list" /\ JobFits(job[j])
          /\ UNCHANGED <<daemon, maker, store, told, clash, context, stray, text, past>>
      BY <1>1, KnownJob DEF ListAll, Sessions, File
    <2>2. Onward(r, job[j]) /\ r.stage = "each" /\ "rest" \in DOMAIN r
      BY <2>1 DEF With, JobFits, Fields, Onward
    <2>3. job' = [job EXCEPT ![j] = r]
      BY <1>1 DEF ListAll, Step
    <2> HIDE DEF r
    <2>4. JobFits(r) /\ KeepsItself(r, job[j])
      BY <2>1, <2>2 DEF JobFits, Fields, Stages, AtNumbers, InHand, KeepsItself, Onward
    <2>5. QED
      BY <2>1, <2>2, <2>3, <2>4, PlainStep DEF AtNumbers
  <1>2. CASE KillEach(j)
    <2>1. /\ job[j].stage = "each" /\ job[j].stage # "waiting" /\ JobFits(job[j]) /\ job[j].kind = "killall" /\ ~job[j].own
          /\ UNCHANGED <<maker, store, told, clash, context, stray, text, past>>
      BY <1>2, KnownJob DEF KillEach, File, Text, JobFits, Leasing
    <2>2. CASE Finish(j, "ok") /\ UNCHANGED daemon
      <3>1. /\ JobFits(Ended(job[j], "ok")) /\ KeepsItself(Ended(job[j], "ok"), job[j])
            /\ Ended(job[j], "ok").stage = "over"
        BY <2>1, EndedFits
      <3>2. QED
        BY <2>1, <2>2, <3>1, PlainStep DEF AtNumbers, Finish, KeepsItself
    <2>3. ASSUME NEW s, Step(j, [rest |-> job[j].rest \ {s}]),
                 \/ UNCHANGED daemon
                 \/ daemon[s] \in {"up", "down"} /\ daemon' = [daemon EXCEPT ![s] = "gone"]
          PROVE  LeaseInv'
      <3> DEFINE r == With([rest |-> job[j].rest \ {s}], job[j])
      <3>1. Onward(r, job[j]) /\ r.stage = "each"
        BY <2>1 DEF With, JobFits, Fields, Onward
      <3>2. job' = [job EXCEPT ![j] = r]
        BY <2>3 DEF Step
      <3> HIDE DEF r
      <3>3. JobFits(r)
        BY <2>1, <3>1 DEF JobFits, Fields, Stages, AtNumbers, InHand, Onward
      <3>4. /\ daemon' \in [Sids -> {"none", "up", "down", "gone"}]
            /\ \A k \in Sids : daemon'[k] = daemon[k] \/ (daemon[k] \in {"up", "down"} /\ daemon'[k] = "gone")
        BY <2>3 DEF LeaseInv, WorldFits
      <3>5. WorldFits'
        <4>1. \A k \in Sids : k > 1 /\ daemon'[k] # "none" => daemon'[k - 1] # "none"
          BY <3>4, LeaseAssumption DEF LeaseInv, WorldFits, Sids
        <4>2. QED
          BY <2>1, <3>4, <4>1 DEF LeaseInv, WorldFits
      <3>6. LeasesFit'
        BY <2>1, <3>1, <3>2, <3>3, <3>4, LeasesMove DEF Onward
      <3>7. NumbersFit' /\ PlacesFit' /\ TextsFit'
        BY <2>1, <3>1, <3>2, <3>3, NumbersRest, PlacesRest, TextsRest DEF AtNumbers
      <3>8. QED
        BY <3>2, <3>3, <3>5, <3>6, <3>7, JobMoves DEF LeaseInv
    <2>4. QED
      BY <1>2, <2>2, <2>3 DEF KillEach
  <1>3. QED
    BY <1>1, <1>2

LEMMA DropKeeps ==
    ASSUME LeaseInv, NEW s \in Sids, Drop(s) PROVE LeaseInv'
  <1>1. /\ daemon[s] = "up" /\ daemon' = [daemon EXCEPT ![s] = "down"]
        /\ UNCHANGED <<store, told, clash, text, past, context, maker, job, stray>>
    BY DEF Drop, File, Text
  <1>2. /\ daemon' \in [Sids -> {"none", "up", "down", "gone"}]
        /\ \A k \in Sids : (daemon'[k] = "gone" <=> daemon[k] = "gone") /\ (daemon'[k] = "none" <=> daemon[k] = "none")
    BY <1>1 DEF LeaseInv, WorldFits
  <1>3. WorldFits'
    <2>1. \A k \in Sids : k > 1 /\ daemon'[k] # "none" => daemon'[k - 1] # "none"
      BY <1>2, LeaseAssumption DEF LeaseInv, WorldFits, Sids
    <2>2. QED
      BY <1>1, <1>2, <2>1 DEF LeaseInv, WorldFits
  <1>4. \A i \in Jobs : HasBegun(i) /\ job[i].own => job[i].sid \in Sids
    BY HasBegunFact DEF LeaseInv, JobsFit, JobFits
  <1>5. JobsFit' /\ LeasesFit' /\ NumbersFit' /\ PlacesFit' /\ TextsFit'
    <2>1. LeasesFit'
      BY <1>1, <1>2, <1>4 DEF LeaseInv, LeasesFit, HasBegun
    <2>2. QED
      BY <1>1, <2>1 DEF LeaseInv, JobsFit, NumbersFit, PlacesFit, TextsFit, Agrees
  <1>6. QED
    BY <1>3, <1>5 DEF LeaseInv

-----------------------------------------------------------------------------
\* A command goes on, or gives its session back, and leaves everything else alone.
LEMMA ReturnKeeps ==
    ASSUME LeaseInv, NEW j \in Jobs, job[j].stage \in InHand, NEW end, Return(j, end),
           UNCHANGED <<daemon, maker, store, told, clash, context, stray, text, past>>
    PROVE  LeaseInv'
  <1>1. job[j].stage # "waiting" /\ job[j].stage \notin AtNumbers /\ job[j].sid \in Sids
    BY KnownJob DEF JobFits, InHand, AtNumbers
  <1>2. PICK r : /\ JobFits(r) /\ KeepsItself(r, job[j]) /\ job' = [job EXCEPT ![j] = r]
                 /\ r.stage = (IF job[j].own THEN "return" ELSE "over")
    BY <1>1, OneReturns
  <1>3. QED
    BY <1>1, <1>2, PlainStep DEF AtNumbers, KeepsItself

LEMMA GotoKeeps ==
    ASSUME LeaseInv, NEW j \in Jobs, job[j].stage \in InHand, NEW stage \in {"get", "add", "stat", "read"},
           Goto(j, stage), UNCHANGED <<daemon, maker, store, told, clash, context, stray, text, past>>
    PROVE  LeaseInv'
  <1>1. job[j].stage # "waiting" /\ job[j].stage \notin AtNumbers /\ job[j].sid \in Sids /\ JobFits(job[j])
    BY KnownJob DEF JobFits, InHand, AtNumbers
  <1> DEFINE r == With([stage |-> stage], job[j])
  <1>2. job' = [job EXCEPT ![j] = r]
    BY DEF Goto, Step
  <1>3. Onward(r, job[j]) /\ r.stage = stage
    BY <1>1 DEF With, JobFits, Fields, Onward
  <1> HIDE DEF r
  <1>4. JobFits(r) /\ KeepsItself(r, job[j])
    BY <1>1, <1>3, StepFits
  <1>5. QED
    BY <1>1, <1>2, <1>3, <1>4, PlainStep DEF AtNumbers

\* A session's directory starts over while a command goes on.
LEMMA HomeKeeps ==
    ASSUME LeaseInv, NEW j \in Jobs, job[j].stage \in InHand, NEW stage \in {"get", "add", "stat", "pwd"},
           Goto(j, stage), context' = [context EXCEPT ![job[j].sid] = Home],
           UNCHANGED <<daemon, maker, store, told, clash, stray, text, past>>
    PROVE  LeaseInv'
  <1>1. job[j].stage # "waiting" /\ job[j].stage \notin AtNumbers /\ job[j].sid \in Sids /\ JobFits(job[j])
    BY KnownJob DEF JobFits, InHand, AtNumbers
  <1> DEFINE r == With([stage |-> stage], job[j])
  <1>2. job' = [job EXCEPT ![j] = r]
    BY DEF Goto, Step
  <1>3. Onward(r, job[j]) /\ r.stage = stage
    BY <1>1 DEF With, JobFits, Fields, Onward
  <1> HIDE DEF r
  <1>4. JobFits(r) /\ KeepsItself(r, job[j]) /\ r.sid = job[j].sid
    BY <1>1, <1>3, StepFits DEF Onward
  <1>5. /\ context' \in [Sids -> {None} \cup Root..Deepest]
        /\ \A s \in Sids : context'[s] = context[s] \/ context'[s] = Home
        /\ context'[job[j].sid] = Home
    BY <1>1 DEF LeaseInv, WorldFits, Root, Home, Deepest
  <1>6. WorldFits'
    BY <1>5 DEF LeaseInv, WorldFits
  <1>7. PlacesFit'
    <2>1. job'[j] = r /\ \A i \in Jobs \ {j} : job'[i] = job[i]
      BY <1>2, <1>4, JobMoves
    <2>2. \A i \in Jobs \ {j} : job[i].stage = "pwd" => job[i].sid \in Sids
      BY KnownJob DEF JobFits, InHand
    <2>3. ASSUME NEW i \in Jobs \ stray
          PROVE  /\ job'[i].stage = "pwd" => context'[job'[i].sid] = Home
                 /\ job'[i].stage = "prompt" => job'[i].home = Home
      <3>1. CASE i = j
        BY <1>3, <1>4, <1>5, <2>1, <3>1
      <3>2. CASE i # j
        BY <1>5, <2>1, <2>2, <3>2 DEF LeaseInv, PlacesFit
      <3>3. QED
        BY <3>1, <3>2
    <2>4. QED
      BY <2>3 DEF PlacesFit
  <1>8. TextsFit'
    BY <1>2, <1>3, <1>4, TextsRest
  <1>9. QED
    BY <1>1, <1>2, <1>3, <1>4, <1>6, <1>7, <1>8, StepKeeps DEF AtNumbers

LEMMA UseKeeps ==
    ASSUME LeaseInv, NEW j \in Jobs, Use(j) \/ PromptInit(j) PROVE LeaseInv'
  <1>1. /\ job[j].stage = "use" /\ job[j].stage \in InHand
        /\ UNCHANGED <<daemon, maker, store, told, clash, stray, text, past>>
    BY DEF Use, PromptInit, File, Text, InHand
  <1>2. \/ UNCHANGED context /\ \E end \in {"ok", "failed"} : Return(j, end)
        \/ /\ context' = [context EXCEPT ![job[j].sid] = Home]
           /\ \E stage \in {"get", "add", "stat", "pwd"} : Goto(j, stage)
    BY DEF Use, PromptInit
  <1>3. QED
    BY <1>1, <1>2, ReturnKeeps, HomeKeeps

\* The file is written anew.
LEMMA AnewKeeps ==
    ASSUME LeaseInv, NEW j \in Jobs, job[j].stage \in InHand, NEW end, Return(j, end), WrittenAnew(j),
           UNCHANGED <<daemon, maker, store, told, clash, context, stray>>
    PROVE  LeaseInv'
  <1>1. job[j].stage # "waiting" /\ job[j].stage \notin AtNumbers /\ job[j].sid \in Sids
    BY KnownJob DEF JobFits, InHand, AtNumbers
  <1>2. PICK r : /\ JobFits(r) /\ KeepsItself(r, job[j]) /\ job' = [job EXCEPT ![j] = r]
                 /\ r.stage = (IF job[j].own THEN "return" ELSE "over")
    BY <1>1, OneReturns
  <1>3. IsText(text') /\ past' = [crossed |-> Crossed(j), anew |-> TRUE, edited |-> past.edited] /\ Crossed(j) \in BOOLEAN
    <2>1. past = [crossed |-> past.crossed, anew |-> past.anew, edited |-> past.edited] /\ past.crossed \in BOOLEAN
      BY DEF LeaseInv, WorldFits
    <2>2. Crossed(j) \in BOOLEAN
      BY <2>1 DEF Crossed
    <2>3. IsText(text')
      BY DEF WrittenAnew, IsText
    <2>4. QED
      BY <2>1, <2>2, <2>3 DEF WrittenAnew
  <1>4. WorldFits'
    BY <1>3 DEF LeaseInv, WorldFits
  <1>5. PlacesFit' /\ TextsFit'
    BY <1>2, <1>3, PlacesRest DEF TextsFit
  <1>6. QED
    BY <1>1, <1>2, <1>4, <1>5, StepKeeps DEF AtNumbers, KeepsItself

LEMMA FileKeeps ==
    ASSUME LeaseInv, NEW j \in Jobs, GetContent(j) \/ AddFile(j) \/ StatFile(j) PROVE LeaseInv'
  <1>1. job[j].stage \in InHand /\ UNCHANGED <<daemon, maker, store, told, clash, context, stray>>
    BY DEF GetContent, AddFile, StatFile, Message, File, InHand
  <1>2. \/ UNCHANGED <<text, past>> /\ \E end \in {"ok", "failed"} : Return(j, end)
        \/ WrittenAnew(j) /\ \E end \in {"ok", "failed"} : Return(j, end)
        \/ UNCHANGED <<text, past>> /\ \E stage \in {"add", "read"} : Goto(j, stage)
    BY DEF GetContent, AddFile, StatFile, Text
  <1>3. QED
    BY <1>1, <1>2, ReturnKeeps, AnewKeeps, GotoKeeps

LEMMA ReadKeeps ==
    ASSUME LeaseInv, NEW j \in Jobs, ReadToEdit(j) PROVE LeaseInv'
  <1>1. /\ job[j].stage = "read" /\ job[j].stage # "waiting" /\ JobFits(job[j]) /\ job[j].sid \in Sids
        /\ UNCHANGED <<daemon, maker, store, told, clash, context, stray, text, past>>
    BY KnownJob DEF ReadToEdit, Message, File, Text, JobFits, InHand
  <1>2. CASE Return(j, "failed")
    BY <1>1, <1>2, ReturnKeeps DEF InHand
  <1>3. CASE text # Absent /\ Step(j, [stage |-> "replace", saw |-> text.edits, all |-> text.whole])
    <2> DEFINE r == With([stage |-> "replace", saw |-> text.edits, all |-> text.whole], job[j])
    <2>1. /\ Onward(r, job[j]) /\ r.stage = "replace" /\ {"saw", "all"} \subseteq DOMAIN r
          /\ r.saw = text.edits /\ r.all = text.whole
      BY <1>1 DEF With, JobFits, Fields, Onward
    <2>2. job' = [job EXCEPT ![j] = r]
      BY <1>3 DEF Step
    <2> HIDE DEF r
    <2>3. IsText(text)
      BY <1>3 DEF LeaseInv, WorldFits
    <2>4. JobFits(r) /\ KeepsItself(r, job[j])
      BY <1>1, <2>1, <2>3 DEF JobFits, Fields, Stages, AtNumbers, InHand, KeepsItself, Onward, IsText
    <2>5. WorldFits' /\ PlacesFit'
      BY <1>1, <2>1, <2>2, <2>4, PlacesRest DEF LeaseInv, WorldFits
    <2>6. TextsFit'
      BY <1>1, <1>3, <2>1, <2>2, <2>4, JobMoves DEF LeaseInv, TextsFit
    <2>7. QED
      BY <1>1, <2>1, <2>2, <2>4, <2>5, <2>6, StepKeeps DEF AtNumbers
  <1>4. QED
    BY <1>2, <1>3 DEF ReadToEdit

\* What a command has read, and all that was changed since, is in what it writes.
LEMMA WriteKeeps ==
    ASSUME LeaseInv, NEW j \in Jobs, WriteEdit(j) PROVE LeaseInv'
  <1>1. /\ job[j].stage = "replace" /\ job[j].stage \in InHand /\ JobFits(job[j]) /\ job[j].sid \in Sids
        /\ job[j].stage # "waiting" /\ UNCHANGED <<daemon, maker, store, told, clash, context, stray>>
    BY KnownJob DEF WriteEdit, Message, File, JobFits, InHand
  <1>2. CASE Return(j, "failed") /\ Text
    BY <1>1, <1>2, ReturnKeeps DEF Text
  <1>3. CASE Return(j, "failed") /\ WrittenAnew(j)
    BY <1>1, <1>3, AnewKeeps
  <1>4. CASE /\ Return(j, "ok")
             /\ text' = [edits |-> job[j].saw \cup {j}, whole |-> job[j].all, long |-> FALSE]
             /\ past' = [past EXCEPT !.crossed = Crossed(j), !.edited = @ \cup {j}]
    <2>1. PICK r : /\ JobFits(r) /\ KeepsItself(r, job[j]) /\ job' = [job EXCEPT ![j] = r]
                   /\ r.stage = (IF job[j].own THEN "return" ELSE "over")
      BY <1>1, <1>4, OneReturns
    <2>2. job'[j] = r /\ \A i \in Jobs \ {j} : job'[i] = job[i]
      BY <2>1, JobMoves
    <2>3. past = [crossed |-> past.crossed, anew |-> past.anew, edited |-> past.edited]
          /\ past.crossed \in BOOLEAN /\ past.anew \in BOOLEAN /\ past.edited \subseteq Jobs
      BY DEF LeaseInv, WorldFits
    <2>4. past' = [crossed |-> Crossed(j), anew |-> past.anew, edited |-> past.edited \cup {j}] /\ Crossed(j) \in BOOLEAN
      BY <1>4, <2>3 DEF Crossed
    <2>5. job[j].saw \subseteq Jobs /\ job[j].all \in BOOLEAN
      BY <1>1 DEF JobFits
    <2>6. IsText(text') /\ text'.whole = job[j].all /\ text'.edits = job[j].saw \cup {j}
      BY <1>4, <2>5 DEF IsText
    <2>7. WorldFits'
      BY <1>1, <2>3, <2>4, <2>6 DEF LeaseInv, WorldFits
    <2>8. ~past.anew => job[j].all /\ (~past.crossed => past.edited \subseteq job[j].saw)
      BY <1>1 DEF LeaseInv, TextsFit
    <2>9. ~Crossed(j) => ~past.crossed /\ \A i \in Jobs \ {j} : job[i].stage # "replace"
      BY DEF Crossed, Busy
    <2>10. TextsFit'
      <3>1. ASSUME ~past'.anew
            PROVE  /\ text'.whole /\ (~past'.crossed => past'.edited \subseteq text'.edits)
                   /\ \A i \in Jobs : job'[i].stage = "replace" =>
                        job'[i].all /\ (~past'.crossed => past'.edited \subseteq job'[i].saw)
        <4>1. text'.whole /\ (~past'.crossed => past'.edited \subseteq text'.edits)
          BY <2>4, <2>6, <2>8, <2>9, <3>1
        <4>2. ASSUME NEW i \in Jobs, job'[i].stage = "replace"
              PROVE  job'[i].all /\ (~past'.crossed => past'.edited \subseteq job'[i].saw)
          <5>1. i # j /\ job'[i] = job[i]
            BY <2>1, <2>2, <4>2
          <5>2. QED
            BY <2>4, <2>9, <3>1, <4>2, <5>1 DEF LeaseInv, TextsFit
        <4>3. QED
          BY <4>1, <4>2
      <3>2. QED
        BY <3>1 DEF TextsFit
    <2>11. PlacesFit'
      BY <1>1, <2>1, PlacesRest
    <2>12. QED
      BY <1>1, <2>1, <2>7, <2>10, <2>11, StepKeeps DEF AtNumbers, KeepsItself
  <1>5. QED
    BY <1>2, <1>3, <1>4 DEF WriteEdit

LEMMA PromptKeeps ==
    ASSUME LeaseInv, NEW j \in Jobs, PromptPwd(j) \/ PromptCd(j) \/ PromptOther(j) \/ PromptEnd(j)
    PROVE  LeaseInv'
  <1>1. /\ job[j].stage \in {"pwd", "prompt"} /\ job[j].stage \in InHand /\ job[j].stage # "waiting"
        /\ job[j].stage \notin AtNumbers /\ JobFits(job[j]) /\ job[j].sid \in Sids
        /\ UNCHANGED <<daemon, maker, store, told, clash, text, past>>
    BY KnownJob DEF PromptPwd, PromptCd, PromptOther, PromptEnd, Sessions, File, Text, JobFits, InHand, AtNumbers
  <1> DEFINE New(r) ==
               /\ DOMAIN job[j] \subseteq DOMAIN r /\ Onward(r, job[j]) /\ r.stage = "prompt"
               /\ {"left", "home", "here", "at", "meant"} \subseteq DOMAIN r /\ r.left \in Nat
               /\ r.home \in Root..Deepest /\ r.here \in Root..Deepest /\ r.at = r.meant
               /\ j \notin stray => r.home = Home
  <1>2. ASSUME NEW r, New(r), job' = [job EXCEPT ![j] = r],
               stray \subseteq stray', stray' \subseteq Jobs, context' \in [Sids -> {None} \cup Root..Deepest],
               \A i \in Jobs \ stray' : job[i].stage = "pwd" => context'[job[i].sid] = context[job[i].sid]
        PROVE  LeaseInv'
    <2>1. JobFits(r) /\ KeepsItself(r, job[j])
      BY <1>1, <1>2 DEF JobFits, Fields, Stages, AtNumbers, InHand, KeepsItself, Onward
    <2>2. job'[j] = r /\ \A i \in Jobs \ {j} : job'[i] = job[i]
      BY <1>2, <2>1, JobMoves
    <2>3. WorldFits'
      BY <1>1, <1>2 DEF LeaseInv, WorldFits
    <2>4. PlacesFit'
      BY <1>2, <2>2 DEF LeaseInv, PlacesFit
    <2>5. TextsFit'
      BY <1>1, <1>2, <2>1, TextsRest
    <2>6. QED
      BY <1>1, <1>2, <2>1, <2>3, <2>4, <2>5, StepKeeps DEF AtNumbers
  <1>3. CASE PromptPwd(j)
    <2>1. UNCHANGED <<context, stray>>
      BY <1>3 DEF PromptPwd, Sessions
    <2>2. CASE Return(j, "failed")
      BY <1>1, <2>1, <2>2, ReturnKeeps
    <2>3. CASE /\ context[job[j].sid] # None
               /\ Step(j, [stage |-> "prompt", left |-> MaxLines, home |-> context[job[j].sid],
                           here |-> context[job[j].sid], at |-> Home, meant |-> Home])
      <3> DEFINE r == With([stage |-> "prompt", left |-> MaxLines, home |-> context[job[j].sid],
                            here |-> context[job[j].sid], at |-> Home, meant |-> Home], job[j])
      <3>1. context[job[j].sid] \in Root..Deepest /\ (j \notin stray => context[job[j].sid] = Home)
        BY <1>1, <1>3, <2>3 DEF PromptPwd, LeaseInv, WorldFits, PlacesFit
      <3>2. job' = [job EXCEPT ![j] = r]
        BY <2>3 DEF Step
      <3>3. /\ DOMAIN job[j] \subseteq DOMAIN r /\ {"left", "home", "here", "at", "meant"} \subseteq DOMAIN r
            /\ r.stage = "prompt" /\ r.left = MaxLines /\ r.at = Home /\ r.meant = Home
        BY <1>1 DEF With, JobFits, Fields
      <3>4. r.home = context[job[j].sid] /\ r.here = context[job[j].sid] /\ Onward(r, job[j])
        BY <1>1 DEF With, JobFits, Fields, Onward
      <3> HIDE DEF r
      <3>5. New(r)
        BY <3>1, <3>3, <3>4, LeaseAssumption
      <3>6. QED
        BY <1>2, <2>1, <3>2, <3>5 DEF LeaseInv, WorldFits
    <2>4. QED
      BY <1>3, <2>2, <2>3 DEF PromptPwd
  <1>4. ASSUME job[j].stage = "prompt", NEW arg \in Arguments, Hit(j, arg) <= Deepest
        PROVE  Hit(j, arg) = Meant(j, arg) /\ Meant(j, arg) \in Root..Deepest
    <2>1. job[j].home \in Root..Deepest /\ job[j].here \in Root..Deepest
      BY <1>1, <1>4 DEF JobFits
    <2>2. QED
      BY <1>4, <2>1 DEF Hit, Meant, From, Arguments, Root, Deepest
  <1>5. CASE PromptCd(j)
    <2>1. PICK arg \in Arguments :
            /\ Hit(j, arg) <= Deepest /\ context' = [context EXCEPT ![job[j].sid] = Hit(j, arg)]
            /\ Step(j, [left |-> job[j].left - 1, here |-> Meant(j, arg), at |-> Hit(j, arg), meant |-> Meant(j, arg)])
            /\ stray' = stray \cup {i \in Jobs : Busy(i) /\ job[i].stage = "pwd" /\ job[i].sid = job[j].sid}
      BY <1>5 DEF PromptCd
    <2>2. job[j].stage = "prompt" /\ job[j].left \in Nat /\ job[j].left > 0 /\ job[j].home \in Root..Deepest
          /\ {"left", "home", "here", "at", "meant"} \subseteq DOMAIN job[j] /\ (j \notin stray => job[j].home = Home)
      BY <1>1, <1>5 DEF PromptCd, JobFits, LeaseInv, PlacesFit
    <2>3. Hit(j, arg) = Meant(j, arg) /\ Meant(j, arg) \in Root..Deepest
      BY <1>4, <2>1, <2>2
    <2> DEFINE to == Meant(j, arg)
               r == With([left |-> job[j].left - 1, here |-> to, at |-> to, meant |-> to], job[j])
    <2>4. job' = [job EXCEPT ![j] = r]
      BY <2>1, <2>3 DEF Step
    <2> HIDE DEF to
    <2>5. /\ r.left = job[j].left - 1 /\ r.here = to /\ r.at = to /\ r.meant = to
          /\ DOMAIN job[j] \subseteq DOMAIN r
      BY DEF With
    <2>6. r.home = job[j].home /\ r.stage = job[j].stage
      BY <1>1, <2>2 DEF With, JobFits, Fields
    <2>7. Onward(r, job[j])
      BY <1>1 DEF With, JobFits, Fields, Onward
    <2> HIDE DEF r
    <2>8. New(r)
      BY <2>2, <2>3, <2>5, <2>6, <2>7 DEF to
    <2>9. context' \in [Sids -> {None} \cup Root..Deepest]
          /\ \A s \in Sids \ {job[j].sid} : context'[s] = context[s]
      BY <1>1, <2>1, <2>3 DEF LeaseInv, WorldFits
    <2>10. stray \subseteq stray' /\ stray' \subseteq Jobs
      BY <2>1 DEF LeaseInv, WorldFits
    <2>11. ASSUME NEW i \in Jobs \ stray', job[i].stage = "pwd" PROVE context'[job[i].sid] = context[job[i].sid]
      <3>1. job[i].sid \in Sids
        BY <2>11, KnownJob DEF JobFits, InHand
      <3>2. Busy(i)
        BY <2>11 DEF Busy
      <3>3. job[i].sid # job[j].sid
        BY <2>1, <2>11, <3>2
      <3>4. QED
        BY <2>9, <3>1, <3>3
    <2>12. QED
      BY <1>2, <2>4, <2>8, <2>9, <2>10, <2>11
  <1>6. CASE PromptOther(j)
    <2>1. /\ job[j].stage = "prompt" /\ job[j].left \in Nat /\ job[j].left > 0 /\ job[j].home \in Root..Deepest
          /\ job[j].here \in Root..Deepest /\ job[j].at = job[j].meant
          /\ {"left", "home", "here", "at", "meant"} \subseteq DOMAIN job[j] /\ (j \notin stray => job[j].home = Home)
          /\ UNCHANGED <<context, stray>>
      BY <1>1, <1>6 DEF PromptOther, Sessions, JobFits, LeaseInv, PlacesFit
    <2>2. CASE Step(j, [left |-> job[j].left - 1])
      <3> DEFINE r == With([left |-> job[j].left - 1], job[j])
      <3>1. job' = [job EXCEPT ![j] = r]
        BY <2>2 DEF Step
      <3>2. /\ r.left = job[j].left - 1 /\ DOMAIN job[j] \subseteq DOMAIN r
            /\ r.here = job[j].here /\ r.at = job[j].at /\ r.meant = job[j].meant
        BY <2>1 DEF With
      <3>3. r.home = job[j].home /\ r.stage = job[j].stage
        BY <1>1, <2>1 DEF With, JobFits, Fields
      <3>4. Onward(r, job[j])
        BY <1>1 DEF With, JobFits, Fields, Onward
      <3> HIDE DEF r
      <3>5. New(r)
        BY <2>1, <3>2, <3>3, <3>4
      <3>6. QED
        BY <1>2, <2>1, <3>1, <3>5 DEF LeaseInv, WorldFits
    <2>3. ASSUME NEW arg \in Arguments, Hit(j, arg) <= Deepest,
                 Step(j, [left |-> job[j].left - 1, at |-> Hit(j, arg), meant |-> Meant(j, arg)])
          PROVE  LeaseInv'
      <3>1. Hit(j, arg) = Meant(j, arg)
        BY <1>4, <2>1, <2>3
      <3> DEFINE to == Meant(j, arg)
                 r == With([left |-> job[j].left - 1, at |-> to, meant |-> to], job[j])
      <3>2. job' = [job EXCEPT ![j] = r]
        BY <2>3, <3>1 DEF Step
      <3> HIDE DEF to
      <3>3. /\ r.left = job[j].left - 1 /\ DOMAIN job[j] \subseteq DOMAIN r
            /\ r.here = job[j].here /\ r.at = to /\ r.meant = to
        BY <2>1 DEF With
      <3>4. r.home = job[j].home /\ r.stage = job[j].stage
        BY <1>1, <2>1 DEF With, JobFits, Fields
      <3>5. Onward(r, job[j])
        BY <1>1 DEF With, JobFits, Fields, Onward
      <3> HIDE DEF r
      <3>6. New(r)
        BY <2>1, <3>3, <3>4, <3>5
      <3>7. QED
        BY <1>2, <2>1, <3>2, <3>6 DEF LeaseInv, WorldFits
    <2>4. QED
      BY <1>6, <2>2, <2>3 DEF PromptOther
  <1>7. CASE PromptEnd(j)
    BY <1>1, <1>7, ReturnKeeps DEF PromptEnd, Sessions
  <1>8. QED
    BY <1>3, <1>5, <1>6, <1>7

-----------------------------------------------------------------------------
\* The file of numbers. While commands are at it one at a time, it is what the last one wrote.
LEMMA LoadedFact ==
    ASSUME LeaseInv PROVE IsData(Loaded)
  BY TornFact DEF Loaded, LeaseInv, WorldFits

LEMMA AloneFact ==
    ASSUME LeaseInv, NEW j \in Jobs, Clashes(j), job[j].stage \notin AtNumbers
    PROVE  /\ clash' \in BOOLEAN
           /\ ~clash' => /\ ~clash /\ store # Torn /\ Loaded = store /\ Agrees(store)
                         /\ \A i \in Jobs : job[i].stage \notin AtNumbers
  <1>1. clash' \in BOOLEAN /\ (~clash' => ~clash /\ \A i \in Jobs \ {j} : ~AtStore(i))
    BY DEF Clashes, LeaseInv, WorldFits
  <1>2. \A i \in Jobs : ~AtStore(i) => job[i].stage \notin AtNumbers
    BY DEF AtStore, AtNumbers, Busy
  <1>3. QED
    BY <1>1, <1>2 DEF LeaseInv, NumbersFit, AtNumbers, Loaded

LEMMA NumbersStep ==
    ASSUME LeaseInv, NEW j \in Jobs, job[j].stage \in AtNumbers \cup {"name", "forget"}, NEW r, JobFits(r),
           KeepsItself(r, job[j]), r.stage \in AtNumbers \cup {"over"}, job' = [job EXCEPT ![j] = r],
           UNCHANGED <<daemon, context, maker, text, past, stray>>,
           told' \subseteq Nat \X Sids, clash' \in BOOLEAN, store' = Torn \/ IsData(store'), NumbersFit'
    PROVE  LeaseInv'
  <1>1. job[j] # Waiting /\ JobFits(job[j]) /\ HasBegun(j)
    BY KnownJob DEF AtNumbers
  <1>2. r.own /\ ~r.lost => daemon[r.sid] = "gone"
    <2>1. job[j].own => job[j].stage \in AtNumbers \cup {"forget"}
      BY <1>1 DEF JobFits, Leasing
    <2>2. job[j].own /\ ~job[j].lost => daemon[job[j].sid] = "gone"
      BY <1>1, <2>1 DEF LeaseInv, LeasesFit
    <2>3. QED
      BY <2>2 DEF KeepsItself
  <1>3. LeasesFit'
    BY <1>1, <1>2, LeasesRest DEF KeepsItself
  <1>4. PlacesFit' /\ TextsFit'
    BY PlacesRest, TextsRest DEF AtNumbers
  <1>5. WorldFits'
    BY DEF LeaseInv, WorldFits
  <1>6. QED
    BY <1>3, <1>4, <1>5, JobMoves DEF LeaseInv

\* What a command is about to write: it has loaded the file, and changed it.
LEMMA RegisteredFact ==
    ASSUME NEW d, IsData(d), NEW s \in Sids, NEW e, e = Registered(d, s)
    PROVE  /\ IsData(e) /\ e.next > 1 /\ e.next - 1 \in DOMAIN e.of /\ e.of[e.next - 1] = s
           /\ e.next = d.next + 1 /\ DOMAIN e.of = DOMAIN d.of \cup {d.next}
           /\ \A n \in DOMAIN d.of : e.of[n] = d.of[n]
  <1> DEFINE f == [n \in DOMAIN d.of \cup {d.next} |-> IF n = d.next THEN s ELSE d.of[n]]
  <1>1. e = [next |-> d.next + 1, of |-> f]
    BY DEF Registered
  <1>2. d.next \in Nat \ {0} /\ DOMAIN d.of \subseteq 1..(d.next - 1) /\ \A n \in DOMAIN d.of : d.of[n] \in Sids
    BY DEF IsData
  <1>3. /\ DOMAIN f = DOMAIN d.of \cup {d.next} /\ f[d.next] = s
        /\ \A n \in DOMAIN d.of : f[n] = d.of[n]
    BY <1>2
  <1> HIDE DEF f
  <1>4. e.next = d.next + 1 /\ e.of = f /\ e = [next |-> e.next, of |-> e.of]
    BY <1>1
  <1>5. DOMAIN f \subseteq 1..(e.next - 1) /\ \A n \in DOMAIN f : f[n] \in Sids
    BY <1>2, <1>3, <1>4
  <1>6. QED
    BY <1>2, <1>3, <1>4, <1>5 DEF IsData

LEMMA ForgottenFact ==
    ASSUME NEW d, IsData(d), NEW s, NEW e, e = Forgotten(d, s)
    PROVE  /\ IsData(e) /\ e.next = d.next /\ DOMAIN e.of \subseteq DOMAIN d.of
           /\ \A n \in DOMAIN e.of : e.of[n] = d.of[n]
  <1> DEFINE f == Restrict(d.of, DOMAIN d.of \ Numbered(d, s))
  <1>1. /\ DOMAIN f = DOMAIN d.of \ Numbered(d, s)
        /\ \A n \in DOMAIN f : f[n] = d.of[n]
    BY DEF Restrict
  <1> HIDE DEF f
  <1>2. d = [next |-> d.next, of |-> d.of] /\ e = [d EXCEPT !.of = f]
    BY DEF Forgotten, IsData, f
  <1>3. e.next = d.next /\ e.of = f /\ e = [next |-> e.next, of |-> e.of]
    BY <1>2
  <1>4. QED
    BY <1>1, <1>3 DEF IsData

LEMMA NameKeeps ==
    ASSUME LeaseInv, NEW j \in Jobs, NameSession(j) PROVE LeaseInv'
  <1>1. /\ job[j].stage = "name" /\ job[j].stage # "waiting" /\ job[j].stage \notin AtNumbers
        /\ JobFits(job[j]) /\ job[j].sid \in Sids /\ Clashes(j)
        /\ UNCHANGED <<daemon, context, maker, text, past, store, stray>>
    BY KnownJob DEF NameSession, Sessions, JobFits, InHand, AtNumbers
  <1>2. IsData(Loaded) /\ (store = Torn \/ IsData(store)) /\ told \subseteq Nat \X Sids
    BY LoadedFact DEF LeaseInv, WorldFits
  <1>3. /\ clash' \in BOOLEAN
        /\ ~clash' => /\ ~clash /\ store # Torn /\ Loaded = store /\ Agrees(store)
                      /\ \A i \in Jobs : job[i].stage \notin AtNumbers
    BY <1>1, AloneFact
  <1>4. CASE Finish(j, "ok") /\ told' \in {told} \cup {told \cup {<<n, job[j].sid>>} : n \in Numbered(Loaded, job[j].sid)}
    <2> DEFINE r == Ended(job[j], "ok")
    <2>1. JobFits(r) /\ KeepsItself(r, job[j]) /\ r.stage = "over"
      BY <1>1, EndedFits
    <2>2. job' = [job EXCEPT ![j] = r]
      BY <1>4 DEF Finish
    <2> HIDE DEF r
    <2>3. told' \subseteq Nat \X Sids
      BY <1>1, <1>2, <1>4 DEF Numbered, IsData
    <2>4. job'[j] = r /\ \A i \in Jobs \ {j} : job'[i] = job[i]
      BY <2>1, <2>2, JobMoves
    <2>5. ASSUME ~clash' PROVE Agrees(store)' /\ store # Torn /\ \A i \in Jobs : job'[i].stage \notin AtNumbers
      <3>1. \A n \in Numbered(store, job[j].sid) : n < store.next /\ store.of[n] = job[j].sid
        BY <1>2, <1>3, <2>5 DEF Numbered, IsData
      <3>2. Agrees(store)'
        BY <1>1, <1>3, <1>4, <2>5, <3>1 DEF Agrees
      <3>3. QED
        BY <1>3, <2>1, <2>4, <2>5, <3>2 DEF AtNumbers
    <2>6. NumbersFit'
      BY <1>1, <2>5 DEF NumbersFit
    <2>7. QED
      BY <1>1, <1>2, <1>3, <2>1, <2>2, <2>3, <2>6, NumbersStep
  <1>5. CASE UNCHANGED told /\ Step(j, [stage |-> "empty", data |-> Registered(Loaded, job[j].sid)])
    <2> DEFINE e == Registered(Loaded, job[j].sid)
               r == With([stage |-> "empty", data |-> e], job[j])
    <2>1. /\ IsData(e) /\ e.next > 1 /\ e.next - 1 \in DOMAIN e.of /\ e.of[e.next - 1] = job[j].sid
          /\ e.next = Loaded.next + 1 /\ DOMAIN e.of = DOMAIN Loaded.of \cup {Loaded.next}
          /\ \A n \in DOMAIN Loaded.of : e.of[n] = Loaded.of[n]
      BY <1>1, <1>2, RegisteredFact
    <2>2. job' = [job EXCEPT ![j] = r]
      BY <1>5 DEF Step
    <2> HIDE DEF e
    <2>3. r.stage = "empty" /\ r.data = e /\ "data" \in DOMAIN r /\ DOMAIN job[j] \subseteq DOMAIN r
      BY DEF With
    <2>4. Onward(r, job[j])
      BY <1>1 DEF With, JobFits, Fields, Onward
    <2> HIDE DEF r
    <2>5. JobFits(r) /\ KeepsItself(r, job[j])
      BY <1>1, <2>1, <2>3, <2>4 DEF JobFits, Fields, Stages, AtNumbers, InHand, KeepsItself, Onward
    <2>6. job'[j] = r /\ \A i \in Jobs \ {j} : job'[i] = job[i]
      BY <2>2, <2>5, JobMoves
    <2>7. ASSUME ~clash'
          PROVE  /\ Agrees(store)' /\ store # Torn /\ Agrees(e)
                 /\ \A i \in Jobs \ {j} : job'[i].stage \notin AtNumbers
      <3>1. Agrees(e)
        <4> SUFFICES ASSUME NEW a \in told PROVE a[1] < e.next /\ (a[1] \in DOMAIN e.of => e.of[a[1]] = a[2])
          BY DEF Agrees
        <4>1. a[1] \in Nat /\ a[1] < Loaded.next /\ (a[1] \in DOMAIN Loaded.of => Loaded.of[a[1]] = a[2])
          BY <1>2, <1>3, <2>7 DEF Agrees
        <4>2. Loaded.next \in Nat
          BY <1>2 DEF IsData
        <4>3. QED
          BY <2>1, <4>1, <4>2
      <3>2. QED
        BY <1>1, <1>3, <1>5, <2>6, <2>7, <3>1 DEF Agrees
    <2>8. NumbersFit'
      <3>1. ASSUME ~clash', NEW i \in Jobs, job'[i].stage \in AtNumbers PROVE i = j /\ Agrees(job[i].data)'
        <4>1. i = j /\ job'[i].data = e
          BY <2>3, <2>6, <2>7, <3>1
        <4>2. Agrees(job[i].data)'
          BY <1>5, <2>7, <3>1, <4>1 DEF Agrees
        <4>3. QED
          BY <4>1, <4>2
      <3>2. QED
        BY <1>1, <2>7, <3>1 DEF NumbersFit
    <2>9. QED
      BY <1>1, <1>2, <1>3, <1>5, <2>2, <2>3, <2>5, <2>8, NumbersStep DEF AtNumbers
  <1>6. QED
    BY <1>4, <1>5 DEF NameSession

LEMMA ForgetKeeps ==
    ASSUME LeaseInv, NEW j \in Jobs, ForgetSession(j) PROVE LeaseInv'
  <1>1. /\ job[j].stage = "forget" /\ job[j].stage # "waiting" /\ job[j].stage \notin AtNumbers
        /\ JobFits(job[j]) /\ job[j].sid \in Sids /\ Clashes(j)
        /\ UNCHANGED <<daemon, context, maker, text, past, store, told, stray>>
    BY KnownJob DEF ForgetSession, Sessions, JobFits, InHand, AtNumbers
  <1>2. IsData(Loaded) /\ (store = Torn \/ IsData(store)) /\ told \subseteq Nat \X Sids
    BY LoadedFact DEF LeaseInv, WorldFits
  <1>3. /\ clash' \in BOOLEAN
        /\ ~clash' => /\ ~clash /\ store # Torn /\ Loaded = store /\ Agrees(store)
                      /\ \A i \in Jobs : job[i].stage \notin AtNumbers
    BY <1>1, AloneFact
  <1> DEFINE e == Forgotten(Loaded, job[j].sid)
             r == With([stage |-> "empty", data |-> e], job[j])
  <1>4. /\ IsData(e) /\ e.next = Loaded.next /\ DOMAIN e.of \subseteq DOMAIN Loaded.of
        /\ \A n \in DOMAIN e.of : e.of[n] = Loaded.of[n]
    BY <1>2, ForgottenFact
  <1>5. job' = [job EXCEPT ![j] = r]
    BY DEF ForgetSession, Step
  <1> HIDE DEF e
  <1>6. r.stage = "empty" /\ r.data = e /\ "data" \in DOMAIN r /\ DOMAIN job[j] \subseteq DOMAIN r
    BY DEF With
  <1>7. Onward(r, job[j])
    BY <1>1 DEF With, JobFits, Fields, Onward
  <1> HIDE DEF r
  <1>8. JobFits(r) /\ KeepsItself(r, job[j])
    BY <1>1, <1>4, <1>6, <1>7 DEF JobFits, Fields, Stages, AtNumbers, InHand, Leasing, KeepsItself, Onward
  <1>9. job'[j] = r /\ \A i \in Jobs \ {j} : job'[i] = job[i]
    BY <1>5, <1>8, JobMoves
  <1>10. ASSUME ~clash'
         PROVE  /\ Agrees(store)' /\ store # Torn
                /\ \A i \in Jobs : job'[i].stage \in AtNumbers => i = j /\ Agrees(job[i].data)'
    <2>1. Agrees(store)' /\ store # Torn /\ \A i \in Jobs \ {j} : job'[i].stage \notin AtNumbers
      BY <1>1, <1>3, <1>9, <1>10 DEF Agrees
    <2>2. Agrees(e)
      BY <1>3, <1>4, <1>10 DEF Agrees
    <2>3. job'[j].data = e /\ told' = told
      BY <1>1, <1>6, <1>9
    <2>4. Agrees(job[j].data)'
      BY <2>2, <2>3 DEF Agrees
    <2>5. QED
      BY <2>1, <2>4
  <1>11. NumbersFit'
    BY <1>1, <1>10 DEF NumbersFit
  <1>12. QED
    BY <1>1, <1>2, <1>3, <1>5, <1>6, <1>8, <1>11, NumbersStep DEF AtNumbers

LEMMA SaveKeeps ==
    ASSUME LeaseInv, NEW j \in Jobs, Tear(j) \/ Written(j) PROVE LeaseInv'
  <1>1. /\ job[j].stage \in AtNumbers /\ job[j].stage # "waiting" /\ JobFits(job[j])
        /\ IsData(job[j].data) /\ "data" \in DOMAIN job[j]
        /\ UNCHANGED <<daemon, context, maker, text, past, stray, clash>>
    BY KnownJob DEF Tear, Written, Sessions, JobFits, AtNumbers
  <1>2. /\ told \subseteq Nat \X Sids /\ clash \in BOOLEAN
        /\ ~clash => Agrees(job[j].data) /\ \A i \in Jobs \ {j} : job[i].stage \notin AtNumbers
    BY <1>1 DEF LeaseInv, WorldFits, NumbersFit
  <1>3. CASE Tear(j)
    <2> DEFINE r == With([stage |-> "write"], job[j])
    <2>1. job' = [job EXCEPT ![j] = r] /\ store' = Torn /\ told' = told
      BY <1>3 DEF Tear, Goto, Step
    <2>2. r.stage = "write" /\ r.data = job[j].data /\ DOMAIN job[j] \subseteq DOMAIN r
      BY <1>1 DEF With
    <2>3. Onward(r, job[j])
      BY <1>1 DEF With, JobFits, Fields, Onward
    <2> HIDE DEF r
    <2>4. JobFits(r) /\ KeepsItself(r, job[j])
      BY <1>1, <2>2, <2>3 DEF JobFits, Fields, Stages, AtNumbers, InHand, KeepsItself, Onward
    <2>5. job'[j] = r /\ \A i \in Jobs \ {j} : job'[i] = job[i]
      BY <2>1, <2>4, JobMoves
    <2>6. ASSUME ~clash
          PROVE  \A i \in Jobs : job'[i].stage \in AtNumbers => i = j /\ Agrees(job[i].data)'
      <3>1. Agrees(job[j].data)'
        BY <1>2, <2>1, <2>2, <2>5, <2>6 DEF Agrees
      <3>2. QED
        BY <1>2, <2>5, <2>6, <3>1
    <2>7. NumbersFit'
      BY <1>1, <2>1, <2>2, <2>5, <2>6 DEF NumbersFit
    <2>8. QED
      BY <1>1, <1>2, <2>1, <2>2, <2>4, <2>7, NumbersStep DEF AtNumbers
  <1>4. CASE Written(j)
    <2> DEFINE r == Ended(job[j], job[j].end)
               d == job[j].data
    <2>1. JobFits(r) /\ KeepsItself(r, job[j]) /\ r.stage = "over"
      BY <1>1, EndedFits
    <2>2. job' = [job EXCEPT ![j] = r] /\ store' = d
      BY <1>4 DEF Written, Finish
    <2>3. \/ told' = told
          \/ /\ told' = told \cup {<<d.next - 1, job[j].sid>>} /\ job[j].sid \in Sids /\ d.next > 1
             /\ d.next - 1 \in DOMAIN d.of /\ d.of[d.next - 1] = job[j].sid
      BY <1>1, <1>4 DEF Written, JobFits
    <2>4. IsData(d)
      BY <1>1
    <2> HIDE DEF r
    <2>5. told' \subseteq Nat \X Sids
      BY <1>2, <2>3, <2>4 DEF IsData
    <2>6. job'[j] = r /\ \A i \in Jobs \ {j} : job'[i] = job[i]
      BY <2>1, <2>2, JobMoves
    <2>7. ASSUME ~clash PROVE Agrees(store)' /\ store' # Torn /\ \A i \in Jobs : job'[i].stage \notin AtNumbers
      <3>1. d.next \in Nat /\ Agrees(d)
        BY <1>2, <2>4, <2>7 DEF IsData
      <3>2. Agrees(store)'
        BY <2>2, <2>3, <3>1 DEF Agrees
      <3>3. QED
        BY <1>2, <2>1, <2>2, <2>4, <2>6, <2>7, <3>2, TornFact DEF AtNumbers
    <2>8. NumbersFit'
      BY <1>1, <2>7 DEF NumbersFit
    <2>9. QED
      BY <1>1, <1>2, <2>1, <2>2, <2>4, <2>5, <2>8, NumbersStep
  <1>5. QED
    BY <1>3, <1>4

-----------------------------------------------------------------------------
LEMMA LeaseStep ==
    ASSUME LeaseInv, [LeaseNext]_leaseVars PROVE LeaseInv'
  <1>1. CASE UNCHANGED leaseVars
    BY <1>1 DEF leaseVars, LeaseInv, JobsFit, WorldFits, LeasesFit, HasBegun, NumbersFit, Agrees, PlacesFit, TextsFit
  <1>2. ASSUME NEW s \in Sids, Drop(s) PROVE LeaseInv'
    BY <1>2, DropKeeps
  <1>3. ASSUME NEW j \in Jobs,
               \/ BeginOnServer(j) \/ BeginOnSession(j) \/ BeginKillAll(j)
               \/ FindReusable(j) \/ Create(j) \/ Use(j) \/ GetContent(j) \/ AddFile(j)
        PROVE  LeaseInv'
    BY <1>3, BeginKeeps, FindKeeps, CreateKeeps, UseKeeps, FileKeeps
  <1>4. ASSUME NEW j \in Jobs,
               \/ StatFile(j) \/ ReadToEdit(j) \/ WriteEdit(j) \/ SendKill(j) \/ ListAll(j) \/ KillEach(j)
        PROVE  LeaseInv'
    BY <1>4, FileKeeps, ReadKeeps, WriteKeeps, SendKillKeeps, KillAllKeeps
  <1>5. ASSUME NEW j \in Jobs,
               \/ NameSession(j) \/ ForgetSession(j) \/ Tear(j) \/ Written(j)
               \/ PromptInit(j) \/ PromptPwd(j) \/ PromptCd(j) \/ PromptOther(j) \/ PromptEnd(j)
        PROVE  LeaseInv'
    BY <1>5, NameKeeps, ForgetKeeps, SaveKeeps, UseKeeps, PromptKeeps
  <1>6. QED
    BY <1>1, <1>2, <1>3, <1>4, <1>5 DEF LeaseNext

LEMMA LeaseSafe == LeaseSpec => []LeaseInv
  BY LeaseInvInit, LeaseStep, PTL DEF LeaseSpec

\* The daemon's sessions are numbered without a gap; the file of short numbers names sessions
\* with numbers that were given; a command that runs knows its session, or has none yet.
THEOREM LeaseTypes == LeaseSpec => []LeaseTypeOK
  <1>1. LeaseInv => LeaseTypeOK
    <2> SUFFICES ASSUME LeaseInv PROVE LeaseTypeOK
      OBVIOUS
    <2>1. store = Torn \/ (DOMAIN store.of \subseteq 1..(store.next - 1) /\ Range(store.of) \subseteq Sids)
      BY DEF LeaseInv, WorldFits, IsData, Range
    <2>2. \A j \in Jobs : Busy(j) => job[j].sid \in Sids \cup {None} /\ job[j].own \in BOOLEAN
      BY KnownJob DEF Busy, JobFits, Fields
    <2>3. text = Absent \/ (text.edits \subseteq Jobs /\ {text.whole, text.long} \subseteq BOOLEAN)
      BY DEF LeaseInv, WorldFits, IsText
    <2>4. QED
      BY <2>1, <2>2, <2>3 DEF LeaseInv, WorldFits, LeaseTypeOK
  <1>2. QED
    BY <1>1, LeaseSafe, PTL

\* For every number of commands, sessions and lines, and whatever messages are lost: a command
\* gives back the session that it made and ends no other; the numbers that users were told are
\* true while commands are at the file one at a time; an SFTP prompt works where it says; and
\* an edit keeps what it does not name.
THEOREM CommandsKeep == LeaseSpec => []CommandsKeepToTheirs
  <1>1. LeaseInv => CommandsKeepToTheirs
    <2> SUFFICES ASSUME LeaseInv PROVE CommandsKeepToTheirs
      OBVIOUS
    <2>1. LeasesReturned
      BY DEF LeaseInv, LeasesFit, LeasesReturned, Over, HasBegun
    <2>2. OthersKept
      <3> SUFFICES ASSUME \A j \in Jobs : job[j] = Waiting \/ job[j].kind \notin {"kill", "killall"},
                          NEW s \in Sids, daemon[s] = "gone"
                   PROVE  maker[s] # App /\ job[maker[s]].own /\ job[maker[s]].sid = s
        BY DEF OthersKept
      <3>1. \A j \in Jobs : HasBegun(j) => job[j].kind \notin {"kill", "killall"}
        BY HasBegunFact DEF LeaseInv
      <3>2. QED
        BY <3>1, LeaseAssumption DEF LeaseInv, LeasesFit
    <2>3. NumbersAreTrue
      BY DEF LeaseInv, NumbersFit, Agrees, NumbersAreTrue
    <2>4. PromptsKeepPlace
      <3> SUFFICES ASSUME NEW j \in Jobs, job[j].stage = "prompt"
                   PROVE  job[j].at = job[j].meant /\ (job[j].home # Home => j \in stray)
        BY DEF PromptsKeepPlace
      <3>1. QED
        BY KnownJob DEF LeaseInv, PlacesFit, JobFits
    <2>5. EditsKeepTheRest
      BY DEF LeaseInv, TextsFit, EditsKeepTheRest
    <2>6. QED
      BY <2>1, <2>2, <2>3, <2>4, <2>5 DEF CommandsKeepToTheirs
  <1>2. QED
    BY <1>1, LeaseSafe, PTL

-----------------------------------------------------------------------------
(* The ways into sessions. *)

\* The components of MCAccess share no state, so what each does there it may do alone.
LEMMA AccessPartsStep ==
    ASSUME [AccessNext]_accessVars
    PROVE  /\ [KeysNext]_keyVars /\ [ConnNext]_connVars /\ [EndNext]_endVars
           /\ [FwdNext]_fwdVars /\ [GatewayNext]_gatewayVars /\ [LeaseNext]_leaseVars
<1>1. CASE UNCHANGED accessVars
  BY <1>1 DEF accessVars
<1>2. CASE KeysStep
  BY <1>2 DEF KeysStep
<1>3. CASE ConnectionsStep
  BY <1>3 DEF ConnectionsStep
<1>4. CASE EndpointStep
  BY <1>4 DEF EndpointStep
<1>5. CASE ForwardingStep
  BY <1>5 DEF ForwardingStep
<1>6. CASE GatewayStep
  BY <1>6 DEF GatewayStep
<1>7. CASE CommandsStep
  BY <1>7 DEF CommandsStep
<1> QED
  BY <1>1, <1>2, <1>3, <1>4, <1>5, <1>6, <1>7 DEF AccessNext

LEMMA AccessParts ==
    AccessSpec => KeysSpec /\ ConnSpec /\ EndSpec /\ FwdSpec /\ GatewaySpec /\ LeaseSpec
<1>1. AccessInit => KeysInit /\ ConnInit /\ EndInit /\ FwdInit /\ GatewayInit /\ LeaseInit
  BY DEF AccessInit
<1>2. [AccessNext]_accessVars
        => /\ [KeysNext]_keyVars /\ [ConnNext]_connVars /\ [EndNext]_endVars
           /\ [FwdNext]_fwdVars /\ [GatewayNext]_gatewayVars /\ [LeaseNext]_leaseVars
  BY AccessPartsStep
<1> QED
  BY <1>1, <1>2, PTL DEF AccessSpec, KeysSpec, ConnSpec, EndSpec, FwdSpec, GatewaySpec, LeaseSpec

\* The state of the ways into sessions that one run checks, part by part, is well-typed in every
\* instance of it.
THEOREM AccessTypes == AccessSpec => []AccessTypeOK
<1>1. KeysTypeOK /\ ConnTypeOK /\ EndTypeOK /\ FwdTypeOK /\ GatewayTypeOK /\ LeaseTypeOK => AccessTypeOK
  BY DEF AccessTypeOK
<1> QED
  BY <1>1, AccessParts, KeysTypes, ConnectionTypes, EndpointTypes, ForwardingTypes, GatewayTypes,
     LeaseTypes, PTL

\* What that run checks of them holds in every instance of it: consent to keys and the hosts that
\* credentials go to, the hops of sessions, the file that leads to one server, the forwarded
\* bytes, the gateway that is found and the sessions that commands keep to.
THEOREM AccessIsSound ==
    AccessSpec => /\ [](ConsentFirst /\ NoIdleHop /\ ForwardsAreWhole /\ GatewayIsFound /\ CommandsKeepToTheirs)
                  /\ SentToTrusted /\ OneServer
<1>1. /\ AccessSpec => []ConsentFirst /\ []NoIdleHop
      /\ AccessSpec => []ForwardsAreWhole /\ []GatewayIsFound
      /\ AccessSpec => []CommandsKeepToTheirs
  BY AccessParts, TrustNeedsConsent, HopsAreNotIdle, ForwardedWhole, GatewayFound, CommandsKeep, PTL
<1>2. AccessSpec => SentToTrusted
  BY AccessParts, CredentialsGoToTrusted, PTL
<1>3. AccessSpec => OneServer
  BY AccessParts, TheFileLeadsToOneServer, PTL
<1> QED
  BY <1>1, <1>2, <1>3, PTL
==============================================================================
