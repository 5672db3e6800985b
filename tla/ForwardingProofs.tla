-------------------------- MODULE ForwardingProofs --------------------------
(***************************************************************************)
(* Proofs about Forwarding for any number of connections, any limit on     *)
(* those that are open at once, and any number of chunks.                  *)
(***************************************************************************)
EXTENDS Forwarding, FiniteSetTheorems, TLAPS

Phases == Opening \cup {"new", "bridged", "done", "failed", "refused", "aborted"}
Words == {"method", "no method", "granted", "failure", "unsupported"}

FwdTyped ==
    /\ kind \in Kinds
    /\ lock \in Conns \cup {"worker", Nobody}
    /\ conn \in [Conns -> Phases]
    /\ replies \in [Conns -> SUBSET Words]
    /\ flow \in [Conns -> [Ways -> Flow]]

\* The SSH session is held only while it is asked for something.
Holding ==
    /\ lock = "worker" => worker = "asking"
    /\ \A c \in Conns : lock = c => conn[c] = "opening"

\* What a client has been told when its connection is at phase p of a tunnel of type k.
Told(k, p, r) ==
    /\ p \in {"greeting", "request"} => k = "dynamic"
    /\ p \in {"new", "queued", "greeting"} => r = {}
    /\ p = "request" => r = {"method"}
    /\ p \in {"waiting", "opening"} => r = IF k = "dynamic" THEN {"method"} ELSE {}
    /\ "granted" \in r => r = {"method", "granted"} /\ p \notin Opening
Saying == \A c \in Conns : Told(kind, conn[c], replies[c])

\* A direction that was shut down had passed on all of what its sender sent before closing.
Whole(f) == f.shut => f.fin /\ f.got = f.sent
Passing ==
    \A c \in Conns :
      /\ \A w \in Ways : Whole(flow[c][w])
      /\ conn[c] = "done" => \A w \in Ways : flow[c][w].shut

\* The server has a forward only for a worker that still answers for it.
Answering ==
    /\ {served, gaveUp} \subseteq BOOLEAN
    /\ (worker = "asking" \/ served) => kind = "remote"
    /\ served => worker \in {"granted", "accepting", "draining", "cancelling"} \/ gaveUp

FwdInv == FwdTyped /\ Holding /\ Saying /\ Passing /\ Answering /\ StoppedIsQuiet

-----------------------------------------------------------------------------
LEMMA FwdInvInit == FwdInit => FwdInv
  <1> SUFFICES ASSUME FwdInit PROVE FwdInv
    OBVIOUS
  <1>1. NewFlow \in Flow /\ Whole(NewFlow)
    BY ForwardingAssumption DEF NewFlow, Flow, Whole
  <1>2. FwdTyped
    BY <1>1 DEF FwdInit, FwdTyped, Phases, Opening, Nobody
  <1>3. Holding /\ Answering /\ StoppedIsQuiet
    BY ForwardingAssumption DEF FwdInit, Holding, Answering, StoppedIsQuiet, Nobody
  <1>4. Saying
    BY DEF FwdInit, Saying, Told, Opening
  <1>5. Passing
    BY <1>1 DEF FwdInit, Passing
  <1>6. QED
    BY <1>2, <1>3, <1>4, <1>5 DEF FwdInv

-----------------------------------------------------------------------------
(* The worker returns. *)

LEMMA ReturnsQuietly ==
    ASSUME FwdInv, Returns, kind' = kind, UNCHANGED Data, {served', gaveUp'} \subseteq BOOLEAN,
           served' => kind = "remote" /\ gaveUp'
    PROVE  FwdInv'
  <1>1. ASSUME NEW c \in Conns
        PROVE  /\ conn'[c] \in Phases /\ conn'[c] \notin Tasks \cup {"queued"}
               /\ conn'[c] \in {conn[c], "aborted", "refused"}
    <2>1. conn'[c] = CASE conn[c] \in Tasks -> "aborted"
                       [] conn[c] = "queued" -> "refused"
                       [] OTHER -> conn[c]
      BY DEF Returns
    <2>2. conn[c] \in Phases
      BY DEF FwdInv, FwdTyped
    <2>3. QED
      BY <2>1, <2>2 DEF Tasks, Phases
  <1>2. lock' = Nobody
    <2>1. CASE lock \in Conns
      <3>1. conn[lock] = "opening"
        BY <2>1 DEF FwdInv, Holding
      <3>2. lock \in Active
        BY <2>1, <3>1 DEF Active, Tasks
      <3>3. QED
        BY <3>2 DEF Returns
    <2>2. QED
      BY <2>1 DEF FwdInv, FwdTyped, Returns, Nobody
  <1>3. FwdTyped'
    BY <1>1, <1>2 DEF FwdInv, FwdTyped, Returns, Data
  <1>4. Holding'
    BY <1>2, ForwardingAssumption DEF Holding, Nobody
  <1>5. Saying'
    BY <1>1 DEF FwdInv, Saying, Told, Data, Tasks, Opening
  <1>6. Passing'
    BY <1>1 DEF FwdInv, Passing, Data
  <1>7. Answering' /\ StoppedIsQuiet'
    BY <1>1, <1>2 DEF Answering, StoppedIsQuiet, Active, Returns
  <1>8. QED
    BY <1>3, <1>4, <1>5, <1>6, <1>7 DEF FwdInv

LEMMA ReturnSteps ==
    ASSUME FwdInv,
           \/ BindFails \/ ForwardFails \/ CancelForward \/ CancelFails \/ AcceptFails \/ AbortWorker
           \/ Drained /\ kind # "remote"
    PROVE  FwdInv'
  <1>1. Returns /\ kind' = kind /\ UNCHANGED Data /\ {served', gaveUp'} \subseteq BOOLEAN
    BY DEF BindFails, ForwardFails, CancelForward, CancelFails, AcceptFails, AbortWorker, Drained,
           Data, FwdInv, Answering
  <1>2. served' => kind = "remote" /\ gaveUp'
    BY DEF BindFails, ForwardFails, CancelForward, CancelFails, AcceptFails, AbortWorker, Drained,
           FwdInv, Answering
  <1>3. QED
    BY <1>1, <1>2, ReturnsQuietly

-----------------------------------------------------------------------------
(* It goes on. *)

LEMMA WorkerSteps ==
    ASSUME FwdInv,
           \/ StartListener \/ AskForward \/ ForwardGranted \/ RegisterRoute \/ StopWorker
           \/ SeeStop \/ LinkBreaks \/ DisconnectClient
           \/ Drained /\ kind = "remote"
    PROVE  FwdInv'
  <1>1. UNCHANGED <<kind, conn, Data>> /\ lock' \in {lock, "worker", Nobody}
    BY DEF StartListener, AskForward, ForwardGranted, RegisterRoute, StopWorker, SeeStop, Drained,
           LinkBreaks, DisconnectClient, Data
  <1>2. FwdTyped' /\ Saying' /\ Passing'
    BY <1>1 DEF FwdInv, FwdTyped, Saying, Passing, Data, Nobody
  <1>3. Holding'
    <2>1. lock' = "worker" => worker' = "asking"
      BY DEF StartListener, AskForward, ForwardGranted, RegisterRoute, StopWorker, SeeStop, Drained,
             LinkBreaks, DisconnectClient, FwdInv, Holding, Nobody
    <2>2. ASSUME NEW c \in Conns, lock' = c PROVE conn'[c] = "opening"
      <3>1. c # "worker" /\ c # Nobody
        BY ForwardingAssumption DEF Nobody
      <3>2. lock = c /\ conn' = conn
        BY <1>1, <2>2, <3>1
      <3>3. QED
        BY <3>2 DEF FwdInv, Holding
    <2>3. \A c \in Conns : lock' = c => conn'[c] = "opening"
      BY <2>2
    <2>4. QED
      BY <2>1, <2>3 DEF Holding
  <1>4. Answering'
    <2>1. CASE StartListener \/ AskForward \/ RegisterRoute \/ StopWorker \/ SeeStop
      BY <2>1 DEF StartListener, AskForward, RegisterRoute, StopWorker, SeeStop, FwdInv, Answering, Server
    <2>2. CASE ForwardGranted
      BY <2>2 DEF ForwardGranted, FwdInv, Answering
    <2>3. CASE LinkBreaks \/ DisconnectClient
      BY <2>3 DEF LinkBreaks, DisconnectClient, FwdInv, Answering
    <2>4. CASE Drained /\ kind = "remote"
      BY <2>4 DEF Drained, FwdInv, Answering
    <2>5. QED
      BY <2>1, <2>2, <2>3, <2>4
  <1>5. StoppedIsQuiet'
    <2>1. CASE worker' # "ended"
      BY <2>1 DEF StoppedIsQuiet
    <2>2. CASE worker' = "ended"
      <3>1. worker = "ended" /\ lock' = lock /\ route' = route /\ gaveUp' = gaveUp
        BY <2>2 DEF StartListener, AskForward, ForwardGranted, RegisterRoute, StopWorker, SeeStop,
                    Drained, LinkBreaks, DisconnectClient, Server
      <3>2. served' => served
        BY <2>2, <3>1 DEF StartListener, AskForward, ForwardGranted, RegisterRoute, StopWorker, SeeStop,
                    Drained, LinkBreaks, DisconnectClient, Server, FwdInv, Answering
      <3>3. QED
        BY <1>1, <3>1, <3>2 DEF FwdInv, StoppedIsQuiet, Active
    <2>3. QED
      BY <2>1, <2>2
  <1>6. QED
    BY <1>2, <1>3, <1>4, <1>5 DEF FwdInv

-----------------------------------------------------------------------------
(* A connection moves. *)

LEMMA OneConnMoves ==
    ASSUME FwdInv, NEW c \in Conns, NEW p \in Phases, NEW r \in SUBSET Words,
           conn' = [conn EXCEPT ![c] = p], replies' = [replies EXCEPT ![c] = r],
           UNCHANGED <<kind, worker, flow, gaveUp, Server>>,
           lock' \in Conns \cup {"worker", Nobody}, Holding', Told(kind, p, r),
           p = "done" => \A w \in Ways : flow[c][w].shut,
           worker = "ended" => p \notin Tasks \cup {"queued"} /\ lock' = Nobody
    PROVE  FwdInv'
  <1>1. ASSUME NEW d \in Conns
        PROVE  /\ conn'[d] = IF d = c THEN p ELSE conn[d]
               /\ replies'[d] = IF d = c THEN r ELSE replies[d]
    BY DEF FwdInv, FwdTyped
  <1>2. FwdTyped'
    BY DEF FwdInv, FwdTyped
  <1>3. Saying'
    BY <1>1 DEF FwdInv, Saying
  <1>4. Passing'
    BY <1>1 DEF FwdInv, Passing
  <1>5. Answering'
    BY DEF FwdInv, Answering, Server
  <1>6. StoppedIsQuiet'
    BY <1>1 DEF FwdInv, StoppedIsQuiet, Active, Server
  <1>7. QED
    BY <1>2, <1>3, <1>4, <1>5, <1>6 DEF FwdInv

\* No task is left when the worker has ended.
LEMMA TaskRuns ==
    ASSUME FwdInv, NEW c \in Conns, conn[c] \in Tasks \cup {"queued"}
    PROVE  worker # "ended"
  BY DEF FwdInv, StoppedIsQuiet, Active

LEMMA PhaseFacts ==
    ASSUME FwdInv, NEW c \in Conns
    PROVE  /\ conn[c] \in Phases /\ replies[c] \in SUBSET Words
           /\ Told(kind, conn[c], replies[c])
           /\ replies = [replies EXCEPT ![c] = replies[c]]
           /\ \A d \in Conns : lock = d => conn[d] = "opening"
           /\ c # "worker" /\ c # Nobody
  BY ForwardingAssumption DEF FwdInv, FwdTyped, Saying, Holding, Nobody

\* A task comes to an end: the session is free again if it held it.
LEMMA OneEnds ==
    ASSUME FwdInv, NEW c \in Conns, NEW how \in {"done", "failed", "aborted"}, NEW r \in SUBSET Words,
           conn[c] \in Tasks, Ends({c}, how), replies' = [replies EXCEPT ![c] = r],
           UNCHANGED <<kind, worker, flow, gaveUp, Server>>, Told(kind, how, r),
           how = "done" => \A w \in Ways : flow[c][w].shut
    PROVE  FwdInv'
  <1>1. conn' = [conn EXCEPT ![c] = how]
    BY DEF Ends, FwdInv, FwdTyped
  <1>2. lock' = IF lock = c THEN Nobody ELSE lock
    BY DEF Ends
  <1>3. Holding'
    <2>1. lock' = "worker" => worker' = "asking"
      BY <1>2 DEF FwdInv, Holding, Nobody
    <2>2. ASSUME NEW d \in Conns, lock' = d PROVE conn'[d] = "opening"
      <3>1. d # Nobody
        BY ForwardingAssumption DEF Nobody
      <3>2. lock = d /\ d # c
        BY <1>2, <2>2, <3>1
      <3>3. conn[d] = "opening"
        BY <3>2, PhaseFacts
      <3>4. QED
        BY <1>1, <3>2, <3>3 DEF FwdInv, FwdTyped
    <2>3. QED
      BY <2>1, <2>2 DEF Holding
  <1>4. lock' \in Conns \cup {"worker", Nobody}
    BY <1>2 DEF FwdInv, FwdTyped
  <1>5. worker # "ended"
    BY TaskRuns
  <1>6. how \in Phases
    BY DEF Phases
  <1>7. QED
    BY <1>1, <1>3, <1>4, <1>5, <1>6, OneConnMoves

\* A connection advances, and nobody else takes the session or gives it back.
LEMMA OneAdvances ==
    ASSUME FwdInv, NEW c \in Conns, NEW from, NEW to \in Phases, NEW r \in SUBSET Words,
           Advances(c, from, to), lock' = lock, from # "opening",
           replies' = [replies EXCEPT ![c] = r],
           UNCHANGED <<kind, worker, flow, gaveUp, Server>>, Told(kind, to, r), to # "done",
           worker = "ended" => to \notin Tasks \cup {"queued"}
    PROVE  FwdInv'
  <1>1. lock # c
    BY PhaseFacts DEF Advances
  <1>2. Holding'
    <2>1. ASSUME NEW d \in Conns, lock' = d PROVE conn'[d] = "opening"
      <3>1. lock = d /\ d # c /\ conn[d] = "opening"
        BY <1>1, <2>1, PhaseFacts
      <3>2. QED
        BY <3>1 DEF Advances, FwdInv, FwdTyped
    <2>2. QED
      BY <2>1 DEF FwdInv, Holding
  <1>3. lock' \in Conns \cup {"worker", Nobody} /\ (worker = "ended" => lock' = Nobody)
    BY DEF FwdInv, FwdTyped, StoppedIsQuiet
  <1>4. QED
    BY <1>2, <1>3, OneConnMoves DEF Advances

LEMMA Openings ==
    ASSUME FwdInv, NEW c \in Conns,
           \/ Arrive(c) \/ Accept(c) \/ LockSession(c) \/ ChannelOpens(c) \/ Dialed(c)
    PROVE  FwdInv'
  <1>1. CASE Arrive(c)
    <2>1. PICK to \in {"refused", "queued"} :
            Advances(c, "new", to) /\ (worker = "ended" => to = "refused")
      BY <1>1 DEF Arrive, FwdInv, StoppedIsQuiet, Answering
    <2>2. to \in Phases /\ Told(kind, to, replies[c])
      BY <2>1, PhaseFacts DEF Phases, Opening, Told, Advances
    <2>3. QED
      BY <1>1, <2>1, <2>2, PhaseFacts, OneAdvances DEF Arrive, Data, Tasks
  <1>2. CASE Accept(c)
    <2>1. PICK to \in {"waiting", "greeting", "dialing"} :
            /\ Advances(c, "queued", to)
            /\ to = "waiting" => kind = "local"
            /\ to = "greeting" => kind = "dynamic"
      BY <1>2 DEF Accept
    <2>2. to \in Phases /\ Told(kind, to, replies[c])
      BY <2>1, PhaseFacts DEF Phases, Opening, Told, Advances
    <2>3. QED
      BY <1>2, <2>1, <2>2, PhaseFacts, OneAdvances DEF Accept, Data
  <1>3. CASE LockSession(c)
    <2>1. Told(kind, "opening", replies[c]) /\ "opening" \in Phases
      BY <1>3, PhaseFacts DEF Told, Phases, Opening, LockSession, Advances
    <2>2. Holding'
      BY <1>3, PhaseFacts DEF Holding, LockSession, Advances, FwdInv, FwdTyped
    <2>3. worker # "ended"
      BY <1>3, TaskRuns DEF LockSession, Advances, Tasks
    <2>4. QED
      BY <1>3, <2>1, <2>2, <2>3, PhaseFacts, OneConnMoves DEF LockSession, Advances, Data
  <1>4. CASE ChannelOpens(c)
    <2>1. PICK r \in SUBSET Words :
            /\ replies' = [replies EXCEPT ![c] = r]
            /\ r = IF kind = "dynamic" THEN {"method", "granted"} ELSE {}
      <3>1. replies[c] = IF kind = "dynamic" THEN {"method"} ELSE {}
        BY <1>4, PhaseFacts DEF Told, ChannelOpens, Advances
      <3>2. CASE kind = "dynamic"
        BY <1>4, <3>1, <3>2 DEF ChannelOpens, Tells, Words
      <3>3. CASE kind # "dynamic"
        BY <1>4, <3>1, <3>3, PhaseFacts DEF ChannelOpens
      <3>4. QED
        BY <3>2, <3>3
    <2>2. Told(kind, "bridged", r) /\ "bridged" \in Phases
      BY <2>1 DEF Told, Phases, Opening
    <2>3. Holding'
      BY <1>4, ForwardingAssumption DEF Holding, ChannelOpens, Advances, Nobody
    <2>4. worker # "ended"
      BY <1>4, TaskRuns DEF ChannelOpens, Advances, Tasks
    <2>5. QED
      BY <1>4, <2>1, <2>2, <2>3, <2>4, OneConnMoves DEF ChannelOpens, Advances
  <1>5. CASE Dialed(c)
    <2>1. Told(kind, "bridged", replies[c]) /\ "bridged" \in Phases
      BY <1>5, PhaseFacts DEF Told, Phases, Opening, Dialed, Advances
    <2>2. worker # "ended"
      BY <1>5, TaskRuns DEF Dialed, Advances, Tasks
    <2>3. QED
      BY <1>5, <2>1, <2>2, PhaseFacts, OneAdvances DEF Dialed, Data
  <1>6. QED
    BY <1>1, <1>2, <1>3, <1>4, <1>5

LEMMA Endings ==
    ASSUME FwdInv, NEW c \in Conns,
           AbortTask(c) \/ Bridged(c) \/ BridgeFails(c) \/ \E told \in BOOLEAN : OpenFails(c, told)
    PROVE  FwdInv'
  <1>1. CASE AbortTask(c)
    <2>1. conn[c] \in Tasks /\ Told(kind, "aborted", replies[c])
      BY <1>1, PhaseFacts DEF AbortTask, Active, Told, Opening
    <2>2. QED
      BY <1>1, <2>1, PhaseFacts, OneEnds DEF AbortTask, Data
  <1>2. CASE Bridged(c)
    <2>1. conn[c] \in Tasks /\ Told(kind, "done", replies[c])
      BY <1>2, PhaseFacts DEF Bridged, Tasks, Told, Opening
    <2>2. QED
      BY <1>2, <2>1, PhaseFacts, OneEnds DEF Bridged, Data
  <1>3. CASE BridgeFails(c)
    <2>1. conn[c] \in Tasks /\ Told(kind, "failed", replies[c])
      BY <1>3, PhaseFacts DEF BridgeFails, Tasks, Told, Opening
    <2>2. QED
      BY <1>3, <2>1, PhaseFacts, OneEnds DEF BridgeFails, Data
  <1>4. ASSUME NEW told \in BOOLEAN, OpenFails(c, told) PROVE FwdInv'
    <2>1. conn[c] \in Tasks
      BY <1>4 DEF OpenFails
    <2>2. CASE told
      <3>1. "granted" \notin replies[c]
        BY <1>4, <2>2, PhaseFacts DEF OpenFails, Told
      <3>2. Told(kind, "failed", replies[c] \cup {"failure"})
        BY <3>1 DEF Told
      <3>3. replies[c] \cup {"failure"} \in SUBSET Words
        BY PhaseFacts DEF Words
      <3>4. replies' = [replies EXCEPT ![c] = replies[c] \cup {"failure"}]
        BY <1>4, <2>2 DEF OpenFails, Tells
      <3>5. QED
        BY <1>4, <2>1, <3>2, <3>3, <3>4, OneEnds DEF OpenFails
    <2>3. CASE ~told
      <3>1. Told(kind, "failed", replies[c])
        BY PhaseFacts DEF Told, Opening
      <3>2. replies' = replies
        BY <1>4, <2>3 DEF OpenFails
      <3>3. QED
        BY <1>4, <2>1, <3>1, <3>2, PhaseFacts, OneEnds DEF OpenFails
    <2>4. QED
      BY <2>2, <2>3
  <1>5. QED
    BY <1>1, <1>2, <1>3, <1>4

\* The exchange with a SOCKS client, before it is told anything final.
LEMMA Exchanges ==
    ASSUME FwdInv, NEW c \in Conns,
           \/ \E acceptable \in BOOLEAN : Greet(c, acceptable)
           \/ \E answer \in {"fine", "unsupported", "wrong"} : AskTarget(c, answer)
    PROVE  FwdInv'
  <1>1. ASSUME NEW acceptable \in BOOLEAN, Greet(c, acceptable) PROVE FwdInv'
    <2>1. conn[c] = "greeting" /\ replies[c] = {} /\ kind = "dynamic" /\ conn[c] \in Tasks
      BY <1>1, PhaseFacts DEF Greet, Told, Tasks
    <2>2. CASE acceptable
      <3>1. {"method"} \in SUBSET Words /\ Told(kind, "request", {"method"}) /\ "request" \in Phases
        BY <2>1 DEF Words, Told, Phases, Opening
      <3>2. replies' = [replies EXCEPT ![c] = {"method"}]
        BY <1>1, <2>1, <2>2 DEF Greet, Tells
      <3>3. worker # "ended"
        BY <2>1, TaskRuns
      <3>4. QED
        BY <1>1, <2>2, <3>1, <3>2, <3>3, OneAdvances DEF Greet
    <2>3. CASE ~acceptable
      <3>1. PICK r \in {{"no method", "failure"}, {"failure"}} : replies' = [replies EXCEPT ![c] = r]
        <4>1. PICK said \in {{"no method"}, {}} :
                replies' = [replies EXCEPT ![c] = @ \cup (said \cup {"failure"})]
          BY <1>1, <2>3 DEF Greet, Tells
        <4>2. replies[c] \cup (said \cup {"failure"}) \in {{"no method", "failure"}, {"failure"}}
          BY <2>1
        <4>3. QED
          BY <4>1, <4>2
      <3>2. r \in SUBSET Words /\ Told(kind, "failed", r)
        BY DEF Words, Told
      <3>3. QED
        BY <1>1, <2>1, <2>3, <3>1, <3>2, OneEnds DEF Greet
    <2>4. QED
      BY <2>2, <2>3
  <1>2. ASSUME NEW answer \in {"fine", "unsupported", "wrong"}, AskTarget(c, answer) PROVE FwdInv'
    <2>1. conn[c] = "request" /\ replies[c] = {"method"} /\ kind = "dynamic" /\ conn[c] \in Tasks
      BY <1>2, PhaseFacts DEF AskTarget, Told, Tasks
    <2>2. CASE answer = "fine"
      <3>1. Told(kind, "waiting", replies[c]) /\ "waiting" \in Phases
        BY <2>1 DEF Told, Phases, Opening
      <3>2. worker # "ended"
        BY <2>1, TaskRuns
      <3>3. QED
        BY <1>2, <2>2, <3>1, <3>2, PhaseFacts, OneAdvances DEF AskTarget
    <2>3. CASE answer # "fine"
      <3> DEFINE r == replies[c] \cup ({"failure"} \cup ({"unsupported"} \cap {answer}))
      <3>1. r \in SUBSET Words /\ "granted" \notin r
        BY <2>1, <2>3 DEF Words
      <3>2. Told(kind, "failed", r)
        BY <3>1 DEF Told
      <3>3. replies' = [replies EXCEPT ![c] = r]
        BY <1>2, <2>3 DEF AskTarget, Tells
      <3>4. Ends({c}, "failed") /\ UNCHANGED <<kind, worker, flow, gaveUp, Server>>
        BY <1>2, <2>3 DEF AskTarget
      <3> HIDE DEF r
      <3>5. QED
        BY <2>1, <3>1, <3>2, <3>3, <3>4, OneEnds
    <2>4. QED
      BY <2>2, <2>3
  <1>3. QED
    BY <1>1, <1>2

-----------------------------------------------------------------------------
(* Data flows. *)

LEMMA OneFlows ==
    ASSUME FwdInv, NEW c \in Conns, NEW w \in Ways, NEW f \in Flow,
           flow' = [flow EXCEPT ![c] = [@ EXCEPT ![w] = f]], Whole(f), conn[c] = "bridged",
           UNCHANGED <<kind, worker, lock, conn, replies, gaveUp, Server>>
    PROVE  FwdInv'
  <1>1. FwdTyped'
    BY DEF FwdInv, FwdTyped
  <1>2. Holding' /\ Saying' /\ Answering' /\ StoppedIsQuiet'
    BY DEF FwdInv, Holding, Saying, Answering, StoppedIsQuiet, Active, Server
  <1>3. Passing'
    BY DEF FwdInv, FwdTyped, Passing
  <1>4. QED
    BY <1>1, <1>2, <1>3 DEF FwdInv

LEMMA Flowings ==
    ASSUME FwdInv, NEW c \in Conns, NEW w \in Ways, Sends(c, w) \/ Copy(c, w)
    PROVE  FwdInv'
  <1> DEFINE f == flow[c][w]
  <1>1. f \in Flow /\ Whole(f)
    BY DEF FwdInv, FwdTyped, Passing
  <1>2. PICK g \in Flow : Whole(g) /\ flow' = [flow EXCEPT ![c] = [@ EXCEPT ![w] = g]]
    <2>1. CASE Sends(c, w)
      <3>1. ~f.fin /\ ~f.shut
        BY <1>1, <2>1 DEF Sends, Whole, Flow
      <3>2. CASE f.sent < MaxChunks /\ flow' = [flow EXCEPT ![c][w].sent = @ + 1]
        <4>1. f.sent + 1 \in 0..MaxChunks
          BY <1>1, <3>2, ForwardingAssumption DEF Flow
        <4>2. [f EXCEPT !.sent = @ + 1] \in Flow /\ Whole([f EXCEPT !.sent = @ + 1])
          BY <1>1, <3>1, <4>1 DEF Flow, Whole
        <4>3. QED
          BY <3>2, <4>2
      <3>3. CASE flow' = [flow EXCEPT ![c][w].fin = TRUE]
        <4>1. [f EXCEPT !.fin = TRUE] \in Flow /\ Whole([f EXCEPT !.fin = TRUE])
          BY <1>1, <3>1 DEF Flow, Whole
        <4>2. QED
          BY <3>3, <4>1
      <3>4. QED
        BY <2>1, <3>2, <3>3 DEF Sends
    <2>2. CASE Copy(c, w)
      <3>1. ~f.shut
        BY <2>2 DEF Copy
      <3>2. CASE f.got < f.sent /\ flow' = [flow EXCEPT ![c][w].got = @ + 1]
        <4>1. f.got + 1 \in 0..MaxChunks
          BY <1>1, <3>2, ForwardingAssumption DEF Flow
        <4>2. [f EXCEPT !.got = @ + 1] \in Flow /\ Whole([f EXCEPT !.got = @ + 1])
          BY <1>1, <3>1, <4>1 DEF Flow, Whole
        <4>3. QED
          BY <3>2, <4>2
      <3>3. CASE f.got = f.sent /\ f.fin /\ flow' = [flow EXCEPT ![c][w].shut = TRUE]
        <4>1. [f EXCEPT !.shut = TRUE] \in Flow /\ Whole([f EXCEPT !.shut = TRUE])
          BY <1>1, <3>3 DEF Flow, Whole
        <4>2. QED
          BY <3>3, <4>1
      <3>4. QED
        BY <2>2, <3>2, <3>3 DEF Copy
    <2>3. QED
      BY <2>1, <2>2
  <1>3. conn[c] = "bridged" /\ UNCHANGED <<kind, worker, lock, conn, replies, gaveUp, Server>>
    BY DEF Sends, Copy
  <1>4. QED
    BY <1>2, <1>3, OneFlows

-----------------------------------------------------------------------------

LEMMA FwdInvStep == ASSUME FwdInv, [FwdNext]_fwdVars PROVE FwdInv'
  <1>1. CASE UNCHANGED fwdVars
    BY <1>1 DEF fwdVars, FwdInv, FwdTyped, Holding, Saying, Passing, Answering, StoppedIsQuiet, Active
  <1>2. CASE FwdNext
    <2>1. CASE Drained
      <3>1. CASE kind = "remote"
        BY <2>1, <3>1, WorkerSteps
      <3>2. CASE kind # "remote"
        BY <2>1, <3>2, ReturnSteps
      <3>3. QED
        BY <3>1, <3>2
    <2>2. QED
      BY <1>2, <2>1, ReturnSteps, WorkerSteps, Openings, Endings, Exchanges, Flowings DEF FwdNext
  <1>3. QED
    BY <1>1, <1>2

LEMMA InvIsWhole == ASSUME FwdInv PROVE ForwardsAreWhole
  <1>1. ASSUME NEW c \in Conns
        PROVE  /\ conn[c] = "done" =>
                    \A w \in Ways : flow[c][w].fin /\ flow[c][w].got = flow[c][w].sent
               /\ "granted" \in replies[c] => replies[c] = {"method", "granted"} /\ conn[c] \notin Opening
    BY DEF FwdInv, Passing, Whole, Saying, Told
  <1>2. QED
    BY <1>1 DEF ForwardsAreWhole, FullyDelivered, FwdInv

\* What a tunnel carries arrives whole, its SOCKS clients are told one story, and a tunnel that
\* was stopped leaves nothing behind, however many connections it has and wherever it was stopped.
THEOREM ForwardedWhole == FwdSpec => []ForwardsAreWhole
  <1>1. FwdInit => FwdInv
    BY FwdInvInit
  <1>2. FwdInv /\ [FwdNext]_fwdVars => FwdInv'
    BY FwdInvStep
  <1>3. FwdInv => ForwardsAreWhole
    BY InvIsWhole
  <1>4. QED
    BY <1>1, <1>2, <1>3, PTL DEF FwdSpec

-----------------------------------------------------------------------------
(* The limit on what is open at once. *)

\* What FwdInv leaves out of the types, and the limit, which is one on a finite set.
Counted ==
    /\ link \in {"up", "broken", "gone"}
    /\ worker \in {"starting", "asking", "granted", "accepting", "draining", "cancelling", "ended"}
    /\ stop \in BOOLEAN /\ route \in BOOLEAN
    /\ IsFiniteSet(Active) /\ Cardinality(Active) <= MaxActive

\* Only Accept makes a task.
LEMMA FewerActive ==
    ASSUME Counted, Active' \subseteq Active
    PROVE  IsFiniteSet(Active') /\ Cardinality(Active') <= MaxActive
<1> DEFINE A == Active'
<1>1. IsFiniteSet(Active) /\ A \subseteq Active
  BY DEF Counted
<1>2. IsFiniteSet(A) /\ Cardinality(A) <= Cardinality(Active)
  BY <1>1, FS_Subset
<1>3. Cardinality(A) \in Nat /\ Cardinality(Active) \in Nat
  BY <1>1, <1>2, FS_CardinalityType
<1> QED
  BY <1>2, <1>3, ForwardingAssumption DEF Counted

LEMMA OneMoreActive ==
    ASSUME Counted, NEW c, Active' \subseteq Active \cup {c}, Cardinality(Active) < MaxActive
    PROVE  IsFiniteSet(Active') /\ Cardinality(Active') <= MaxActive
<1> DEFINE A == Active'
           B == Active \cup {c}
<1>1. IsFiniteSet(Active) /\ A \subseteq B
  BY DEF Counted
<1>2. IsFiniteSet(B) /\ Cardinality(B) <= Cardinality(Active) + 1
  <2>1. CASE c \in Active
    <3>1. B = Active /\ Cardinality(Active) \in Nat
      BY <1>1, <2>1, FS_CardinalityType
    <3> HIDE DEF B
    <3>2. Cardinality(B) = Cardinality(Active)
      BY <3>1
    <3> QED
      BY <1>1, <3>1, <3>2
  <2>2. CASE c \notin Active
    <3>1. Cardinality(Active) \in Nat
      BY <1>1, FS_CardinalityType
    <3> QED
      BY <1>1, <2>2, <3>1, FS_AddElement
  <2> QED
    BY <2>1, <2>2
<1>3. IsFiniteSet(A) /\ Cardinality(A) <= Cardinality(B)
  BY <1>1, <1>2, FS_Subset
<1>4. Cardinality(A) \in Nat /\ Cardinality(B) \in Nat /\ Cardinality(Active) \in Nat
  BY <1>1, <1>2, <1>3, FS_CardinalityType
<1> QED
  BY <1>2, <1>3, <1>4, ForwardingAssumption

\* How a connection goes on without becoming a task.
LEMMA AdvanceActive ==
    ASSUME FwdInv, NEW c \in Conns, NEW from, NEW to, Advances(c, from, to), from \in Tasks \/ to \notin Tasks
    PROVE  Active' \subseteq Active
<1>1. conn \in [Conns -> Phases]
  BY DEF FwdInv, FwdTyped
<1>2. ASSUME NEW d \in Active' PROVE d \in Active
  <2>1. d \in Conns /\ conn'[d] \in Tasks
    BY <1>2 DEF Active
  <2>2. CASE d = c
    <3>1. conn'[c] = to /\ conn[c] = from
      BY <1>1 DEF Advances
    <3> QED
      BY <2>1, <2>2, <3>1 DEF Active
  <2>3. CASE d # c
    BY <1>1, <2>1, <2>3 DEF Advances, Active
  <2> QED
    BY <2>2, <2>3
<1> QED
  BY <1>2

LEMMA EndsActive ==
    ASSUME NEW C, NEW how, how \notin Tasks, Ends(C, how) PROVE Active' \subseteq Active
  BY DEF Ends, Active

LEMMA ReturnsActive == ASSUME Returns PROVE Active' = {} /\ route' = FALSE /\ worker' = "ended"
<1>1. \A c \in Conns : conn'[c] \notin Tasks
  BY DEF Returns, Tasks
<1> QED
  BY <1>1 DEF Returns, Active

LEMMA CountedStep == ASSUME FwdInv, Counted, [FwdNext]_fwdVars PROVE Counted'
<1> USE DEF Server, Data
<1>1. CASE UNCHANGED fwdVars
  BY <1>1 DEF fwdVars, Counted, Active
<1>2. CASE BindFails \/ ForwardFails \/ CancelForward \/ CancelFails \/ AcceptFails \/ AbortWorker
  <2>1. Active' = {} /\ route' = FALSE /\ worker' = "ended"
    BY <1>2, ReturnsActive DEF BindFails, ForwardFails, CancelForward, CancelFails, AcceptFails, AbortWorker
  <2>2. stop' = stop /\ link' = link
    BY <1>2 DEF BindFails, ForwardFails, CancelForward, CancelFails, AcceptFails, AbortWorker
  <2>3. IsFiniteSet(Active') /\ Cardinality(Active') <= MaxActive
    BY <2>1, FewerActive
  <2> QED
    BY <2>1, <2>2, <2>3 DEF Counted
<1>3. CASE \/ StartListener \/ AskForward \/ ForwardGranted \/ RegisterRoute \/ StopWorker \/ SeeStop
           \/ LinkBreaks \/ DisconnectClient
  <2>1. conn' = conn
    BY <1>3 DEF StartListener, AskForward, ForwardGranted, RegisterRoute, StopWorker, SeeStop,
                LinkBreaks, DisconnectClient
  <2>2. IsFiniteSet(Active') /\ Cardinality(Active') <= MaxActive
    BY <2>1 DEF Counted, Active
  <2> QED
    BY <1>3, <2>2 DEF StartListener, AskForward, ForwardGranted, RegisterRoute, StopWorker, SeeStop,
                      LinkBreaks, DisconnectClient, Counted
<1>4. CASE Drained
  <2>1. CASE kind = "remote"
    <3>1. conn' = conn /\ worker' = "cancelling" /\ UNCHANGED <<stop, route, link>>
      BY <1>4, <2>1 DEF Drained
    <3> QED
      BY <3>1 DEF Counted, Active
  <2>2. CASE kind # "remote"
    <3>1. Returns /\ UNCHANGED <<stop, link>>
      BY <1>4, <2>2 DEF Drained
    <3>2. Active' = {} /\ route' = FALSE /\ worker' = "ended"
      BY <3>1, ReturnsActive
    <3>3. IsFiniteSet(Active') /\ Cardinality(Active') <= MaxActive
      BY <3>2, FewerActive
    <3> QED
      BY <3>1, <3>2, <3>3 DEF Counted
  <2> QED
    BY <2>1, <2>2
<1>5. ASSUME NEW c \in Conns,
             \/ AbortTask(c) \/ Arrive(c) \/ LockSession(c) \/ ChannelOpens(c) \/ Dialed(c)
             \/ Bridged(c) \/ BridgeFails(c)
             \/ \E told \in BOOLEAN : Greet(c, told) \/ OpenFails(c, told)
             \/ \E answer \in {"fine", "unsupported", "wrong"} : AskTarget(c, answer)
             \/ \E w \in Ways : Sends(c, w) \/ Copy(c, w)
      PROVE  Counted'
  <2>1. UNCHANGED <<worker, stop, route, link>>
    BY <1>5 DEF AbortTask, Arrive, LockSession, ChannelOpens, Dialed, Bridged, BridgeFails, Greet,
                OpenFails, AskTarget, Sends, Copy
  <2>2. Active' \subseteq Active
    <3>1. CASE AbortTask(c) \/ Bridged(c) \/ BridgeFails(c) \/ \E told \in BOOLEAN : OpenFails(c, told)
      <4>1. \E how \in {"aborted", "done", "failed"} : Ends({c}, how)
        BY <3>1 DEF AbortTask, Bridged, BridgeFails, OpenFails
      <4> QED
        BY <4>1, EndsActive DEF Tasks
    <3>2. CASE Arrive(c)
      <4>1. Advances(c, "new", IF kind = "remote" /\ ~route THEN "refused" ELSE "queued")
        BY <3>2 DEF Arrive
      <4> QED
        BY <4>1, AdvanceActive DEF Tasks
    <3>3. CASE LockSession(c) \/ ChannelOpens(c) \/ Dialed(c)
      <4>1. \/ Advances(c, "waiting", "opening") \/ Advances(c, "opening", "bridged")
            \/ Advances(c, "dialing", "bridged")
        BY <3>3 DEF LockSession, ChannelOpens, Dialed
      <4> QED
        BY <4>1, AdvanceActive DEF Tasks
    <3>4. CASE \E told \in BOOLEAN : Greet(c, told)
      <4>1. Advances(c, "greeting", "request") \/ Ends({c}, "failed")
        BY <3>4 DEF Greet
      <4> QED
        BY <4>1, AdvanceActive, EndsActive DEF Tasks
    <3>5. CASE \E answer \in {"fine", "unsupported", "wrong"} : AskTarget(c, answer)
      <4>1. Advances(c, "request", "waiting") \/ Ends({c}, "failed")
        BY <3>5 DEF AskTarget
      <4> QED
        BY <4>1, AdvanceActive, EndsActive DEF Tasks
    <3>6. CASE \E w \in Ways : Sends(c, w) \/ Copy(c, w)
      BY <3>6 DEF Sends, Copy, Active
    <3> QED
      BY <1>5, <3>1, <3>2, <3>3, <3>4, <3>5, <3>6
  <2>3. IsFiniteSet(Active') /\ Cardinality(Active') <= MaxActive
    BY <2>2, FewerActive
  <2> QED
    BY <2>1, <2>3 DEF Counted
<1>6. ASSUME NEW c \in Conns, Accept(c) PROVE Counted'
  <2>1. UNCHANGED <<worker, stop, route, link>> /\ Cardinality(Active) < MaxActive
    BY <1>6 DEF Accept
  <2>2. Active' \subseteq Active \cup {c}
    BY <1>6 DEF Accept, Advances, FwdInv, FwdTyped, Active
  <2>3. IsFiniteSet(Active') /\ Cardinality(Active') <= MaxActive
    BY <2>1, <2>2, OneMoreActive
  <2> QED
    BY <2>1, <2>3 DEF Counted
<1>7. CASE FwdNext
  BY <1>2, <1>3, <1>4, <1>5, <1>6, <1>7 DEF FwdNext
<1> QED
  BY <1>1, <1>7

LEMMA CountedInit == ASSUME FwdInit PROVE Counted
<1>1. Active = {}
  BY DEF FwdInit, Active, Tasks
<1>2. IsFiniteSet({}) /\ Cardinality({}) = 0
  BY FS_EmptySet
<1>3. IsFiniteSet(Active) /\ Cardinality(Active) <= MaxActive
  BY <1>1, <1>2, ForwardingAssumption
<1> QED
  BY <1>3 DEF FwdInit, Counted

\* A tunnel is well-typed in every reachable state, and never has more connections open at once
\* than its limit, however many come.
THEOREM ForwardingTypes == FwdSpec => []FwdTypeOK
<1>1. FwdInit => FwdInv
  BY FwdInvInit
<1>2. FwdInv /\ [FwdNext]_fwdVars => FwdInv'
  BY FwdInvStep
<1>3. FwdInit => Counted
  BY CountedInit
<1>4. FwdInv /\ Counted /\ [FwdNext]_fwdVars => Counted'
  BY CountedStep
<1>5. FwdInv /\ Counted => FwdTypeOK
  BY DEF FwdInv, FwdTyped, Phases, Words, Answering, Counted, Active, FwdTypeOK
<1> QED
  BY <1>1, <1>2, <1>3, <1>4, <1>5, PTL DEF FwdSpec
=============================================================================
