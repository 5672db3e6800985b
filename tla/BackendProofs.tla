---------------------------- MODULE BackendProofs ----------------------------
(***************************************************************************)
(* Proofs about the components of the back end, each for any number of its *)
(* sessions, services, devices and requests.                               *)
(***************************************************************************)
EXTENDS MCBackend, FiniteSetTheorems, WellFoundedInduction, TLAPS

(* Terminals. *)

Bridged == home # "daemon"

\* What makes NoHoleInOutput inductive: nothing writes to the windows of such a session but its bridge
\* and the replay; from the first chunk of a batch, and of a terminal, up to what the bridge has
\* received, all there is was shown, skipped, or waits in the batch.
BridgeFits ==
    /\ bridge.at <= sent
    /\ ~bridge.on => bridge.at = 0 /\ bridge.batch = {}
    /\ Bridged => streams["forwarder"].stage = "off"
    /\ \A a \in bridge.batch : \A c \in a..bridge.at : c \in bridge.batch \cup skipped

ShownFits ==
    /\ \A w \in Windows : terminal[w] = "closed" => shown[w] = {}
    /\ Bridged => \A w \in Windows : \A a \in shown[w] : \A c \in a..bridge.at :
                    c \in shown[w] \cup skipped \cup bridge.batch

\* Until the bridge is there, all that a terminal shows is its replay, which has no hole.
Whole(chunks) == \A a, b \in chunks : \A c \in a..b : c \in chunks
ReplayFits ==
    Bridged /\ ~bridge.on =>
        \A w \in Windows : (terminal[w] = "replayed" \/ shown[w] = {}) /\ Whole(shown[w])

TermInv == TermTypeOK /\ BridgeFits /\ ShownFits /\ ReplayFits

Bridges == [on : BOOLEAN, at : 0..MaxOutput, batch : SUBSET Chunks]
StreamRecords == [stage : StreamStages, todo : SUBSET Chunks, at : 0..MaxOutput]

LEMMA ReplayFact ==
    ASSUME TermTypeOK PROVE Replay \subseteq Chunks /\ \A a \in Replay : \A c \in a..pushed : c \in Replay
  BY TermAssumption DEF Replay, Chunks, TermTypeOK

LEMMA TermInvInit == TermInit => TermInv
  <1> SUFFICES ASSUME TermInit PROVE TermInv
    OBVIOUS
  <1>1. NoStream \in StreamRecords /\ NoStream.stage = "off"
    BY TermAssumption DEF NoStream, StreamRecords, StreamStages
  <1>2. bridge \in Bridges /\ bridge.at = 0 /\ bridge.batch = {} /\ ~bridge.on
    <2>1. bridge = [on |-> FALSE, at |-> 0, batch |-> {}] /\ 0 \in 0..MaxOutput
      BY TermAssumption DEF TermInit
    <2>2. QED
      BY <2>1 DEF Bridges
  <1>3. TermTypeOK
    <2>1. home \in Homes /\ pushed = 0 /\ sent = 0 /\ skipped = {} /\ attaches = 0
      BY DEF TermInit
    <2>2. streams \in [Streams -> StreamRecords]
      BY <1>1 DEF TermInit
    <2>3. terminal \in [Windows -> TerminalStages] /\ shown \in [Viewers -> SUBSET Chunks]
      BY DEF TermInit, TerminalStages
    <2>4. QED
      BY <1>2, <2>1, <2>2, <2>3, TermAssumption DEF TermTypeOK, Bridges, StreamRecords
  <1>4. streams["forwarder"].stage = "off"
    BY <1>1 DEF TermInit, Streams
  <1>5. BridgeFits
    BY <1>2, <1>4 DEF BridgeFits, TermInit
  <1>6. ShownFits /\ ReplayFits
    BY DEF ShownFits, ReplayFits, Whole, TermInit, Viewers
  <1>7. QED
    BY <1>3, <1>5, <1>6 DEF TermInv

-----------------------------------------------------------------------------
\* The session.
LEMMA OutputKeeps ==
    ASSUME TermInv, PushOutput \/ SendOutput PROVE TermInv'
  <1>1. TermTypeOK'
    BY TermAssumption DEF TermInv, PushOutput, SendOutput, TermTypeOK
  <1>2. bridge' = bridge /\ streams' = streams /\ terminal' = terminal /\ shown' = shown /\ skipped' = skipped /\ sent' >= sent
        /\ home' = home
    BY DEF PushOutput, SendOutput, TermInv, TermTypeOK
  <1>3. BridgeFits' /\ ShownFits' /\ ReplayFits'
    <2>1. bridge.at \in Int /\ sent \in Int /\ sent' \in Int
      BY <1>1 DEF TermInv, TermTypeOK
    <2>2. BridgeFits'
      BY <1>2, <2>1 DEF TermInv, BridgeFits, Bridged
    <2>3. QED
      BY <1>2, <2>2 DEF TermInv, ShownFits, ReplayFits, Bridged
  <1>4. QED
    BY <1>1, <1>3 DEF TermInv

\* A bridge that takes a chunk puts it into the batch; one that lags has skipped all between.
LEMMA ReceiveKeeps ==
    ASSUME TermInv, BridgeReceive PROVE TermInv'
  <1>0. bridge.on
    BY DEF BridgeReceive
  <1>1. /\ bridge \in Bridges /\ bridge.at < sent /\ sent \in 0..MaxOutput /\ skipped \subseteq Chunks
        /\ bridge.at \in Nat /\ Capacity \in Nat /\ MaxOutput \in Nat
        /\ UNCHANGED <<home, pushed, sent, streams, terminal, shown, attaches>>
    BY TermAssumption DEF TermInv, TermTypeOK, Bridges, BridgeReceive
  <1>2. /\ bridge' \in Bridges /\ bridge'.on = bridge.on /\ bridge'.at <= sent /\ skipped' \subseteq Chunks
        /\ bridge.batch \subseteq bridge'.batch /\ skipped \subseteq skipped'
        /\ \A c \in (bridge.at + 1)..bridge'.at : c \in bridge'.batch \cup skipped'
        /\ \A c \in bridge'.batch : c \in bridge.batch \/ (c = bridge'.at /\ bridge'.at = bridge.at + 1)
    <2>1. CASE Lags(bridge.at)
      <3>1. bridge' = [bridge EXCEPT !.at = sent - Capacity] /\ skipped' = skipped \cup Lost(bridge.at)
        BY <2>1 DEF BridgeReceive
      <3>2. sent - Capacity \in 0..MaxOutput /\ sent - Capacity <= sent /\ Lost(bridge.at) \subseteq Chunks
        BY <1>1, <2>1 DEF Lags, Lost, Chunks
      <3>3. bridge' \in Bridges /\ bridge'.on = bridge.on /\ bridge'.at = sent - Capacity /\ bridge'.batch = bridge.batch
        BY <1>1, <3>1, <3>2 DEF Bridges
      <3>4. QED
        BY <1>1, <3>1, <3>2, <3>3 DEF Lost
    <2>2. CASE ~Lags(bridge.at)
      <3>1. bridge' = [bridge EXCEPT !.at = @ + 1, !.batch = @ \cup {bridge.at + 1}] /\ skipped' = skipped
        BY <2>2 DEF BridgeReceive
      <3>2. bridge.at + 1 \in 0..MaxOutput /\ bridge.at + 1 \in Chunks
        BY <1>1 DEF Chunks
      <3>3. /\ bridge' \in Bridges /\ bridge'.on = bridge.on /\ bridge'.at = bridge.at + 1
            /\ bridge'.batch = bridge.batch \cup {bridge.at + 1}
        BY <1>1, <3>1, <3>2 DEF Bridges
      <3>4. QED
        BY <1>1, <3>1, <3>3
    <2>3. QED
      BY <2>1, <2>2
  <1>3. TermTypeOK'
    BY <1>1, <1>2 DEF TermInv, TermTypeOK, Bridges
  <1>4. bridge'.at \in Nat /\ \A c \in Chunks : c \in Nat
    BY <1>2 DEF Bridges, Chunks
  <1>5. ASSUME NEW c \in Int, c <= bridge'.at PROVE c <= bridge.at \/ c \in bridge'.batch \cup skipped'
    BY <1>1, <1>2, <1>4, <1>5
  <1>6. BridgeFits'
    <2>1. ASSUME NEW a \in bridge'.batch, NEW c \in a..bridge'.at PROVE c \in bridge'.batch \cup skipped'
      <3>1. a \in Nat
        BY <1>2, <1>4 DEF Bridges
      <3>2. CASE a \in bridge.batch
        BY <1>1, <1>2, <1>4, <1>5, <3>1, <3>2, <2>1 DEF TermInv, BridgeFits
      <3>3. CASE a \notin bridge.batch
        BY <1>2, <1>4, <3>1, <3>3, <2>1
      <3>4. QED
        BY <3>2, <3>3
    <2>2. bridge'.on
      BY <1>0, <1>2
    <2>3. QED
      BY <1>1, <1>2, <2>1, <2>2 DEF TermInv, BridgeFits, Bridged
  <1>7. ShownFits'
    <2>1. ASSUME Bridged, NEW w \in Windows, NEW a \in shown[w], NEW c \in a..bridge'.at
          PROVE  c \in shown[w] \cup skipped' \cup bridge'.batch
      <3>1. a \in Nat
        BY <1>4 DEF TermInv, TermTypeOK, Viewers
      <3>2. QED
        BY <1>1, <1>2, <1>4, <1>5, <3>1, <2>1 DEF TermInv, ShownFits
    <2>2. QED
      BY <1>1, <2>1 DEF TermInv, ShownFits, Bridged
  <1>8. ReplayFits'
    BY <1>0, <1>2 DEF ReplayFits
  <1>9. QED
    BY <1>3, <1>6, <1>7, <1>8 DEF TermInv

\* A batch goes to all windows that listen; one that does not shows nothing.
LEMMA EmitKeeps ==
    ASSUME TermInv, BridgeEmit PROVE TermInv'
  <1>1. /\ bridge \in Bridges /\ shown \in [Viewers -> SUBSET Chunks]
        /\ bridge' = [bridge EXCEPT !.batch = {}] /\ bridge.on
        /\ UNCHANGED <<home, pushed, sent, streams, terminal, skipped, attaches>>
    BY DEF TermInv, TermTypeOK, BridgeFits, Bridges, BridgeEmit
  <1>2. bridge' \in Bridges /\ bridge'.on = bridge.on /\ bridge'.at = bridge.at /\ bridge'.batch = {}
    BY <1>1 DEF Bridges
  <1>3. shown' \in [Viewers -> SUBSET Chunks]
    BY <1>1 DEF BridgeEmit, Bridges
  <1>4. \A w \in Windows : shown'[w] = IF terminal[w] # "closed" THEN shown[w] \cup bridge.batch ELSE shown[w]
    BY DEF BridgeEmit, Viewers, Listening
  <1>5. TermTypeOK'
    BY <1>1, <1>2, <1>3 DEF TermInv, TermTypeOK, Bridges
  <1>6. BridgeFits'
    BY <1>1, <1>2 DEF TermInv, BridgeFits, Bridged
  <1>7. ShownFits'
    <2>1. ASSUME Bridged, NEW w \in Windows, NEW a \in shown'[w], NEW c \in a..bridge.at
          PROVE  c \in shown'[w] \cup skipped
      <3>1. CASE a \in shown[w]
        <4>1. terminal[w] # "closed" /\ c \in shown[w] \cup skipped \cup bridge.batch
          BY <2>1, <3>1 DEF TermInv, ShownFits
        <4>2. QED
          BY <1>4, <4>1
      <3>2. CASE a \notin shown[w]
        <4>1. a \in bridge.batch /\ terminal[w] # "closed"
          BY <1>4, <2>1, <3>2
        <4>2. c \in bridge.batch \cup skipped
          BY <4>1, <2>1 DEF TermInv, BridgeFits
        <4>3. QED
          BY <1>4, <4>1, <4>2
      <3>3. QED
        BY <3>1, <3>2
    <2>2. \A w \in Windows : terminal'[w] = "closed" => shown'[w] = {}
      BY <1>1, <1>4 DEF TermInv, ShownFits
    <2>3. QED
      BY <1>1, <1>2, <2>1, <2>2 DEF ShownFits, Bridged
  <1>8. ReplayFits'
    BY <1>1, <1>2 DEF ReplayFits
  <1>9. QED
    BY <1>5, <1>6, <1>7, <1>8 DEF TermInv

\* A terminal that had its replay before the bridge was there misses what came between, which is skipped.
LEMMA StartKeeps ==
    ASSUME TermInv, ~bridge.on, SubscribeBridge, terminal' \in [Windows -> TerminalStages],
           \A w \in Windows : terminal'[w] = "closed" => terminal[w] = "closed",
           UNCHANGED <<home, pushed, sent, streams, shown, attaches>>
    PROVE  TermInv'
  <1>1. /\ bridge' = [on |-> TRUE, at |-> sent, batch |-> {}] /\ skipped' = skipped \cup Between
        /\ sent \in 0..MaxOutput /\ sent \in Int
    BY TermAssumption DEF SubscribeBridge, TermInv, TermTypeOK
  <1>2. bridge' \in Bridges /\ bridge'.on /\ bridge'.at = sent /\ bridge'.batch = {}
    BY <1>1 DEF Bridges
  <1>3. Between \subseteq Chunks
    BY DEF Between
  <1>4. TermTypeOK'
    BY <1>1, <1>2, <1>3 DEF TermInv, TermTypeOK, Bridges
  <1>5. BridgeFits'
    BY <1>1, <1>2 DEF TermInv, BridgeFits, Bridged
  <1>6. ReplayFits'
    BY <1>2 DEF ReplayFits
  <1>7. ASSUME Bridged, NEW w \in Windows, NEW a \in shown[w], NEW c \in a..sent, c \notin shown[w]
        PROVE  c \in Between
    <2>1. terminal[w] = "replayed" /\ Whole(shown[w]) /\ shown[w] \subseteq Chunks
      BY <1>7 DEF TermInv, ReplayFits, TermTypeOK, Viewers
    <2>2. a \in Int /\ a >= 1 /\ c \in Int /\ a <= c /\ c <= sent
      BY <1>1, <1>7, <2>1 DEF Chunks
    <2>3. c \in Chunks
      BY <1>1, <2>2, TermAssumption DEF Chunks
    <2>4. ASSUME NEW d \in shown[w] PROVE d < c
      <3>1. d \in Int
        BY <2>1 DEF Chunks
      <3>2. c \notin a..d
        BY <1>7, <2>1 DEF Whole
      <3>3. QED
        BY <2>2, <3>1, <3>2
    <2>5. QED
      BY <2>1, <2>2, <2>3, <2>4 DEF Between
  <1>8. ShownFits'
    BY <1>1, <1>2, <1>7 DEF TermInv, ShownFits, Bridged
  <1>9. QED
    BY <1>4, <1>5, <1>6, <1>8 DEF TermInv

-----------------------------------------------------------------------------
\* Terminals.
LEMMA WindowKeeps ==
    ASSUME TermInv, NEW w \in Windows, NEW stage \in TerminalStages, NEW chunks \in SUBSET Chunks,
           terminal' = [terminal EXCEPT ![w] = stage], shown' = [shown EXCEPT ![w] = chunks],
           UNCHANGED <<home, pushed, sent, bridge, skipped>>, attaches' \in 0..MaxAttaches,
           streams' \in [Streams -> StreamRecords], streams' = streams \/ ~Bridged,
           stage = "closed" => chunks = {},
           Bridged => \A a \in chunks : \A c \in a..bridge.at : c \in chunks \cup skipped \cup bridge.batch,
           Bridged /\ ~bridge.on => (stage = "replayed" \/ chunks = {}) /\ Whole(chunks)
    PROVE  TermInv'
  <1>1. /\ terminal \in [Windows -> TerminalStages] /\ shown \in [Viewers -> SUBSET Chunks] /\ w \in Viewers
        /\ Windows \subseteq Viewers
    BY DEF TermInv, TermTypeOK, Viewers
  <1>2. /\ terminal' \in [Windows -> TerminalStages] /\ shown' \in [Viewers -> SUBSET Chunks]
        /\ terminal'[w] = stage /\ shown'[w] = chunks
        /\ \A v \in Windows : v # w => terminal'[v] = terminal[v] /\ shown'[v] = shown[v]
    BY <1>1
  <1>3. TermTypeOK'
    BY <1>2 DEF TermInv, TermTypeOK, Bridges, StreamRecords
  <1>4. BridgeFits'
    BY DEF TermInv, BridgeFits, Bridged
  <1>5. ShownFits'
    <2>1. \A v \in Windows : terminal'[v] = "closed" => shown'[v] = {}
      BY <1>2 DEF TermInv, ShownFits
    <2>2. ASSUME Bridged, NEW v \in Windows, NEW a \in shown'[v], NEW c \in a..bridge.at
          PROVE  c \in shown'[v] \cup skipped \cup bridge.batch
      BY <1>2, <2>2 DEF TermInv, ShownFits
    <2>3. QED
      BY <2>1, <2>2 DEF ShownFits, Bridged
  <1>6. ReplayFits'
    BY <1>2 DEF TermInv, ReplayFits, Bridged
  <1>7. QED
    BY <1>3, <1>4, <1>5, <1>6 DEF TermInv

LEMMA TerminalKeeps ==
    ASSUME TermInv, NEW w \in Windows,
           Listen(w) \/ AttachWindow(w) \/ EnsureBridge(w) \/ AttachRemote(w) \/ CloseTerminal(w)
    PROVE  TermInv'
  <1>1. /\ bridge \in Bridges /\ streams \in [Streams -> StreamRecords] /\ shown[w] \in SUBSET Chunks
        /\ shown \in [Viewers -> SUBSET Chunks] /\ w \in Viewers /\ shown = [shown EXCEPT ![w] = shown[w]]
        /\ attaches \in 0..MaxAttaches /\ bridge.at \in Int /\ pushed \in Int /\ bridge.at <= pushed
        /\ {"closed", "listening", "replayed", "attached"} = TerminalStages
        /\ MaxAttaches \in Nat
    BY TermAssumption DEF TermInv, TermTypeOK, BridgeFits, Bridges, StreamRecords, Viewers, TerminalStages
  <1>2. Bridged => \A a \in shown[w] : \A c \in a..bridge.at : c \in shown[w] \cup skipped \cup bridge.batch
    BY DEF TermInv, ShownFits
  <1>3. CASE Listen(w)
    <2>1. attaches' \in 0..MaxAttaches /\ shown[w] = {}
      BY <1>1, <1>3 DEF Listen, Opened, TermInv, ShownFits
    <2>2. QED
      BY <1>1, <1>2, <1>3, <2>1, WindowKeeps DEF Listen, Whole
  <1>4. CASE AttachWindow(w)
    <2> DEFINE chunks == shown[w] \cup Replay
    <2>1. chunks \in SUBSET Chunks
      BY <1>1, ReplayFact DEF TermInv
    <2>2. Bridged => \A a \in chunks : \A c \in a..bridge.at : c \in chunks \cup skipped \cup bridge.batch
      <3> SUFFICES ASSUME Bridged, NEW a \in Replay, NEW c \in a..bridge.at PROVE c \in Replay
        BY <1>2
      <3>1. a \in Int /\ c \in a..pushed
        BY <1>1, ReplayFact DEF TermInv, Chunks
      <3>2. QED
        BY <3>1, ReplayFact DEF TermInv
    <2>3. /\ terminal' = [terminal EXCEPT ![w] = "replayed"] /\ shown' = [shown EXCEPT ![w] = chunks]
          /\ UNCHANGED <<home, pushed, sent, bridge, streams, skipped, attaches>>
      BY <1>4 DEF AttachWindow
    <2>4. Bridged /\ ~bridge.on => Whole(chunks)
      <3> SUFFICES ASSUME Bridged, ~bridge.on PROVE Whole(chunks)
        OBVIOUS
      <3>1. shown[w] = {}
        BY <1>4 DEF AttachWindow, TermInv, ReplayFits
      <3>2. ASSUME NEW a \in Replay, NEW b \in Replay, NEW c \in a..b PROVE c \in Replay
        BY <1>1, ReplayFact DEF TermInv, Replay, Chunks
      <3>3. QED
        BY <3>1, <3>2 DEF Whole
    <2> HIDE DEF chunks
    <2>5. QED
      BY <1>1, <2>1, <2>2, <2>3, <2>4, WindowKeeps
  <1>5. CASE EnsureBridge(w)
    <2>1. CASE bridge.on
      <3>1. UNCHANGED <<bridge, skipped>>
        BY <1>5, <2>1 DEF EnsureBridge, SubscribeBridge
      <3>2. QED
        BY <1>1, <1>2, <1>5, <2>1, <3>1, WindowKeeps DEF EnsureBridge
    <2>2. CASE ~bridge.on
      <3>1. terminal' = [terminal EXCEPT ![w] = "attached"] /\ SubscribeBridge
            /\ UNCHANGED <<home, pushed, sent, streams, shown, attaches>>
        BY <1>5 DEF EnsureBridge
      <3>2. /\ terminal' \in [Windows -> TerminalStages]
            /\ \A v \in Windows : terminal'[v] = "closed" => terminal[v] = "closed"
        BY <1>1, <3>1 DEF TermInv, TermTypeOK
      <3>3. QED
        BY <2>2, <3>1, <3>2, StartKeeps
    <2>3. QED
      BY <2>1, <2>2
  <1>6. CASE AttachRemote(w)
    <2>1. ~Bridged
      BY <1>6 DEF AttachRemote, Bridged
    <2>2. streams' \in [Streams -> StreamRecords]
      <3>1. ASSUME NEW r \in StreamRecords PROVE [r EXCEPT !.stage = "attached"] \in StreamRecords
        BY DEF StreamRecords, StreamStages
      <3>2. [streams["forwarder"] EXCEPT !.stage = "attached"] \in StreamRecords
        BY <1>1, <3>1 DEF Streams
      <3>3. QED
        BY <1>1, <1>6, <3>2 DEF AttachRemote, Streams
    <2>3. QED
      BY <1>1, <1>2, <1>6, <2>1, <2>2, WindowKeeps DEF AttachRemote
  <1>7. CASE CloseTerminal(w)
    <2>1. /\ terminal' = [terminal EXCEPT ![w] = "closed"] /\ shown' = [shown EXCEPT ![w] = {}]
          /\ UNCHANGED <<home, pushed, sent, bridge, streams, skipped, attaches>>
      BY <1>7 DEF CloseTerminal
    <2>2. "closed" \in TerminalStages /\ {} \in SUBSET Chunks /\ Whole({})
      BY <1>1 DEF Whole
    <2>3. QED
      BY <1>1, <2>1, <2>2, WindowKeeps
  <1>8. QED
    BY <1>3, <1>4, <1>5, <1>6, <1>7

-----------------------------------------------------------------------------
\* Streams: for a session with a bridge only the command line has one, which no window shows.
LEMMA StreamChangeKeeps ==
    ASSUME TermInv, NEW s \in Streams, NEW stream \in StreamRecords, StepOfStream(s, stream),
           shown' \in [Viewers -> SUBSET Chunks], skipped' \in SUBSET Chunks, skipped \subseteq skipped',
           attaches' \in 0..MaxAttaches,
           Bridged /\ s = "forwarder" => stream.stage = "off",
           \A w \in Windows : terminal[w] = "closed" \/ Bridged => shown'[w] = shown[w]
    PROVE  TermInv'
  <1>1. streams \in [Streams -> StreamRecords] /\ streams' = [streams EXCEPT ![s] = stream]
        /\ UNCHANGED <<home, pushed, sent, bridge, terminal>>
    BY DEF TermInv, TermTypeOK, StreamRecords, StepOfStream
  <1>2. streams' \in [Streams -> StreamRecords]
        /\ streams'["forwarder"] = IF s = "forwarder" THEN stream ELSE streams["forwarder"]
    BY <1>1 DEF Streams
  <1>3. TermTypeOK'
    BY <1>1, <1>2 DEF TermInv, TermTypeOK, StreamRecords
  <1>4. BridgeFits'
    BY <1>1, <1>2 DEF TermInv, BridgeFits, Bridged
  <1>5. ShownFits' /\ ReplayFits'
    BY <1>1 DEF TermInv, ShownFits, ReplayFits, Bridged
  <1>6. QED
    BY <1>3, <1>4, <1>5 DEF TermInv

LEMMA WriteFact ==
    ASSUME TermInv, NEW s \in Streams, NEW c \in Chunks, WriteTo(s, c), streams[s].stage # "off"
    PROVE  /\ shown' \in [Viewers -> SUBSET Chunks]
           /\ \A w \in Windows : terminal[w] = "closed" \/ Bridged => shown'[w] = shown[w]
  <1>1. shown \in [Viewers -> SUBSET Chunks]
    BY DEF TermInv, TermTypeOK
  <1>2. shown' \in [Viewers -> SUBSET Chunks]
    BY <1>1 DEF WriteTo
  <1>3. ASSUME NEW w \in Windows, terminal[w] = "closed" \/ Bridged PROVE w \notin Readers(s)
    BY <1>3, TermAssumption DEF Readers, Listening, TermInv, BridgeFits, Streams
  <1>4. QED
    BY <1>1, <1>2, <1>3 DEF WriteTo, Viewers

LEMMA CliKeeps ==
    ASSUME TermInv, AttachCli PROVE TermInv'
  <1>1. [NoStream EXCEPT !.stage = "attached"] \in StreamRecords
    BY TermAssumption DEF NoStream, StreamRecords, StreamStages
  <1>2. shown \in [Viewers -> SUBSET Chunks] /\ shown' = [shown EXCEPT !["cli"] = {}] /\ attaches' \in 0..MaxAttaches
        /\ skipped \in SUBSET Chunks /\ skipped' = skipped
    BY TermAssumption DEF AttachCli, Opened, TermInv, TermTypeOK
  <1>3. shown' \in [Viewers -> SUBSET Chunks] /\ \A w \in Windows : shown'[w] = shown[w]
    BY <1>2, TermAssumption DEF Viewers
  <1>4. StepOfStream("cli", [NoStream EXCEPT !.stage = "attached"]) /\ "cli" \in Streams
    BY DEF AttachCli, Streams
  <1>5. QED
    BY <1>1, <1>2, <1>3, <1>4, StreamChangeKeeps

LEMMA StreamStepKeeps ==
    ASSUME TermInv, NEW s \in Streams,
           SnapshotReplay(s) \/ WriteReplay(s) \/ Subscribe(s) \/ StreamReceive(s) \/ EndStream(s)
    PROVE  TermInv'
  <1>1. /\ streams[s] \in StreamRecords /\ shown \in [Viewers -> SUBSET Chunks] /\ skipped \in SUBSET Chunks
        /\ attaches \in 0..MaxAttaches /\ sent \in 0..MaxOutput
        /\ Capacity \in Nat /\ MaxOutput \in Nat
    BY TermAssumption DEF TermInv, TermTypeOK, StreamRecords
  <1>2. streams[s].stage # "off" /\ Bridged => s # "forwarder"
    BY DEF TermInv, BridgeFits
  <1>3. CASE SnapshotReplay(s)
    <2> DEFINE stream == [streams[s] EXCEPT !.stage = "replaying", !.todo = Replay]
    <2>1. stream \in StreamRecords
      BY <1>1, ReplayFact DEF TermInv, StreamRecords, StreamStages
    <2>2. StepOfStream(s, stream) /\ UNCHANGED <<shown, skipped, attaches>> /\ streams[s].stage # "off"
      BY <1>3 DEF SnapshotReplay
    <2> HIDE DEF stream
    <2>3. QED
      BY <1>1, <1>2, <2>1, <2>2, StreamChangeKeeps
  <1>4. CASE WriteReplay(s)
    <2>1. PICK c \in streams[s].todo : /\ WriteTo(s, c)
                                       /\ StepOfStream(s, [streams[s] EXCEPT !.todo = @ \ {c}])
      BY <1>4 DEF WriteReplay
    <2> DEFINE stream == [streams[s] EXCEPT !.todo = @ \ {c}]
    <2>2. c \in Chunks /\ stream \in StreamRecords
      BY <1>1 DEF StreamRecords
    <2>3. StepOfStream(s, stream) /\ UNCHANGED <<skipped, attaches>> /\ streams[s].stage # "off"
      BY <1>4, <2>1 DEF WriteReplay
    <2> HIDE DEF stream
    <2>4. QED
      BY <1>1, <1>2, <2>1, <2>2, <2>3, WriteFact, StreamChangeKeeps
  <1>5. CASE Subscribe(s)
    <2> DEFINE stream == [streams[s] EXCEPT !.stage = "live", !.at = sent]
    <2>1. stream \in StreamRecords
      BY <1>1 DEF StreamRecords, StreamStages
    <2>2. StepOfStream(s, stream) /\ UNCHANGED <<shown, skipped, attaches>> /\ streams[s].stage # "off"
      BY <1>5 DEF Subscribe
    <2> HIDE DEF stream
    <2>3. QED
      BY <1>1, <1>2, <2>1, <2>2, StreamChangeKeeps
  <1>6. CASE StreamReceive(s)
    <2>1. streams[s].stage # "off" /\ streams[s].at < sent /\ streams[s].at \in Nat /\ attaches' = attaches
      BY <1>1, <1>6 DEF StreamReceive, StreamRecords
    <2>2. CASE Lags(streams[s].at)
      <3> DEFINE stream == [streams[s] EXCEPT !.at = sent - Capacity]
      <3>1. sent - Capacity \in 0..MaxOutput /\ Lost(streams[s].at) \subseteq Chunks
        BY <1>1, <2>1, <2>2 DEF Lags, Lost, Chunks
      <3>2. stream \in StreamRecords
        BY <1>1, <3>1 DEF StreamRecords
      <3>3. StepOfStream(s, stream) /\ shown' = shown /\ skipped' = skipped \cup Lost(streams[s].at)
        BY <1>6, <2>2 DEF StreamReceive
      <3> HIDE DEF stream
      <3>4. QED
        BY <1>1, <1>2, <2>1, <3>1, <3>2, <3>3, StreamChangeKeeps
    <2>3. CASE ~Lags(streams[s].at)
      <3> DEFINE stream == [streams[s] EXCEPT !.at = @ + 1]
                 c == streams[s].at + 1
      <3>1. c \in Chunks /\ c \in 0..MaxOutput
        BY <1>1, <2>1 DEF Chunks
      <3>2. stream \in StreamRecords
        BY <1>1, <3>1 DEF StreamRecords
      <3>3. StepOfStream(s, stream) /\ skipped' = skipped /\ WriteTo(s, c)
        BY <1>6, <2>3 DEF StreamReceive
      <3> HIDE DEF stream, c
      <3>4. QED
        BY <1>1, <1>2, <2>1, <3>1, <3>2, <3>3, WriteFact, StreamChangeKeeps
    <2>4. QED
      BY <2>2, <2>3
  <1>7. CASE EndStream(s)
    <2>1. NoStream \in StreamRecords /\ NoStream.stage = "off"
      BY TermAssumption DEF NoStream, StreamRecords, StreamStages
    <2>2. attaches' \in 0..MaxAttaches
      BY <1>1, <1>7, TermAssumption DEF EndStream, Opened
    <2>3. StepOfStream(s, NoStream) /\ UNCHANGED <<shown, skipped>>
      BY <1>7 DEF EndStream
    <2>4. QED
      BY <1>1, <2>1, <2>2, <2>3, StreamChangeKeeps
  <1>8. QED
    BY <1>3, <1>4, <1>5, <1>6, <1>7

-----------------------------------------------------------------------------
\* The bridge is started by the command that created the session.
LEMMA CreatorKeeps ==
    ASSUME TermInv, StartBridge PROVE TermInv'
  <1>1. ~bridge.on /\ SubscribeBridge /\ UNCHANGED <<home, pushed, sent, streams, terminal, shown, attaches>>
    BY DEF StartBridge
  <1>2. terminal' \in [Windows -> TerminalStages]
    BY <1>1 DEF TermInv, TermTypeOK
  <1>3. QED
    BY <1>1, <1>2, StartKeeps

LEMMA TermSafe == TermSpec => []TermInv
  <1>1. TermInv /\ [TermNext]_termVars => TermInv'
    <2> SUFFICES ASSUME TermInv, [TermNext]_termVars PROVE TermInv'
      OBVIOUS
    <2>1. CASE UNCHANGED termVars
      BY <2>1 DEF termVars, TermInv, TermTypeOK, BridgeFits, ShownFits, ReplayFits, Bridged
    <2>2. CASE TermNext
      BY <2>2, OutputKeeps, CreatorKeeps, ReceiveKeeps, EmitKeeps, CliKeeps, TerminalKeeps, StreamStepKeeps
         DEF TermNext
    <2>3. QED
      BY <2>1, <2>2
  <1>2. QED
    BY <1>1, TermInvInit, PTL DEF TermSpec

\* Output, the bridge, streams and terminals are well-typed, and output is broadcast as soon as it is in
\* the replay buffer: the buffer is never more than one chunk ahead.
THEOREM TerminalTypes == TermSpec => []TermTypeOK
  <1>1. TermInv => TermTypeOK
    BY DEF TermInv
  <1>2. QED
    BY <1>1, TermSafe, PTL

\* The replay and the live output meet in every terminal of a session of this process, whether it was
\* there before the bridge or after it, for any number of windows, any output, and a buffer and a channel
\* of any size: the safety part of OutputIsWhole.
THEOREM OutputHasNoHole == TermSpec => []NoHoleInOutput /\ [][NoHoleInOutput']_termVars
  <1>1. TermInv => NoHoleInOutput
    <2>1. ASSUME TermInv, NEW w \in Windows, Bridged, NEW a \in shown[w], NEW b \in shown[w], NEW c \in a..b
          PROVE  c \in shown[w] \cup skipped \cup bridge.batch \/ c > bridge.at
      <3>1. a \in Int /\ b \in Int /\ bridge.at \in Int
        BY <2>1 DEF TermInv, TermTypeOK, Viewers, Chunks
      <3>2. c \in a..bridge.at \/ c > bridge.at
        BY <3>1
      <3>3. QED
        BY <2>1, <3>2 DEF TermInv, ShownFits
    <2>2. QED
      BY <2>1 DEF NoHoleInOutput, Bridged
  <1>2. QED
    BY <1>1, TermSafe, PTL

-----------------------------------------------------------------------------
(* SessionServices. *)

(* Typing. *)

LEMMA TypeInit == Init => TypeOK
  BY DEF Init, TypeOK, Lives, TunnelStages, RecordingStages

LEMMA SessionTypeStep ==
    ASSUME TypeOK, NEW s \in Sessions,
           \/ Open(s) \/ Kill(s) \/ KillTunnels(s) \/ TunnelsFinished(s)
           \/ StopRecordings(s) \/ Disconnect(s) \/ Abandon(s) \/ StopSessionTunnels(s)
    PROVE  TypeOK'
  <1>1. CASE Open(s) \/ Kill(s) \/ TunnelsFinished(s) \/ Disconnect(s) \/ Abandon(s)
    BY <1>1 DEF Open, Kill, TunnelsFinished, Disconnect, Abandon, Moves, TypeOK, Lives
  <1>2. CASE KillTunnels(s) \/ StopSessionTunnels(s)
    <2>1. life' \in [Sessions -> Lives]
      BY <1>2 DEF KillTunnels, StopSessionTunnels, Moves, TypeOK, Lives
    <2>2. tunnel' \in [Tunnels -> TunnelStages]
      BY <1>2 DEF KillTunnels, StopSessionTunnels, TypeOK, TunnelStages
    <2>3. QED
      BY <1>2, <2>1, <2>2 DEF KillTunnels, StopSessionTunnels, TypeOK
  <1>3. CASE StopRecordings(s)
    <2>1. life' \in [Sessions -> Lives]
      BY <1>3 DEF StopRecordings, Moves, TypeOK, Lives
    <2>2. recording' \in [Recordings -> RecordingStages] /\ open' \in SUBSET Recordings
      BY <1>3 DEF StopRecordings, Ends, TypeOK, RecordingStages
    <2>3. QED
      BY <1>3, <2>1, <2>2 DEF StopRecordings, TypeOK
  <1>4. QED
    BY <1>1, <1>2, <1>3

LEMMA TunnelTypeStep ==
    ASSUME TypeOK, NEW t \in Tunnels,
           \/ TunnelCall(t) \/ TunnelBegin(t) \/ TunnelReady(t) \/ TunnelFails(t)
           \/ TunnelRegister(t) \/ StopTunnel(t) \/ Finish(t)
    PROVE  TypeOK'
  <1>1. tunnel' \in [Tunnels -> TunnelStages]
    BY DEF TunnelCall, TunnelBegin, TunnelReady, TunnelFails, TunnelRegister,
           StopTunnel, Finish, TunnelMoves, TypeOK, TunnelStages
  <1>2. early' \in SUBSET (Tunnels \cup Recordings)
    BY DEF TunnelCall, TunnelBegin, TunnelReady, TunnelFails, TunnelRegister,
           StopTunnel, Finish, TypeOK
  <1>3. UNCHANGED <<life, recording, open>>
    BY DEF TunnelCall, TunnelBegin, TunnelReady, TunnelFails, TunnelRegister,
           StopTunnel, Finish
  <1>4. QED
    BY <1>1, <1>2, <1>3 DEF TypeOK

LEMMA RecordingTypeStep ==
    ASSUME TypeOK, NEW r \in Recordings,
           \/ RecordingCall(r) \/ RecordingCheck(r) \/ RecordingAdd(r)
           \/ RecordingInsert(r) \/ StopRecording(r)
    PROVE  TypeOK'
  <1>1. recording' \in [Recordings -> RecordingStages]
    BY DEF RecordingCall, RecordingCheck, RecordingAdd, RecordingInsert, StopRecording,
           RecordingMoves, Ends, TypeOK, RecordingStages
  <1>2. open' \in SUBSET Recordings /\ early' \in SUBSET (Tunnels \cup Recordings)
    BY DEF RecordingCall, RecordingCheck, RecordingAdd, RecordingInsert, StopRecording,
           Ends, TypeOK
  <1>3. UNCHANGED <<life, tunnel>>
    BY DEF RecordingCall, RecordingCheck, RecordingAdd, RecordingInsert, StopRecording
  <1>4. QED
    BY <1>1, <1>2, <1>3 DEF TypeOK

LEMMA TypeStep ==
    ASSUME TypeOK, [Next]_vars
    PROVE  TypeOK'
  <1>1. CASE UNCHANGED vars
    BY <1>1 DEF vars, TypeOK
  <1>2. CASE Next
    BY <1>2, SessionTypeStep, TunnelTypeStep, RecordingTypeStep DEF Next
  <1>3. QED
    BY <1>1, <1>2

\* Every variable keeps its type: the stages the handlers move through are the
\* declared ones, and only recordings have rows.
THEOREM ServicesTypes == Spec => []TypeOK
  <1>1. Init => TypeOK
    BY TypeInit
  <1>2. TypeOK /\ [Next]_vars => TypeOK'
    BY TypeStep
  <1>3. QED
    BY <1>1, <1>2, PTL DEF Spec

-----------------------------------------------------------------------------
(* The teardown. *)

\* What was registered in time never leaves its registry but to be stopped.
EarlyStages ==
    /\ \A t \in Tunnels \cap early :
         tunnel[t] \in {"registered", "stopping", "closing", "stopped"}
    /\ \A r \in Recordings \cap early : recording[r] \in {"active", "ended"}

Stopping == TypeOK /\ EarlyStages /\ TeardownStopsServices

LEMMA StoppingInit == Init => Stopping
  BY TypeInit DEF Init, Stopping, EarlyStages, TeardownStopsServices, TunnelsTaken,
                  TunnelsAwaited, RecordingsEnded, Past

\* The steps of a session's own task.
LEMMA SessionStoppingStep ==
    ASSUME Stopping, NEW s \in Sessions,
           \/ Open(s) \/ Kill(s) \/ KillTunnels(s) \/ TunnelsFinished(s)
           \/ StopRecordings(s) \/ Disconnect(s) \/ Abandon(s) \/ StopSessionTunnels(s)
    PROVE  (EarlyStages /\ TeardownStopsServices)'
  <1> USE ServicesAssumption DEF Stopping
  <1>1. CASE Open(s) \/ Kill(s) \/ TunnelsFinished(s) \/ Disconnect(s) \/ Abandon(s)
    <2>1. UNCHANGED <<tunnel, recording, early>>
      BY <1>1 DEF Open, Kill, TunnelsFinished, Disconnect, Abandon
    <2>2. EarlyStages'
      BY <2>1 DEF EarlyStages
    <2>3. TunnelsTaken'
      BY <1>1, <2>1 DEF Open, Kill, TunnelsFinished, Disconnect, Abandon, Moves, TypeOK,
                        TeardownStopsServices, TunnelsTaken, Past
    <2>4. TunnelsAwaited'
      BY <1>1, <2>1 DEF Open, Kill, TunnelsFinished, Disconnect, Abandon, Moves, TypeOK, Of,
                        TeardownStopsServices, TunnelsAwaited, Past
    <2>5. RecordingsEnded'
      BY <1>1, <2>1 DEF Open, Kill, TunnelsFinished, Disconnect, Abandon, Moves, TypeOK,
                        TeardownStopsServices, RecordingsEnded, Past
    <2>6. QED
      BY <2>2, <2>3, <2>4, <2>5 DEF TeardownStopsServices
  <1>2. CASE KillTunnels(s)
    <2>1. UNCHANGED <<recording, early>>
      BY <1>2 DEF KillTunnels
    <2>2. EarlyStages'
      BY <1>2, <2>1 DEF KillTunnels, EarlyStages, TypeOK
    <2>3. TunnelsTaken'
      BY <1>2, <2>1 DEF KillTunnels, Moves, Of, TypeOK, EarlyStages,
                        TeardownStopsServices, TunnelsTaken, Past
    <2>4. TunnelsAwaited'
      BY <1>2, <2>1 DEF KillTunnels, Moves, Of, TypeOK,
                        TeardownStopsServices, TunnelsAwaited, Past
    <2>5. RecordingsEnded'
      BY <1>2, <2>1 DEF KillTunnels, Moves, TypeOK, TeardownStopsServices,
                        RecordingsEnded, Past
    <2>6. QED
      BY <2>2, <2>3, <2>4, <2>5 DEF TeardownStopsServices
  <1>3. CASE StopRecordings(s)
    <2>1. UNCHANGED <<tunnel, early>>
      BY <1>3 DEF StopRecordings
    <2>2. EarlyStages'
      BY <1>3, <2>1 DEF StopRecordings, Ends, EarlyStages, TypeOK
    <2>3. TunnelsTaken' /\ TunnelsAwaited'
      BY <1>3, <2>1 DEF StopRecordings, Moves, TypeOK, TeardownStopsServices,
                        TunnelsTaken, TunnelsAwaited, Past
    <2>4. RecordingsEnded'
      BY <1>3, <2>1 DEF StopRecordings, Ends, Active, RecordingsOf, Moves, TypeOK,
                        EarlyStages, TeardownStopsServices, RecordingsEnded, Past
    <2>5. QED
      BY <2>2, <2>3, <2>4 DEF TeardownStopsServices
  <1>4. CASE StopSessionTunnels(s)
    <2>1. UNCHANGED <<life, recording, early>>
      BY <1>4 DEF StopSessionTunnels
    <2>2. EarlyStages'
      BY <1>4, <2>1 DEF StopSessionTunnels, EarlyStages, TypeOK
    <2>3. TunnelsTaken' /\ TunnelsAwaited'
      BY <1>4, <2>1 DEF StopSessionTunnels, TypeOK, TeardownStopsServices,
                        TunnelsTaken, TunnelsAwaited, Past
    <2>4. RecordingsEnded'
      BY <2>1 DEF TeardownStopsServices, RecordingsEnded, Past
    <2>5. QED
      BY <2>2, <2>3, <2>4 DEF TeardownStopsServices
  <1>5. QED
    BY <1>1, <1>2, <1>3, <1>4

\* The steps of the calls that start and stop tunnels.
LEMMA TunnelStoppingStep ==
    ASSUME Stopping, NEW t \in Tunnels,
           \/ TunnelCall(t) \/ TunnelBegin(t) \/ TunnelReady(t) \/ TunnelFails(t)
           \/ TunnelRegister(t) \/ StopTunnel(t) \/ Finish(t)
    PROVE  (EarlyStages /\ TeardownStopsServices)'
  <1> USE ServicesAssumption DEF Stopping
  <1>1. UNCHANGED <<life, recording>>
    BY DEF TunnelCall, TunnelBegin, TunnelReady, TunnelFails, TunnelRegister,
           StopTunnel, Finish
  <1>2. early' \cap Recordings = early \cap Recordings
    BY DEF TunnelCall, TunnelBegin, TunnelReady, TunnelFails, TunnelRegister,
           StopTunnel, Finish
  <1>3. RecordingsEnded'
    BY <1>1, <1>2 DEF TeardownStopsServices, RecordingsEnded, Past
  <1>4. CASE TunnelCall(t) \/ TunnelBegin(t) \/ TunnelReady(t) \/ TunnelFails(t)
    <2>1. /\ UNCHANGED early
          /\ tunnel[t] \in {"new", "called", "starting"}
          /\ \E to \in {"called", "starting", "ready", "failed"} :
               tunnel' = [tunnel EXCEPT ![t] = to]
      BY <1>4 DEF TunnelCall, TunnelBegin, TunnelReady, TunnelFails, TunnelMoves
    <2>2. t \notin early
      BY <2>1 DEF EarlyStages
    <2>3. EarlyStages'
      BY <1>1, <2>1, <2>2 DEF EarlyStages, TypeOK
    <2>4. TunnelsTaken' /\ TunnelsAwaited'
      BY <1>1, <2>1, <2>2 DEF TypeOK, TeardownStopsServices, TunnelsTaken,
                              TunnelsAwaited, Past
    <2>5. QED
      BY <1>3, <2>3, <2>4 DEF TeardownStopsServices
  <1>5. CASE TunnelRegister(t)
    <2>1. EarlyStages'
      BY <1>1, <1>2, <1>5 DEF TunnelRegister, TunnelMoves, EarlyStages, TypeOK
    <2>2. TunnelsTaken' /\ TunnelsAwaited'
      BY <1>1, <1>5 DEF TunnelRegister, TunnelMoves, InMap, TypeOK, EarlyStages,
                        TeardownStopsServices, TunnelsTaken, TunnelsAwaited, Past
    <2>3. QED
      BY <1>3, <2>1, <2>2 DEF TeardownStopsServices
  <1>6. CASE StopTunnel(t) \/ Finish(t)
    <2>1. EarlyStages'
      BY <1>1, <1>6 DEF StopTunnel, Finish, TunnelMoves, EarlyStages, TypeOK
    <2>2. TunnelsTaken' /\ TunnelsAwaited'
      BY <1>1, <1>6 DEF StopTunnel, Finish, TunnelMoves, TypeOK, TeardownStopsServices,
                        TunnelsTaken, TunnelsAwaited, Past
    <2>3. QED
      BY <1>3, <2>1, <2>2 DEF TeardownStopsServices
  <1>7. QED
    BY <1>4, <1>5, <1>6

\* The steps of the calls that start and stop recordings.
LEMMA RecordingStoppingStep ==
    ASSUME Stopping, NEW r \in Recordings,
           \/ RecordingCall(r) \/ RecordingCheck(r) \/ RecordingAdd(r)
           \/ RecordingInsert(r) \/ StopRecording(r)
    PROVE  (EarlyStages /\ TeardownStopsServices)'
  <1> USE ServicesAssumption DEF Stopping
  <1>1. UNCHANGED <<life, tunnel>>
    BY DEF RecordingCall, RecordingCheck, RecordingAdd, RecordingInsert, StopRecording
  <1>2. early' \cap Tunnels = early \cap Tunnels
    BY DEF RecordingCall, RecordingCheck, RecordingAdd, RecordingInsert, StopRecording
  <1>3. TunnelsTaken' /\ TunnelsAwaited'
    BY <1>1, <1>2 DEF TeardownStopsServices, TunnelsTaken, TunnelsAwaited, Past
  <1>4. CASE RecordingCall(r) \/ RecordingCheck(r) \/ RecordingAdd(r)
    <2>1. /\ UNCHANGED early
          /\ recording[r] \in {"new", "called", "checked"}
          /\ \E to \in {"called", "checked", "added", "refused"} :
               recording' = [recording EXCEPT ![r] = to]
      BY <1>4 DEF RecordingCall, RecordingCheck, RecordingAdd, RecordingMoves
    <2>2. r \notin early
      BY <2>1 DEF EarlyStages
    <2>3. EarlyStages' /\ RecordingsEnded'
      BY <1>1, <2>1, <2>2 DEF EarlyStages, TypeOK, TeardownStopsServices,
                              RecordingsEnded, Past
    <2>4. QED
      BY <1>3, <2>3 DEF TeardownStopsServices
  <1>5. CASE RecordingInsert(r)
    <2>1. EarlyStages'
      BY <1>1, <1>2, <1>5 DEF RecordingInsert, RecordingMoves, EarlyStages, TypeOK
    <2>2. RecordingsEnded'
      BY <1>1, <1>5 DEF RecordingInsert, RecordingMoves, InMap, TypeOK, EarlyStages,
                        TeardownStopsServices, RecordingsEnded, Past
    <2>3. QED
      BY <1>3, <2>1, <2>2 DEF TeardownStopsServices
  <1>6. CASE StopRecording(r)
    <2>1. EarlyStages' /\ RecordingsEnded'
      BY <1>1, <1>6 DEF StopRecording, Ends, EarlyStages, TypeOK, TeardownStopsServices,
                        RecordingsEnded, Past
    <2>2. QED
      BY <1>3, <2>1 DEF TeardownStopsServices
  <1>7. QED
    BY <1>4, <1>5, <1>6

\* However many tunnels and recordings a session has, and whatever else starts or
\* stops them meanwhile, its teardown stops each that was registered before it,
\* and the connection goes down only after the tunnels it stops have ended.
THEOREM TeardownIsComplete == Spec => []TeardownStopsServices
  <1>1. Init => Stopping
    BY StoppingInit
  <1>2. Stopping /\ [Next]_vars => Stopping'
    <2> SUFFICES ASSUME Stopping, [Next]_vars PROVE Stopping'
      OBVIOUS
    <2>1. TypeOK'
      BY TypeStep DEF Stopping
    <2>2. CASE UNCHANGED vars
      BY <2>2 DEF vars, Stopping, TypeOK, EarlyStages, TeardownStopsServices, TunnelsTaken,
                  TunnelsAwaited, RecordingsEnded, Past
    <2>3. CASE Next
      BY <2>1, <2>3, SessionStoppingStep, TunnelStoppingStep, RecordingStoppingStep
         DEF Next, Stopping
    <2>4. QED
      BY <2>2, <2>3
  <1>3. Stopping => TeardownStopsServices
    BY DEF Stopping
  <1>4. QED
    BY <1>1, <1>2, <1>3, PTL DEF Spec

-----------------------------------------------------------------------------
(* The promise of SessionTeardown, without its liveness. *)

LEMMA StageStep ==
    ASSUME TypeOK, [Next]_vars
    PROVE  [Teardown!Next]_Stage
  <1>1. Stage' \in [Sessions -> Teardown!Stages]
    BY TypeStep DEF TypeOK, Lives, Stage, StageOf, Teardown!Stages
  <1>2. SUFFICES ASSUME NEW x \in Sessions PROVE Stage'[x] \in Teardown!After[Stage[x]]
    BY <1>1 DEF Teardown!Next
  <1>3. ASSUME life' = life
        PROVE  Stage'[x] \in Teardown!After[Stage[x]]
    BY <1>3 DEF TypeOK, Lives, Stage, StageOf, Teardown!After
  <1>4. ASSUME NEW s \in Sessions,
               \/ Open(s) \/ Kill(s) \/ KillTunnels(s) \/ TunnelsFinished(s)
               \/ StopRecordings(s) \/ Disconnect(s) \/ Abandon(s)
        PROVE  Stage'[x] \in Teardown!After[Stage[x]]
    BY <1>4 DEF Open, Kill, KillTunnels, TunnelsFinished, StopRecordings, Disconnect, Abandon,
                Moves, TypeOK, Lives, Stage, StageOf, Teardown!After
  <1>5. ASSUME NEW s \in Sessions, StopSessionTunnels(s)
        PROVE  life' = life
    BY <1>5 DEF StopSessionTunnels
  <1>6. ASSUME NEW t \in Tunnels,
               \/ TunnelCall(t) \/ TunnelBegin(t) \/ TunnelReady(t) \/ TunnelFails(t)
               \/ TunnelRegister(t) \/ StopTunnel(t) \/ Finish(t)
        PROVE  life' = life
    BY <1>6 DEF TunnelCall, TunnelBegin, TunnelReady, TunnelFails, TunnelRegister,
                StopTunnel, Finish
  <1>7. ASSUME NEW r \in Recordings,
               \/ RecordingCall(r) \/ RecordingCheck(r) \/ RecordingAdd(r)
               \/ RecordingInsert(r) \/ StopRecording(r)
        PROVE  life' = life
    BY <1>7 DEF RecordingCall, RecordingCheck, RecordingAdd, RecordingInsert, StopRecording
  <1>8. QED
    BY <1>3, <1>4, <1>5, <1>6, <1>7 DEF Next, vars

\* Stopping tunnels and recordings on the way, a teardown is still one teardown: the session is
\* open once, then closing, then closed for good, or given up halfway with an agent's call.
THEOREM TornDownOnce == Spec => Teardown!SafetySpec
  <1>1. Init => Teardown!Init
    BY DEF Init, Teardown!Init, Stage, StageOf
  <1>2. TypeOK /\ [Next]_vars => [Teardown!Next]_Stage
    BY StageStep
  <1>3. QED
    BY <1>1, <1>2, ServicesTypes, PTL DEF Spec, Teardown!SafetySpec

-----------------------------------------------------------------------------
(* SyncObject. *)

\* The log that the file is seen as, and what each device owes it.
LogNow == [v \in Vaults |-> LogOf(v)]
OwedNow == [d \in Devices |-> {upload[d]} \ {NoUpload}]

\* The log of the vault of a device.
Shared(d) == LogOf(vaultOf[d])

Starts(s, t) == Len(s) <= Len(t) /\ \A i \in 1..Len(s) : s[i] = t[i]

Documents == [vault : Vaults \cup {"none"}, envelopes : Seq(Envelopes)]
Syncs == [phase : {"idle", "start", "fetch", "apply", "write", "reply", "settle"},
          attempt : 0..MaxAttempts, round : 0..MaxRounds, document : Documents, tag : BOOLEAN]

ObjectShape ==
    /\ vaultOf \in [Devices -> Vaults] /\ provider \in {"gist", "webdav"} /\ tags \in BOOLEAN
    /\ object \in Documents /\ Len(object.envelopes) <= PageLimit + 1
    /\ object.vault = "none" => object = NoDocument
    /\ outbox \in [Devices -> Nat] /\ upload \in [Devices -> Envelopes \cup {NoUpload}]
    /\ cursor \in [Devices -> Nat] /\ taken \in [Devices -> Seq(Envelopes)]
    /\ sync \in [Devices -> Syncs]

\* A device has taken the start of the log, up to its cursor.
TookStart(d) == Len(taken[d]) = cursor[d] /\ Starts(taken[d], Shared(d))

\* A document of its vault is the start of the log, also while the device works on it.
Fetched(d) ==
    LET document == sync[d].document
    IN  /\ document.vault = vaultOf[d] => Starts(document.envelopes, Shared(d))
        /\ ~sync[d].tag => document = New(vaultOf[d]) \/ object # NoDocument

\* What is to be written ends with the envelope of the device, which is not in what it read.
Extended(d) ==
    LET document == sync[d].document
        n == Len(document.envelopes)
    IN  /\ document.vault = vaultOf[d] /\ n \in 1..(PageLimit + 1) /\ cursor[d] < n
        /\ upload[d] # NoUpload /\ document.envelopes[n] = upload[d]
        /\ \A i \in 1..(n - 1) : document.envelopes[i] # upload[d]
        /\ ~sync[d].tag => n = 1 \/ object # NoDocument

\* What is answered is the start of the log.
Answered(d) ==
    LET document == sync[d].document
    IN  /\ document.vault = vaultOf[d] /\ Starts(document.envelopes, Shared(d))
        /\ cursor[d] <= Len(document.envelopes)

\* An envelope that the device will forget is in the log.
Arrived(d) == upload[d] # NoUpload => upload[d] \in ToSet(Shared(d))

\* How far a sync is, and what it knows by then.
Progress(d) ==
    /\ sync[d].phase = "idle" => sync[d] = Idle
    /\ sync[d].phase = "start" => sync[d].round < MaxRounds
    /\ sync[d].phase = "fetch" => sync[d].attempt < MaxAttempts
    /\ sync[d].phase = "apply" => Fetched(d)
    /\ sync[d].phase = "write" => Extended(d)
    /\ sync[d].phase = "reply" => Answered(d)
    /\ sync[d].phase \in {"reply", "settle"} => Arrived(d)

\* The envelopes of a device are its own, and there is a number for each batch to come.
Counted(d) == {e \in Envelopes : e[1] = d /\ (e = upload[d] \/ e \in ToSet(object.envelopes))}
Numbers(d) ==
    /\ upload[d] # NoUpload => upload[d][1] = d
    /\ outbox[d] + Cardinality(Counted(d)) <= MaxEdits

DeviceInv(d) == TookStart(d) /\ Progress(d) /\ Numbers(d)

ObjectInv == ObjectShape /\ \A d \in Devices : DeviceInv(d)

-----------------------------------------------------------------------------

LEMMA PrefixIsStart ==
    ASSUME NEW S, NEW s \in Seq(S), NEW t \in Seq(S), Starts(s, t) PROVE IsPrefix(s, t)
  <1>1. SubSeq(s, 1, Len(s)) = s
    OBVIOUS
  <1>2. SubSeq(t, 1, Len(s)) = s
    <2>1. /\ SubSeq(t, 1, Len(s)) \in Seq(S) /\ Len(SubSeq(t, 1, Len(s))) = Len(s)
          /\ \A i \in 1..Len(s) : SubSeq(t, 1, Len(s))[i] = t[i]
      BY DEF Starts
    <2>2. QED
      BY <2>1 DEF Starts
  <1>3. QED
    BY <1>1, <1>2 DEF IsPrefix, Starts

LEMMA StartsSet ==
    ASSUME NEW S, NEW s \in Seq(S), NEW t \in Seq(S), Starts(s, t) PROVE ToSet(s) \subseteq ToSet(t)
  BY DEF Starts, ToSet

LEMMA StartsOn ==
    ASSUME NEW S, NEW s \in Seq(S), NEW t \in Seq(S), NEW u \in Seq(S), Starts(s, t), Starts(t, u)
    PROVE  Starts(s, u)
  BY DEF Starts

LEMMA StartsSelf == ASSUME NEW S, NEW s \in Seq(S) PROVE Starts(s, s)
  BY DEF Starts

LEMMA FrontOf ==
    ASSUME NEW S, NEW s \in Seq(S), Len(s) > 0
    PROVE  /\ Front(s) \in Seq(S) /\ Len(Front(s)) = Len(s) - 1
           /\ \A i \in 1..(Len(s) - 1) : Front(s)[i] = s[i]
           /\ Append(Front(s), s[Len(s)]) = s
  <1>1. /\ Front(s) \in Seq(S) /\ Len(Front(s)) = Len(s) - 1
        /\ \A i \in 1..(Len(s) - 1) : Front(s)[i] = s[i]
    <2> DEFINE n == Len(s) - 1
    <2>1. n \in Nat /\ n <= Len(s) /\ \A i \in 1..n : s[i] \in S
      OBVIOUS
    <2>2. /\ SubSeq(s, 1, n) \in Seq(S) /\ Len(SubSeq(s, 1, n)) = n
          /\ \A i \in 1..n : SubSeq(s, 1, n)[i] = s[i]
      <3> HIDE DEF n
      <3>1. QED
        BY <2>1
    <2>3. QED
      BY <2>2 DEF Front
  <1>2. Append(Front(s), s[Len(s)]) = s
    <2> DEFINE t == Append(Front(s), s[Len(s)])
    <2>1. s[Len(s)] \in S
      OBVIOUS
    <2>2. /\ t \in Seq(S) /\ Len(t) = Len(s)
          /\ \A i \in 1..Len(s) : t[i] = s[i]
      BY <1>1, <2>1
    <2>3. t = s
      <3> HIDE DEF t
      <3>1. QED
        BY <2>2
    <2>4. QED
      BY <2>3
  <1>3. QED
    BY <1>1, <1>2

\* What a device takes on top of the start of a document is that document.
LEMMA TakeRest ==
    ASSUME NEW S, NEW s \in Seq(S), NEW t \in Seq(S), Starts(s, t)
    PROVE  s \o SubSeq(t, Len(s) + 1, Len(t)) = t
  <1> DEFINE rest == SubSeq(t, Len(s) + 1, Len(t))
  <1>1. Len(s) \in Nat /\ Len(t) \in Nat /\ Len(s) <= Len(t)
    BY DEF Starts
  <1>2. /\ rest \in Seq(S) /\ Len(rest) = Len(t) - Len(s)
        /\ \A i \in 1..(Len(t) - Len(s)) : rest[i] = t[Len(s) + i]
    BY <1>1
  <1> HIDE DEF rest
  <1> DEFINE u == s \o rest
  <1>3. /\ u \in Seq(S) /\ Len(u) = Len(t)
        /\ \A i \in 1..Len(t) : u[i] = IF i <= Len(s) THEN s[i] ELSE rest[i - Len(s)]
    BY <1>1, <1>2
  <1> HIDE DEF u
  <1>4. \A i \in 1..Len(t) : u[i] = t[i]
    <2> SUFFICES ASSUME NEW i \in 1..Len(t) PROVE u[i] = t[i]
      OBVIOUS
    <2>1. CASE i <= Len(s)
      BY <1>1, <1>3, <2>1 DEF Starts
    <2>2. CASE ~(i <= Len(s))
      <3>1. i - Len(s) \in 1..(Len(t) - Len(s)) /\ Len(s) + (i - Len(s)) = i
        BY <1>1, <2>2
      <3>2. rest[i - Len(s)] = t[i]
        BY <1>2, <3>1
      <3>3. QED
        BY <1>3, <2>2, <3>2
    <2>3. QED
      BY <2>1, <2>2
  <1>5. u = t
    BY <1>3, <1>4
  <1>6. QED
    BY <1>5 DEF u, rest

LEMMA LogTyped ==
    ASSUME ObjectShape, NEW v \in Vaults
    PROVE  /\ LogOf(v) \in Seq(Envelopes) /\ ToSet(LogOf(v)) \subseteq ToSet(object.envelopes)
           /\ object.vault = v => LogOf(v) = object.envelopes
           /\ object = NoDocument => LogOf(v) = <<>>
  BY ObjectAssumption DEF ObjectShape, Documents, LogOf, NoDocument, ToSet

LEMMA CountedFinite == \A d : IsFiniteSet(Counted(d))
  <1>1. IsFiniteSet(1..MaxEdits)
    BY FS_Interval, ObjectAssumption
  <1>2. IsFiniteSet(Envelopes)
    BY <1>1, FS_Product, ObjectAssumption DEF Envelopes
  <1>3. \A d : Counted(d) \subseteq Envelopes
    BY DEF Counted
  <1>4. QED
    BY <1>2, <1>3, FS_Subset

LEMMA NoUploadIsNone == NoUpload \notin Envelopes
  BY DEF NoUpload, Envelopes

-----------------------------------------------------------------------------

SyncPhases == {"idle", "start", "fetch", "apply", "write", "reply", "settle"}

\* A step of one device: the others are where they were, and the log of no vault shrinks.
OnlyOf(d) ==
    /\ UNCHANGED <<vaultOf, provider, tags>>
    /\ \A e \in Devices \ {d} : /\ sync'[e] = sync[e] /\ upload'[e] = upload[e] /\ outbox'[e] = outbox[e]
                                /\ cursor'[e] = cursor[e] /\ taken'[e] = taken[e]
Grown(d) ==
    /\ \A v \in Vaults : Starts(LogOf(v), LogOf(v)')
    /\ object # NoDocument => object' # NoDocument
    /\ ToSet(object'.envelopes) \subseteq ToSet(object.envelopes) \cup {upload[d]}

LEMMA LogTypedNext ==
    ASSUME ObjectShape', NEW v \in Vaults
    PROVE  LogOf(v)' \in Seq(Envelopes)
  BY DEF ObjectShape, Documents, LogOf

LEMMA OthersKeep ==
    ASSUME ObjectInv, ObjectShape', NEW d \in Devices, OnlyOf(d), Grown(d), NEW e \in Devices, e # d
    PROVE  DeviceInv(e)'
  <1>1. /\ sync'[e] = sync[e] /\ upload'[e] = upload[e] /\ outbox'[e] = outbox[e]
        /\ cursor'[e] = cursor[e] /\ taken'[e] = taken[e] /\ vaultOf' = vaultOf
    BY DEF OnlyOf
  <1>2. vaultOf[e] \in Vaults /\ taken[e] \in Seq(Envelopes) /\ sync[e] \in Syncs /\ ObjectShape
    BY DEF ObjectInv, ObjectShape
  <1>3. /\ Shared(e) \in Seq(Envelopes) /\ Shared(e)' \in Seq(Envelopes)
        /\ Starts(Shared(e), Shared(e)')
    <2>1. LogOf(vaultOf[e]) \in Seq(Envelopes)
      BY <1>2, LogTyped
    <2>2. Shared(e)' \in Seq(Envelopes)
      BY <1>1, <1>2, LogTypedNext DEF Shared
    <2>3. QED
      BY <1>1, <1>2, <2>1, <2>2 DEF Shared, Grown
  <1>4. DeviceInv(e)
    BY DEF ObjectInv
  <1>5. TookStart(e)'
    <2>1. Starts(taken[e], Shared(e)')
      BY <1>2, <1>3, <1>4, StartsOn DEF DeviceInv, TookStart
    <2>2. QED
      BY <1>1, <1>4, <2>1 DEF DeviceInv, TookStart, Starts
  <1>6. Progress(e)'
    <2>1. sync[e].document.envelopes \in Seq(Envelopes)
      BY <1>2 DEF Syncs, Documents
    <2>2. Starts(sync[e].document.envelopes, Shared(e)) => Starts(sync[e].document.envelopes, Shared(e)')
      BY <1>3, <2>1, StartsOn
    <2>3. Fetched(e) => Fetched(e)'
      BY <1>1, <2>2 DEF Fetched, Grown, Starts, New
    <2>4. Extended(e) => Extended(e)'
      BY <1>1 DEF Extended, Grown
    <2>5. Answered(e) => Answered(e)'
      BY <1>1, <2>2 DEF Answered, Starts
    <2>6. Arrived(e) => Arrived(e)'
      <3>1. ToSet(Shared(e)) \subseteq ToSet(Shared(e)')
        BY <1>3, StartsSet
      <3>2. QED
        BY <1>1, <3>1 DEF Arrived
    <2>7. QED
      BY <1>1, <1>4, <2>3, <2>4, <2>5, <2>6 DEF DeviceInv, Progress
  <1>7. Numbers(e)'
    <2>1. upload[d] # NoUpload => upload[d][1] = d
      BY DEF ObjectInv, DeviceInv, Numbers
    <2>2. Counted(e)' \subseteq Counted(e)
      <3> SUFFICES ASSUME NEW x \in Envelopes, x[1] = e, x = upload'[e] \/ x \in ToSet(object'.envelopes)
                   PROVE  x = upload[e] \/ x \in ToSet(object.envelopes)
        BY DEF Counted
      <3>1. CASE x = upload'[e]
        BY <1>1, <3>1
      <3>2. CASE x \in ToSet(object'.envelopes)
        <4>1. x # upload[d]
          BY <2>1, NoUploadIsNone
        <4>2. QED
          BY <3>2, <4>1 DEF Grown
      <3>3. QED
        BY <3>1, <3>2
    <2>3. Cardinality(Counted(e)') <= Cardinality(Counted(e))
      BY <2>2, CountedFinite, FS_Subset
    <2>4. Cardinality(Counted(e)') \in Nat /\ Cardinality(Counted(e)) \in Nat /\ outbox[e] \in Nat
      <3>1. IsFiniteSet(Counted(e)) /\ IsFiniteSet(Counted(e)')
        BY <2>2, CountedFinite, FS_Subset
      <3>2. QED
        BY <3>1, FS_CardinalityType DEF ObjectInv, ObjectShape
    <2>5. QED
      BY <1>1, <1>4, <2>3, <2>4, ObjectAssumption DEF DeviceInv, Numbers
  <1>8. QED
    BY <1>5, <1>6, <1>7 DEF DeviceInv

LEMMA StepOf ==
    ASSUME ObjectInv, ObjectShape', NEW d \in Devices, OnlyOf(d), Grown(d), DeviceInv(d)'
    PROVE  ObjectInv'
  BY OthersKeep DEF ObjectInv

LEMMA SameGrown == ASSUME ObjectInv, NEW d \in Devices, UNCHANGED object PROVE Grown(d)
  <1>1. \A v \in Vaults : LogOf(v)' = LogOf(v) /\ LogOf(v) \in Seq(Envelopes)
    BY LogTyped DEF ObjectInv, LogOf
  <1>2. \A v \in Vaults : Starts(LogOf(v), LogOf(v)')
    BY <1>1, StartsSelf
  <1>3. QED
    BY <1>2 DEF Grown

\* What a step that leaves the file alone keeps of the device that takes it.
LEMMA SameLog ==
    ASSUME ObjectInv, NEW d \in Devices, UNCHANGED <<object, vaultOf>>
    PROVE  /\ Shared(d)' = Shared(d)
           /\ (cursor'[d] = cursor[d] /\ taken'[d] = taken[d]) => TookStart(d)'
           /\ (upload'[d] = upload[d] /\ outbox'[d] = outbox[d]) => Numbers(d)'
  <1>1. Shared(d)' = Shared(d)
    BY DEF Shared, LogOf
  <1>2. TookStart(d) /\ Numbers(d)
    BY DEF ObjectInv, DeviceInv
  <1>3. (cursor'[d] = cursor[d] /\ taken'[d] = taken[d]) => TookStart(d)'
    BY <1>1, <1>2 DEF TookStart, Starts
  <1>4. (upload'[d] = upload[d] /\ outbox'[d] = outbox[d]) => Numbers(d)'
    <2> SUFFICES ASSUME upload'[d] = upload[d], outbox'[d] = outbox[d] PROVE Numbers(d)'
      OBVIOUS
    <2>1. Counted(d)' = Counted(d)
      BY DEF Counted
    <2>2. QED
      BY <1>2, <2>1 DEF Numbers
  <1>5. QED
    BY <1>1, <1>3, <1>4

\* A step that changes nothing but the sync under way.
LEMMA SyncStep ==
    ASSUME ObjectInv, NEW d \in Devices, UNCHANGED <<Local, Remote>>,
           sync' \in [Devices -> Syncs], \A e \in Devices \ {d} : sync'[e] = sync[e], Progress(d)'
    PROVE  ObjectInv'
  <1>1. ObjectShape'
    BY DEF ObjectInv, ObjectShape, Local, Remote
  <1>2. OnlyOf(d) /\ Grown(d)
    BY SameGrown DEF OnlyOf, Local, Remote
  <1>3. DeviceInv(d)'
    BY SameLog DEF DeviceInv, Local, Remote
  <1>4. QED
    BY <1>1, <1>2, <1>3, StepOf

LEMMA IdleTyped ==
    /\ Idle \in Syncs /\ Idle.phase = "idle" /\ Idle.round = 0 /\ Idle.attempt = 0
    /\ NoDocument \in Documents /\ NoDocument.envelopes = <<>> /\ NoDocument.vault = "none"
  BY ObjectAssumption DEF Idle, Syncs, Documents, NoDocument

LEMMA FailsTo ==
    ASSUME ObjectShape, NEW d \in Devices, Fails(d)
    PROVE  /\ sync' \in [Devices -> Syncs] /\ \A e \in Devices \ {d} : sync'[e] = sync[e]
           /\ sync'[d] = Idle /\ Progress(d)'
  <1>1. /\ sync' \in [Devices -> Syncs] /\ \A e \in Devices \ {d} : sync'[e] = sync[e]
        /\ sync'[d] = Idle
    BY IdleTyped DEF Fails, ObjectShape
  <1>2. QED
    BY <1>1, IdleTyped DEF Progress

LEMMA GoesTo ==
    ASSUME ObjectShape, NEW d \in Devices, NEW phase \in SyncPhases, Goes(d, phase)
    PROVE  /\ sync' \in [Devices -> Syncs] /\ \A e \in Devices \ {d} : sync'[e] = sync[e]
           /\ sync'[d].phase = phase /\ sync'[d].document = sync[d].document
           /\ sync'[d].round = sync[d].round /\ sync'[d].attempt = sync[d].attempt
           /\ sync'[d].tag = sync[d].tag
  <1> DEFINE s == [sync[d] EXCEPT !.phase = phase]
  <1>1. sync[d] \in Syncs
    BY DEF ObjectShape
  <1>2. /\ s \in Syncs /\ s.phase = phase /\ s.document = sync[d].document
        /\ s.round = sync[d].round /\ s.attempt = sync[d].attempt /\ s.tag = sync[d].tag
    BY <1>1 DEF Syncs, SyncPhases
  <1>3. sync' = [sync EXCEPT ![d] = s]
    BY DEF Goes
  <1> HIDE DEF s
  <1>4. QED
    BY <1>2, <1>3 DEF ObjectShape

-----------------------------------------------------------------------------
(* The steps. *)

LEMMA NewBatchStep == ASSUME ObjectInv, NEW d \in Devices, NewBatch(d) PROVE ObjectInv'
  <1>1. /\ UNCHANGED <<upload, cursor, taken, sync, Remote>>
        /\ outbox' \in [Devices -> Nat] /\ outbox'[d] = outbox[d] + 1
        /\ \A e \in Devices \ {d} : outbox'[e] = outbox[e]
    BY DEF NewBatch, ObjectInv, ObjectShape
  <1>2. ObjectShape' /\ OnlyOf(d) /\ Grown(d)
    BY <1>1, SameGrown DEF ObjectInv, ObjectShape, OnlyOf, Remote
  <1>3. TookStart(d)' /\ Shared(d)' = Shared(d)
    BY <1>1, SameLog DEF Remote
  <1>4. Progress(d)'
    BY <1>1, <1>3 DEF ObjectInv, DeviceInv, Progress, Fetched, Extended, Answered, Arrived, Remote, Starts
  <1>5. Numbers(d)'
    <2>1. Counted(d)' = Counted(d)
      BY <1>1 DEF Counted, Remote
    <2>2. outbox[d] + Cardinality(Counted(d)) < MaxEdits
      BY DEF NewBatch, Numbered, Counted
    <2>3. Cardinality(Counted(d)) \in Nat /\ outbox[d] \in Nat
      BY CountedFinite, FS_CardinalityType DEF ObjectInv, ObjectShape
    <2>4. outbox'[d] + Cardinality(Counted(d)') <= MaxEdits
      BY <1>1, <2>1, <2>2, <2>3, ObjectAssumption
    <2>5. QED
      BY <1>1, <2>4 DEF ObjectInv, DeviceInv, Numbers
  <1>6. QED
    BY <1>2, <1>3, <1>4, <1>5, StepOf DEF DeviceInv

LEMMA StartSyncStep ==
    ASSUME ObjectInv, NEW d \in Devices, StartSync(d) \/ BreakOff(d) PROVE ObjectInv'
  <1>1. UNCHANGED <<Local, Remote>> /\ ObjectShape
    BY DEF StartSync, BreakOff, ObjectInv
  <1>2. CASE StartSync(d)
    <2>1. Goes(d, "start") /\ sync[d].round = 0
      BY <1>2, IdleTyped DEF StartSync, ObjectInv, DeviceInv, Progress
    <2>2. /\ sync' \in [Devices -> Syncs] /\ \A e \in Devices \ {d} : sync'[e] = sync[e]
          /\ sync'[d].phase = "start" /\ sync'[d].round = 0
      BY <1>1, <2>1, GoesTo DEF SyncPhases
    <2>3. Progress(d)'
      BY <2>2, ObjectAssumption DEF Progress
    <2>4. QED
      BY <1>1, <2>2, <2>3, SyncStep
  <1>3. CASE BreakOff(d)
    BY <1>1, <1>3, FailsTo, SyncStep DEF BreakOff
  <1>4. QED
    BY <1>2, <1>3

LEMMA SealStep == ASSUME ObjectInv, NEW d \in Devices, SealUpload(d) PROVE ObjectInv'
  <1> DEFINE s == [Idle EXCEPT !.phase = "fetch", !.round = sync[d].round + 1]
  <1>1. /\ sync[d] \in Syncs /\ sync[d].round < MaxRounds /\ sync' = [sync EXCEPT ![d] = s]
        /\ UNCHANGED <<cursor, taken, Remote>>
    BY DEF SealUpload, ObjectInv, ObjectShape, DeviceInv, Progress
  <1>2. s \in Syncs /\ s.phase = "fetch" /\ s.attempt = 0
    <2>1. sync[d].round + 1 \in 0..MaxRounds
      BY <1>1, ObjectAssumption DEF Syncs
    <2>2. QED
      BY <2>1, IdleTyped, ObjectAssumption DEF Syncs, Idle
  <1> HIDE DEF s
  <1>3. /\ sync' \in [Devices -> Syncs] /\ \A e \in Devices \ {d} : sync'[e] = sync[e]
        /\ sync'[d].phase = "fetch" /\ sync'[d].attempt = 0
    BY <1>1, <1>2 DEF ObjectInv, ObjectShape
  <1>4. Progress(d)'
    BY <1>3, ObjectAssumption DEF Progress
  <1>5. CASE UNCHANGED <<outbox, upload>>
    BY <1>1, <1>3, <1>4, <1>5, SyncStep DEF Local
  <1>6. CASE /\ upload[d] = NoUpload /\ outbox[d] # 0
             /\ upload' = [upload EXCEPT ![d] = <<d, Numbered(d) + 1>>]
             /\ outbox' = [outbox EXCEPT ![d] = @ - 1]
    <2> DEFINE e == <<d, Numbered(d) + 1>>
    <2>1. /\ Numbered(d) = Cardinality(Counted(d)) /\ Cardinality(Counted(d)) \in Nat /\ outbox[d] \in Nat
          /\ outbox[d] + Cardinality(Counted(d)) <= MaxEdits /\ IsFiniteSet(Counted(d))
      BY CountedFinite, FS_CardinalityType DEF Numbered, Counted, ObjectInv, ObjectShape, DeviceInv, Numbers
    <2>2. e \in Envelopes /\ e[1] = d
      BY <1>6, <2>1, ObjectAssumption DEF Envelopes
    <2> HIDE DEF e
    <2>3. /\ upload' \in [Devices -> Envelopes \cup {NoUpload}] /\ upload'[d] = e
          /\ outbox' \in [Devices -> Nat] /\ outbox'[d] = outbox[d] - 1
          /\ \A x \in Devices \ {d} : upload'[x] = upload[x] /\ outbox'[x] = outbox[x]
      BY <1>6, <2>1, <2>2 DEF ObjectInv, ObjectShape, e
    <2>4. ObjectShape' /\ OnlyOf(d) /\ Grown(d)
      BY <1>1, <1>3, <2>3, SameGrown DEF ObjectInv, ObjectShape, OnlyOf, Remote
    <2>5. TookStart(d)'
      BY <1>1, SameLog DEF Remote
    <2>6. Numbers(d)'
      <3>1. Counted(d)' \subseteq Counted(d) \cup {e}
        BY <1>1, <2>3 DEF Counted, Remote
      <3>2. IsFiniteSet(Counted(d) \cup {e}) /\ Cardinality(Counted(d) \cup {e}) <= Cardinality(Counted(d)) + 1
        BY <2>1, FS_AddElement
      <3>3. IsFiniteSet(Counted(d)') /\ Cardinality(Counted(d)') <= Cardinality(Counted(d) \cup {e})
        BY <3>1, <3>2, FS_Subset
      <3>4. Cardinality(Counted(d)') \in Nat /\ Cardinality(Counted(d) \cup {e}) \in Nat
        BY <3>2, <3>3, FS_CardinalityType
      <3>5. outbox'[d] + Cardinality(Counted(d)') <= MaxEdits
        BY <2>1, <2>3, <3>2, <3>3, <3>4, ObjectAssumption
      <3>6. QED
        BY <2>2, <2>3, <3>5 DEF Numbers
    <2>7. QED
      BY <1>4, <2>4, <2>5, <2>6, StepOf DEF DeviceInv
  <1>7. QED
    BY <1>5, <1>6 DEF SealUpload

LEMMA FetchStep == ASSUME ObjectInv, NEW d \in Devices, Fetch(d) PROVE ObjectInv'
  <1> DEFINE document == IF object = NoDocument THEN New(vaultOf[d]) ELSE object
             tag == tags /\ object # NoDocument
             s == [sync[d] EXCEPT !.phase = "apply", !.attempt = @ + 1, !.document = document, !.tag = tag]
  <1>1. /\ sync[d] \in Syncs /\ sync[d].attempt < MaxAttempts /\ sync' = [sync EXCEPT ![d] = s]
        /\ UNCHANGED <<Local, Remote>> /\ vaultOf[d] \in Vaults /\ object \in Documents /\ tags \in BOOLEAN
    BY DEF Fetch, ObjectInv, ObjectShape, DeviceInv, Progress
  <1>2. document \in Documents /\ tag \in BOOLEAN
    BY <1>1 DEF Documents, New
  <1>3. document.vault = vaultOf[d] => Starts(document.envelopes, Shared(d))
    <2>1. CASE object = NoDocument
      BY <2>1 DEF New, Starts
    <2>2. CASE object # NoDocument /\ object.vault = vaultOf[d]
      BY <1>1, <2>2, StartsSelf DEF Shared, LogOf, Documents
    <2>3. QED
      BY <2>1, <2>2
  <1>4. ~tag => document = New(vaultOf[d]) \/ object # NoDocument
    OBVIOUS
  <1> HIDE DEF document, tag
  <1>5. s \in Syncs /\ s.phase = "apply" /\ s.document = document /\ s.tag = tag
    <2>1. sync[d].attempt + 1 \in 0..MaxAttempts
      BY <1>1, ObjectAssumption DEF Syncs
    <2>2. QED
      BY <1>1, <1>2, <2>1 DEF Syncs
  <1> HIDE DEF s
  <1>6. /\ sync' \in [Devices -> Syncs] /\ \A e \in Devices \ {d} : sync'[e] = sync[e]
        /\ sync'[d].phase = "apply" /\ sync'[d].document = document /\ sync'[d].tag = tag
    BY <1>1, <1>5 DEF ObjectInv, ObjectShape
  <1>7. Progress(d)'
    <2>1. Shared(d)' = Shared(d) /\ vaultOf' = vaultOf /\ object' = object
      BY <1>1, SameLog DEF Remote
    <2>2. Fetched(d)'
      BY <1>3, <1>4, <1>6, <2>1 DEF Fetched, Starts
    <2>3. QED
      BY <1>6, <2>2 DEF Progress
  <1>8. QED
    BY <1>1, <1>6, <1>7, SyncStep

LEMMA ExchangeStep == ASSUME ObjectInv, NEW d \in Devices, ApplyExchange(d) PROVE ObjectInv'
  <1> DEFINE document == sync[d].document
             es == document.envelopes
             new == upload[d] # NoUpload /\ upload[d] \notin ToSet(es)
             all == IF new THEN Append(es, upload[d]) ELSE es
             s == [sync[d] EXCEPT !.phase = IF new THEN "write" ELSE "reply", !.document.envelopes = all]
  <1>1. /\ UNCHANGED <<Local, Remote>> /\ sync[d] \in Syncs /\ sync[d].phase = "apply" /\ ObjectShape
        /\ upload[d] \in Envelopes \cup {NoUpload} /\ cursor[d] \in Nat /\ vaultOf[d] \in Vaults
    BY DEF ApplyExchange, ObjectInv, ObjectShape
  <1>2. CASE Fails(d)
    BY <1>1, <1>2, FailsTo, SyncStep
  <1>3. CASE /\ document.vault = vaultOf[d] /\ ~(Len(es) > PageLimit) /\ ~(cursor[d] > Len(es))
             /\ sync' = [sync EXCEPT ![d].phase = IF new THEN "write" ELSE "reply",
                                     ![d].document.envelopes = all]
    <2>1. document \in Documents /\ es \in Seq(Envelopes) /\ Len(es) \in Nat
      BY <1>1 DEF Syncs, Documents
    <2>2. Fetched(d)
      BY <1>1 DEF ObjectInv, DeviceInv, Progress
    <2>3. sync' = [sync EXCEPT ![d] = s]
      BY <1>1, <1>3
    <2>4. all \in Seq(Envelopes)
      BY <1>1, <2>1
    <2>5. /\ Shared(d)' = Shared(d) /\ vaultOf' = vaultOf /\ object' = object /\ upload' = upload
          /\ cursor' = cursor
      BY <1>1, SameLog DEF Remote, Local
    <2>6. CASE new
      <3>1. /\ Len(all) = Len(es) + 1 /\ all[Len(all)] = upload[d]
            /\ \A i \in 1..(Len(all) - 1) : all[i] = es[i] /\ all[i] # upload[d]
        <4>1. all = Append(es, upload[d]) /\ upload[d] \in Envelopes
          BY <1>1, <2>6
        <4>2. \A i \in 1..Len(es) : es[i] # upload[d]
          BY <2>1, <2>6 DEF ToSet
        <4> HIDE DEF all
        <4>3. /\ Len(all) = Len(es) + 1 /\ all[Len(es) + 1] = upload[d]
              /\ \A i \in 1..Len(es) : all[i] = es[i]
          BY <2>1, <4>1
        <4>4. QED
          BY <2>1, <4>2, <4>3
      <3> HIDE DEF all
      <3>2. /\ s \in Syncs /\ s.phase = "write" /\ s.tag = sync[d].tag
            /\ s.document.vault = vaultOf[d] /\ s.document.envelopes = all
        BY <1>1, <1>3, <2>1, <2>4, <2>6 DEF Syncs, Documents
      <3> HIDE DEF s
      <3>3. /\ sync' \in [Devices -> Syncs] /\ \A e \in Devices \ {d} : sync'[e] = sync[e]
            /\ sync'[d] = s
        BY <2>3, <3>2 DEF ObjectInv, ObjectShape
      <3>4. ~sync[d].tag => Len(all) = 1 \/ object # NoDocument
        BY <2>1, <2>2, <3>1 DEF Fetched, New
      <3>5. Len(all) \in 1..(PageLimit + 1) /\ cursor[d] < Len(all)
        <4>1. PageLimit \in Nat /\ cursor[d] \in Nat /\ Len(es) \in Nat
          BY <1>1, <2>1, ObjectAssumption
        <4>2. ~(Len(es) > PageLimit) /\ ~(cursor[d] > Len(es)) /\ Len(all) = Len(es) + 1
          BY <1>3, <3>1
        <4> HIDE DEF es
        <4>3. QED
          BY <4>1, <4>2
      <3>6. Extended(d)'
        BY <2>5, <2>6, <3>1, <3>2, <3>3, <3>4, <3>5 DEF Extended
      <3>7. Progress(d)'
        BY <3>2, <3>3, <3>6 DEF Progress
      <3>8. QED
        BY <1>1, <3>3, <3>7, SyncStep
    <2>7. CASE ~new
      <3>1. all = es
        BY <2>7
      <3> HIDE DEF all
      <3>2. s \in Syncs /\ s.phase = "reply" /\ s.document.vault = vaultOf[d] /\ s.document.envelopes = es
        BY <1>1, <1>3, <2>1, <2>7, <3>1 DEF Syncs, Documents
      <3> HIDE DEF s
      <3>3. /\ sync' \in [Devices -> Syncs] /\ \A e \in Devices \ {d} : sync'[e] = sync[e]
            /\ sync'[d] = s
        BY <2>3, <3>2 DEF ObjectInv, ObjectShape
      <3>4. Starts(es, Shared(d))
        BY <1>3, <2>2 DEF Fetched
      <3>5. Answered(d)'
        <4>1. /\ sync'[d].document.vault = vaultOf'[d] /\ sync'[d].document.envelopes = es
              /\ cursor'[d] = cursor[d] /\ Shared(d)' = Shared(d)
          BY <2>5, <3>2, <3>3
        <4>2. cursor[d] <= Len(es)
          BY <1>1, <1>3, <2>1
        <4>3. QED
          BY <3>4, <4>1, <4>2 DEF Answered, Starts
      <3>6. Arrived(d)'
        <4>1. Shared(d) \in Seq(Envelopes)
          BY <1>1, LogTyped DEF Shared
        <4>2. ToSet(es) \subseteq ToSet(Shared(d))
          BY <2>1, <3>4, <4>1, StartsSet
        <4>3. upload[d] = NoUpload \/ upload[d] \in ToSet(Shared(d))
          BY <2>7, <4>2
        <4>4. QED
          BY <2>5, <4>3 DEF Arrived
      <3>7. Progress(d)'
        BY <3>2, <3>3, <3>5, <3>6 DEF Progress
      <3>8. QED
        BY <1>1, <3>3, <3>7, SyncStep
    <2>8. QED
      BY <2>6, <2>7
  <1>4. QED
    BY <1>2, <1>3 DEF ApplyExchange

\* A conditional request that succeeds adds one envelope to the log, which was not in it.
Replaces(d) == sync[d].phase = "write" /\ Unchanged(d) /\ object' = sync[d].document

LEMMA ReplaceAdds ==
    ASSUME ObjectInv, NEW d \in Devices, Replaces(d)
    PROVE  /\ object' \in Documents /\ object' # NoDocument /\ object'.vault = vaultOf[d]
           /\ Len(object'.envelopes) <= PageLimit + 1
           /\ upload[d] \in Envelopes /\ upload[d] \notin ToSet(Shared(d))
           /\ object'.envelopes = Append(Shared(d), upload[d])
           /\ \A v \in Vaults : v # vaultOf[d] => LogOf(v) = <<>>
           /\ object # NoDocument => object.envelopes = Shared(d)
  <1> DEFINE document == sync[d].document
             es == document.envelopes
             n == Len(es)
  <1>1. /\ document \in Documents /\ es \in Seq(Envelopes) /\ vaultOf[d] \in Vaults /\ Extended(d)
        /\ object \in Documents /\ object' = document /\ sync[d].tag \in BOOLEAN /\ ObjectShape
    BY DEF Replaces, ObjectInv, ObjectShape, Syncs, Documents, DeviceInv, Progress
  <1>2. /\ n \in 1..(PageLimit + 1) /\ document.vault = vaultOf[d]
        /\ upload[d] # NoUpload /\ es[n] = upload[d] /\ \A i \in 1..(n - 1) : es[i] # upload[d]
        /\ ~sync[d].tag => n = 1 \/ object # NoDocument
    BY <1>1 DEF Extended
  <1>3. /\ Front(es) \in Seq(Envelopes) /\ Len(Front(es)) = n - 1
        /\ \A i \in 1..(n - 1) : Front(es)[i] = es[i]
        /\ Append(Front(es), es[n]) = es
    <2>1. Len(es) > 0
      BY <1>2, ObjectAssumption
    <2>2. QED
      BY <1>1, <2>1, FrontOf
  <1>4. upload[d] \notin ToSet(Front(es))
    BY <1>2, <1>3 DEF ToSet
  <1>5. /\ Shared(d) = Front(es) /\ (object # NoDocument => object.envelopes = Shared(d))
        /\ \A v \in Vaults : v # vaultOf[d] => LogOf(v) = <<>>
    <2>1. CASE sync[d].tag
      <3>1. object = [document EXCEPT !.envelopes = Front(@)]
        BY <2>1 DEF Replaces, Unchanged
      <3>2. object.vault = vaultOf[d] /\ object.envelopes = Front(es)
        BY <1>1, <1>2, <3>1 DEF Documents
      <3>3. QED
        BY <3>2 DEF Shared, LogOf
    <2>2. CASE ~sync[d].tag
      <3>1. object = NoDocument /\ n = 1
        BY <1>2, <2>2 DEF Replaces, Unchanged
      <3>2. Front(es) = <<>>
        BY <1>3, <3>1
      <3>3. \A v \in Vaults : LogOf(v) = <<>>
        BY <1>1, <3>1, LogTyped
      <3>4. QED
        BY <1>1, <3>1, <3>2, <3>3 DEF Shared
    <2>3. QED
      BY <1>1, <2>1, <2>2
  <1>6. upload[d] \in Envelopes
    BY <1>2 DEF ObjectInv, ObjectShape
  <1>7. document # NoDocument
    BY <1>1, <1>2, IdleTyped, ObjectAssumption
  <1>8. Len(es) <= PageLimit + 1
    BY <1>2, ObjectAssumption
  <1>9. QED
    BY <1>1, <1>2, <1>3, <1>4, <1>5, <1>6, <1>7, <1>8

LEMMA ReplaceStep ==
    ASSUME ObjectInv, NEW d \in Devices, Replaces(d), UNCHANGED <<vaultOf, provider, tags, Local>>,
           Goes(d, "reply") \/ Fails(d)
    PROVE  ObjectInv'
  <1> DEFINE document == sync[d].document
  <1>1. /\ ObjectShape /\ vaultOf[d] \in Vaults /\ Shared(d) \in Seq(Envelopes) /\ upload[d] \in Envelopes
        /\ taken[d] \in Seq(Envelopes)
    <2>1. ObjectShape /\ vaultOf[d] \in Vaults /\ taken[d] \in Seq(Envelopes)
      BY DEF ObjectInv, ObjectShape
    <2>2. QED
      BY <2>1, LogTyped, ReplaceAdds DEF Shared
  <1>2. /\ object'.vault = vaultOf[d] /\ object'.envelopes = Append(Shared(d), upload[d])
        /\ object' \in Documents /\ object' # NoDocument /\ object' = document
    BY ReplaceAdds DEF Replaces
  <1>3. Shared(d)' = object'.envelopes
    BY <1>2 DEF Shared, LogOf
  <1>4. /\ Append(Shared(d), upload[d]) \in Seq(Envelopes)
        /\ Starts(Shared(d), Append(Shared(d), upload[d]))
        /\ ToSet(Append(Shared(d), upload[d])) = ToSet(Shared(d)) \cup {upload[d]}
    <2> DEFINE t == Append(Shared(d), upload[d])
    <2>1. /\ t \in Seq(Envelopes) /\ Len(t) = Len(Shared(d)) + 1 /\ t[Len(Shared(d)) + 1] = upload[d]
          /\ \A i \in 1..Len(Shared(d)) : t[i] = Shared(d)[i]
          /\ Len(Shared(d)) \in Nat
      BY <1>1
    <2> HIDE DEF t
    <2>2. Starts(Shared(d), t)
      BY <2>1 DEF Starts
    <2>3. ToSet(t) = ToSet(Shared(d)) \cup {upload[d]}
      <3>1. DOMAIN t = 1..(Len(Shared(d)) + 1) /\ DOMAIN Shared(d) = 1..Len(Shared(d))
        BY <1>1, <2>1
      <3>2. QED
        BY <2>1, <3>1 DEF ToSet
    <2>4. QED
      BY <2>1, <2>2, <2>3 DEF t
  <1>5. Grown(d)
    <2>1. ASSUME NEW v \in Vaults PROVE Starts(LogOf(v), LogOf(v)')
      <3>1. CASE v = vaultOf[d]
        BY <1>2, <1>4, <3>1 DEF Shared, LogOf
      <3>2. CASE v # vaultOf[d]
        <4>1. LogOf(v) = <<>> /\ LogOf(v)' = <<>>
          BY <1>2, <3>2, ReplaceAdds DEF LogOf
        <4>2. QED
          BY <4>1 DEF Starts
      <3>3. QED
        BY <3>1, <3>2
    <2>2. ToSet(object'.envelopes) \subseteq ToSet(object.envelopes) \cup {upload[d]}
      <3>1. CASE object = NoDocument
        <4>1. Shared(d) = <<>> /\ ToSet(Shared(d)) = {}
          BY <1>1, <3>1, LogTyped DEF Shared, ToSet
        <4>2. QED
          BY <1>2, <1>4, <4>1
      <3>2. CASE object # NoDocument
        BY <1>2, <1>4, <3>2, ReplaceAdds
      <3>3. QED
        BY <3>1, <3>2
    <2>3. QED
      BY <1>2, <2>1, <2>2 DEF Grown
  <1>6. /\ sync' \in [Devices -> Syncs] /\ \A e \in Devices \ {d} : sync'[e] = sync[e]
    BY <1>1, GoesTo, FailsTo DEF SyncPhases
  <1>7. ObjectShape' /\ OnlyOf(d)
    <2>1. Len(object'.envelopes) <= PageLimit + 1
      BY ReplaceAdds
    <2>2. object'.vault # "none"
      BY <1>1, <1>2, ObjectAssumption
    <2>3. QED
      BY <1>1, <1>2, <1>6, <2>1, <2>2 DEF ObjectShape, OnlyOf, Local
  <1>8. TookStart(d)'
    <2>1. Starts(taken[d], Shared(d)) /\ Len(taken[d]) = cursor[d]
      BY DEF ObjectInv, DeviceInv, TookStart
    <2>2. Starts(taken[d], Append(Shared(d), upload[d]))
      BY <1>1, <1>4, <2>1, StartsOn
    <2>3. QED
      BY <1>2, <1>3, <2>1, <2>2 DEF TookStart, Local, Starts
  <1>9. Numbers(d)'
    <2>1. Numbers(d) /\ Extended(d)
      BY DEF ObjectInv, DeviceInv, Progress, Replaces
    <2>2. Counted(d)' \subseteq Counted(d)
      BY <1>5 DEF Counted, Grown, Local
    <2>3. IsFiniteSet(Counted(d)) /\ IsFiniteSet(Counted(d)') /\ Cardinality(Counted(d)') <= Cardinality(Counted(d))
      BY <2>2, CountedFinite, FS_Subset
    <2>4. Cardinality(Counted(d)') \in Nat /\ Cardinality(Counted(d)) \in Nat /\ outbox[d] \in Nat
      BY <1>1, <2>3, FS_CardinalityType DEF ObjectShape
    <2>5. QED
      BY <2>1, <2>3, <2>4, ObjectAssumption DEF Numbers, Local
  <1>10. Progress(d)'
    <2>1. CASE Fails(d)
      BY <1>1, <2>1, FailsTo
    <2>2. CASE Goes(d, "reply")
      <3>1. sync'[d].phase = "reply" /\ sync'[d].document = document
        BY <1>1, <2>2, GoesTo DEF SyncPhases
      <3>2. Answered(d)'
        <4>1. Extended(d)
          BY DEF ObjectInv, DeviceInv, Progress, Replaces
        <4>2. Starts(object'.envelopes, object'.envelopes)
          BY <1>2, StartsSelf DEF Documents
        <4>3. cursor[d] <= Len(document.envelopes)
          BY <1>1, <4>1, ObjectAssumption DEF Extended, ObjectShape
        <4>4. QED
          BY <1>2, <1>3, <3>1, <4>2, <4>3 DEF Answered, Local, Starts
      <3>3. Arrived(d)'
        <4>1. upload[d] \in ToSet(object'.envelopes)
          BY <1>2, <1>4
        <4>2. QED
          BY <1>3, <4>1 DEF Arrived, Local
      <3>4. QED
        BY <3>1, <3>2, <3>3 DEF Progress
    <2>3. QED
      BY <2>1, <2>2
  <1>11. QED
    BY <1>5, <1>7, <1>8, <1>9, <1>10, StepOf DEF DeviceInv

LEMMA WriteStep ==
    ASSUME ObjectInv, NEW d \in Devices, Write(d) \/ WriteUnanswered(d) PROVE ObjectInv'
  <1>1. CASE /\ Unchanged(d) /\ object' = sync[d].document /\ sync[d].phase = "write"
             /\ (Goes(d, "reply") \/ Fails(d)) /\ UNCHANGED <<vaultOf, provider, tags, Local>>
    BY <1>1, ReplaceStep DEF Replaces
  <1>2. CASE /\ UNCHANGED object /\ UNCHANGED <<vaultOf, provider, tags, Local>> /\ sync[d].phase = "write"
             /\ IF sync[d].attempt = MaxAttempts THEN Fails(d) ELSE Goes(d, "fetch")
    <2>1. UNCHANGED <<Local, Remote>> /\ ObjectShape /\ sync[d] \in Syncs
      BY <1>2 DEF Remote, ObjectInv, ObjectShape
    <2>2. CASE Fails(d)
      BY <2>1, <2>2, FailsTo, SyncStep
    <2>3. CASE sync[d].attempt # MaxAttempts /\ Goes(d, "fetch")
      <3>1. sync[d].attempt < MaxAttempts
        BY <2>1, <2>3, ObjectAssumption DEF Syncs
      <3>2. /\ sync' \in [Devices -> Syncs] /\ \A e \in Devices \ {d} : sync'[e] = sync[e]
            /\ sync'[d].phase = "fetch" /\ sync'[d].attempt = sync[d].attempt
        BY <2>1, <2>3, GoesTo DEF SyncPhases
      <3>3. Progress(d)'
        BY <3>1, <3>2 DEF Progress
      <3>4. QED
        BY <2>1, <3>2, <3>3, SyncStep
    <2>4. QED
      BY <1>2, <2>2, <2>3
  <1>3. QED
    BY <1>1, <1>2 DEF Write, WriteUnanswered

LEMMA ApplyTakes ==
    ASSUME ObjectInv, NEW d \in Devices, Apply(d)
    PROVE  /\ taken' = [taken EXCEPT ![d] = sync[d].document.envelopes]
           /\ sync[d].document.envelopes \in Seq(Envelopes) /\ Starts(taken[d], sync[d].document.envelopes)
           /\ Starts(sync[d].document.envelopes, Shared(d)) /\ Shared(d) \in Seq(Envelopes)
           /\ taken[d] \in Seq(Envelopes) /\ Arrived(d)
  <1> DEFINE all == sync[d].document.envelopes
  <1>1. /\ Answered(d) /\ Arrived(d) /\ TookStart(d) /\ all \in Seq(Envelopes)
        /\ taken[d] \in Seq(Envelopes) /\ cursor[d] \in Nat
        /\ taken' = [taken EXCEPT ![d] = @ \o SubSeq(all, cursor[d] + 1, Len(all))]
    BY DEF Apply, ObjectInv, DeviceInv, Progress, ObjectShape, Syncs, Documents
  <1>2. Shared(d) \in Seq(Envelopes)
    BY LogTyped DEF Shared, ObjectInv, ObjectShape
  <1>3. Starts(taken[d], all)
    BY <1>1, <1>2 DEF Answered, TookStart, Starts
  <1>4. taken[d] \o SubSeq(all, Len(taken[d]) + 1, Len(all)) = all
    BY <1>1, <1>3, TakeRest
  <1>5. QED
    BY <1>1, <1>2, <1>3, <1>4 DEF TookStart, Answered

LEMMA ApplyStep == ASSUME ObjectInv, NEW d \in Devices, Apply(d) PROVE ObjectInv'
  <1> DEFINE all == sync[d].document.envelopes
             s == [Idle EXCEPT !.phase = "settle", !.round = sync[d].round]
  <1>1. /\ taken' = [taken EXCEPT ![d] = all] /\ cursor' = [cursor EXCEPT ![d] = Len(all)]
        /\ sync' = [sync EXCEPT ![d] = s] /\ UNCHANGED <<outbox, upload, Remote>> /\ sync[d] \in Syncs
        /\ all \in Seq(Envelopes) /\ Len(all) \in Nat /\ ObjectShape
    <2>1. all \in Seq(Envelopes)
      BY ApplyTakes
    <2>2. taken' = [taken EXCEPT ![d] = all]
      BY ApplyTakes
    <2>3. ObjectShape /\ sync[d] \in Syncs
      BY DEF ObjectInv, ObjectShape
    <2>4. /\ cursor' = [cursor EXCEPT ![d] = Len(all)] /\ sync' = [sync EXCEPT ![d] = s]
          /\ UNCHANGED <<outbox, upload, Remote>>
      BY DEF Apply
    <2> HIDE DEF all, s
    <2>5. QED
      BY <2>1, <2>2, <2>3, <2>4
  <1>2. s \in Syncs /\ s.phase = "settle"
    BY <1>1, IdleTyped DEF Syncs, Idle
  <1>3. Starts(all, Shared(d)) /\ Arrived(d)
    BY ApplyTakes
  <1> HIDE DEF s, all
  <1>4. /\ taken' \in [Devices -> Seq(Envelopes)] /\ cursor' \in [Devices -> Nat] /\ sync' \in [Devices -> Syncs]
        /\ taken'[d] = all /\ cursor'[d] = Len(all) /\ sync'[d].phase = "settle"
        /\ \A e \in Devices \ {d} : taken'[e] = taken[e] /\ cursor'[e] = cursor[e] /\ sync'[e] = sync[e]
    BY <1>1, <1>2 DEF ObjectShape
  <1>5. ObjectShape' /\ OnlyOf(d) /\ Grown(d)
    BY <1>1, <1>4, SameGrown DEF ObjectShape, OnlyOf, Remote
  <1>6. Shared(d)' = Shared(d) /\ Numbers(d)'
    BY <1>1, SameLog DEF Remote
  <1>7. TookStart(d)'
    BY <1>3, <1>4, <1>6 DEF TookStart, Starts
  <1>8. Progress(d)'
    <2>1. Arrived(d)'
      BY <1>1, <1>3, <1>6 DEF Arrived
    <2>2. QED
      BY <1>4, <2>1 DEF Progress
  <1>9. QED
    BY <1>5, <1>6, <1>7, <1>8, StepOf DEF DeviceInv

LEMMA SettleStep == ASSUME ObjectInv, NEW d \in Devices, Settle(d) PROVE ObjectInv'
  <1>1. /\ upload' = [upload EXCEPT ![d] = NoUpload] /\ UNCHANGED <<outbox, cursor, taken, Remote>>
        /\ ObjectShape /\ sync[d] \in Syncs /\ sync[d].phase = "settle" /\ Numbers(d)
        /\ Fails(d) \/ (sync[d].round # MaxRounds /\ Goes(d, "start"))
    BY DEF Settle, ObjectInv, ObjectShape, DeviceInv
  <1>2. /\ upload' \in [Devices -> Envelopes \cup {NoUpload}] /\ upload'[d] = NoUpload
        /\ \A e \in Devices \ {d} : upload'[e] = upload[e]
    BY <1>1 DEF ObjectShape
  <1>3. /\ sync' \in [Devices -> Syncs] /\ \A e \in Devices \ {d} : sync'[e] = sync[e]
        /\ Progress(d)'
    <2>1. CASE Fails(d)
      BY <1>1, <2>1, FailsTo
    <2>2. CASE sync[d].round # MaxRounds /\ Goes(d, "start")
      <3>1. sync[d].round < MaxRounds
        BY <1>1, <2>2, ObjectAssumption DEF Syncs
      <3>2. /\ sync' \in [Devices -> Syncs] /\ \A e \in Devices \ {d} : sync'[e] = sync[e]
            /\ sync'[d].phase = "start" /\ sync'[d].round = sync[d].round
        BY <1>1, <2>2, GoesTo DEF SyncPhases
      <3>3. QED
        BY <3>1, <3>2 DEF Progress
    <2>3. QED
      BY <1>1, <2>1, <2>2
  <1>4. ObjectShape' /\ OnlyOf(d) /\ Grown(d)
    BY <1>1, <1>2, <1>3, SameGrown DEF ObjectShape, OnlyOf, Remote
  <1>5. TookStart(d)'
    BY <1>1, SameLog DEF Remote
  <1>6. Numbers(d)'
    <2>1. Counted(d)' \subseteq Counted(d)
      BY <1>1, <1>2, NoUploadIsNone DEF Counted, Remote
    <2>2. IsFiniteSet(Counted(d)) /\ IsFiniteSet(Counted(d)') /\ Cardinality(Counted(d)') <= Cardinality(Counted(d))
      BY <2>1, CountedFinite, FS_Subset
    <2>3. Cardinality(Counted(d)') \in Nat /\ Cardinality(Counted(d)) \in Nat /\ outbox[d] \in Nat
      BY <1>1, <2>2, FS_CardinalityType DEF ObjectShape
    <2>4. QED
      BY <1>1, <1>2, <2>2, <2>3, ObjectAssumption DEF Numbers
  <1>7. QED
    BY <1>3, <1>4, <1>5, <1>6, StepOf DEF DeviceInv

LEMMA ObjectInvInit == ObjInit => ObjectInv
  <1> SUFFICES ASSUME ObjInit PROVE ObjectInv
    OBVIOUS
  <1>1. /\ object \in Documents /\ object.envelopes = <<>>
        /\ object.vault = "none" => object = NoDocument
    <2>1. CASE object = NoDocument
      BY <2>1, IdleTyped
    <2>2. ASSUME NEW v \in Vaults, object = New(v)
          PROVE  object \in Documents /\ object.envelopes = <<>> /\ object.vault # "none"
      BY <2>2, ObjectAssumption DEF New, Documents
    <2>3. object = NoDocument \/ \E v \in Vaults : object = New(v)
      BY DEF ObjInit
    <2>4. QED
      BY <2>1, <2>2, <2>3
  <1>2. ObjectShape
    <2>1. Len(object.envelopes) <= PageLimit + 1
      BY <1>1, ObjectAssumption
    <2>2. QED
      BY <1>1, <2>1, IdleTyped DEF ObjInit, ObjectShape
  <1>3. ASSUME NEW d \in Devices PROVE DeviceInv(d)
    <2>1. /\ sync[d] = Idle /\ taken[d] = <<>> /\ cursor[d] = 0 /\ upload[d] = NoUpload /\ outbox[d] = 0
      BY DEF ObjInit
    <2>2. TookStart(d)
      <3>1. Shared(d) = <<>>
        BY <1>1 DEF Shared, LogOf
      <3>2. QED
        BY <2>1, <3>1 DEF TookStart, Starts
    <2>3. Progress(d)
      BY <2>1, IdleTyped DEF Progress
    <2>4. Counted(d) = {}
      BY <1>1, <2>1, NoUploadIsNone DEF Counted, ToSet
    <2>5. QED
      BY <2>1, <2>2, <2>3, <2>4, FS_EmptySet, ObjectAssumption DEF DeviceInv, Numbers
  <1>4. QED
    BY <1>2, <1>3 DEF ObjectInv

LEMMA ObjectInvStep == ASSUME ObjectInv, [ObjNext]_objVars PROVE ObjectInv'
  <1>1. CASE UNCHANGED objVars
    <2>1. UNCHANGED <<Local, Remote, sync>>
      BY <1>1 DEF objVars, Local, Remote
    <2>2. ObjectShape'
      BY <2>1 DEF ObjectInv, ObjectShape, Local, Remote
    <2>3. ASSUME NEW d \in Devices PROVE DeviceInv(d)'
      <3>1. Shared(d)' = Shared(d) /\ TookStart(d)' /\ Numbers(d)'
        BY <2>1, SameLog DEF Local, Remote
      <3>2. Progress(d)'
        BY <2>1, <3>1 DEF ObjectInv, DeviceInv, Progress, Fetched, Extended, Answered, Arrived, Local,
                          Remote, Starts
      <3>3. QED
        BY <3>1, <3>2 DEF DeviceInv
    <2>4. QED
      BY <2>2, <2>3 DEF ObjectInv
  <1>2. CASE ObjNext
    BY <1>2, NewBatchStep, StartSyncStep, SealStep, FetchStep, ExchangeStep, WriteStep, ApplyStep,
       SettleStep DEF ObjNext
  <1>3. QED
    BY <1>1, <1>2

LEMMA ObjectAlways == ObjSpec => []ObjectInv
  <1>1. ObjInit => ObjectInv
    BY ObjectInvInit
  <1>2. ObjectInv /\ [ObjNext]_objVars => ObjectInv'
    BY ObjectInvStep
  <1>3. QED
    BY <1>1, <1>2, PTL DEF ObjSpec

\* The requests and rounds of a sync stay within their bounds, and the cursor of a device within
\* the file, for any number of devices and vaults.
THEOREM ObjectTypes == ObjSpec => []ObjTypeOK
  <1>1. ASSUME ObjectInv PROVE ObjTypeOK
    <2>1. object = NoDocument \/ object.vault \in Vaults
      BY <1>1 DEF ObjectInv, ObjectShape, Documents
    <2>2. ASSUME NEW d \in Devices
          PROVE  /\ outbox[d] \in 0..MaxEdits /\ cursor[d] \in 0..Len(object.envelopes)
                 /\ upload[d] \in Envelopes \cup {NoUpload} /\ sync[d] \in Syncs
      <3>1. /\ outbox[d] \in Nat /\ cursor[d] \in Nat /\ sync[d] \in Syncs /\ vaultOf[d] \in Vaults
            /\ upload[d] \in Envelopes \cup {NoUpload} /\ object.envelopes \in Seq(Envelopes)
            /\ taken[d] \in Seq(Envelopes) /\ ObjectShape
        BY <1>1 DEF ObjectInv, ObjectShape, Documents
      <3>2. outbox[d] <= MaxEdits
        <4>1. outbox[d] + Cardinality(Counted(d)) <= MaxEdits /\ Cardinality(Counted(d)) \in Nat
          BY <1>1, CountedFinite, FS_CardinalityType DEF ObjectInv, DeviceInv, Numbers
        <4>2. QED
          BY <3>1, <4>1, ObjectAssumption
      <3>3. cursor[d] <= Len(object.envelopes)
        <4>1. cursor[d] <= Len(Shared(d))
          BY <1>1 DEF ObjectInv, DeviceInv, TookStart, Starts
        <4>2. Shared(d) = object.envelopes \/ Shared(d) = <<>>
          BY DEF Shared, LogOf
        <4>3. QED
          BY <3>1, <4>1, <4>2
      <3>4. QED
        BY <3>1, <3>2, <3>3, ObjectAssumption
    <2>3. QED
      BY <1>1, <2>1, <2>2 DEF ObjTypeOK, ObjectInv, ObjectShape, Syncs
  <1>2. QED
    BY <1>1, ObjectAlways, PTL

-----------------------------------------------------------------------------
(* The file is a log. *)

LEMMA LogInit == ObjInit => ObjectLog!Init
  <1> SUFFICES ASSUME ObjInit PROVE ObjectLog!Init
    OBVIOUS
  <1>1. object.envelopes = <<>>
    BY IdleTyped DEF ObjInit, New
  <1>2. LogNow = [v \in Vaults |-> <<>>]
    BY <1>1 DEF LogNow, LogOf
  <1>3. OwedNow = [d \in Devices |-> {}]
    BY DEF ObjInit, OwedNow
  <1>4. QED
    BY <1>2, <1>3 DEF ObjectLog!Init, ObjInit, LogNow, OwedNow

\* What is seen of a state: all that the log knows of.
Seen == <<vaultOf, LogNow, taken, OwedNow>>

LEMMA SameOperators ==
    ASSUME NEW s, NEW t
    PROVE  /\ ObjectLog!ToSet(s) = ToSet(s) /\ ObjectLog!IsPrefix(s, t) = IsPrefix(s, t)
           /\ ObjectLog!IsStrictPrefix(s, t) = IsStrictPrefix(s, t)
  BY DEF ObjectLog!ToSet, ToSet, ObjectLog!IsPrefix, IsPrefix, ObjectLog!IsStrictPrefix, IsStrictPrefix

LEMMA SeenSame == ASSUME UNCHANGED <<vaultOf, object, taken, upload>> PROVE UNCHANGED Seen
  BY DEF Seen, LogNow, LogOf, OwedNow

LEMMA SeenAdd ==
    ASSUME ObjectInv, NEW d \in Devices, Replaces(d), UNCHANGED <<vaultOf, taken, upload>>
    PROVE  ObjectLog!Add(d)
  <1>1. vaultOf[d] \in Vaults
    BY DEF ObjectInv, ObjectShape
  <1>2. LogNow[vaultOf[d]] = Shared(d)
    BY <1>1 DEF LogNow, Shared
  <1>3. upload[d] \in OwedNow[d] \ ToSet(LogNow[vaultOf[d]])
    BY <1>2, ReplaceAdds, NoUploadIsNone DEF OwedNow
  <1>4. LogNow' = [LogNow EXCEPT ![vaultOf[d]] = Append(@, upload[d])]
    <2>1. ASSUME NEW v \in Vaults
          PROVE  LogOf(v)' = IF v = vaultOf[d] THEN Append(LogOf(v), upload[d]) ELSE LogOf(v)
      BY ReplaceAdds DEF LogOf, Shared
    <2>2. QED
      BY <1>1, <2>1 DEF LogNow
  <1>5. OwedNow' = OwedNow
    BY DEF OwedNow
  <1>6. \E e \in OwedNow[d] \ ObjectLog!ToSet(LogNow[vaultOf[d]]) :
          LogNow' = [LogNow EXCEPT ![vaultOf[d]] = Append(@, e)]
    BY <1>3, <1>4, SameOperators
  <1>7. QED
    BY <1>5, <1>6 DEF ObjectLog!Add, ObjectLog!Mine, LogNow, OwedNow

LEMMA SeenTake == ASSUME ObjectInv, NEW d \in Devices, Apply(d) PROVE ObjectLog!Take(d) \/ UNCHANGED Seen
  <1> DEFINE all == sync[d].document.envelopes
  <1>1. /\ taken' = [taken EXCEPT ![d] = all] /\ all \in Seq(Envelopes) /\ taken[d] \in Seq(Envelopes)
        /\ Starts(taken[d], all) /\ Starts(all, Shared(d)) /\ Shared(d) \in Seq(Envelopes)
    BY ApplyTakes
  <1>2. /\ UNCHANGED <<vaultOf, object, upload>> /\ vaultOf[d] \in Vaults
        /\ taken \in [Devices -> Seq(Envelopes)]
    BY DEF Apply, Remote, ObjectInv, ObjectShape
  <1>3. LogNow' = LogNow /\ OwedNow' = OwedNow /\ LogNow[vaultOf[d]] = Shared(d)
    BY <1>2 DEF LogNow, LogOf, OwedNow, Shared
  <1> HIDE DEF all
  <1>4. taken'[d] = all
    BY <1>1, <1>2
  <1>5. CASE all = taken[d]
    <2>1. taken' = taken
      BY <1>1, <1>2, <1>5
    <2>2. QED
      BY <1>2, <2>1, SeenSame
  <1>6. CASE all # taken[d]
    <2>1. IsStrictPrefix(taken[d], taken'[d]) /\ IsPrefix(taken'[d], LogNow[vaultOf[d]])
      BY <1>1, <1>3, <1>4, <1>6, PrefixIsStart DEF IsStrictPrefix
    <2>2. /\ ObjectLog!IsStrictPrefix(taken[d], taken'[d])
          /\ ObjectLog!IsPrefix(taken'[d], LogNow[vaultOf[d]])
      BY <2>1, SameOperators
    <2>3. taken' = [taken EXCEPT ![d] = taken'[d]]
      BY <1>1, <1>4
    <2>4. QED
      BY <1>2, <1>3, <2>2, <2>3 DEF ObjectLog!Take, ObjectLog!Mine, LogNow, OwedNow
  <1>7. QED
    BY <1>5, <1>6

LEMMA SeenOwe ==
    ASSUME ObjectInv, ObjectInv', NEW d \in Devices, SealUpload(d)
    PROVE  ObjectLog!Owe(d) \/ UNCHANGED Seen
  <1>1. UNCHANGED <<vaultOf, object, taken>>
    BY DEF SealUpload, Remote
  <1>2. CASE UNCHANGED upload
    BY <1>1, <1>2, SeenSame
  <1>3. CASE upload[d] = NoUpload /\ upload' = [upload EXCEPT ![d] = <<d, Numbered(d) + 1>>]
    <2> DEFINE e == <<d, Numbered(d) + 1>>
    <2>1. e # NoUpload
      BY DEF NoUpload
    <2> HIDE DEF e
    <2>2. upload' = [upload EXCEPT ![d] = e] /\ upload \in [Devices -> Envelopes \cup {NoUpload}]
      BY <1>3 DEF ObjectInv, ObjectShape, e
    <2>3. e \in Envelopes
      <3>1. upload' \in [Devices -> Envelopes \cup {NoUpload}] /\ upload'[d] = e
        BY <2>2 DEF ObjectInv, ObjectShape
      <3>2. QED
        BY <2>1, <3>1
    <2>4. OwedNow[d] = {} /\ OwedNow' = [OwedNow EXCEPT ![d] = OwedNow[d] \cup {e}]
      <3>1. OwedNow[d] = {}
        BY <1>3 DEF OwedNow
      <3>2. ASSUME NEW x \in Devices
            PROVE  {upload'[x]} \ {NoUpload} = IF x = d THEN {e} ELSE OwedNow[x]
        BY <2>1, <2>2 DEF OwedNow
      <3>3. QED
        BY <3>1, <3>2 DEF OwedNow
    <2>5. UNCHANGED <<vaultOf, LogNow, taken>>
      BY <1>1 DEF LogNow, LogOf
    <2>6. \E x \in Envelopes : OwedNow' = [OwedNow EXCEPT ![d] = @ \cup {x}]
      BY <2>3, <2>4
    <2>7. QED
      BY <2>5, <2>6 DEF ObjectLog!Owe, LogNow, OwedNow
  <1>4. QED
    BY <1>2, <1>3 DEF SealUpload

LEMMA SeenForget ==
    ASSUME ObjectInv, NEW d \in Devices, Settle(d)
    PROVE  ObjectLog!Forget(d) \/ UNCHANGED Seen
  <1>1. /\ UNCHANGED <<vaultOf, object, taken>> /\ upload' = [upload EXCEPT ![d] = NoUpload]
        /\ upload \in [Devices -> Envelopes \cup {NoUpload}] /\ Arrived(d) /\ vaultOf[d] \in Vaults
    BY DEF Settle, Remote, ObjectInv, ObjectShape, DeviceInv, Progress
  <1>2. LogNow' = LogNow /\ LogNow[vaultOf[d]] = Shared(d)
    BY <1>1 DEF LogNow, LogOf, Shared
  <1>3. CASE upload[d] = NoUpload
    <2>1. upload' = upload
      BY <1>1, <1>3
    <2>2. QED
      BY <1>1, <2>1, SeenSame
  <1>4. CASE upload[d] # NoUpload
    <2>1. OwedNow[d] = {upload[d]} /\ upload[d] \in ToSet(LogNow[vaultOf[d]])
      BY <1>1, <1>2, <1>4 DEF OwedNow, Arrived
    <2>2. OwedNow' = [OwedNow EXCEPT ![d] = OwedNow[d] \ {upload[d]}]
      <3>1. ASSUME NEW x \in Devices
            PROVE  {upload'[x]} \ {NoUpload} = IF x = d THEN {} ELSE OwedNow[x]
        BY <1>1 DEF OwedNow
      <3>2. OwedNow[d] \ {upload[d]} = {}
        BY <2>1
      <3>3. QED
        BY <3>1, <3>2 DEF OwedNow
    <2>3. \E x \in OwedNow[d] \cap ObjectLog!ToSet(LogNow[vaultOf[d]]) :
            OwedNow' = [OwedNow EXCEPT ![d] = @ \ {x}]
      BY <2>1, <2>2, SameOperators
    <2>4. QED
      BY <1>1, <1>2, <2>3 DEF ObjectLog!Forget, ObjectLog!Mine, LogNow, OwedNow
  <1>5. QED
    BY <1>3, <1>4

LEMMA SeenStep ==
    ASSUME ObjectInv, ObjectInv', [ObjNext]_objVars PROVE ObjectLog!Next \/ UNCHANGED Seen
  <1>1. CASE UNCHANGED objVars
    BY <1>1, SeenSame DEF objVars
  <1>2. ASSUME NEW d \in Devices,
               NewBatch(d) \/ StartSync(d) \/ Fetch(d) \/ ApplyExchange(d) \/ BreakOff(d)
        PROVE  UNCHANGED Seen
    BY <1>2, SeenSame DEF NewBatch, StartSync, Fetch, ApplyExchange, BreakOff, Local, Remote
  <1>3. ASSUME NEW d \in Devices, Write(d) \/ WriteUnanswered(d)
        PROVE  ObjectLog!Add(d) \/ UNCHANGED Seen
    <2>1. UNCHANGED <<vaultOf, taken, upload>> /\ (Replaces(d) \/ UNCHANGED object)
      BY <1>3 DEF Write, WriteUnanswered, Local, Replaces
    <2>2. QED
      BY <2>1, SeenAdd, SeenSame
  <1>4. QED
    BY <1>1, <1>2, <1>3, SeenTake, SeenOwe, SeenForget DEF ObjNext, ObjectLog!Next

\* The file that the devices of a vault read and replace is an append-only log: nothing is lost
\* or added twice, each device takes all of it in order, and forgets what is in it only, for any
\* number of devices, vaults, batches and attempts.
THEOREM FileIsLog == ObjSpec => ExchangeIsAppend
  <1>1. ObjInit => ObjectLog!Init
    BY LogInit
  <1>2. ObjectInv /\ ObjectInv' /\ [ObjNext]_objVars => [ObjectLog!Next]_Seen
    BY SeenStep
  <1>3. QED
    BY <1>1, <1>2, ObjectAlways, PTL DEF ObjSpec, ExchangeIsAppend, ObjectLog!Spec, Seen, LogNow, OwedNow

-----------------------------------------------------------------------------
(* DirectorySync. *)

\* A transfer as a record, and what is where it should be while nobody disturbs it.
JobRecords == [stage : Stages, at : Stages, dirs : SUBSET Paths, files : SUBSET Paths, planned : SUBSET Paths,
               open : Paths \cup {Root}, text : Contents \cup {"absent"},
               listed : UNION {[some -> BOOLEAN] : some \in SUBSET Paths}]

SyncTyped ==
    /\ IsTree(local) /\ IsTree(remote) /\ IsTree(before)
    /\ ignored \subseteq Paths /\ fresh \subseteq Paths /\ others \in 0..MaxOthers /\ quiet \in BOOLEAN
    /\ job \in JobRecords
    /\ job.stage = "stream" => job.open \in Paths /\ job.text \in Contents
    /\ job.stage = "idle" => job.listed = <<>>

\* What others add counts as such only after the listing, which does not have it.
FreshFits ==
    /\ fresh # {} => job.stage \in {"delete", "done", "failed"}
    /\ job.stage = "delete" => fresh \cap DOMAIN job.listed = {}

Directories == {p \in Planned : local[p] = "dir"}
Files == {p \in Planned : local[p] # "dir"}
MadeExcept(rest) == \A p \in Directories \ rest : remote[p] = "dir"
CopiedExcept(rest) == \A p \in Files \ rest : remote[p] = local[p]
OthersAlone == \A p \in Paths \ Planned : remote[p] = before[p]
Spared == Planned \cup Protected(before)

WorkFits ==
    CASE job.stage = "idle" -> job.at = "idle"
      [] job.stage = "mkdir" -> job.dirs \subseteq Directories /\ job.files = Files /\ MadeExcept(job.dirs) /\ OthersAlone
      [] job.stage = "upload" -> job.files \subseteq Files /\ MadeExcept({}) /\ CopiedExcept(job.files) /\ OthersAlone
      [] job.stage = "stream" ->
           /\ job.files \subseteq Files /\ MadeExcept({}) /\ CopiedExcept(job.files \cup {job.open}) /\ OthersAlone
           /\ job.open \in Files /\ job.text = local[job.open] /\ remote[job.open] = "cut"
      [] job.stage = "list" -> MadeExcept({}) /\ CopiedExcept({}) /\ OthersAlone /\ mode = "sync" /\ deleteExtra
      [] job.stage = "delete" ->
           /\ MadeExcept({}) /\ CopiedExcept({}) /\ mode = "sync" /\ deleteExtra
           /\ \A p \in Paths \ Planned : remote[p] = IF p \in Spared \cup DOMAIN job.listed THEN before[p] ELSE "absent"
           /\ \A p \in DOMAIN job.listed : /\ p \notin Spared /\ Present(before, p)
                                           /\ job.listed[p] = (before[p] = "dir")
      [] job.stage = "done" -> MirrorOnSuccess
      [] OTHER -> job.at # "delete"

\* While nobody disturbs the transfer, its plan stays what it was.
QuietFits == quiet => (job.stage \notin {"idle", "failed"} => job.planned = Planned) /\ WorkFits

DirInv == SyncTyped /\ FreshFits /\ QuietFits

-----------------------------------------------------------------------------
\* Trees, and what is done to them.
LEMMA LineageFact ==
    /\ \A p \in Paths : Lineage(p) \subseteq Paths /\ p \in Lineage(p) /\ \A q \in Lineage(p) : Lineage(q) \subseteq Lineage(p)
    /\ \A p, q \in Paths : p \in Lineage(q) /\ p # q => p \in Above[q]
  BY PathsAssumption DEF Lineage

LEMMA DeeperFact ==
    ASSUME NEW p \in Paths, NEW q \in Above[p] PROVE Depth(q) < Depth(p)
  <1>1. q \in Paths /\ Lineage(q) \subseteq Lineage(p) /\ p \notin Lineage(q)
    BY PathsAssumption DEF Lineage
  <1>2. IsFiniteSet(Lineage(p))
    <2>1. IsFiniteSet(Above[p])
      BY PathsAssumption
    <2>2. IsFiniteSet(Above[p] \cup {p})
      BY <2>1, FS_AddElement
    <2>3. Lineage(p) = Above[p] \cup {p}
      BY DEF Lineage
    <2>4. QED
      BY <2>2, <2>3
  <1>3. IsFiniteSet(Lineage(q)) /\ Cardinality(Lineage(q)) <= Cardinality(Lineage(p))
        /\ (Cardinality(Lineage(p)) = Cardinality(Lineage(q)) => Lineage(p) = Lineage(q))
    BY <1>1, <1>2, FS_Subset
  <1>4. Cardinality(Lineage(q)) \in Nat /\ Cardinality(Lineage(p)) \in Nat
    BY <1>2, <1>3, FS_CardinalityType
  <1>5. Lineage(p) # Lineage(q)
    BY <1>1 DEF Lineage
  <1>6. QED
    BY <1>3, <1>4, <1>5 DEF Depth

LEMMA DepthFact == \A p \in Paths : Depth(p) \in Nat
  <1> SUFFICES ASSUME NEW p \in Paths PROVE Depth(p) \in Nat
    OBVIOUS
  <1>1. IsFiniteSet(Above[p] \cup {p})
    BY PathsAssumption, FS_AddElement
  <1>2. Lineage(p) = Above[p] \cup {p}
    BY DEF Lineage
  <1>3. QED
    BY <1>1, <1>2, FS_CardinalityType DEF Depth

LEMMA MkdirTree ==
    ASSUME NEW tree, IsTree(tree), NEW p \in Paths, CanMkdir(tree, p), NEW new, new = Mkdir(tree, p)
    PROVE  /\ IsTree(new) /\ new[p] = "dir"
           /\ \A q \in Paths : IF q \in Lineage(p) THEN new[q] = "dir" ELSE new[q] = tree[q]
  <1>1. \A q \in Paths : IF q \in Lineage(p) THEN new[q] = "dir" ELSE new[q] = tree[q]
    BY DEF Mkdir
  <1>2. new \in [Paths -> Nodes]
    BY DEF Mkdir, IsTree, Nodes
  <1>3. ASSUME NEW q \in Paths, Present(new, q), NEW r \in Above[q] PROVE new[r] = "dir"
    <2>1. r \in Paths /\ (q \in Lineage(p) => r \in Lineage(p))
      BY PathsAssumption DEF Lineage
    <2>2. CASE q \in Lineage(p)
      BY <1>1, <2>1, <2>2
    <2>3. CASE q \notin Lineage(p)
      BY <1>1, <1>3, <2>1, <2>3 DEF IsTree, Present
    <2>4. QED
      BY <2>2, <2>3
  <1>4. QED
    BY <1>1, <1>2, <1>3, LineageFact DEF IsTree

LEMMA TruncatedTree ==
    ASSUME NEW tree, IsTree(tree), NEW p \in Paths, CanOpen(tree, p), NEW node \in Nodes, NEW new,
           new = Truncated(tree, p, node)
    PROVE  /\ IsTree(new) /\ new[p] = node
           /\ \A q \in Paths \ {p} : IF q \in Above[p] THEN new[q] = "dir" ELSE new[q] = tree[q]
  <1>1. /\ new[p] = node
        /\ \A q \in Paths \ {p} : IF q \in Above[p] THEN new[q] = "dir" ELSE new[q] = tree[q]
    BY DEF Truncated, Lineage
  <1>2. new \in [Paths -> Nodes]
    BY DEF Truncated, IsTree, Nodes
  <1>3. ASSUME NEW q \in Paths, Present(new, q), NEW r \in Above[q] PROVE new[r] = "dir"
    <2>1. r \in Paths /\ (q \in Lineage(p) => r \in Above[p] /\ r # p)
      BY PathsAssumption DEF Lineage
    <2>2. CASE q \in Lineage(p)
      BY <1>1, <2>1, <2>2
    <2>3. CASE q \notin Lineage(p)
      <3>1. Present(tree, q)
        BY <1>1, <1>3, <2>3 DEF Present, Lineage
      <3>2. tree[r] = "dir" /\ r # p
        BY <3>1 DEF IsTree, CanOpen
      <3>3. QED
        BY <1>1, <2>1, <3>2
    <2>4. QED
      BY <2>2, <2>3
  <1>4. QED
    BY <1>1, <1>2, <1>3 DEF IsTree

LEMMA RemovedTree ==
    ASSUME NEW tree, IsTree(tree), NEW gone \in SUBSET Paths, NEW new, new = Removed(tree, gone),
           \A p \in gone, q \in Paths : p \in Above[q] /\ q \notin gone => ~Present(tree, q)
    PROVE  IsTree(new) /\ \A q \in Paths : new[q] = IF q \in gone THEN "absent" ELSE tree[q]
  <1>1. \A q \in Paths : new[q] = IF q \in gone THEN "absent" ELSE tree[q]
    BY DEF Removed
  <1>2. new \in [Paths -> Nodes]
    BY DEF Removed, IsTree, Nodes
  <1>3. ASSUME NEW q \in Paths, Present(new, q), NEW r \in Above[q] PROVE new[r] = "dir"
    BY <1>1, <1>3, PathsAssumption DEF IsTree, Present
  <1>4. QED
    BY <1>1, <1>2, <1>3 DEF IsTree

\* One entry of a tree changes, and it is, and stays, no directory with something in it.
LEMMA ChangedTree ==
    ASSUME NEW tree, IsTree(tree), NEW p \in Paths, NEW new \in [Paths -> Nodes],
           \A q \in Paths \ {p} : new[q] = tree[q],
           new[p] # "absent" => \A q \in Above[p] : tree[q] = "dir",
           tree[p] = "dir" => new[p] = "dir" \/ Empty(tree, p)
    PROVE  IsTree(new)
  <1>1. \A q \in Paths \ {p} : new[q] = tree[q]
    OBVIOUS
  <1>2. ASSUME NEW q \in Paths, Present(new, q), NEW r \in Above[q] PROVE new[r] = "dir"
    <2>1. r \in Paths /\ r # q
      BY PathsAssumption
    <2>2. CASE q = p
      BY <1>1, <1>2, <2>1, <2>2 DEF Present
    <2>3. CASE q # p
      <3>1. Present(tree, q) /\ tree[r] = "dir"
        BY <1>1, <1>2, <2>3 DEF Present, IsTree
      <3>2. CASE r = p
        <4>1. q \in Below(p) \ {p}
          BY <2>3, <3>2 DEF Below, Lineage
        <4>2. QED
          BY <1>1, <3>1, <3>2, <4>1 DEF Empty
      <3>3. QED
        BY <1>1, <2>1, <3>1, <3>2
    <2>4. QED
      BY <2>2, <2>3
  <1>3. QED
    BY <1>1, <1>2 DEF IsTree

\* What is excluded covers what is in it, and what is planned is in planned directories.
LEMMA PlannedFact ==
    ASSUME SyncTyped
    PROVE  /\ Planned = Directories \cup Files /\ Planned \subseteq Paths
           /\ \A p \in Planned : Above[p] \subseteq Directories
           /\ \A p \in Files : local[p] \in Contents
           /\ \A p \in Paths : Excluded(p) => p \notin Planned
  <1>1. \A p \in Paths : \A q \in Above[p] : q \in Paths /\ (Excluded(q) => Excluded(p))
    BY PathsAssumption DEF Excluded, Lineage
  <1>2. ASSUME NEW p \in Planned, NEW q \in Above[p] PROVE q \in Directories
    <2>1. p \in Paths /\ Present(local, p) /\ ~Excluded(p)
      BY TreesAssumption DEF Planned, Present
    <2>2. local[q] = "dir"
      BY <2>1 DEF SyncTyped, IsTree
    <2>3. QED
      BY <1>1, <2>1, <2>2 DEF Planned, Directories
  <1>3. QED
    BY <1>2 DEF Planned, Directories, Files

LEMMA DirInvInit == SyncInit => DirInv
  <1> SUFFICES ASSUME SyncInit PROVE DirInv
    OBVIOUS
  <1>1. IsTree(local) /\ IsTree(remote) /\ IsTree(before) /\ ignored \subseteq Paths
    BY TreesAssumption DEF SyncInit
  <1>2. job \in JobRecords /\ job.stage = "idle" /\ job.at = "idle" /\ job.listed = <<>>
    <2>1. <<>> \in UNION {[some -> BOOLEAN] : some \in SUBSET Paths}
      <3>1. <<>> \in [{} -> BOOLEAN]
        OBVIOUS
      <3>2. QED
        BY <3>1
    <2>2. job = NewJob
      BY DEF SyncInit
    <2>3. QED
      BY <2>1, <2>2 DEF NewJob, JobRecords, Stages
  <1>3. SyncTyped /\ FreshFits
    BY <1>1, <1>2, PathsAssumption DEF SyncInit, SyncTyped, FreshFits
  <1>4. QuietFits
    BY <1>2 DEF QuietFits, WorkFits
  <1>5. QED
    BY <1>3, <1>4 DEF DirInv

-----------------------------------------------------------------------------
\* A step of the transfer leaves what it was told alone.
LEMMA StepOfJobFact ==
    ASSUME DirInv, StepOfJob
    PROVE  /\ UNCHANGED <<local, ignored, mode, deleteExtra, others, quiet, before, fresh>>
           /\ Planned' = Planned /\ Directories' = Directories /\ Files' = Files
           /\ Protected(before)' = Protected(before) /\ Spared' = Spared
  BY DEF StepOfJob, Planned, Excluded, Directories, Files, Protected, Spared

LEMMA PlanKeeps ==
    ASSUME DirInv, Plan PROVE DirInv'
  <1>1. /\ job' = [job EXCEPT !.stage = "mkdir", !.planned = Planned, !.dirs = Directories, !.files = Files]
        /\ before' = remote /\ UNCHANGED <<remote, local, ignored, mode, deleteExtra, others, quiet, fresh>>
        /\ job.stage = "idle"
    BY DEF Plan, Directories, Files
  <1>2. Planned \subseteq Paths /\ Directories \subseteq Paths /\ Files \subseteq Paths
    BY DEF Planned, Directories, Files
  <1>3. Planned' = Planned /\ Directories' = Directories /\ Files' = Files
    BY <1>1 DEF Planned, Excluded, Directories, Files
  <1> DEFINE made == Directories
             filed == Files
             plan == Planned
  <1>4. /\ job' \in JobRecords /\ job'.stage = "mkdir" /\ job'.dirs = made /\ job'.files = filed /\ job'.planned = plan
    <2> HIDE DEF made, filed, plan
    <2>1. job \in JobRecords /\ "mkdir" \in Stages /\ made \subseteq Paths /\ filed \subseteq Paths /\ plan \subseteq Paths
      BY <1>2 DEF DirInv, SyncTyped, Stages, made, filed, plan
    <2>2. job' = [job EXCEPT !.stage = "mkdir", !.planned = plan, !.dirs = made, !.files = filed]
      BY <1>1 DEF made, filed, plan
    <2>3. QED
      BY <2>1, <2>2 DEF JobRecords
  <1>5. SyncTyped' /\ FreshFits'
    BY <1>1, <1>4 DEF DirInv, SyncTyped, FreshFits
  <1>6. QuietFits'
    BY <1>1, <1>3, <1>4 DEF QuietFits, WorkFits, MadeExcept, OthersAlone
  <1>7. QED
    BY <1>5, <1>6 DEF DirInv

LEMMA FailedKeeps ==
    ASSUME DirInv, StepOfJob \/ (quiet' = FALSE /\ UNCHANGED <<local, ignored, others, before, fresh>>), UNCHANGED remote,
           NEW at \in Stages, job' = Failed(at), job.stage \notin {"idle", "done", "failed"},
           at = "delete" => ~quiet'
    PROVE  DirInv'
  <1>1. job' \in JobRecords /\ job'.stage = "failed" /\ job'.at = at
    BY DEF Failed, DirInv, SyncTyped, JobRecords, Stages
  <1>2. /\ UNCHANGED <<local, remote, ignored, others, before, fresh>>
        /\ quiet' \in BOOLEAN
    BY DEF StepOfJob, DirInv, SyncTyped
  <1>3. SyncTyped' /\ FreshFits'
    BY <1>1, <1>2 DEF DirInv, SyncTyped, FreshFits
  <1>4. QuietFits'
    BY <1>1 DEF QuietFits, WorkFits
  <1>5. QED
    BY <1>3, <1>4 DEF DirInv

LEMMA MakeKeeps ==
    ASSUME DirInv, MakeDirectory PROVE DirInv'
  <1>1. /\ job.stage = "mkdir" /\ job \in JobRecords /\ fresh = {} /\ StepOfJob
        /\ SyncTyped /\ IsTree(remote)
    BY DEF MakeDirectory, DirInv, SyncTyped, FreshFits
  <1>2. /\ UNCHANGED <<local, ignored, mode, deleteExtra, others, quiet, before, fresh>>
        /\ Planned' = Planned /\ Directories' = Directories /\ Files' = Files
    BY <1>1, StepOfJobFact
  <1>3. quiet => /\ job.planned = Planned /\ job.dirs \subseteq Directories /\ job.files = Files
                 /\ MadeExcept(job.dirs) /\ OthersAlone
    BY <1>1 DEF DirInv, QuietFits, WorkFits
  <1>4. CASE job.dirs = {} /\ job' = [job EXCEPT !.stage = "upload"] /\ UNCHANGED remote
    <2>1. /\ job' \in JobRecords /\ job'.stage = "upload" /\ job'.planned = job.planned /\ job'.files = job.files
      BY <1>1, <1>4 DEF JobRecords, Stages
    <2>2. SyncTyped' /\ FreshFits'
      BY <1>1, <1>2, <1>4, <2>1 DEF SyncTyped, FreshFits
    <2>3. QuietFits'
      <3>1. ASSUME quiet' PROVE WorkFits' /\ job'.planned = Planned'
        <4>1. job'.files \subseteq Files' /\ MadeExcept({})' /\ CopiedExcept(job.files)' /\ OthersAlone'
          BY <1>2, <1>3, <1>4, <2>1, <3>1 DEF MadeExcept, CopiedExcept, OthersAlone
        <4>2. QED
          BY <1>2, <1>3, <2>1, <3>1, <4>1 DEF WorkFits
      <3>2. QED
        BY <3>1 DEF QuietFits
    <2>4. QED
      BY <2>2, <2>3 DEF DirInv
  <1>5. ASSUME NEW p \in job.dirs, CanMkdir(remote, p), remote' = Mkdir(remote, p), job' = [job EXCEPT !.dirs = @ \ {p}]
        PROVE  DirInv'
    <2>1. p \in Paths /\ job' \in JobRecords /\ job'.stage = "mkdir" /\ job'.planned = job.planned
          /\ job'.files = job.files /\ job'.dirs = job.dirs \ {p}
      BY <1>1, <1>5 DEF JobRecords
    <2>2. /\ IsTree(remote') /\ remote'[p] = "dir"
          /\ \A q \in Paths : IF q \in Lineage(p) THEN remote'[q] = "dir" ELSE remote'[q] = remote[q]
      BY <1>1, <1>5, <2>1, MkdirTree
    <2>3. SyncTyped' /\ FreshFits'
      BY <1>1, <1>2, <2>1, <2>2 DEF SyncTyped, FreshFits
    <2>4. QuietFits'
      <3>1. ASSUME quiet' PROVE WorkFits' /\ job'.planned = Planned'
        <4>1. p \in Directories /\ Above[p] \subseteq Directories /\ Directories \subseteq Planned /\ Directories \subseteq Paths
          BY <1>1, <1>2, <1>3, <3>1, PlannedFact DEF Directories
        <4>2. MadeExcept(job.dirs)' /\ OthersAlone'
          BY <1>2, <1>3, <2>1, <2>2, <3>1, <4>1 DEF MadeExcept, OthersAlone, Lineage
        <4>3. QED
          BY <1>2, <1>3, <2>1, <3>1, <4>2 DEF WorkFits
      <3>2. QED
        BY <3>1 DEF QuietFits
    <2>5. QED
      BY <2>3, <2>4 DEF DirInv
  <1>6. CASE job' = Failed("mkdir") /\ UNCHANGED remote
    BY <1>1, <1>6, FailedKeeps DEF Stages
  <1>7. QED
    BY <1>4, <1>5, <1>6 DEF MakeDirectory

LEMMA UploadKeeps ==
    ASSUME DirInv, UploadFile PROVE DirInv'
  <1>1. /\ job.stage = "upload" /\ job \in JobRecords /\ fresh = {} /\ StepOfJob
        /\ SyncTyped /\ IsTree(remote)
    BY DEF UploadFile, DirInv, SyncTyped, FreshFits
  <1>2. /\ UNCHANGED <<local, ignored, mode, deleteExtra, others, quiet, before, fresh>>
        /\ Planned' = Planned /\ Directories' = Directories /\ Files' = Files
        /\ Protected(before)' = Protected(before)
    BY <1>1, StepOfJobFact
  <1>3. quiet => /\ job.planned = Planned /\ job.files \subseteq Files
                 /\ MadeExcept({}) /\ CopiedExcept(job.files) /\ OthersAlone
    BY <1>1 DEF DirInv, QuietFits, WorkFits
  <1>4. /\ Planned = Directories \cup Files /\ Planned \subseteq Paths
        /\ \A p \in Planned : Above[p] \subseteq Directories
        /\ \A p \in Files : local[p] \in Contents
    BY <1>1, PlannedFact
  <1>5. CASE /\ job.files = {} /\ UNCHANGED remote
             /\ job' = [job EXCEPT !.stage = IF mode = "sync" /\ deleteExtra THEN "list" ELSE "done"]
    <2> DEFINE next == IF mode = "sync" /\ deleteExtra THEN "list" ELSE "done"
    <2>1. next \in {"list", "done"} /\ (next = "list" <=> mode = "sync" /\ deleteExtra)
      OBVIOUS
    <2>2. job' = [job EXCEPT !.stage = next]
      BY <1>5
    <2> HIDE DEF next
    <2>3. job' \in JobRecords /\ job'.stage = next /\ job'.planned = job.planned
      BY <1>1, <2>1, <2>2 DEF JobRecords, Stages
    <2>4. SyncTyped' /\ FreshFits'
      BY <1>1, <1>2, <1>5, <2>1, <2>3 DEF SyncTyped, FreshFits
    <2>5. QuietFits'
      <3>1. ASSUME quiet' PROVE WorkFits' /\ job'.planned = Planned'
        <4>1. MadeExcept({})' /\ CopiedExcept({})' /\ OthersAlone'
          BY <1>2, <1>3, <1>5, <3>1 DEF MadeExcept, CopiedExcept, OthersAlone
        <4>2. CASE next = "list"
          BY <1>2, <1>3, <2>1, <2>3, <3>1, <4>1, <4>2 DEF WorkFits
        <4>3. CASE next = "done"
          <5>1. \A p \in Paths : remote'[p] = IF p \in Planned' THEN local'[p] ELSE before'[p]
            BY <1>2, <1>4, <4>1 DEF MadeExcept, CopiedExcept, OthersAlone, Directories
          <5>2. ~(mode = "sync" /\ deleteExtra)
            BY <2>1, <4>3
          <5>3. MirrorOnSuccess'
            BY <1>2, <5>1, <5>2 DEF MirrorOnSuccess
          <5>4. QED
            BY <1>2, <1>3, <2>3, <3>1, <4>3, <5>3 DEF WorkFits
        <4>4. QED
          BY <2>1, <4>2, <4>3
      <3>2. QED
        BY <3>1 DEF QuietFits
    <2>6. QED
      BY <2>4, <2>5 DEF DirInv
  <1>6. ASSUME NEW p \in job.files, Matches(p), job' = [job EXCEPT !.files = @ \ {p}], UNCHANGED remote
        PROVE  DirInv'
    <2>1. job' \in JobRecords /\ job'.stage = "upload" /\ job'.planned = job.planned /\ job'.files = job.files \ {p}
      BY <1>1, <1>6 DEF JobRecords
    <2>2. SyncTyped' /\ FreshFits'
      BY <1>1, <1>2, <1>6, <2>1 DEF SyncTyped, FreshFits
    <2>3. QuietFits'
      <3>1. ASSUME quiet' PROVE WorkFits' /\ job'.planned = Planned'
        <4>1. MadeExcept({})' /\ CopiedExcept(job.files)' /\ OthersAlone'
          BY <1>2, <1>3, <1>6, <2>1, <3>1 DEF MadeExcept, CopiedExcept, OthersAlone, Matches
        <4>2. QED
          BY <1>2, <1>3, <2>1, <3>1, <4>1 DEF WorkFits
      <3>2. QED
        BY <3>1 DEF QuietFits
    <2>4. QED
      BY <2>2, <2>3 DEF DirInv
  <1>7. ASSUME NEW p \in job.files, local[p] \in Contents, CanOpen(remote, p), remote' = Truncated(remote, p, "cut"),
               job' = [job EXCEPT !.stage = "stream", !.files = @ \ {p}, !.open = p, !.text = local[p]]
        PROVE  DirInv'
    <2> DEFINE text == local[p]
    <2>1. text \in Contents /\ job' = [job EXCEPT !.stage = "stream", !.files = @ \ {p}, !.open = p, !.text = text]
      BY <1>7
    <2> HIDE DEF text
    <2>2. /\ p \in Paths /\ job' \in JobRecords /\ job'.stage = "stream" /\ job'.planned = job.planned
          /\ job'.files = job.files \ {p} /\ job'.open = p /\ job'.text = text
      BY <1>1, <2>1 DEF JobRecords, Stages
    <2>3. /\ IsTree(remote') /\ remote'[p] = "cut"
          /\ \A q \in Paths \ {p} : IF q \in Above[p] THEN remote'[q] = "dir" ELSE remote'[q] = remote[q]
      BY <1>1, <1>7, <2>2, TruncatedTree DEF Nodes
    <2>4. SyncTyped' /\ FreshFits'
      BY <1>1, <1>2, <2>1, <2>2, <2>3 DEF SyncTyped, FreshFits
    <2>5. QuietFits'
      <3>1. ASSUME quiet' PROVE WorkFits' /\ job'.planned = Planned'
        <4>1. p \in Files /\ p \in Planned /\ Above[p] \subseteq Directories /\ Directories \cap Files = {}
          BY <1>2, <1>3, <1>4, <3>1 DEF Directories, Files
        <4>2. MadeExcept({})' /\ OthersAlone'
          BY <1>2, <1>3, <1>4, <2>3, <3>1, <4>1 DEF MadeExcept, OthersAlone
        <4>3. CopiedExcept(job.files \cup {job.open})'
          BY <1>2, <1>3, <1>4, <2>2, <2>3, <3>1, <4>1 DEF CopiedExcept
        <4>4. QED
          BY <1>2, <1>3, <2>2, <2>3, <3>1, <4>1, <4>2, <4>3 DEF WorkFits, text
      <3>2. QED
        BY <3>1 DEF QuietFits
    <2>6. QED
      BY <2>4, <2>5 DEF DirInv
  <1>8. CASE job' = Failed("upload") /\ UNCHANGED remote
    BY <1>1, <1>8, FailedKeeps DEF Stages
  <1>9. QED
    BY <1>5, <1>6, <1>7, <1>8 DEF UploadFile

LEMMA StreamKeeps ==
    ASSUME DirInv, StreamFile PROVE DirInv'
  <1>1. /\ job.stage = "stream" /\ job \in JobRecords /\ fresh = {} /\ StepOfJob
        /\ SyncTyped /\ IsTree(remote) /\ job.open \in Paths /\ job.text \in Contents
    BY DEF StreamFile, DirInv, SyncTyped, FreshFits
  <1>2. /\ UNCHANGED <<local, ignored, mode, deleteExtra, others, quiet, before, fresh>>
        /\ Planned' = Planned /\ Directories' = Directories /\ Files' = Files
    BY <1>1, StepOfJobFact
  <1>3. quiet => /\ job.planned = Planned /\ job.files \subseteq Files /\ MadeExcept({})
                 /\ CopiedExcept(job.files \cup {job.open}) /\ OthersAlone
                 /\ job.open \in Files /\ job.text = local[job.open] /\ remote[job.open] = "cut"
    BY <1>1 DEF DirInv, QuietFits, WorkFits
  <1>4. job' \in JobRecords /\ job'.stage = "upload" /\ job'.planned = job.planned /\ job'.files = job.files
    BY <1>1 DEF StreamFile, JobRecords, Stages
  <1>5. PICK left : /\ remote' = [remote EXCEPT ![job.open] = left]
                    /\ \/ left = remote[job.open]
                       \/ left \in {job.text, "cut"} /\ remote[job.open] \in Contents \cup {"cut"}
                    /\ remote[job.open] = "cut" => left = job.text
    BY TreesAssumption DEF StreamFile
  <1>6. /\ left \in Nodes /\ (left # "absent" => \A q \in Above[job.open] : remote[q] = "dir")
        /\ remote[job.open] = "dir" => left = "dir" \/ Empty(remote, job.open)
    BY <1>1, <1>5, TreesAssumption DEF Nodes, IsTree, Present
  <1>7. IsTree(remote') /\ remote'[job.open] = left /\ \A q \in Paths \ {job.open} : remote'[q] = remote[q]
    <2>1. /\ remote' \in [Paths -> Nodes] /\ remote'[job.open] = left
          /\ \A q \in Paths \ {job.open} : remote'[q] = remote[q]
      BY <1>1, <1>5, <1>6 DEF IsTree
    <2>2. IsTree(remote')
      BY <1>1, <1>6, <2>1, ChangedTree
    <2>3. QED
      BY <2>1, <2>2
  <1>8. SyncTyped' /\ FreshFits'
    BY <1>1, <1>2, <1>4, <1>7 DEF SyncTyped, FreshFits
  <1>9. QuietFits'
    <2>1. ASSUME quiet' PROVE WorkFits' /\ job'.planned = Planned'
      <3>1. left = local[job.open] /\ job.open \in Files /\ Directories \cap Files = {} /\ Files \subseteq Planned
            /\ Planned \subseteq Paths
        BY <1>2, <1>3, <1>5, <2>1 DEF Directories, Files, Planned
      <3>2. MadeExcept({})' /\ OthersAlone' /\ CopiedExcept(job.files)'
        BY <1>2, <1>3, <1>4, <1>7, <2>1, <3>1 DEF MadeExcept, OthersAlone, CopiedExcept, Directories, Files
      <3>3. QED
        BY <1>2, <1>3, <1>4, <2>1, <3>2 DEF WorkFits
    <2>2. QED
      BY <2>1 DEF QuietFits
  <1>10. QED
    BY <1>8, <1>9 DEF DirInv

\* What is excluded, and so what is protected, is as the transfer found it.
LEMMA ProtectedFact ==
    ASSUME SyncTyped, OthersAlone PROVE Protected(remote) = Protected(before)
  <1>1. \A q \in Paths : Excluded(q) => remote[q] = before[q]
    BY PlannedFact DEF OthersAlone
  <1>2. {q \in Paths : Present(remote, q) /\ Excluded(q)} = {q \in Paths : Present(before, q) /\ Excluded(q)}
    BY <1>1 DEF Present
  <1>3. QED
    BY <1>2 DEF Protected

LEMMA ListKeeps ==
    ASSUME DirInv, ListRemote PROVE DirInv'
  <1>1. /\ job.stage = "list" /\ job \in JobRecords /\ fresh = {} /\ StepOfJob
        /\ SyncTyped /\ UNCHANGED remote
    BY DEF ListRemote, DirInv, SyncTyped, FreshFits
  <1>2. /\ UNCHANGED <<local, ignored, mode, deleteExtra, others, quiet, before, fresh>>
        /\ Planned' = Planned /\ Directories' = Directories /\ Files' = Files
        /\ Protected(before)' = Protected(before) /\ Spared' = Spared
    BY <1>1, StepOfJobFact
  <1>3. quiet => /\ job.planned = Planned /\ MadeExcept({}) /\ CopiedExcept({}) /\ OthersAlone
                 /\ mode = "sync" /\ deleteExtra
    BY <1>1 DEF DirInv, QuietFits, WorkFits
  <1> DEFINE extra == ({p \in Paths : Present(remote, p)} \ job.planned) \ Protected(remote)
             listing == [p \in extra |-> remote[p] = "dir"]
  <1>4. extra \subseteq Paths /\ listing \in [extra -> BOOLEAN]
    OBVIOUS
  <1>5. job' = [job EXCEPT !.stage = "delete", !.listed = listing]
    BY DEF ListRemote
  <1>6. listing \in UNION {[some -> BOOLEAN] : some \in SUBSET Paths}
    BY <1>4
  <1>7. DOMAIN listing = extra /\ \A p \in extra : listing[p] = (remote[p] = "dir")
    OBVIOUS
  <1> HIDE DEF listing
  <1>8. job' \in JobRecords /\ job'.stage = "delete" /\ job'.listed = listing /\ job'.planned = job.planned
    BY <1>1, <1>5, <1>6 DEF JobRecords, Stages
  <1>9. SyncTyped' /\ FreshFits'
    BY <1>1, <1>2, <1>8 DEF SyncTyped, FreshFits
  <1>10. QuietFits'
    <2>1. ASSUME quiet' PROVE WorkFits' /\ job'.planned = Planned'
      <3>1. extra = {p \in Paths : Present(remote, p)} \ Spared
        BY <1>1, <1>2, <1>3, <2>1, ProtectedFact DEF Spared
      <3>2. \A p \in Paths \ Planned : remote[p] = IF p \in Spared \cup extra THEN before[p] ELSE "absent"
        BY <1>2, <1>3, <2>1, <3>1 DEF OthersAlone, Present
      <3>3. \A p \in extra : p \notin Spared /\ Present(before, p) /\ listing[p] = (before[p] = "dir")
        BY <1>2, <1>3, <1>7, <2>1, <3>1 DEF OthersAlone, Spared, Present
      <3>4. MadeExcept({})' /\ CopiedExcept({})'
        BY <1>1, <1>2, <1>3, <2>1 DEF MadeExcept, CopiedExcept
      <3> HIDE DEF extra
      <3>5. QED
        BY <1>1, <1>2, <1>3, <1>7, <1>8, <2>1, <3>2, <3>3, <3>4 DEF WorkFits, Present
    <2>2. QED
      BY <2>1 DEF QuietFits
  <1>11. QED
    BY <1>9, <1>10 DEF DirInv

\* The deepest entry that is left of the listing can be deleted, if nobody disturbs it.
LEMMA DeepestGoes ==
    ASSUME DirInv, quiet, job.stage = "delete", NEW p \in DOMAIN job.listed,
           \A q \in DOMAIN job.listed : Depth(q) <= Depth(p)
    PROVE  CanRemove(remote, p, job.listed[p])
  <1>1. /\ SyncTyped /\ MadeExcept({}) /\ CopiedExcept({})
        /\ \A q \in Paths \ Planned : remote[q] = IF q \in Spared \cup DOMAIN job.listed THEN before[q] ELSE "absent"
        /\ \A q \in DOMAIN job.listed : /\ q \notin Spared /\ Present(before, q)
                                        /\ job.listed[q] = (before[q] = "dir")
    BY DEF DirInv, QuietFits, WorkFits
  <1>2. DOMAIN job.listed \subseteq Paths
    BY <1>1 DEF SyncTyped, JobRecords
  <1>3. p \in Paths \ Planned /\ remote[p] = before[p]
    BY <1>1, <1>2 DEF Spared
  <1>4. ASSUME NEW q \in Below(p) \ {p} PROVE ~Present(remote, q)
    <2>1. q \in Paths /\ p \in Above[q]
      BY DEF Below, Lineage
    <2>2. q \notin Planned
      BY <1>1, <1>3, <2>1, PlannedFact
    <2>3. q \notin Protected(before)
      <3>1. ASSUME q \in Protected(before) PROVE p \in Protected(before)
        <4>1. PICK r \in Paths : Present(before, r) /\ Excluded(r) /\ q \in Lineage(r)
          BY <3>1 DEF Protected
        <4>2. p \in Lineage(r)
          BY <2>1, <4>1, LineageFact DEF Lineage
        <4>3. QED
          BY <4>1, <4>2 DEF Protected
      <3>2. QED
        BY <1>1, <3>1 DEF Spared
    <2>4. q \notin DOMAIN job.listed
      <3>1. Depth(p) < Depth(q) /\ Depth(p) \in Int /\ Depth(q) \in Int
        BY <1>3, <2>1, DeeperFact, DepthFact
      <3>2. QED
        BY <3>1
    <2>5. remote[q] = "absent"
      BY <1>1, <2>1, <2>2, <2>3, <2>4 DEF Spared
    <2>6. QED
      BY <2>5 DEF Present
  <1>5. QED
    BY <1>1, <1>3, <1>4 DEF CanRemove, Empty, Present

LEMMA DeleteKeeps ==
    ASSUME DirInv, DeleteEntry PROVE DirInv'
  <1>1. /\ job.stage = "delete" /\ job \in JobRecords /\ fresh \cap DOMAIN job.listed = {} /\ StepOfJob
        /\ SyncTyped /\ IsTree(remote) /\ DOMAIN job.listed \subseteq Paths
    BY DEF DeleteEntry, DirInv, SyncTyped, FreshFits, JobRecords
  <1>2. /\ UNCHANGED <<local, ignored, mode, deleteExtra, others, quiet, before, fresh>>
        /\ Planned' = Planned /\ Directories' = Directories /\ Files' = Files
        /\ Protected(before)' = Protected(before) /\ Spared' = Spared
    BY <1>1, StepOfJobFact
  <1>3. quiet => /\ job.planned = Planned /\ MadeExcept({}) /\ CopiedExcept({}) /\ mode = "sync" /\ deleteExtra
                 /\ \A p \in Paths \ Planned : remote[p] = IF p \in Spared \cup DOMAIN job.listed THEN before[p] ELSE "absent"
                 /\ \A p \in DOMAIN job.listed : /\ p \notin Spared /\ Present(before, p)
                                                 /\ job.listed[p] = (before[p] = "dir")
    BY <1>1 DEF DirInv, QuietFits, WorkFits
  <1>4. CASE DOMAIN job.listed = {} /\ job' = [job EXCEPT !.stage = "done"] /\ UNCHANGED remote
    <2>1. job' \in JobRecords /\ job'.stage = "done" /\ job'.planned = job.planned
      BY <1>1, <1>4 DEF JobRecords, Stages
    <2>2. SyncTyped' /\ FreshFits'
      BY <1>1, <1>2, <1>4, <2>1 DEF SyncTyped, FreshFits
    <2>3. QuietFits'
      <3>1. ASSUME quiet' PROVE WorkFits' /\ job'.planned = Planned'
        <4>1. \A p \in Paths : remote[p] = IF p \in Planned THEN local[p]
                                           ELSE IF p \notin Protected(before) THEN "absent" ELSE before[p]
          BY <1>2, <1>3, <1>4, <3>1 DEF MadeExcept, CopiedExcept, Directories, Files, Spared
        <4>2. MirrorOnSuccess'
          BY <1>2, <1>3, <1>4, <3>1, <4>1 DEF MirrorOnSuccess
        <4>3. QED
          BY <1>2, <1>3, <2>1, <3>1, <4>2 DEF WorkFits
      <3>2. QED
        BY <3>1 DEF QuietFits
    <2>4. QED
      BY <2>2, <2>3 DEF DirInv
  <1>5. ASSUME NEW p \in DOMAIN job.listed, CanRemove(remote, p, job.listed[p]), remote' = Removed(remote, {p}),
               job' = [job EXCEPT !.listed = [q \in DOMAIN job.listed \ {p} |-> job.listed[q]]]
        PROVE  DirInv'
    <2> DEFINE rest == [q \in DOMAIN job.listed \ {p} |-> job.listed[q]]
    <2>1. DOMAIN rest = DOMAIN job.listed \ {p} /\ \A q \in DOMAIN rest : rest[q] = job.listed[q]
      OBVIOUS
    <2>2. rest \in UNION {[some -> BOOLEAN] : some \in SUBSET Paths}
      <3>1. \A q \in DOMAIN job.listed : job.listed[q] \in BOOLEAN
        BY <1>1 DEF JobRecords
      <3>2. rest \in [DOMAIN job.listed \ {p} -> BOOLEAN]
        BY <3>1
      <3>3. QED
        BY <1>1, <3>2
    <2> HIDE DEF rest
    <2>3. job' \in JobRecords /\ job'.stage = "delete" /\ job'.planned = job.planned /\ job'.listed = rest
      BY <1>1, <1>5, <2>2 DEF JobRecords, rest
    <2>4. IsTree(remote') /\ \A q \in Paths : remote'[q] = IF q = p THEN "absent" ELSE remote[q]
      <3>1. p \in Paths /\ \A q \in Paths : p \in Above[q] => q # p
        BY <1>1, PathsAssumption
      <3>2. ASSUME NEW q \in Paths, p \in Above[q] PROVE ~Present(remote, q)
        <4>1. q \in Below(p) \ {p}
          BY <3>1, <3>2 DEF Below, Lineage
        <4>2. CASE remote[p] = "dir"
          BY <1>5, <4>1, <4>2 DEF CanRemove, Empty
        <4>3. CASE remote[p] # "dir"
          BY <1>1, <3>2, <4>3 DEF IsTree
        <4>4. QED
          BY <4>2, <4>3
      <3>3. QED
        BY <1>1, <1>5, <3>1, <3>2, RemovedTree
    <2>5. SyncTyped' /\ FreshFits'
      BY <1>1, <1>2, <2>1, <2>3, <2>4 DEF SyncTyped, FreshFits
    <2>6. QuietFits'
      <3>1. ASSUME quiet' PROVE WorkFits' /\ job'.planned = Planned'
        <4>1. p \in Paths \ Planned /\ p \notin Spared /\ Directories \subseteq Planned /\ Files \subseteq Planned /\ Planned \subseteq Paths
          BY <1>1, <1>2, <1>3, <3>1 DEF Spared, Directories, Files, Planned
        <4>2. MadeExcept({})' /\ CopiedExcept({})'
          BY <1>2, <1>3, <2>4, <3>1, <4>1 DEF MadeExcept, CopiedExcept
        <4>3. \A q \in Paths \ Planned : remote'[q] = IF q \in Spared \cup DOMAIN rest THEN before[q] ELSE "absent"
          BY <1>2, <1>3, <2>1, <2>4, <3>1, <4>1
        <4>4. \A q \in DOMAIN rest : /\ q \notin Spared /\ Present(before, q) /\ rest[q] = (before[q] = "dir")
          BY <1>2, <1>3, <2>1, <3>1
        <4>5. QED
          BY <1>2, <1>3, <2>3, <3>1, <4>2, <4>3, <4>4 DEF WorkFits, Present
      <3>2. QED
        BY <3>1 DEF QuietFits
    <2>7. QED
      BY <2>5, <2>6 DEF DirInv
  <1>6. ASSUME NEW p \in DOMAIN job.listed, \A q \in DOMAIN job.listed : Depth(q) <= Depth(p),
               ~CanRemove(remote, p, job.listed[p]), job' = Failed("delete"), UNCHANGED remote
        PROVE  DirInv'
    <2>1. ~quiet
      BY <1>1, <1>6, DeepestGoes
    <2>2. QED
      BY <1>1, <1>2, <1>6, <2>1, FailedKeeps DEF Stages
  <1>7. QED
    BY <1>4, <1>5, <1>6 DEF DeleteEntry

LEMMA BreakKeeps ==
    ASSUME DirInv, ConnectionBreaks PROVE DirInv'
  <1>1. job.stage \in Stages
    BY DEF DirInv, SyncTyped, JobRecords
  <1>2. QED
    BY <1>1, FailedKeeps DEF ConnectionBreaks

-----------------------------------------------------------------------------
\* Steps of others end the quiet, and keep the trees what they are.
LEMMA WorkIsKept ==
    ASSUME DirInv, NEW p \in Paths, StepOfOther(p), IsTree(local'), IsTree(remote'), ignored' \subseteq Paths
    PROVE  DirInv'
  <1>1. /\ others' \in 0..MaxOthers /\ quiet' = FALSE /\ UNCHANGED <<job, before>>
        /\ fresh' = fresh \/ (fresh' = fresh \cup {p} /\ job.stage = "delete" /\ p \notin DOMAIN job.listed)
        /\ job.stage # "idle"
    BY PathsAssumption DEF StepOfOther, DirInv, SyncTyped
  <1>2. SyncTyped' /\ FreshFits' /\ QuietFits'
    BY <1>1 DEF DirInv, SyncTyped, FreshFits, QuietFits
  <1>3. QED
    BY <1>2 DEF DirInv

LEMMA WriteRemoteKeeps ==
    ASSUME DirInv, NEW p \in Paths, NEW content \in Contents, NEW o, WriteRemoteFile(p, content, o) PROVE DirInv'
  <1>1. IsTree(remote) /\ IsTree(local) /\ ignored \subseteq Paths
    BY DEF DirInv, SyncTyped
  <1>2. IsTree(remote')
    BY <1>1, TruncatedTree DEF WriteRemoteFile, Nodes
  <1>3. QED
    BY <1>1, <1>2, WorkIsKept DEF WriteRemoteFile

LEMMA MakeRemoteKeeps ==
    ASSUME DirInv, NEW p \in Paths, MakeRemoteDirectory(p) PROVE DirInv'
  <1>1. IsTree(remote) /\ IsTree(local) /\ ignored \subseteq Paths
    BY DEF DirInv, SyncTyped
  <1>2. IsTree(remote')
    BY <1>1, MkdirTree DEF MakeRemoteDirectory
  <1>3. QED
    BY <1>1, <1>2, WorkIsKept DEF MakeRemoteDirectory

LEMMA DeleteRemoteKeeps ==
    ASSUME DirInv, NEW p \in Paths, NEW recursive, DeleteRemotePath(p, recursive) PROVE DirInv'
  <1>1. IsTree(remote) /\ IsTree(local) /\ ignored \subseteq Paths
    BY DEF DirInv, SyncTyped
  <1>2. IsTree(remote')
    <2>1. Below(p) \in SUBSET Paths
      BY DEF Below
    <2>2. \A q \in Below(p), r \in Paths : q \in Above[r] => r \in Below(p)
      BY LineageFact, PathsAssumption DEF Below, Lineage
    <2>3. remote' = Removed(remote, Below(p))
      BY DEF DeleteRemotePath
    <2>4. QED
      BY <1>1, <2>1, <2>2, <2>3, RemovedTree
  <1>3. QED
    BY <1>1, <1>2, WorkIsKept DEF DeleteRemotePath

LEMMA RenameRemoteKeeps ==
    ASSUME DirInv, NEW p \in Paths, NEW q \in Paths, RenameRemotePath(p, q) PROVE DirInv'
  <1>1. IsTree(remote) /\ IsTree(local) /\ ignored \subseteq Paths
    BY DEF DirInv, SyncTyped
  <1>2. /\ Present(remote, p) /\ Empty(remote, p) /\ ~Present(remote, q) /\ p # q /\ p \notin Above[q]
        /\ \A r \in Above[q] : remote[r] = "dir"
    BY PathsAssumption DEF RenameRemotePath, Lineage
  <1> DEFINE moved == [remote EXCEPT ![q] = remote[p]]
  <1>3. IsTree(moved) /\ moved[q] = remote[p] /\ \A r \in Paths \ {q} : moved[r] = remote[r]
    <2>1. moved \in [Paths -> Nodes] /\ moved[q] = remote[p] /\ \A r \in Paths \ {q} : moved[r] = remote[r]
      BY <1>1 DEF IsTree
    <2>2. remote[q] # "dir"
      BY <1>2 DEF Present
    <2> HIDE DEF moved
    <2>3. IsTree(moved)
      BY <1>1, <1>2, <2>1, <2>2, ChangedTree
    <2>4. QED
      BY <2>1, <2>3
  <1>4. remote' = [moved EXCEPT ![p] = "absent"]
    BY <1>1 DEF RenameRemotePath, IsTree
  <1> HIDE DEF moved
  <1>5. Empty(moved, p)
    BY <1>2, <1>3, LineageFact DEF Empty, Below, Present
  <1>6. IsTree(remote')
    <2>1. /\ remote' \in [Paths -> Nodes] /\ remote'[p] = "absent"
          /\ \A r \in Paths \ {p} : remote'[r] = moved[r]
      BY <1>3, <1>4 DEF IsTree, Nodes
    <2>2. QED
      BY <1>3, <1>5, <2>1, ChangedTree
  <1>7. QED
    BY <1>1, <1>6, WorkIsKept DEF RenameRemotePath

LEMMA EditLocalKeeps ==
    ASSUME DirInv, NEW p \in Paths, NEW node \in Contents \cup {"absent"}, EditLocal(p, node) PROVE DirInv'
  <1>1. IsTree(remote) /\ IsTree(local) /\ ignored \subseteq Paths
    BY DEF DirInv, SyncTyped
  <1>2. /\ local' = [local EXCEPT ![p] = node] /\ Empty(local, p)
        /\ \A r \in Above[p] : local[r] = "dir"
    BY PathsAssumption DEF EditLocal, Lineage
  <1>3. IsTree(local')
    <2>1. /\ local' \in [Paths -> Nodes]
          /\ \A r \in Paths \ {p} : local'[r] = local[r]
      BY <1>1, <1>2 DEF IsTree, Nodes
    <2>2. QED
      BY <1>1, <1>2, <2>1, ChangedTree
  <1>4. QED
    BY <1>1, <1>3, WorkIsKept DEF EditLocal

LEMMA EditRulesKeeps ==
    ASSUME DirInv, NEW rules \in Rules, EditRules(rules) PROVE DirInv'
  <1>1. IsTree(remote') /\ IsTree(local') /\ ignored' \subseteq Paths
    BY TreesAssumption DEF DirInv, SyncTyped, EditRules
  <1>2. QED
    BY <1>1, WorkIsKept DEF EditRules

LEMMA DirSafe == SyncSpec => []DirInv
  <1>1. ASSUME DirInv, [SyncNext]_syncVars PROVE DirInv'
    <2>1. CASE UNCHANGED syncVars
      BY <1>1, <2>1 DEF syncVars, DirInv, SyncTyped, FreshFits, QuietFits, WorkFits, Directories, Files, Planned, Excluded,
                        MadeExcept, CopiedExcept, OthersAlone, Spared, Protected, MirrorOnSuccess
    <2>2. CASE Plan \/ MakeDirectory \/ UploadFile \/ StreamFile \/ ListRemote \/ DeleteEntry \/ ConnectionBreaks
      BY <1>1, <2>2, PlanKeeps, MakeKeeps, UploadKeeps, StreamKeeps, ListKeeps, DeleteKeeps, BreakKeeps
    <2>3. QED
      BY <1>1, <2>1, <2>2, WriteRemoteKeeps, MakeRemoteKeeps, DeleteRemoteKeeps, RenameRemoteKeeps, EditLocalKeeps,
         EditRulesKeeps DEF SyncNext
  <1>2. QED
    BY <1>1, DirInvInit, PTL DEF SyncSpec

\* Trees, plans and listings are of the paths there are, whatever others do to the trees.
THEOREM DirectoryTypes == SyncSpec => []SyncTypeOK
  <1>1. DirInv => SyncTypeOK
    BY DEF DirInv, SyncTyped, JobRecords, IsTree, SyncTypeOK
  <1>2. QED
    BY <1>1, DirSafe, PTL

\* A transfer that nobody disturbs and that reports success has made the remote tree what it
\* should be, entry by entry, for trees of any size and depth; and its deletions never fail.
THEOREM EndsWell == SyncSpec => []TransferEndsWell
  <1>1. DirInv => TransferEndsWell
    <2>1. DirInv => MirrorOnSuccess
      BY DEF DirInv, QuietFits, WorkFits, MirrorOnSuccess
    <2>2. DirInv => DeletionNeverStuck
      BY DEF DirInv, QuietFits, WorkFits, DeletionNeverStuck
    <2>3. QED
      BY <2>1, <2>2 DEF TransferEndsWell
  <1>2. QED
    BY <1>1, DirSafe, PTL

\* No step of a transfer removes what others have put on the server since the listing.
THEOREM FreshSurvive == SyncSpec => FreshEntriesSurvive
  <1>1. ASSUME DirInv, [SyncNext]_syncVars
        PROVE  [\A p \in fresh : Present(remote, p) /\ ~Present(remote', p) => job' = job]_syncVars
    <2> SUFFICES ASSUME SyncNext, NEW p \in fresh, Present(remote, p), ~Present(remote', p), job' # job PROVE FALSE
      BY <1>1
    <2>1. p \in Paths /\ job.stage \in {"delete", "done", "failed"}
      BY <1>1 DEF DirInv, SyncTyped, FreshFits
    <2>2. DeleteEntry
      BY <2>1 DEF SyncNext, Plan, MakeDirectory, UploadFile, StreamFile, ListRemote, ConnectionBreaks, WriteRemoteFile,
                  MakeRemoteDirectory, DeleteRemotePath, RenameRemotePath, EditLocal, EditRules, StepOfOther
    <2>3. PICK q \in DOMAIN job.listed : remote' = Removed(remote, {q})
      BY <2>2 DEF DeleteEntry
    <2>4. p # q
      BY <1>1, <2>2 DEF DirInv, FreshFits, DeleteEntry
    <2>5. remote'[p] = remote[p]
      BY <2>1, <2>3, <2>4 DEF Removed
    <2>6. QED
      BY <2>5 DEF Present
  <1>2. QED
    BY <1>1, DirSafe, PTL DEF SyncSpec, FreshEntriesSurvive

-----------------------------------------------------------------------------
(* Plugins. *)

\* A row is one of a manifest that a person imported, a sync brought or the application ships,
\* with all the permissions of that manifest or none.
RowsTyped ==
    /\ DOMAIN installed = PluginIds
    /\ \A p \in PluginIds : HasRow(p) =>
         /\ installed[p].manifest \in Manifests \cup {Catalog} /\ installed[p].enabled \in BOOLEAN
         /\ installed[p].grants \subseteq installed[p].manifest.perms
    /\ HasRow(Extern) => installed[Extern].manifest \in Manifests
    /\ reviewed \subseteq Manifests

\* What the main thread and the import have read is a row and a manifest of that kind.
JobsTyped ==
    /\ main = NoJob \/ /\ main.stage = "read" /\ main.plugin \in PluginIds /\ main.enabled \in BOOLEAN
                       /\ main.manifest \in Manifests \cup {Catalog}
                       /\ main.plugin = Extern => main.manifest \in Manifests
    /\ importing = NoJob \/ importing.manifest \in Manifests

\* How far each execution is.
StagesTyped ==
    /\ DOMAIN runs = Runs
    /\ \A r \in Runs : runs[r].stage \in {"idle", "asking", "ready", "running", "done"}

PlugInv == /\ RowsTyped /\ JobsTyped /\ StagesTyped /\ guard \in BOOLEAN /\ changes \in 0..MaxChanges
           /\ OnlyReviewed

LEMMA RowFields ==
    ASSUME NEW m, NEW e \in BOOLEAN
    PROVE  /\ Row(m, e).manifest = m /\ Row(m, e).enabled = e
           /\ Row(m, e).grants = IF e THEN m.perms ELSE {}
  BY DEF Row

LEMMA PluginsDiffer == Extern # Builtin /\ PluginIds = {Extern, Builtin}
  BY DEF Extern, Builtin, PluginIds

LEMMA PlugInvInit == PlugInit => PlugInv
  <1> SUFFICES ASSUME PlugInit PROVE PlugInv
    OBVIOUS
  <1>1. \A p \in PluginIds : installed[p] = Missing /\ ~HasRow(p)
    BY DEF PlugInit, HasRow
  <1>2. RowsTyped
    BY <1>1, PluginsDiffer DEF PlugInit, RowsTyped
  <1>3. installed[Extern].grants = {}
    BY <1>1, PluginsDiffer DEF Missing
  <1>4. OnlyReviewed
    BY <1>3 DEF PlugInit, OnlyReviewed, RunsAsApproved, GrantedWasReviewed
  <1>5. QED
    BY <1>2, <1>4, PluginsAssumption DEF PlugInit, PlugInv, JobsTyped, StagesTyped

\* A row that is written, whoever writes it: what it grants was reviewed.
LEMMA RowStep ==
    ASSUME PlugInv, NEW p \in PluginIds, NEW m \in Manifests \cup {Catalog}, NEW e \in BOOLEAN,
           installed' = [installed EXCEPT ![p] = Row(m, e)],
           reviewed \subseteq reviewed', reviewed' \subseteq Manifests,
           p = Extern => m \in Manifests /\ (e => m \in reviewed')
    PROVE  RowsTyped' /\ GrantedWasReviewed'
  <1>1. /\ DOMAIN installed' = PluginIds /\ installed'[p] = Row(m, e)
        /\ \A q \in PluginIds : q # p => installed'[q] = installed[q]
    BY DEF PlugInv, RowsTyped
  <1>2. RowsTyped'
    <2>1. ASSUME NEW q \in PluginIds, HasRow(q)'
          PROVE  /\ installed'[q].manifest \in Manifests \cup {Catalog} /\ installed'[q].enabled \in BOOLEAN
                 /\ installed'[q].grants \subseteq installed'[q].manifest.perms
                 /\ q = Extern => installed'[q].manifest \in Manifests
      <3>1. CASE q = p
        BY <1>1, <3>1, RowFields
      <3>2. CASE q # p
        BY <1>1, <2>1, <3>2 DEF PlugInv, RowsTyped, HasRow
      <3>3. QED
        BY <3>1, <3>2
    <2>2. QED
      BY <1>1, <2>1, PluginsDiffer DEF RowsTyped
  <1>3. GrantedWasReviewed'
    <2>1. CASE p = Extern
      BY <1>1, <2>1, RowFields DEF GrantedWasReviewed
    <2>2. CASE p # Extern
      <3>1. installed'[Extern] = installed[Extern]
        BY <1>1, <2>2, PluginsDiffer
      <3>2. GrantedWasReviewed
        BY DEF PlugInv, OnlyReviewed
      <3>3. QED
        BY <3>1, <3>2 DEF GrantedWasReviewed
    <2>3. QED
      BY <2>1, <2>2
  <1>4. QED
    BY <1>2, <1>3

LEMMA RemoveStep ==
    ASSUME PlugInv, NEW p \in PluginIds, installed' = [installed EXCEPT ![p] = Missing],
           UNCHANGED reviewed
    PROVE  RowsTyped' /\ GrantedWasReviewed'
  <1>1. /\ DOMAIN installed' = PluginIds /\ installed'[p] = Missing
        /\ \A q \in PluginIds : q # p => installed'[q] = installed[q]
    BY DEF PlugInv, RowsTyped
  <1>2. Missing.grants = {}
    BY DEF Missing
  <1>3. RowsTyped'
    BY <1>1, PluginsDiffer DEF PlugInv, RowsTyped, HasRow
  <1>4. GrantedWasReviewed'
    BY <1>1, <1>2, PluginsDiffer DEF PlugInv, OnlyReviewed, GrantedWasReviewed
  <1>5. QED
    BY <1>3, <1>4

LEMMA ChangingStep == ASSUME PlugInv, Changing PROVE changes' \in 0..MaxChanges
  BY PluginsAssumption DEF PlugInv, Changing

\* Rows are read and written: the built-in plugin, imports, removals, toggles and synced rows.
LEMMA InstallStep ==
    ASSUME PlugInv,
           \/ InstallBuiltin \/ FinishImportPlugin
           \/ \E m \in Manifests, e \in BOOLEAN : SyncPlugin(m, e)
           \/ \E e \in BOOLEAN : SyncBuiltin(e)
    PROVE  PlugInv'
  <1>1. RowsTyped' /\ GrantedWasReviewed'
    <2>1. CASE InstallBuiltin
      BY <2>1, RowStep, PluginsDiffer DEF InstallBuiltin, PlugInv, RowsTyped
    <2>2. CASE FinishImportPlugin
      <3>1. importing.manifest \in Manifests
        BY <2>2 DEF FinishImportPlugin, PlugInv, JobsTyped
      <3>2. QED
        BY <2>2, <3>1, RowStep, PluginsDiffer DEF FinishImportPlugin, PlugInv, RowsTyped
    <2>3. ASSUME NEW m \in Manifests, NEW e \in BOOLEAN, SyncPlugin(m, e)
          PROVE  RowsTyped' /\ GrantedWasReviewed'
      <3>1. (e /\ ValidManifest(m, TRUE)) \in BOOLEAN
        OBVIOUS
      <3>2. /\ reviewed \subseteq reviewed' /\ reviewed' \subseteq Manifests
            /\ e => m \in reviewed'
        BY <2>3 DEF SyncPlugin, PlugInv, RowsTyped
      <3>3. installed' = [installed EXCEPT ![Extern] = Row(m, e /\ ValidManifest(m, TRUE))]
        BY <2>3 DEF SyncPlugin
      <3>4. QED
        BY <3>1, <3>2, <3>3, RowStep, PluginsDiffer
    <2>4. ASSUME NEW e \in BOOLEAN, SyncBuiltin(e) PROVE RowsTyped' /\ GrantedWasReviewed'
      BY <2>4, RowStep, PluginsDiffer DEF SyncBuiltin, PlugInv, RowsTyped
    <2>5. QED
      BY <2>1, <2>2, <2>3, <2>4
  <1>2. UNCHANGED <<main, guard, runs, ran>> /\ (importing' = importing \/ importing' = NoJob)
    BY DEF InstallBuiltin, FinishImportPlugin, SyncPlugin, SyncBuiltin
  <1>3. changes' \in 0..MaxChanges
    BY ChangingStep DEF InstallBuiltin, FinishImportPlugin, SyncPlugin, SyncBuiltin, PlugInv
  <1>4. JobsTyped' /\ StagesTyped' /\ RunsAsApproved'
    BY <1>2 DEF PlugInv, JobsTyped, StagesTyped, OnlyReviewed, RunsAsApproved
  <1>5. QED
    BY <1>1, <1>2, <1>3, <1>4 DEF PlugInv, OnlyReviewed

LEMMA RemovalStep ==
    ASSUME PlugInv, NEW p \in PluginIds, Uninstall(p) \/ SyncRemoval(p) PROVE PlugInv'
  <1>1. RowsTyped' /\ GrantedWasReviewed'
    BY RemoveStep DEF Uninstall, SyncRemoval
  <1>2. UNCHANGED <<main, importing, guard, runs, ran>> /\ changes' \in 0..MaxChanges
    BY ChangingStep DEF Uninstall, SyncRemoval
  <1>3. JobsTyped' /\ StagesTyped' /\ RunsAsApproved'
    BY <1>2 DEF PlugInv, JobsTyped, StagesTyped, OnlyReviewed, RunsAsApproved
  <1>4. QED
    BY <1>1, <1>2, <1>3 DEF PlugInv, OnlyReviewed

\* plugin_set_enabled and the first half of an import: what is written back later is what was
\* read, and what is enabled by then is reviewed with it.
LEMMA ToggleStep ==
    ASSUME PlugInv,
           \/ FinishSetEnabled \/ \E m \in Manifests : BeginImportPlugin(m)
           \/ \E p \in PluginIds, e \in BOOLEAN : BeginSetEnabled(p, e)
    PROVE  PlugInv'
  <1>1. CASE FinishSetEnabled
    <2>1. /\ main.plugin \in PluginIds /\ main.enabled \in BOOLEAN
          /\ main.manifest \in Manifests \cup {Catalog}
          /\ main.plugin = Extern => main.manifest \in Manifests
      BY <1>1 DEF FinishSetEnabled, PlugInv, JobsTyped
    <2>2. /\ reviewed \subseteq reviewed' /\ reviewed' \subseteq Manifests
          /\ main.plugin = Extern /\ main.enabled => main.manifest \in reviewed'
      BY <1>1, <2>1 DEF FinishSetEnabled, PlugInv, RowsTyped
    <2>3. RowsTyped' /\ GrantedWasReviewed'
      BY <1>1, <2>1, <2>2, RowStep DEF FinishSetEnabled
    <2>4. main' = NoJob /\ UNCHANGED <<importing, guard, runs, changes, ran>>
      BY <1>1 DEF FinishSetEnabled
    <2>5. JobsTyped' /\ StagesTyped' /\ RunsAsApproved'
      BY <2>4 DEF PlugInv, JobsTyped, StagesTyped, OnlyReviewed, RunsAsApproved
    <2>6. QED
      BY <2>3, <2>4, <2>5 DEF PlugInv, OnlyReviewed
  <1>2. ASSUME NEW m \in Manifests, BeginImportPlugin(m) PROVE PlugInv'
    <2>1. /\ importing'.manifest = m /\ changes' \in 0..MaxChanges
          /\ UNCHANGED <<installed, main, guard, runs, reviewed, ran>>
      BY <1>2, ChangingStep DEF BeginImportPlugin
    <2>2. QED
      BY <2>1 DEF PlugInv, RowsTyped, HasRow, JobsTyped, StagesTyped, OnlyReviewed, RunsAsApproved,
                  GrantedWasReviewed
  <1>3. ASSUME NEW p \in PluginIds, NEW e \in BOOLEAN, BeginSetEnabled(p, e) PROVE PlugInv'
    <2>1. /\ main' = [stage |-> "read", plugin |-> p, manifest |-> ManifestOf(p), enabled |-> e]
          /\ HasRow(p) /\ changes' \in 0..MaxChanges
          /\ UNCHANGED <<installed, importing, guard, runs, reviewed, ran>>
      BY <1>3, ChangingStep DEF BeginSetEnabled
    <2>2. /\ ManifestOf(p) \in Manifests \cup {Catalog}
          /\ p = Extern => ManifestOf(p) \in Manifests
      BY <2>1, PluginsDiffer DEF ManifestOf, PlugInv, RowsTyped
    <2>3. JobsTyped'
      BY <2>1, <2>2 DEF PlugInv, JobsTyped
    <2>4. QED
      BY <2>1, <2>3 DEF PlugInv, RowsTyped, HasRow, StagesTyped, OnlyReviewed, RunsAsApproved,
                        GrantedWasReviewed
  <1>4. QED
    BY <1>1, <1>2, <1>3

-----------------------------------------------------------------------------

\* One execution is at another stage, and the others are where they were.
StageOnly(r) ==
    /\ DOMAIN runs' = DOMAIN runs
    /\ \A q \in Runs : q # r => runs'[q] = runs[q]
    /\ runs'[r].stage \in {"idle", "asking", "ready", "running", "done"}

\* A step of an execution that leaves the rows alone.
LEMMA ExecutionStep ==
    ASSUME PlugInv, NEW r \in Runs, StageOnly(r),
           UNCHANGED <<installed, main, importing, guard, changes, reviewed>>,
           RunsAsApproved'
    PROVE  PlugInv'
  <1>1. StagesTyped'
    <2>1. StagesTyped
      BY DEF PlugInv
    <2>2. QED
      BY <2>1 DEF StagesTyped, StageOnly
  <1>2. QED
    BY <1>1 DEF PlugInv, RowsTyped, HasRow, JobsTyped, OnlyReviewed, GrantedWasReviewed

\* The command is prepared again at the start, and is the one that was shown.
LEMMA StartStep == ASSUME PlugInv, NEW r \in Runs, StartRun(r) PROVE PlugInv'
  <1> DEFINE plan == Prepared(runs[r].request)
             x == [by |-> runs[r].by, command |-> plan.command, asks |-> plan.asks,
                   approved |-> IF runs[r].by = "mcp" /\ runs[r].confirmed
                                THEN {runs[r].command} ELSE {},
                   confirmed |-> runs[r].confirmed]
  <1>1. RunsAsApproved
    BY DEF PlugInv, OnlyReviewed
  <1>2. UNCHANGED <<installed, main, importing, guard, changes, reviewed>>
    BY DEF StartRun
  <1>3. CASE ran' = ran /\ runs' = [runs EXCEPT ![r] = [stage |-> "done"]]
    <2>1. StageOnly(r)
      BY <1>3 DEF StageOnly, PlugInv, StagesTyped
    <2>2. RunsAsApproved'
      BY <1>1, <1>3 DEF RunsAsApproved
    <2>3. QED
      BY <1>2, <2>1, <2>2, ExecutionStep
  <1>4. CASE /\ runs[r].by = "mcp" => runs[r].command = plan.command
             /\ plan.asks => runs[r].confirmed
             /\ runs' = [runs EXCEPT ![r] = [stage |-> "running"]]
             /\ ran' = ran \cup {x}
    <2>1. /\ x.by = runs[r].by /\ x.command = plan.command /\ x.asks = plan.asks
          /\ x.approved = IF runs[r].by = "mcp" /\ runs[r].confirmed THEN {runs[r].command} ELSE {}
      OBVIOUS
    <2>2. x.by = "mcp" /\ x.asks => x.approved = {x.command}
      BY <1>4, <2>1
    <2> HIDE DEF x
    <2>3. RunsAsApproved'
      BY <1>1, <1>4, <2>2 DEF RunsAsApproved
    <2>4. StageOnly(r)
      BY <1>4 DEF StageOnly, PlugInv, StagesTyped
    <2>5. QED
      BY <1>2, <2>3, <2>4, ExecutionStep
  <1>5. QED
    BY <1>3, <1>4 DEF StartRun

LEMMA RunStep ==
    ASSUME PlugInv, NEW r \in Runs,
           \/ AnswerRun(r) \/ EndRun(r)
           \/ \E request \in Requests : BeginAgentRun(r, request)
           \/ \E request \in Requests, by \in Callers \ {"mcp"}, c \in BOOLEAN :
                BeginPersonRun(r, by, request, c)
    PROVE  PlugInv'
  <1>1. UNCHANGED <<installed, main, importing, guard, changes, reviewed, ran>>
    BY DEF AnswerRun, EndRun, BeginAgentRun, BeginPersonRun
  <1>2. RunsAsApproved'
    BY <1>1 DEF PlugInv, OnlyReviewed, RunsAsApproved
  <1>3. CASE AnswerRun(r)
    <2>1. runs[r].stage = "asking" /\ DOMAIN runs = Runs
      BY <1>3 DEF AnswerRun, PlugInv, StagesTyped
    <2>2. CASE runs' = [runs EXCEPT ![r].stage = "ready", ![r].confirmed = TRUE]
      <3>1. DOMAIN runs' = Runs /\ \A q \in Runs : q # r => runs'[q] = runs[q]
        BY <2>1, <2>2
      <3>2. runs'[r].stage = "ready" \/ runs'[r].stage = runs[r].stage
        BY <2>1, <2>2
      <3>3. StageOnly(r)
        BY <2>1, <3>1, <3>2 DEF StageOnly
      <3>4. QED
        BY <1>1, <1>2, <3>3, ExecutionStep
    <2>3. CASE runs' = [runs EXCEPT ![r] = [stage |-> "done"]]
      <3>1. StageOnly(r)
        BY <2>1, <2>3 DEF StageOnly
      <3>2. QED
        BY <1>1, <1>2, <3>1, ExecutionStep
    <2>4. QED
      BY <1>3, <2>2, <2>3 DEF AnswerRun
  <1>4. CASE EndRun(r)
    <2>1. StageOnly(r)
      BY <1>4 DEF EndRun, StageOnly, PlugInv, StagesTyped
    <2>2. QED
      BY <1>1, <1>2, <2>1, ExecutionStep
  <1>5. ASSUME NEW request \in Requests, BeginAgentRun(r, request) PROVE PlugInv'
    <2> DEFINE run == [stage |-> IF Prepared(request).asks THEN "asking" ELSE "ready", by |-> "mcp",
                       request |-> request, confirmed |-> FALSE, command |-> Prepared(request).command]
    <2>1. runs' = [runs EXCEPT ![r] = run] /\ run.stage \in {"asking", "ready"}
      BY <1>5 DEF BeginAgentRun
    <2> HIDE DEF run
    <2>2. StageOnly(r)
      BY <2>1 DEF StageOnly, PlugInv, StagesTyped
    <2>3. QED
      BY <1>1, <1>2, <2>2, ExecutionStep
  <1>6. ASSUME NEW request \in Requests, NEW by \in Callers \ {"mcp"}, NEW c \in BOOLEAN,
               BeginPersonRun(r, by, request, c)
        PROVE  PlugInv'
    <2> DEFINE run == [stage |-> "ready", by |-> by, request |-> request, confirmed |-> c]
    <2>1. runs' = [runs EXCEPT ![r] = run] /\ run.stage = "ready"
      BY <1>6 DEF BeginPersonRun
    <2> HIDE DEF run
    <2>2. StageOnly(r)
      BY <2>1 DEF StageOnly, PlugInv, StagesTyped
    <2>3. QED
      BY <1>1, <1>2, <2>2, ExecutionStep
  <1>7. QED
    BY <1>3, <1>4, <1>5, <1>6

LEMMA PlugStep == ASSUME PlugInv, [PlugNext]_plugVars PROVE PlugInv'
  <1>1. CASE UNCHANGED plugVars
    BY <1>1 DEF plugVars, PlugInv, RowsTyped, HasRow, JobsTyped, StagesTyped, OnlyReviewed,
                RunsAsApproved, GrantedWasReviewed
  <1>2. CASE SwitchGuard
    <2>1. guard' \in BOOLEAN /\ changes' \in 0..MaxChanges
          /\ UNCHANGED <<installed, main, importing, runs, reviewed, ran>>
      BY <1>2, ChangingStep DEF SwitchGuard, PlugInv
    <2>2. QED
      BY <2>1 DEF PlugInv, RowsTyped, HasRow, JobsTyped, StagesTyped, OnlyReviewed,
                  RunsAsApproved, GrantedWasReviewed
  <1>3. CASE PlugNext
    BY <1>2, <1>3, InstallStep, RemovalStep, ToggleStep, StartStep, RunStep DEF PlugNext
  <1>4. QED
    BY <1>1, <1>3

LEMMA PlugAlways == PlugSpec => []PlugInv
  <1>1. PlugInit => PlugInv
    BY PlugInvInit
  <1>2. PlugInv /\ [PlugNext]_plugVars => PlugInv'
    BY PlugStep
  <1>3. QED
    BY <1>1, <1>2, PTL DEF PlugSpec

\* The rows, the jobs and the runs of plugins stay well-formed, for any set of manifests and runs.
THEOREM PluginsTypes == PlugSpec => []PlugTypeOK
  <1>1. PlugInv => PlugTypeOK
    BY DEF PlugInv, PlugTypeOK, RowsTyped, JobsTyped, StagesTyped
  <1>2. QED
    BY <1>1, PlugAlways, PTL

\* However imports, toggles, removals and synced rows overlap, and whatever changes while a
\* dialog is open: grants are for a manifest that somebody enabled, and an agent runs the
\* command that a person was shown.
THEOREM ReviewedOnly == PlugSpec => []OnlyReviewed
  <1>1. PlugInv => OnlyReviewed
    BY DEF PlugInv
  <1>2. QED
    BY <1>1, PlugAlways, PTL

-----------------------------------------------------------------------------
(* ServerBook. *)

\* A server has a name of its own: one that somebody gave it, or one that the sync made for it.
FitsServer(i, n) == n \in Names \/ \E m \in Names : n = ConflictName(m, i)

EditRecords == [id : Ids, row : Rows, patch : Patches]

BookShape ==
    /\ servers \in [Ids -> Rows \cup {None}]
    /\ secrets \in [AllNames -> Secrets \cup {None}]
    /\ latest \in [Ids -> Nat] /\ known \in SUBSET Ids /\ stray \in SUBSET AllNames
    /\ edits \in [Editors -> EditRecords \cup {None}]
    /\ migration \in Secrets \cup {None} /\ book \in 0..MaxBook

NamesFit ==
    /\ \A i \in Ids : servers[i] # None => i \in known /\ FitsServer(i, servers[i].name)
    /\ \A i, k \in Ids : servers[i] # None /\ servers[k] # None /\ i # k => servers[i].name # servers[k].name
    /\ \A e \in Editors : edits[e] # None => FitsServer(edits[e].id, edits[e].row.name)

Listed == [who : {"import"}, stage : {"listed"}, id : Ids, used : SUBSET AllNames, row : Rows]
Added == [who : {"ui", "import"}, stage : {"added", "saved"}, id : Ids, row : Rows]
Begun ==
    /\ creation # None => creation \in Listed \cup Added /\ creation.row.name \in Names
    /\ removal # None => removal \in [stage : {"closing", "dropped"}, id : Ids, name : AllNames]

\* SecretsAreOwn, with the server named.
OwnersFit ==
    \A n \in AllNames : secrets[n] # None /\ n \notin stray =>
      LET i == secrets[n].of
      IN  /\ i \in Ids /\ servers[i] # None /\ servers[i].name = n
          /\ secrets[n].version = latest[i] /\ secrets[n].auth = servers[i].auth

BookInv == BookShape /\ NamesFit /\ Begun /\ OwnersFit

-----------------------------------------------------------------------------
LEMMA NamesFacts ==
    /\ \A n \in Names : n \in AllNames
    /\ \A n \in Names, i \in Ids : ConflictName(n, i) \in AllNames
    /\ \A n \in Names, m \in Names, i \in Ids : m # ConflictName(n, i)
    /\ \A n, m \in Names, i, k \in Ids : ConflictName(n, i) = ConflictName(m, k) => n = m /\ i = k
    /\ \A i \in Ids : NamesOf(i) \subseteq AllNames /\ \A n : n \in NamesOf(i) <=> FitsServer(i, n)
  BY BookAssumption DEF AllNames, ConflictName, NamesOf, FitsServer

LEMMA BookInvInit == BookInit => BookInv
  <1> SUFFICES ASSUME NEW i \in Ids, NEW n \in Names,
                      servers = [k \in Ids |-> IF k = i THEN [name |-> n, auth |-> "password"] ELSE None],
                      secrets = [m \in AllNames |-> IF m # n THEN None ELSE
                                    [of |-> i, auth |-> "password", version |-> 0, sealed |-> FALSE]],
                      latest = [k \in Ids |-> 0], known = {i},
                      creation = None, edits = [e \in Editors |-> None],
                      removal = None, migration = None, stray = {}, book = 0
               PROVE  BookInv
    BY DEF BookInit
  <1>0. n \in AllNames
    BY NamesFacts
  <1>1. BookShape
    BY <1>0, BookAssumption DEF BookShape, Rows, Secrets, Auths
  <1>2. NamesFit /\ Begun
    BY DEF NamesFit, FitsServer, Begun
  <1>3. OwnersFit
    BY <1>0, BookAssumption DEF OwnersFit, Rows, Auths
  <1>4. QED
    BY <1>1, <1>2, <1>3 DEF BookInv

\* A step that leaves the servers, their secrets and the edits alone.
LEMMA BookRests ==
    ASSUME BookInv, UNCHANGED <<servers, secrets, latest, known, stray, edits>>,
           migration' \in Secrets \cup {None}, book' \in 0..MaxBook, Begun'
    PROVE  BookInv'
  BY DEF BookInv, BookShape, NamesFit, OwnersFit

\* A server that was not there gets a row, or one that was there loses it.
LEMMA AddKeeps ==
    ASSUME BookInv, NEW i \in Ids, NEW row \in Rows, row.name \in Names, Add(i, row), Begun',
           UNCHANGED <<secrets, latest, stray, edits, migration>>, book' \in 0..MaxBook
    PROVE  BookInv'
  <1> USE DEF BookInv
  <1>1. servers[i] = None /\ \A k \in Ids : servers[k] # None => servers[k].name # row.name
    <2>1. row.name \in AllNames
      BY NamesFacts
    <2>2. QED
      BY <2>1 DEF Add, NamesFit, Taken, Named
  <1>2. servers' = [servers EXCEPT ![i] = row] /\ known' = known \cup {i}
    BY DEF Add
  <1>3. BookShape'
    BY <1>2 DEF BookShape
  <1>4. NamesFit'
    BY <1>1, <1>2 DEF BookShape, NamesFit, FitsServer
  <1>5. OwnersFit'
    BY <1>1, <1>2, BookAssumption DEF BookShape, OwnersFit
  <1>6. QED
    BY <1>3, <1>4, <1>5

LEMMA GoneKeeps ==
    ASSUME BookInv, NEW i \in Ids, Gone(i), Begun',
           UNCHANGED <<secrets, latest, known, edits, migration>>, book' \in 0..MaxBook
    PROVE  BookInv'
  <1> USE DEF BookInv
  <1>1. servers' = [servers EXCEPT ![i] = None]
    BY DEF Gone
  <1>2. stray \subseteq stray' /\ stray' \subseteq AllNames
    BY DEF Gone, BookShape, Rows
  <1>3. servers[i] # None /\ secrets[servers[i].name] # None => servers[i].name \in stray'
    BY DEF Gone, HasSecret
  <1>4. BookShape'
    BY <1>1, <1>2 DEF BookShape
  <1>5. NamesFit'
    BY <1>1 DEF BookShape, NamesFit
  <1>6. OwnersFit'
    BY <1>1, <1>2, <1>3, BookAssumption DEF BookShape, OwnersFit
  <1>7. QED
    BY <1>4, <1>5, <1>6

-----------------------------------------------------------------------------
LEMMA ImportKeeps ==
    ASSUME BookInv, ImportStart \/ ImportAdd PROVE BookInv'
  <1> USE DEF BookInv
  <1>1. CASE ImportStart
    <2>1. PICK i \in Ids : creation' = [who |-> "import", stage |-> "listed", id |-> i, used |-> Taken,
                                        row |-> [name |-> CHOOSE n \in Names : TRUE, auth |-> "key"]]
      BY <1>1 DEF ImportStart
    <2>2. PICK n \in Names : n = CHOOSE m \in Names : TRUE
      BY BookAssumption
    <2>3. [name |-> n, auth |-> "key"] \in Rows
      BY NamesFacts DEF Rows, Auths
    <2>4. Begun'
      BY <1>1, <2>1, <2>2, <2>3 DEF ImportStart, Begun, Listed, Taken
    <2>5. QED
      BY <1>1, <2>4, BookRests, BookAssumption DEF ImportStart, Change, BookShape
  <1>2. CASE ImportAdd
    <2> PICK n \in Names :
          LET row == [creation.row EXCEPT !.name = n]
          IN  \/ /\ Add(creation.id, row)
                 /\ creation' = [who |-> "import", stage |-> "added", id |-> creation.id, row |-> row]
              \/ creation' = None /\ UNCHANGED <<servers, known>>
      BY <1>2 DEF ImportAdd
    <2> DEFINE row == [creation.row EXCEPT !.name = n]
    <2>0. creation # None /\ creation.row \in Rows /\ creation.id \in Ids
      BY <1>2 DEF ImportAdd, Begun, Listed, Added
    <2>1. row \in Rows /\ row.name = n
      BY <2>0, NamesFacts DEF Rows
    <2>2. UNCHANGED <<secrets, latest, edits, removal, migration, stray, book>>
      BY <1>2 DEF ImportAdd
    <2> HIDE DEF row
    <2>3. CASE /\ Add(creation.id, row)
               /\ creation' = [who |-> "import", stage |-> "added", id |-> creation.id, row |-> row]
      <3>1. Begun'
        BY <2>0, <2>1, <2>2, <2>3 DEF Begun, Added
      <3>2. QED
        BY <2>0, <2>1, <2>2, <2>3, <3>1, AddKeeps DEF BookShape
    <2>4. CASE creation' = None /\ UNCHANGED <<servers, known>>
      BY <2>2, <2>4, BookRests DEF Begun, BookShape
    <2>5. QED
      BY <2>3, <2>4 DEF row
  <1>3. QED
    BY <1>1, <1>2

LEMMA CreationKeeps ==
    ASSUME BookInv, CreationSave \/ CreationLink PROVE BookInv'
  <1> USE DEF BookInv
  <1>1. CASE CreationSave
    <2> DEFINE i == creation.id
               row == creation.row
               n == creation.row.name
               secret == Sealed(i, row.auth)
    <2>0. i \in Ids /\ row \in Rows /\ n \in Names /\ n \in AllNames /\ latest[i] \in Nat
      BY <1>1, NamesFacts DEF CreationSave, Begun, Listed, Added, Rows, BookShape
    <2>1. UNCHANGED <<servers, known, edits, removal, migration, book>>
      BY <1>1 DEF CreationSave
    <2>2. secret \in Secrets /\ secret.of = i /\ secret.version = latest[i] + 1 /\ secret.auth = row.auth
      BY <2>0 DEF Sealed, Secrets, Rows
    <2>3. \/ /\ secrets' = [secrets EXCEPT ![n] = secret] /\ latest' = [latest EXCEPT ![i] = @ + 1]
             /\ creation' = [creation EXCEPT !.stage = "saved"]
             /\ stray' = IF servers[i] = row THEN stray \ {n} ELSE
                           stray \cup {n} \cup (IF servers[i] = None THEN {} ELSE {servers[i].name})
          \/ creation' = None /\ UNCHANGED <<secrets, latest, stray>>
      BY <1>1 DEF CreationSave
    <2> HIDE DEF secret
    <2>4. CASE creation' = None /\ UNCHANGED <<secrets, latest, stray>>
      BY <2>1, <2>4, BookRests DEF Begun, BookShape
    <2>5. CASE /\ secrets' = [secrets EXCEPT ![n] = secret] /\ latest' = [latest EXCEPT ![i] = @ + 1]
               /\ creation' = [creation EXCEPT !.stage = "saved"]
               /\ stray' = IF servers[i] = row THEN stray \ {n} ELSE
                             stray \cup {n} \cup (IF servers[i] = None THEN {} ELSE {servers[i].name})
      <3>1. BookShape'
        BY <2>0, <2>1, <2>2, <2>5 DEF BookShape, Rows
      <3>2. creation \in Added /\ creation.row.name \in Names
        BY <1>1 DEF CreationSave, Begun, Listed
      <3>3. NamesFit' /\ Begun'
        BY <2>1, <2>5, <3>2 DEF NamesFit, Begun, Added
      <3>4. OwnersFit'
        BY <2>0, <2>1, <2>2, <2>5, BookAssumption DEF BookShape, OwnersFit
      <3>5. QED
        BY <3>1, <3>3, <3>4
    <2>6. QED
      BY <2>3, <2>4, <2>5
  <1>2. CASE CreationLink
    <2> DEFINE i == creation.id
               who == creation.who
               row == IF who = "import" THEN creation.row ELSE servers[i]
    <2>0. i \in Ids /\ creation.row \in Rows /\ creation.row.name \in Names /\ who \in Editors
      BY <1>2 DEF CreationLink, Begun, Listed, Added, Editors
    <2>1. /\ edits' = [edits EXCEPT ![who] = IF row = None THEN None ELSE [id |-> i, row |-> row, patch |-> "none"]]
          /\ creation' = None
          /\ UNCHANGED <<servers, secrets, latest, known, removal, migration, stray, book>>
      BY <1>2 DEF CreationLink
    <2>2. row # None => row \in Rows /\ FitsServer(i, row.name)
      BY <2>0 DEF BookShape, NamesFit, FitsServer
    <2> HIDE DEF row
    <2>3. row # None => [id |-> i, row |-> row, patch |-> "none"] \in EditRecords
      BY <2>0, <2>2 DEF EditRecords, Patches
    <2>4. BookShape' /\ OwnersFit'
      BY <2>0, <2>1, <2>3 DEF BookShape, OwnersFit
    <2>5. NamesFit' /\ Begun'
      BY <2>0, <2>1, <2>2 DEF BookShape, NamesFit, FitsServer, Begun
    <2>6. QED
      BY <2>4, <2>5
  <1>3. QED
    BY <1>1, <1>2

LEMMA EditKeeps ==
    ASSUME BookInv, NEW e \in Editors, NEW i \in Ids, NEW row \in Rows, NEW patch \in Patches,
           BeginEdit(e, i, row, patch)
    PROVE  BookInv'
  <1> USE DEF BookInv
  <1>1. /\ edits' = [edits EXCEPT ![e] = [id |-> i, row |-> row, patch |-> patch]]
        /\ UNCHANGED <<servers, secrets, latest, known, creation, removal, migration, stray>>
    BY DEF BeginEdit
  <1>2. FitsServer(i, row.name) /\ book' \in 0..MaxBook
    BY BookAssumption DEF BeginEdit, NamesFit, FitsServer, Change, BookShape
  <1>3. [id |-> i, row |-> row, patch |-> patch] \in EditRecords
    BY DEF EditRecords
  <1>4. BookShape' /\ OwnersFit' /\ Begun'
    BY <1>1, <1>2, <1>3 DEF BookShape, OwnersFit, Begun
  <1>5. NamesFit'
    BY <1>1, <1>2 DEF BookShape, NamesFit, FitsServer
  <1>6. QED
    BY <1>4, <1>5

\* What filing a secret under another name does.
LEMMA OwnerMoves ==
    ASSUME BookInv, NEW i \in Ids, NEW old \in AllNames, NEW new \in AllNames, Movable(old, new),
           \/ servers[i] # None /\ servers[i].name = old
           \/ old = new,
           \A k \in Ids \ {i} : servers[k] # None => servers[k].name # new
    PROVE  /\ Rekeyed(old, new) \in [AllNames -> Secrets \cup {None}]
           /\ StrayRekeyed(old, new) \in SUBSET AllNames
           /\ \A n \in AllNames \ {old, new} :
                Rekeyed(old, new)[n] = secrets[n] /\ (n \in StrayRekeyed(old, new) <=> n \in stray)
           /\ old # new => Rekeyed(old, new)[old] = None
           /\ Rekeyed(old, new)[new] # None /\ new \notin StrayRekeyed(old, new) =>
                LET s == Rekeyed(old, new)[new]
                IN  /\ s.of = i /\ servers[i] # None /\ s.version = latest[i] /\ s.auth = servers[i].auth
                    /\ s \in Secrets
  <1> DEFINE there == Rekeyed(old, new)
             left == StrayRekeyed(old, new)
  <1>0. secrets \in [AllNames -> Secrets \cup {None}] /\ stray \in SUBSET AllNames
    BY DEF BookInv, BookShape
  <1>1. CASE old = new \/ secrets[old] = None
    <2>1. there = secrets /\ left = stray
      BY <1>1 DEF Rekeyed, StrayRekeyed, HasSecret
    <2> HIDE DEF there, left
    <2>2. secrets[new] # None /\ new \notin stray => secrets[new].of = i /\ servers[i] # None
      BY <1>1 DEF BookInv, OwnersFit
    <2>3. QED
      BY <1>0, <1>1, <2>1, <2>2 DEF BookInv, OwnersFit, there, left
  <1>2. CASE old # new /\ secrets[old] # None
    <2>1. /\ there = [secrets EXCEPT ![new] = secrets[old], ![old] = None]
          /\ left = (stray \ {old, new}) \cup (IF old \in stray THEN {new} ELSE {})
      BY <1>2 DEF Rekeyed, StrayRekeyed, HasSecret
    <2> HIDE DEF there, left
    <2>2. /\ there[new] = secrets[old] /\ there[old] = None
          /\ \A n \in AllNames \ {old, new} : there[n] = secrets[n]
          /\ there \in [AllNames -> Secrets \cup {None}]
      BY <1>0, <1>2, <2>1
    <2>3. new \in left <=> old \in stray
      BY <1>2, <2>1
    <2>4. old \notin stray => secrets[old].of = i /\ secrets[old] \in Secrets
      BY <1>0, <1>2 DEF BookInv, NamesFit, OwnersFit
    <2>5. left \in SUBSET AllNames /\ \A n \in AllNames \ {old, new} : n \in left <=> n \in stray
      BY <1>0, <2>1
    <2>6. QED
      BY <1>2, <2>2, <2>3, <2>4, <2>5 DEF BookInv, OwnersFit, there, left
  <1>3. QED
    BY <1>1, <1>2

\* The names and the owners of a book of servers and secrets.
NamesIn(rows) ==
    /\ \A i \in Ids : rows[i] # None => i \in known /\ FitsServer(i, rows[i].name)
    /\ \A i, k \in Ids : rows[i] # None /\ rows[k] # None /\ i # k => rows[i].name # rows[k].name
OwnersIn(rows, filed, left) ==
    \A n \in AllNames : filed[n] # None /\ n \notin left =>
      LET i == filed[n].of
      IN  /\ i \in Ids /\ rows[i] # None /\ rows[i].name = n
          /\ filed[n].version = latest[i] /\ filed[n].auth = rows[i].auth

LEMMA OverwriteKeeps ==
    ASSUME BookInv, NEW i \in Ids, NEW row \in Rows, FitsServer(i, row.name),
           NEW rows \in [Ids -> Rows \cup {None}], NEW filed \in [AllNames -> Secrets \cup {None}],
           NEW left \in SUBSET AllNames, NamesIn(rows), OwnersIn(rows, filed, left),
           \A k \in Ids \ {i} : rows[k] # None => rows[k].name # row.name,
           Overwrite(i, row, rows, filed, left), known' = known \cup {i},
           UNCHANGED <<latest, creation, edits, removal, migration>>, book' \in 0..MaxBook
    PROVE  BookInv'
  <1> USE DEF BookInv
  <1> DEFINE old == rows[i]
             off == IF old = None \/ old.name = row.name \/ filed[old.name] = None THEN {} ELSE {old.name}
             kept == IF filed[row.name] # None /\ (old = None \/ old # row) THEN {row.name} ELSE {}
  <1>1. servers' = [rows EXCEPT ![i] = row] /\ secrets' = filed /\ stray' = left \cup off \cup kept
    BY DEF Overwrite
  <1>2. row.name \in AllNames /\ (old # None => old \in Rows /\ old.name \in AllNames) /\ row # None
    BY BookAssumption DEF Rows
  <1>3. BookShape' /\ Begun'
    BY <1>1, <1>2 DEF BookShape, Begun
  <1>4. NamesFit'
    BY <1>1 DEF BookShape, NamesFit, NamesIn, FitsServer
  <1>5. OwnersFit'
    <2> SUFFICES ASSUME NEW n \in AllNames, filed[n] # None, n \notin left \cup off \cup kept
                 PROVE  LET k == filed[n].of
                        IN  /\ k \in Ids /\ servers'[k] # None /\ servers'[k].name = n
                            /\ filed[n].version = latest[k] /\ filed[n].auth = servers'[k].auth
      BY <1>1 DEF OwnersFit
    <2> DEFINE k == filed[n].of
    <2>1. k \in Ids /\ rows[k] # None /\ rows[k].name = n /\ filed[n].version = latest[k]
          /\ filed[n].auth = rows[k].auth
      BY DEF OwnersIn
    <2>2. CASE k # i
      BY <1>1, <2>1, <2>2
    <2>3. CASE k = i
      <3>1. old.name = row.name /\ old = row
        BY <2>1, <2>3
      <3>2. QED
        BY <1>1, <1>2, <2>1, <2>3, <3>1
    <2>4. QED
      BY <2>2, <2>3
  <1>6. QED
    BY <1>3, <1>4, <1>5

\* A server takes another name, and its secret with it.
LEMMA MovedFits ==
    ASSUME BookInv, NEW i \in Ids, NEW new \in AllNames, servers[i] # None, FitsServer(i, new),
           Movable(servers[i].name, new), \A k \in Ids \ {i} : servers[k] # None => servers[k].name # new
    PROVE  LET rows == [servers EXCEPT ![i].name = new]
               old == servers[i].name
           IN  /\ rows \in [Ids -> Rows \cup {None}] /\ NamesIn(rows)
               /\ rows[i] # None /\ rows[i].name = new /\ rows[i].auth = servers[i].auth
               /\ Rekeyed(old, new) \in [AllNames -> Secrets \cup {None}]
               /\ StrayRekeyed(old, new) \in SUBSET AllNames
               /\ OwnersIn(rows, Rekeyed(old, new), StrayRekeyed(old, new))
  <1> DEFINE old == servers[i].name
             row == [servers[i] EXCEPT !.name = new]
             rows == [servers EXCEPT ![i].name = new]
             filed == Rekeyed(old, new)
             left == StrayRekeyed(old, new)
  <1>1. servers[i] \in Rows /\ old \in AllNames
    BY DEF BookInv, BookShape, Rows
  <1>2. row \in Rows /\ row.name = new /\ row.auth = servers[i].auth /\ row # None
    BY <1>1, BookAssumption DEF Rows
  <1>3. rows = [servers EXCEPT ![i] = row]
    OBVIOUS
  <1>4. /\ filed \in [AllNames -> Secrets \cup {None}] /\ left \in SUBSET AllNames
        /\ \A n \in AllNames \ {old, new} : filed[n] = secrets[n] /\ (n \in left <=> n \in stray)
        /\ old # new => filed[old] = None
        /\ filed[new] # None /\ new \notin left =>
             /\ filed[new].of = i /\ filed[new].version = latest[i] /\ filed[new].auth = servers[i].auth
    BY <1>1, OwnerMoves
  <1> HIDE DEF row, rows, filed, left
  <1>5. rows \in [Ids -> Rows \cup {None}] /\ rows[i] = row /\ \A k \in Ids \ {i} : rows[k] = servers[k]
    BY <1>2, <1>3 DEF BookInv, BookShape
  <1>6. NamesIn(rows)
    BY <1>2, <1>5 DEF BookInv, NamesFit, NamesIn
  <1>7. OwnersIn(rows, filed, left)
    <2> SUFFICES ASSUME NEW n \in AllNames, filed[n] # None, n \notin left
                 PROVE  LET k == filed[n].of
                        IN  /\ k \in Ids /\ rows[k] # None /\ rows[k].name = n
                            /\ filed[n].version = latest[k] /\ filed[n].auth = rows[k].auth
      BY DEF OwnersIn
    <2>1. CASE n = new
      BY <1>2, <1>4, <1>5, <2>1
    <2>2. CASE n # new
      <3>1. n # old /\ filed[n] = secrets[n] /\ n \notin stray
        BY <1>4, <2>2
      <3>2. secrets[n].of \in Ids \ {i}
        BY <3>1 DEF BookInv, OwnersFit
      <3>3. QED
        BY <1>5, <3>1, <3>2 DEF BookInv, OwnersFit
    <2>3. QED
      BY <2>1, <2>2
  <1>8. QED
    BY <1>2, <1>4, <1>5, <1>6, <1>7 DEF rows, filed, left

LEMMA RemoteUpsertKeeps ==
    ASSUME BookInv, NEW i \in Ids, NEW row \in Rows, RemoteUpsert(i, row) PROVE BookInv'
  <1> USE DEF BookInv
  <1>0. /\ FitsServer(i, row.name) /\ row.name \in AllNames /\ book' \in 0..MaxBook
        /\ known' = known \cup {i} /\ UNCHANGED <<latest, creation, edits, removal, migration>>
    BY NamesFacts, BookAssumption DEF RemoteUpsert, Change, BookShape
  <1>a. Named(row.name) \ {i} # {} => row.name \in Names
    <2> SUFFICES ASSUME NEW k \in Named(row.name) \ {i} PROVE row.name \in Names
      OBVIOUS
    <2>1. k \in Ids \ {i} /\ FitsServer(k, row.name)
      BY DEF Named, NamesFit
    <2>2. QED
      BY <1>0, <2>1, NamesFacts DEF FitsServer
  <1>1. NamesIn(servers) /\ OwnersIn(servers, secrets, stray)
    BY DEF NamesFit, NamesIn, OwnersFit, OwnersIn
  <1>2. CASE Named(row.name) \ {i} = {} /\ Overwrite(i, row, servers, secrets, stray)
    <2>1. \A k \in Ids \ {i} : servers[k] # None => servers[k].name # row.name
      BY <1>2 DEF Named
    <2>2. QED
      BY <1>0, <1>1, <1>2, <2>1, OverwriteKeeps DEF BookShape
  <1>3. ASSUME NEW loser \in Named(row.name) \ {i},
               Movable(row.name, ConflictName(row.name, loser)),
               Overwrite(i, row, [servers EXCEPT ![loser].name = ConflictName(row.name, loser)],
                         Rekeyed(row.name, ConflictName(row.name, loser)),
                         StrayRekeyed(row.name, ConflictName(row.name, loser)))
        PROVE  BookInv'
    <2> DEFINE n == ConflictName(row.name, loser)
               rows == [servers EXCEPT ![loser].name = n]
               filed == Rekeyed(row.name, n)
               left == StrayRekeyed(row.name, n)
    <2>1. loser \in Ids \ {i} /\ servers[loser] # None /\ servers[loser].name = row.name
          /\ row.name \in Names
      BY <1>a DEF Named
    <2>2. n \in AllNames /\ n # row.name /\ FitsServer(loser, n) /\ FitsServer(i, row.name)
      BY <1>0, <2>1, NamesFacts DEF FitsServer
    <2>3. \A k \in Ids \ {loser} : servers[k] # None => servers[k].name # n
      BY <2>1, NamesFacts DEF NamesFit, FitsServer
    <2>4. /\ rows \in [Ids -> Rows \cup {None}] /\ NamesIn(rows)
          /\ rows[loser].name = n
          /\ filed \in [AllNames -> Secrets \cup {None}]
          /\ left \in SUBSET AllNames /\ OwnersIn(rows, filed, left)
      BY <1>3, <2>1, <2>2, <2>3, MovedFits
    <2>5. \A k \in Ids \ {i} : rows[k] # None => rows[k].name # row.name
      BY <2>1, <2>2, <2>4 DEF NamesFit, BookShape
    <2>6. Overwrite(i, row, rows, filed, left)
      BY <1>3
    <2> HIDE DEF rows, filed, left
    <2>7. QED
      BY <1>0, <2>2, <2>4, <2>5, <2>6, OverwriteKeeps
  <1>4. ASSUME LET n == ConflictName(row.name, i)
                   old == IF servers[i] = None THEN n ELSE servers[i].name
               IN  /\ Named(row.name) \ {i} # {}
                   /\ Movable(old, n)
                   /\ Overwrite(i, [row EXCEPT !.name = n],
                                IF servers[i] = None THEN servers ELSE [servers EXCEPT ![i].name = n],
                                Rekeyed(old, n), StrayRekeyed(old, n))
        PROVE  BookInv'
    <2> DEFINE n == ConflictName(row.name, i)
               new == [row EXCEPT !.name = n]
    <2>0. row.name \in Names
      BY <1>a, <1>4
    <2>1. n \in AllNames /\ FitsServer(i, n) /\ new \in Rows /\ new.name = n
      BY <2>0, NamesFacts DEF FitsServer, Rows
    <2>2. \A k \in Ids \ {i} : servers[k] # None => servers[k].name # n
      BY <2>0, NamesFacts DEF NamesFit, FitsServer
    <2>3. CASE servers[i] = None
      <3>1. Overwrite(i, new, servers, Rekeyed(n, n), StrayRekeyed(n, n))
        BY <1>4, <2>3
      <3>2. Rekeyed(n, n) = secrets /\ StrayRekeyed(n, n) = stray
        BY DEF Rekeyed, StrayRekeyed
      <3> HIDE DEF n, new
      <3>3. Overwrite(i, new, servers, secrets, stray)
        BY <3>1, <3>2
      <3>4. QED
        BY <1>0, <1>1, <2>1, <2>2, <3>3, OverwriteKeeps DEF BookShape
    <2>4. CASE servers[i] # None
      <3> DEFINE rows == [servers EXCEPT ![i].name = n]
                 filed == Rekeyed(servers[i].name, n)
                 left == StrayRekeyed(servers[i].name, n)
      <3>1. Movable(servers[i].name, n) /\ Overwrite(i, new, rows, filed, left)
        BY <1>4, <2>4
      <3>2. /\ rows \in [Ids -> Rows \cup {None}] /\ NamesIn(rows)
            /\ filed \in [AllNames -> Secrets \cup {None}]
            /\ left \in SUBSET AllNames /\ OwnersIn(rows, filed, left)
        BY <2>1, <2>2, <2>4, <3>1, MovedFits
      <3>3. \A k \in Ids \ {i} : rows[k] = servers[k]
        OBVIOUS
      <3> HIDE DEF rows, filed, left, n, new
      <3>4. QED
        BY <1>0, <2>1, <2>2, <3>1, <3>2, <3>3, OverwriteKeeps
    <2>5. QED
      BY <2>3, <2>4
  <1>5. QED
    BY <1>2, <1>3, <1>4 DEF RemoteUpsert

LEMMA FinishEditKeeps ==
    ASSUME BookInv, NEW e \in Editors, FinishEdit(e) PROVE BookInv'
  <1> USE DEF BookInv
  <1> DEFINE edit == edits[e]
             i == edit.id
             n == edit.row.name
             old == servers[i].name
             moved == Rekeyed(old, n)
             strays == StrayRekeyed(old, n)
             filed == Sealed(i, edit.row.auth)
  <1>1. /\ i \in Ids /\ edit.row \in Rows /\ n \in AllNames /\ edit.patch \in Patches
        /\ FitsServer(i, n) /\ latest[i] \in Nat
    BY DEF FinishEdit, BookShape, NamesFit, EditRecords, Rows
  <1>2. edits' = [edits EXCEPT ![e] = None] /\ UNCHANGED <<known, creation, removal, migration, book>>
    BY DEF FinishEdit
  <1>3. edits' \in [Editors -> EditRecords \cup {None}] /\ Begun'
        /\ \A f \in Editors : edits'[f] # None => edits'[f] = edits[f]
    BY <1>2 DEF BookShape, Begun
  <1>4. CASE Refused(edit)
    <2>1. UNCHANGED <<servers, secrets, latest, stray>>
      BY <1>4 DEF FinishEdit
    <2>2. QED
      BY <1>2, <1>3, <2>1 DEF BookShape, NamesFit, OwnersFit
  <1>5. CASE ~Refused(edit)
    <2>1. /\ servers' = [servers EXCEPT ![i] = edit.row]
          /\ secrets' = CASE edit.patch = "secret" -> [moved EXCEPT ![n] = filed]
                          [] edit.patch = "phrase" -> [moved EXCEPT ![n].sealed = TRUE, ![n].auth = edit.row.auth]
                          [] OTHER -> moved
          /\ latest' = IF edit.patch = "secret" THEN [latest EXCEPT ![i] = @ + 1] ELSE latest
          /\ stray' = IF edit.patch = "secret" THEN strays \ {n} ELSE strays
      BY <1>5 DEF FinishEdit
    <2>2. /\ servers[i] # None
          /\ servers[i].auth # edit.row.auth => edit.patch = "secret"
          /\ \A k \in Ids \ {i} : servers[k] # None => servers[k].name # n
          /\ Movable(old, n)
          /\ edit.patch = "phrase" => secrets[old] # None \/ secrets[n] # None
      BY <1>1, <1>5 DEF Refused, Named, Movable, HasSecret, Patches
    <2>3. servers[i] \in Rows /\ old \in AllNames
      BY <1>1, <2>2 DEF BookShape, Rows
    <2>4. /\ moved \in [AllNames -> Secrets \cup {None}] /\ strays \in SUBSET AllNames
          /\ \A m \in AllNames \ {old, n} : moved[m] = secrets[m] /\ (m \in strays <=> m \in stray)
          /\ old # n => moved[old] = None
          /\ moved[n] # None /\ n \notin strays =>
               /\ moved[n].of = i /\ moved[n].version = latest[i] /\ moved[n].auth = servers[i].auth
      <3>1. n \in AllNames /\ servers[i].name = old
        BY <1>1
      <3> HIDE DEF edit, i, n, old
      <3>2. QED
        BY <1>1, <2>2, <2>3, <3>1, OwnerMoves
    <2>5. edit.patch = "phrase" => moved[n] \in Secrets
      <3>1. secrets[old] # None \/ secrets[n] # None => moved[n] # None
        BY <1>1, <2>3, BookAssumption DEF Rekeyed, HasSecret, BookShape
      <3>2. QED
        BY <1>1, <2>2, <2>4, <3>1
    <2>6. filed \in Secrets /\ filed.of = i /\ filed.version = latest[i] + 1 /\ filed.auth = edit.row.auth
      BY <1>1 DEF Sealed, Secrets, Rows
    <2> DEFINE now == [moved[n] EXCEPT !.sealed = TRUE, !.auth = edit.row.auth]
    <2>7. edit.patch = "phrase" =>
            now \in Secrets /\ now.of = moved[n].of /\ now.version = moved[n].version /\ now.auth = edit.row.auth
      BY <1>1, <2>5 DEF Secrets, Rows
    <2>8. edit.patch = "phrase" => secrets' = [moved EXCEPT ![n] = now]
      BY <2>1
    <2> HIDE DEF moved, strays, filed, now
    <2>9. edit.patch = "secret" => secrets' = [moved EXCEPT ![n] = filed]
      BY <2>1
    <2>10. edit.patch = "none" => secrets' = moved
      BY <2>1
    <2>11. /\ secrets' \in [AllNames -> Secrets \cup {None}]
           /\ \A m \in AllNames \ {n} : secrets'[m] = moved[m]
      <3>1. CASE edit.patch = "secret"
        BY <1>1, <2>4, <2>6, <2>9, <3>1
      <3>2. CASE edit.patch = "phrase"
        BY <1>1, <2>4, <2>7, <2>8, <3>2
      <3>3. CASE edit.patch = "none"
        BY <2>4, <2>10, <3>3
      <3>4. edit.patch = "secret" \/ edit.patch = "phrase" \/ edit.patch = "none"
        BY <1>1 DEF Patches
      <3>5. QED
        BY <3>1, <3>2, <3>3, <3>4
    <2>12. BookShape'
      <3>1. servers' \in [Ids -> Rows \cup {None}]
        BY <1>1, <2>1 DEF BookShape
      <3>2. latest' \in [Ids -> Nat] /\ stray' \in SUBSET AllNames
        BY <1>1, <2>1, <2>4 DEF BookShape
      <3>3. QED
        BY <1>2, <1>3, <2>11, <3>1, <3>2 DEF BookShape
    <2>13. NamesFit'
      BY <1>1, <1>2, <1>3, <2>1, <2>2 DEF BookShape, NamesFit
    <2>14. secrets'[n] # None /\ n \notin stray' =>
             secrets'[n].of = i /\ secrets'[n].version = latest'[i] /\ secrets'[n].auth = edit.row.auth
      <3>1. CASE edit.patch = "secret"
        BY <1>1, <2>1, <2>4, <2>6, <2>9, <3>1 DEF BookShape
      <3>2. CASE edit.patch = "phrase"
        BY <1>1, <2>1, <2>4, <2>5, <2>7, <2>8, <3>2, BookAssumption
      <3>3. CASE edit.patch = "none"
        BY <2>1, <2>2, <2>4, <2>10, <3>3
      <3>4. QED
        BY <1>1, <3>1, <3>2, <3>3 DEF Patches
    <2>15. OwnersFit'
      <3> SUFFICES ASSUME NEW m \in AllNames, secrets'[m] # None, m \notin stray'
                   PROVE  LET k == secrets'[m].of
                          IN  /\ k \in Ids /\ servers'[k] # None /\ servers'[k].name = m
                              /\ secrets'[m].version = latest'[k] /\ secrets'[m].auth = servers'[k].auth
        BY DEF OwnersFit
      <3>1. servers'[i] = edit.row /\ edit.row # None
        BY <1>1, <2>1, BookAssumption DEF BookShape
      <3>2. CASE m = n
        BY <1>1, <2>14, <3>1, <3>2
      <3>3. CASE m # n
        <4>1. m # old /\ secrets'[m] = secrets[m] /\ m \notin stray
          BY <2>1, <2>4, <2>11, <3>3
        <4>2. secrets[m].of \in Ids \ {i}
          BY <4>1 DEF OwnersFit
        <4>3. \A k \in Ids \ {i} : servers'[k] = servers[k] /\ latest'[k] = latest[k]
          BY <2>1 DEF BookShape
        <4>4. QED
          BY <4>1, <4>2, <4>3 DEF OwnersFit
      <3>4. QED
        BY <3>2, <3>3
    <2>16. QED
      BY <1>3, <2>12, <2>13, <2>15
  <1>6. QED
    BY <1>4, <1>5

LEMMA RemovalKeeps ==
    ASSUME BookInv,
           \/ \E i \in Ids : BeginRemoval(i) \/ AgentDelete(i) \/ RemoteDelete(i)
           \/ RemovalDropsSecret \/ FinishRemoval
    PROVE  BookInv'
  <1> USE DEF BookInv
  <1>1. ASSUME NEW i \in Ids, BeginRemoval(i) PROVE BookInv'
    <2>1. servers[i].name \in AllNames
      BY <1>1 DEF BeginRemoval, BookShape, Rows
    <2>2. Begun'
      BY <1>1, <2>1 DEF BeginRemoval, Begun
    <2>3. QED
      BY <1>1, <2>2, BookRests, BookAssumption DEF BeginRemoval, Change, BookShape
  <1>2. ASSUME NEW i \in Ids, AgentDelete(i) \/ RemoteDelete(i) PROVE BookInv'
    <2>1. Begun' /\ book' \in 0..MaxBook
      BY <1>2, BookAssumption DEF AgentDelete, RemoteDelete, Begun, Change, BookShape
    <2>2. QED
      BY <1>2, <2>1, GoneKeeps DEF AgentDelete, RemoteDelete
  <1>3. CASE RemovalDropsSecret
    <2> DEFINE n == removal.name
    <2>1. n \in AllNames /\ removal \in [stage : {"closing", "dropped"}, id : Ids, name : AllNames]
      BY <1>3 DEF RemovalDropsSecret, Begun
    <2>2. /\ secrets' = [secrets EXCEPT ![n] = None] /\ stray' = stray \ {n}
          /\ removal' = [removal EXCEPT !.stage = "dropped"]
          /\ UNCHANGED <<servers, latest, known, creation, edits, migration, book>>
      BY <1>3 DEF RemovalDropsSecret
    <2>3. BookShape' /\ NamesFit' /\ OwnersFit'
      BY <2>1, <2>2 DEF BookShape, NamesFit, OwnersFit
    <2>4. Begun'
      BY <2>1, <2>2 DEF Begun
    <2>5. QED
      BY <2>3, <2>4
  <1>4. CASE FinishRemoval
    <2>1. removal.id \in Ids /\ Begun' /\ book' \in 0..MaxBook
      BY <1>4 DEF FinishRemoval, Begun, BookShape
    <2>2. QED
      BY <1>4, <2>1, GoneKeeps DEF FinishRemoval
  <1>5. QED
    BY <1>1, <1>2, <1>3, <1>4

LEMMA MigrationKeeps ==
    ASSUME BookInv, (\E n \in AllNames : BeginMigration(n)) \/ FinishMigration PROVE BookInv'
  <1> USE DEF BookInv
  <1>1. ASSUME NEW n \in AllNames, BeginMigration(n) PROVE BookInv'
    BY <1>1, BookRests DEF BeginMigration, BookShape, Begun
  <1>2. CASE FinishMigration
    <2> DEFINE now == [migration EXCEPT !.sealed = TRUE]
    <2>1. migration \in Secrets /\ now \in Secrets
          /\ now.of = migration.of /\ now.version = migration.version /\ now.auth = migration.auth
      BY <1>2 DEF FinishMigration, BookShape, Secrets
    <2>2. /\ secrets' = [n \in AllNames |-> IF secrets[n] = migration THEN now ELSE secrets[n]]
          /\ migration' = None /\ UNCHANGED <<servers, latest, known, creation, edits, removal, stray, book>>
      BY <1>2 DEF FinishMigration
    <2> HIDE DEF now
    <2>3. BookShape' /\ NamesFit' /\ Begun'
      BY <2>1, <2>2 DEF BookShape, NamesFit, Begun
    <2>4. OwnersFit'
      BY <2>1, <2>2, BookAssumption DEF BookShape, OwnersFit
    <2>5. QED
      BY <2>3, <2>4
  <1>3. QED
    BY <1>1, <1>2

LEMMA BookSafe == BookSpec => []BookInv
  <1>1. BookInit => BookInv
    BY BookInvInit
  <1>2. BookInv /\ [BookNext]_bookVars => BookInv'
    <2> SUFFICES ASSUME BookInv, [BookNext]_bookVars PROVE BookInv'
      OBVIOUS
    <2>1. ASSUME NEW i \in Ids, NEW n \in NamesOf(i), NEW auth \in Auths,
                 DialogAdd(i, [name |-> n, auth |-> auth]) \/ AgentAddServer(i, [name |-> n, auth |-> auth])
          PROVE  BookInv'
      <3> DEFINE row == [name |-> n, auth |-> auth]
      <3>1. row \in Rows /\ row.name \in Names /\ book' \in 0..MaxBook
        BY <2>1, NamesFacts, BookAssumption DEF Rows, DialogAdd, AgentAddServer, Change, BookInv, BookShape
      <3> HIDE DEF row
      <3>2. Begun' /\ Add(i, row) /\ UNCHANGED <<secrets, latest, stray, edits, migration>>
        <4>1. CASE DialogAdd(i, row)
          BY <3>1, <4>1 DEF DialogAdd, Begun, Added, BookInv
        <4>2. CASE AgentAddServer(i, row)
          BY <4>2 DEF AgentAddServer, Begun, BookInv
        <4>3. QED
          BY <2>1, <4>1, <4>2 DEF row
      <3>3. QED
        BY <3>1, <3>2, AddKeeps
    <2>2. ASSUME NEW i \in Ids, NEW n \in NamesOf(i), NEW auth \in Auths, RemoteUpsert(i, [name |-> n, auth |-> auth])
          PROVE  BookInv'
      BY <2>2, NamesFacts, RemoteUpsertKeeps DEF Rows
    <2>3. ASSUME NEW i \in Ids, NEW e \in {"ui", "agent"}, NEW n \in AllNames, NEW auth \in Auths,
                 NEW patch \in Patches, BeginEdit(e, i, [name |-> n, auth |-> auth], patch)
          PROVE  BookInv'
      BY <2>3, EditKeeps DEF Rows, Editors
    <2>4. CASE UNCHANGED bookVars
      BY <2>4, BookRests DEF bookVars, BookInv, BookShape, Begun
    <2>5. QED
      BY <2>1, <2>2, <2>3, <2>4, ImportKeeps, CreationKeeps, FinishEditKeeps, RemovalKeeps, MigrationKeeps
      DEF BookNext
  <1>3. QED
    BY <1>1, <1>2, PTL DEF BookSpec

\* The database is well-typed, and the names in it are unique, whatever overlaps.
THEOREM BookTypes == BookSpec => []BookTypeOK
  <1>1. ASSUME BookInv PROVE BookTypeOK
    <2>1. \A e \in Editors : edits[e] = None \/
            (edits[e].row \in Rows /\ edits[e].id \in Ids /\ edits[e].row.name \in NamesOf(edits[e].id))
      BY <1>1, NamesFacts DEF BookInv, BookShape, NamesFit, EditRecords
    <2>2. creation = None \/ (creation.row \in Rows /\ creation.id \in Ids /\ creation.row.name \in Names)
      BY <1>1 DEF BookInv, Begun, Listed, Added
    <2>3. removal = None \/ (removal.name \in AllNames /\ removal.id \in Ids)
      BY <1>1 DEF BookInv, Begun
    <2>4. \A i \in Ids : servers[i] # None => i \in known /\ servers[i].name \in NamesOf(i)
      BY <1>1, NamesFacts DEF BookInv, NamesFit
    <2>5. QED
      BY <1>1, <2>1, <2>2, <2>3, <2>4 DEF BookInv, BookShape, NamesFit, BookTypeOK
  <1>2. QED
    BY <1>1, BookSafe, PTL

\* Whatever dialogs, agents, the importer, the migration and the sync's conflict names do with rows
\* that they read before, a secret that no step has left behind is filed under the name of the server
\* it was saved for, is of the kind that server asks for, and is the last one that was saved for it.
\* It says nothing of the names in `stray`, which another device's renames and deletions leave too.
THEOREM OwnSecrets == BookSpec => []SecretsAreOwn
  <1>1. ASSUME BookInv PROVE SecretsAreOwn
    BY <1>1 DEF BookInv, OwnersFit, SecretsAreOwn, HasSecret, Named
  <1>2. QED
    BY <1>1, BookSafe, PTL

-----------------------------------------------------------------------------
(* Induction over the naturals. *)

\* A set of natural numbers that is not empty has a least element.
LEMMA LeastNumber ==
    ASSUME NEW T \in SUBSET Nat, T # {} PROVE \E n \in T : \A m \in T : n <= m
<1>1. PICK n \in T : \A m \in T : ~(<<m, n>> \in OpToRel(<, Nat))
  BY NatLessThanWellFounded, WFMin
<1>2. \A m \in T : m \in Nat /\ n \in Nat /\ ~(m < n)
  BY <1>1 DEF OpToRel
<1>3. \A m \in T : n <= m
  BY <1>2
<1> QED
  BY <1>3

\* What holds of 0 and is kept from n to n + 1 holds of every natural number, stated of sets:
\* a set, unlike an operator, can be given to a lemma.
LEMMA Induction ==
    ASSUME NEW S, 0 \in S, \A n \in Nat : n \in S => n + 1 \in S PROVE Nat \subseteq S
<1> DEFINE T == Nat \ S
<1>1. SUFFICES ASSUME T # {} PROVE FALSE
  OBVIOUS
<1>2. PICK n \in T : \A m \in T : n <= m
  BY <1>1, LeastNumber
<1>3. n # 0 /\ n - 1 \in Nat /\ n - 1 \notin T
  BY <1>2
<1> QED
  BY <1>2, <1>3

\* A function that is defined from its value for the number before exists.
Recursive(g, S, x, n, F) == g \in [0..n -> S] /\ g[0] = x /\ \A i \in 1..n : g[i] = F[i][g[i - 1]]

LEMMA Recursion ==
    ASSUME NEW S, NEW x \in S, NEW n \in Nat, NEW F \in [1..n -> [S -> S]]
    PROVE  \E g : Recursive(g, S, x, n, F)
<1> DEFINE N == {k \in Nat : k <= n => \E g : Recursive(g, S, x, k, F)}
<1>1. 0 \in N
  <2>1. Recursive([i \in 0..0 |-> x], S, x, 0, F)
    BY DEF Recursive
  <2> QED
    BY <2>1
<1>2. ASSUME NEW k \in Nat, k \in N PROVE k + 1 \in N
  <2>1. SUFFICES ASSUME k + 1 <= n PROVE \E g : Recursive(g, S, x, k + 1, F)
    OBVIOUS
  <2>2. PICK g : Recursive(g, S, x, k, F)
    BY <1>2, <2>1
  <2>3. g \in [0..k -> S] /\ g[0] = x /\ \A i \in 1..k : g[i] = F[i][g[i - 1]]
    BY <2>2 DEF Recursive
  <2> DEFINE v == F[k + 1][g[k]]
             h == [i \in 0..k + 1 |-> IF i <= k THEN g[i] ELSE v]
  <2>4. v \in S
    BY <2>1, <2>3
  <2> HIDE DEF v
  <2>5. /\ h \in [0..k + 1 -> S] /\ h[k + 1] = v
        /\ \A i \in 0..k : h[i] = g[i]
    BY <2>3, <2>4
  <2> HIDE DEF h
  <2>6. ASSUME NEW i \in 1..k + 1 PROVE h[i] = F[i][h[i - 1]]
    <3>1. CASE i = k + 1
      <4>1. i - 1 = k /\ k \in 0..k
        BY <3>1
      <4> QED
        BY <2>5, <3>1, <4>1 DEF v
    <3>2. CASE i # k + 1
      <4>1. i \in 1..k /\ i \in 0..k /\ i - 1 \in 0..k
        BY <3>2
      <4> QED
        BY <2>3, <2>5, <4>1
    <3> QED
      BY <3>1, <3>2
  <2>7. Recursive(h, S, x, k + 1, F)
    BY <2>3, <2>5, <2>6 DEF Recursive
  <2> QED
    BY <2>7
<1>3. Nat \subseteq N
  <2> HIDE DEF N
  <2> QED
    BY <1>1, <1>2, Induction
<1> QED
  BY <1>3

-----------------------------------------------------------------------------
(* ProfileImport. *)

\* An import has these parts from its start on.
ImportFields == {"stage", "sources", "quiet", "again", "todo", "existing", "used", "aliases", "added",
                 "jumps"}

\* Rows are rows, with names of their own, and what an import remembers are ids of rows.
RowFits(row) == {"name", "host", "jump"} \subseteq DOMAIN row /\ row.jump \in RowIds \cup {Nobody}
RowsFit ==
    /\ saved = [i \in RowIds |-> saved[i]]
    /\ \A i \in RowIds : saved[i] # NoRow => RowFits(saved[i])
    /\ \A i, k \in RowIds : saved[i] # NoRow /\ saved[k] # NoRow /\ saved[i].name = saved[k].name => i = k
ImportFits ==
    /\ import.stage \in {"adding", "linking", "done", "failed"} /\ ImportFields \subseteq DOMAIN import
    /\ import.sources \subseteq ToSet(Kinds)
    /\ \A a \in import.aliases \cup import.added : a.id \in RowIds
    /\ IsList(import.jumps) /\ \A jump \in ToSet(import.jumps) : jump.id \in RowIds
ImportShape ==
    /\ disk \in Profiles /\ complete \subseteq ToSet(Kinds)
    /\ imports \in 0..MaxImports /\ meddling \in 0..MaxMeddling
    /\ import = NoImport \/ ImportFits

\* What an undisturbed import has done so far. The rows there were are as they were, and the
\* links still to make are of rows that it added, each of another one.
Candidates == UNION {Read(s) : s \in import.sources}
Kept == \A i \in RowIds : import.existing[i] # NoRow => saved[i] = import.existing[i]
LinksFit ==
    /\ \A jump \in ToSet(import.jumps) : saved[jump.id] # NoRow /\ import.existing[jump.id] = NoRow
    /\ \A m, n \in DOMAIN import.jumps : import.jumps[m].id = import.jumps[n].id => m = n

\* A candidate that is dealt with has a server of its endpoint, which stands for its name when no
\* other candidate of the source claims that, and a server that was added for it has its jump
\* host or waits for it.
Unclaimed(c) ==
    \A e \in Candidates : e # c /\ e.source = c.source => c.name \notin {e.id, e.name}
KnownAs(source, name) ==
    {a.id : a \in {x \in import.aliases : x.source = source /\ x.name = name}}
NamedFor(c, i) ==
    \/ saved[i].name = Plain(c.name)
    \/ \E a \in import.added : a.name = saved[i].name /\ \E k : a.name = Final(c.name, c.source, k)
Jump(c, i) == [id |-> i, source |-> c.source, to |-> c.jump]
IsLinked(c, i) ==
    /\ import.stage # "adding" /\ \A jump \in ToSet(import.jumps) : jump.id # i
    /\ (\E to \in Linked(Jump(c, i)) : to # i) =>
         saved[i].jump = CHOOSE to \in Linked(Jump(c, i)) : TRUE
Made(c, i) ==
    /\ saved[i] # NoRow /\ NamedFor(c, i) /\ saved[i].host = c.host
    /\ Unclaimed(c) => KnownAs(c.source, c.name) = {i}
    /\ IsNew(i) /\ c.jump # Absent => Jump(c, i) \in ToSet(import.jumps) \/ IsLinked(c, i)
Placed == \A c \in Candidates \ import.todo : \E i \in RowIds : Made(c, i)

\* One that imports what is complete adds nothing.
Repeats ==
    /\ \A c \in import.todo : Twin(c) # {}
    /\ import.added = {} /\ import.jumps = <<>>
    /\ import.quiet => saved = import.existing

Progresses ==
    import.stage \in {"adding", "linking", "done"} =>
      /\ import.todo \subseteq Candidates
      /\ import.stage # "adding" => import.todo = {}
      /\ import.stage = "done" => import.jumps = <<>>
      /\ import.quiet => Kept /\ LinksFit /\ Placed
      /\ import.again => Repeats
\* Sources are complete while every candidate of them has a server of its name and endpoint.
IsThere(c) == \E i \in RowIds : /\ saved[i] # NoRow /\ saved[i].name = Plain(c.name)
                               /\ saved[i].host = c.host
CompletesHold == \A s \in complete : \A c \in Read(s) : IsThere(c)

ImportSound == ImportShape /\ RowsFit /\ Progresses /\ CompletesHold

-----------------------------------------------------------------------------
(* Lists, rows and the parts of an import. *)

LEMMA ListAppend ==
    ASSUME NEW q, IsList(q), NEW x
    PROVE  IsList(Append(q, x)) /\ ToSet(Append(q, x)) = ToSet(q) \cup {x}
  <1> DEFINE T == ToSet(q) \cup {x}
             r == Append(q, x)
  <1>1. q \in Seq(T)
    <2>1. q \in Seq(ToSet(q))
      BY DEF IsList
    <2> HIDE DEF r
    <2>2. QED
      BY <2>1
  <1>2. r \in Seq(T) /\ Len(r) = Len(q) + 1 /\ Len(q) \in Nat /\ r[Len(q) + 1] = x
        /\ \A n \in 1..Len(q) : r[n] = q[n]
    <2> HIDE DEF T
    <2>1. x \in T
      BY DEF T
    <2>2. QED
      BY <1>1, <2>1
  <1>3. \A y \in ToSet(q) : \E n \in 1..Len(q) : q[n] = y
    BY <1>1 DEF ToSet
  <1>4. \A n \in 1..Len(r) : r[n] \in ToSet(r)
    BY <1>2 DEF ToSet
  <1>5. T \subseteq ToSet(r)
    <2> HIDE DEF r
    <2>1. x \in ToSet(r)
      BY <1>2, <1>4
    <2>2. ASSUME NEW y \in ToSet(q) PROVE y \in ToSet(r)
      <3>1. PICK n \in 1..Len(q) : q[n] = y
        BY <1>3
      <3>2. n \in 1..Len(r) /\ r[n] = y
        BY <1>2, <3>1
      <3>3. QED
        BY <1>4, <3>2
    <2>3. QED
      BY <2>1, <2>2
  <1>6. ToSet(r) \subseteq T
    <2> HIDE DEF r, T
    <2>1. QED
      BY <1>2 DEF ToSet
  <1>7. QED
    <2> HIDE DEF r
    <2>1. ToSet(r) = T
      BY <1>5, <1>6
    <2>2. QED
      BY <1>2, <2>1 DEF IsList, r

LEMMA ListParts ==
    ASSUME NEW q, IsList(q)
    PROVE  /\ DOMAIN q = 1..Len(q) /\ Len(q) \in Nat
           /\ \A n \in 1..Len(q) : q[n] \in ToSet(q)
           /\ \A y \in ToSet(q) : \E n \in 1..Len(q) : q[n] = y
  BY DEF IsList, ToSet

LEMMA ListTail ==
    ASSUME NEW q, IsList(q), q # <<>>
    PROVE  /\ IsList(Tail(q)) /\ Len(Tail(q)) = Len(q) - 1 /\ Len(q) > 0 /\ Head(q) = q[1]
           /\ \A n \in 1..(Len(q) - 1) : Tail(q)[n] = q[n + 1]
  <1>1. q \in Seq(ToSet(q))
    BY DEF IsList
  <1>2. /\ Tail(q) \in Seq(ToSet(q)) /\ Len(Tail(q)) = Len(q) - 1 /\ Len(q) > 0 /\ Head(q) = q[1]
        /\ \A n \in 1..(Len(q) - 1) : Tail(q)[n] = q[n + 1]
    BY <1>1
  <1> DEFINE r == Tail(q)
  <1>3. r \in Seq(ToSet(q))
    BY <1>2
  <1> HIDE DEF r
  <1>4. r \in Seq(ToSet(r))
    BY <1>3 DEF ToSet
  <1>5. QED
    BY <1>2, <1>4 DEF IsList, r

LEMMA EmptyList == IsList(<<>>) /\ ToSet(<<>>) = {}
  BY DEF IsList, ToSet

\* Another row in a place leaves the rest where it is.
LEMMA RowPut ==
    ASSUME RowsFit, NEW i \in RowIds, NEW r, saved' = [saved EXCEPT ![i] = r]
    PROVE  /\ saved' = [k \in RowIds |-> saved'[k]] /\ saved'[i] = r
           /\ \A k \in RowIds \ {i} : saved'[k] = saved[k]
  <1>1. DOMAIN saved = RowIds /\ saved = [k \in RowIds |-> saved[k]]
    BY DEF RowsFit
  <1>2. saved' = [k \in RowIds |-> IF k = i THEN r ELSE saved[k]]
    BY <1>1
  <1>3. QED
    BY <1>2

LEMMA SavedStays == ASSUME RowsFit, saved' = saved PROVE RowsFit'
  BY DEF RowsFit

\* The id of the next row is of none.
LEMMA NextIsFree ==
    ASSUME InUse # RowIds PROVE NextId \in RowIds /\ saved[NextId] = NoRow
  <1> DEFINE T == RowIds \ InUse
  <1>1. T \in SUBSET Nat /\ T # {}
    BY RowsAssumption DEF InUse
  <1>2. \E i \in T : \A k \in T : i <= k
    BY <1>1, LeastNumber
  <1>3. NextId \in T
    BY <1>2 DEF NextId
  <1>4. QED
    BY <1>3 DEF InUse

LEMMA RowIsNone == \A row : "name" \in DOMAIN row => row # NoRow
  <1>1. "name" \notin DOMAIN NoRow
    BY DEF NoRow
  <1>2. QED
    BY <1>1

LEMMA NewRowFits ==
    ASSUME NEW name, NEW host
    PROVE  LET row == [name |-> name, host |-> host, jump |-> Nobody]
           IN  RowFits(row) /\ row # NoRow /\ row.name = name /\ row.host = host
  <1> DEFINE row == [name |-> name, host |-> host, jump |-> Nobody]
  <1>1. DOMAIN row = {"name", "host", "jump"} /\ row.name = name /\ row.host = host /\ row.jump = Nobody
    OBVIOUS
  <1> HIDE DEF row
  <1>2. RowFits(row) /\ row # NoRow
    BY <1>1, RowIsNone DEF RowFits
  <1>3. QED
    BY <1>1, <1>2 DEF row

\* One more row, of a name that none has.
RowAdded(i, name, host) ==
    /\ i \in RowIds /\ saved[i] = NoRow /\ \A k \in InUse : saved[k].name # name
    /\ saved' = [saved EXCEPT ![i] = [name |-> name, host |-> host, jump |-> Nobody]]

LEMMA RowsGrow ==
    ASSUME RowsFit, NEW i, NEW name, NEW host, RowAdded(i, name, host)
    PROVE  /\ RowsFit' /\ saved'[i] # NoRow /\ saved'[i].name = name /\ saved'[i].host = host
           /\ \A k \in RowIds \ {i} : saved'[k] = saved[k]
  <1> DEFINE row == [name |-> name, host |-> host, jump |-> Nobody]
  <1>1. RowFits(row) /\ row # NoRow /\ row.name = name /\ row.host = host
    BY NewRowFits
  <1>2. saved' = [saved EXCEPT ![i] = row]
    BY DEF RowAdded
  <1> HIDE DEF row
  <1>0. i \in RowIds /\ saved[i] = NoRow /\ \A k \in InUse : saved[k].name # name
    BY DEF RowAdded
  <1>3. /\ saved' = [k \in RowIds |-> saved'[k]] /\ saved'[i] = row
        /\ \A k \in RowIds \ {i} : saved'[k] = saved[k]
    BY <1>0, <1>2, RowPut
  <1>4. \A k \in RowIds : saved'[k] # NoRow => RowFits(saved'[k])
    BY <1>1, <1>3 DEF RowsFit
  <1>5. ASSUME NEW j \in RowIds, NEW k \in RowIds, saved'[j] # NoRow, saved'[k] # NoRow,
               saved'[j].name = saved'[k].name
        PROVE  j = k
    BY <1>0, <1>1, <1>3, <1>5 DEF RowsFit, InUse
  <1>6. RowsFit'
    BY <1>3, <1>4, <1>5 DEF RowsFit, RowFits
  <1>7. QED
    BY <1>1, <1>3, <1>6

\* One row less.
LEMMA RowsShrink ==
    ASSUME RowsFit, NEW i \in RowIds, saved' = [saved EXCEPT ![i] = NoRow]
    PROVE  RowsFit'
  <1>1. /\ saved' = [k \in RowIds |-> saved'[k]] /\ saved'[i] = NoRow
        /\ \A k \in RowIds \ {i} : saved'[k] = saved[k]
    BY RowPut
  <1>2. QED
    BY <1>1 DEF RowsFit, RowFits

\* Another jump host for a row.
LEMMA RowLinks ==
    ASSUME RowsFit, NEW i \in RowIds, saved[i] # NoRow, NEW to \in RowIds,
           saved' = [saved EXCEPT ![i].jump = to]
    PROVE  /\ RowsFit' /\ saved'[i].jump = to /\ saved'[i] # NoRow
           /\ saved'[i].name = saved[i].name /\ saved'[i].host = saved[i].host
           /\ \A k \in RowIds \ {i} : saved'[k] = saved[k]
  <1> DEFINE row == [saved[i] EXCEPT !.jump = to]
  <1>1. {"name", "host", "jump"} \subseteq DOMAIN saved[i]
    BY DEF RowsFit, RowFits
  <1>2. /\ DOMAIN row = DOMAIN saved[i] /\ row.jump = to /\ row.name = saved[i].name
        /\ row.host = saved[i].host
    BY <1>1
  <1>3. saved' = [saved EXCEPT ![i] = row]
    BY DEF RowsFit
  <1> HIDE DEF row
  <1>4. /\ saved' = [k \in RowIds |-> saved'[k]] /\ saved'[i] = row
        /\ \A k \in RowIds \ {i} : saved'[k] = saved[k]
    BY <1>3, RowPut
  <1>5. RowFits(row) /\ row # NoRow
    BY <1>1, <1>2, RowIsNone DEF RowFits
  <1>6. \A k \in RowIds : saved'[k] # NoRow => RowFits(saved'[k])
    BY <1>4, <1>5 DEF RowsFit
  <1>7. \A k \in RowIds : saved'[k] # NoRow => saved[k] # NoRow /\ saved'[k].name = saved[k].name
    BY <1>2, <1>4
  <1>8. ASSUME NEW j \in RowIds, NEW k \in RowIds, saved'[j] # NoRow, saved'[k] # NoRow,
               saved'[j].name = saved'[k].name
        PROVE  j = k
    BY <1>7, <1>8 DEF RowsFit
  <1>9. RowsFit'
    BY <1>4, <1>6, <1>8 DEF RowsFit, RowFits
  <1>10. QED
    BY <1>2, <1>4, <1>5, <1>9

\* The parts of an import that a step leaves as they were.
Same(q, r, parts) == ImportFields \subseteq DOMAIN q /\ \A f \in ImportFields \ parts : q[f] = r[f]

LEMMA StageMoves ==
    ASSUME NEW r, ImportFields \subseteq DOMAIN r, NEW stage
    PROVE  LET q == [r EXCEPT !.stage = stage] IN Same(q, r, {"stage"}) /\ q.stage = stage
  BY DEF Same, ImportFields

LEMMA QuietMoves ==
    ASSUME NEW r, ImportFields \subseteq DOMAIN r
    PROVE  LET q == [r EXCEPT !.quiet = FALSE] IN Same(q, r, {"quiet"}) /\ q.quiet = FALSE
  BY DEF Same, ImportFields

LEMMA JumpsMove ==
    ASSUME NEW r, ImportFields \subseteq DOMAIN r, NEW jumps
    PROVE  LET q == [r EXCEPT !.jumps = jumps] IN Same(q, r, {"jumps"}) /\ q.jumps = jumps
  BY DEF Same, ImportFields

Passed(r, todo, aliases) == [r EXCEPT !.todo = todo, !.aliases = aliases]
AddedTo(r, todo, used, aliases, added, jumps) ==
    [r EXCEPT !.todo = todo, !.used = used, !.aliases = aliases, !.added = added, !.jumps = jumps]

LEMMA TodoMoves ==
    ASSUME NEW r, ImportFields \subseteq DOMAIN r, NEW todo, NEW aliases,
           NEW q, q = Passed(r, todo, aliases)
    PROVE  Same(q, r, {"todo", "aliases"}) /\ q.todo = todo /\ q.aliases = aliases
  <1> DEFINE p == [r EXCEPT !.todo = todo]
  <1>1. Same(p, r, {"todo"}) /\ p.todo = todo
    BY DEF Same, ImportFields
  <1>2. q = [p EXCEPT !.aliases = aliases]
    BY DEF Passed
  <1> HIDE DEF p
  <1>3. Same(q, p, {"aliases"}) /\ q.aliases = aliases
    BY <1>1, <1>2 DEF Same, ImportFields
  <1>4. Same(q, r, {"todo", "aliases"}) /\ q.todo = todo
    BY <1>1, <1>3 DEF Same, ImportFields
  <1>5. QED
    BY <1>3, <1>4

LEMMA AllMove ==
    ASSUME NEW r, ImportFields \subseteq DOMAIN r, NEW todo, NEW used, NEW aliases, NEW added, NEW jumps,
           NEW q, q = AddedTo(r, todo, used, aliases, added, jumps)
    PROVE  /\ Same(q, r, {"todo", "used", "aliases", "added", "jumps"})
           /\ q.todo = todo /\ q.aliases = aliases /\ q.added = added /\ q.jumps = jumps
  <1> DEFINE p == [r EXCEPT !.todo = todo]
  <1>1. Same(p, r, {"todo"}) /\ p.todo = todo
    BY DEF Same, ImportFields
  <1> HIDE DEF p
  <1> DEFINE o == [p EXCEPT !.used = used]
  <1>2. Same(o, p, {"used"})
    BY <1>1 DEF Same, ImportFields
  <1> HIDE DEF o
  <1> DEFINE n == [o EXCEPT !.aliases = aliases]
  <1>3. Same(n, o, {"aliases"}) /\ n.aliases = aliases
    BY <1>2 DEF Same, ImportFields
  <1> HIDE DEF n
  <1> DEFINE m == [n EXCEPT !.added = added]
  <1>4. Same(m, n, {"added"}) /\ m.added = added
    BY <1>3 DEF Same, ImportFields
  <1> HIDE DEF m
  <1>0. q = [m EXCEPT !.jumps = jumps]
    BY DEF AddedTo, m, n, o, p
  <1>5. Same(q, m, {"jumps"}) /\ q.jumps = jumps
    BY <1>0, <1>4 DEF Same, ImportFields
  <1>6. Same(q, r, {"todo", "used", "aliases", "added", "jumps"})
    BY <1>1, <1>2, <1>3, <1>4, <1>5 DEF Same, ImportFields
  <1>7. q.todo = todo /\ q.aliases = aliases /\ q.added = added
    BY <1>1, <1>2, <1>3, <1>4, <1>5 DEF Same, ImportFields
  <1>8. QED
    BY <1>5, <1>6, <1>7

\* What the parts are after a step.
LEMMA SameParts ==
    ASSUME NEW q, NEW r, NEW parts, Same(q, r, parts)
    PROVE  /\ ImportFields \subseteq DOMAIN q
           /\ "stage" \notin parts => q.stage = r.stage
           /\ "sources" \notin parts => q.sources = r.sources
           /\ "quiet" \notin parts => q.quiet = r.quiet
           /\ "again" \notin parts => q.again = r.again
           /\ "todo" \notin parts => q.todo = r.todo
           /\ "existing" \notin parts => q.existing = r.existing
           /\ "aliases" \notin parts => q.aliases = r.aliases
           /\ "added" \notin parts => q.added = r.added
           /\ "jumps" \notin parts => q.jumps = r.jumps
  BY DEF Same, ImportFields

-----------------------------------------------------------------------------
(* Types. *)

LEMMA UnderWay ==
    ASSUME ImportShape, import.stage # "none"
    PROVE  ImportFits /\ ImportFields \subseteq DOMAIN import
  BY DEF ImportShape, ImportFits, NoImport

\* What each step of an import does to its parts.
LEMMA SkipParts ==
    ASSUME ImportShape, SkipKnown
    PROVE  \E c \in import.todo : \E i \in Twin(c) :
             /\ Same(import', import, {"todo", "aliases"})
             /\ import'.todo = import.todo \ {c} /\ import'.aliases = Remember(import.aliases, c, i)
             /\ import.stage = "adding" /\ UNCHANGED <<disk, saved, complete, imports, meddling>>
  <1>1. PICK c \in import.todo :
          /\ Twin(c) # {}
          /\ import' = [import EXCEPT !.todo = import.todo \ {c},
                               !.aliases = Remember(import.aliases, c, CHOOSE i \in Twin(c) : TRUE)]
    BY DEF SkipKnown
  <1>2. PICK i \in Twin(c) : i = CHOOSE k \in Twin(c) : TRUE
    BY <1>1
  <1> DEFINE todo == import.todo \ {c}
             aliases == Remember(import.aliases, c, i)
  <1>3. import' = Passed(import, todo, aliases)
    BY <1>1, <1>2 DEF Passed
  <1>4. ImportFields \subseteq DOMAIN import
    BY UnderWay DEF SkipKnown
  <1> HIDE DEF todo, aliases
  <1>5. Same(import', import, {"todo", "aliases"}) /\ import'.todo = todo /\ import'.aliases = aliases
    BY <1>3, <1>4, TodoMoves
  <1>6. QED
    BY <1>5 DEF todo, aliases, SkipKnown

FailParts == /\ import.stage \in {"adding", "linking"} /\ Same(import', import, {"stage"})
             /\ import'.stage = "failed" /\ UNCHANGED <<disk, saved, complete, imports, meddling>>

\* A candidate that is added as `name` in row i.
AddParts(c, i, name) ==
    /\ import.stage = "adding" /\ c \in import.todo /\ Twin(c) = {}
    /\ RowAdded(i, name, c.host)
    /\ name = Plain(c.name) \/ \E k : name = Final(c.name, c.source, k)
    /\ Same(import', import, {"todo", "used", "aliases", "added", "jumps"})
    /\ import'.todo = import.todo \ {c} /\ import'.aliases = Remember(import.aliases, c, i)
    /\ import'.added = import.added \cup {[name |-> name, id |-> i]}
    /\ import'.jumps = IF c.jump = Absent THEN import.jumps ELSE Append(import.jumps, Jump(c, i))
    /\ UNCHANGED <<disk, complete, imports, meddling>>

LEMMA UniqueIsNamed ==
    ASSUME NEW c, NEW used
    PROVE  UniqueName(c, used) = Plain(c.name) \/ \E k : UniqueName(c, used) = Final(c.name, c.source, k)
  BY DEF UniqueName

LEMMA AddedParts ==
    ASSUME ImportShape, AddCandidate
    PROVE  FailParts \/ \E c \in import.todo : \E i, name : AddParts(c, i, name)
  <1>1. ImportFields \subseteq DOMAIN import /\ import.stage = "adding" /\ InUse # RowIds
    BY UnderWay DEF AddCandidate
  <1>2. PICK c \in import.todo :
          /\ Twin(c) = {}
          /\ IF \E k \in InUse : saved[k].name = UniqueName(c, import.used)
             THEN import' = [import EXCEPT !.stage = "failed"] /\ UNCHANGED saved
             ELSE AddAs(c, UniqueName(c, import.used), NextId)
    BY DEF AddCandidate
  <1>3. UNCHANGED <<disk, complete, imports, meddling>>
    BY DEF AddCandidate
  <1>4. CASE import' = [import EXCEPT !.stage = "failed"] /\ UNCHANGED saved
    BY <1>1, <1>3, <1>4, StageMoves DEF FailParts
  <1>5. CASE /\ \A k \in InUse : saved[k].name # UniqueName(c, import.used)
             /\ AddAs(c, UniqueName(c, import.used), NextId)
    <2>1. PICK name : name = UniqueName(c, import.used)
      OBVIOUS
    <2>2. PICK i : i = NextId /\ i \in RowIds /\ saved[i] = NoRow
      BY <1>1, NextIsFree
    <2> DEFINE todo == import.todo \ {c}
               used == import.used \cup {name}
               aliases == Remember(import.aliases, c, i)
               added == import.added \cup {[name |-> name, id |-> i]}
               jumps == IF c.jump = Absent THEN import.jumps ELSE Append(import.jumps, Jump(c, i))
    <2>3. /\ saved' = [saved EXCEPT ![i] = [name |-> name, host |-> c.host, jump |-> Nobody]]
          /\ import' = AddedTo(import, todo, used, aliases, added, jumps)
      BY <1>5, <2>1, <2>2 DEF AddAs, Jump, AddedTo
    <2> HIDE DEF todo, used, aliases, added, jumps
    <2>4. /\ Same(import', import, {"todo", "used", "aliases", "added", "jumps"})
          /\ import'.todo = todo /\ import'.aliases = aliases /\ import'.added = added
          /\ import'.jumps = jumps
      BY <1>1, <2>3, AllMove
    <2>5. name = Plain(c.name) \/ \E k : name = Final(c.name, c.source, k)
      BY <2>1, UniqueIsNamed
    <2>6. RowAdded(i, name, c.host)
      BY <1>5, <2>1, <2>2, <2>3 DEF RowAdded
    <2>7. AddParts(c, i, name)
      BY <1>1, <1>2, <1>3, <2>4, <2>5, <2>6
         DEF AddParts, todo, aliases, added, jumps
    <2>8. QED
      BY <2>7
  <1>6. QED
    BY <1>2, <1>4, <1>5

LEMMA LinkParts ==
    ASSUME ImportShape, LinkJump
    PROVE  /\ import.stage = "linking" /\ import.jumps # <<>>
           /\ Same(import', import, {"jumps"}) /\ import'.jumps = Tail(import.jumps)
           /\ UNCHANGED <<disk, complete, imports, meddling>>
  <1>1. ImportFields \subseteq DOMAIN import
    BY UnderWay DEF LinkJump
  <1>2. import' = [import EXCEPT !.jumps = Tail(import.jumps)]
    BY DEF LinkJump
  <1>3. Same(import', import, {"jumps"}) /\ import'.jumps = Tail(import.jumps)
    BY <1>1, <1>2, JumpsMove
  <1>4. QED
    BY <1>3 DEF LinkJump

LEMMA ImportStarts ==
    ASSUME ImportInit PROVE ImportShape /\ RowsFit /\ import = NoImport /\ complete = {}
  <1>1. PICK first \in FirstRows : saved = [i \in RowIds |-> IF i = 1 THEN first ELSE NoRow]
    BY DEF ImportInit
  <1>2. first # NoRow => RowFits(first)
    BY RowsAssumption DEF RowFits
  <1>3. \A i \in RowIds : saved[i] # NoRow => i = 1 /\ saved[i] = first
    BY <1>1
  <1>4. saved = [i \in RowIds |-> saved[i]]
    BY <1>1
  <1>5. RowsFit
    BY <1>2, <1>3, <1>4 DEF RowsFit
  <1>6. imports \in 0..MaxImports /\ meddling \in 0..MaxMeddling
    BY RowsAssumption DEF ImportInit
  <1>7. QED
    BY <1>5, <1>6 DEF ImportInit, ImportShape

LEMMA StartParts ==
    ASSUME NEW sources, StartImport(sources)
    PROVE  /\ ImportFields \subseteq DOMAIN import' /\ import'.stage = "adding"
           /\ import'.sources = sources /\ import'.quiet = TRUE
           /\ import'.again = (sources \subseteq complete)
           /\ import'.todo = UNION {Read(s) : s \in sources} /\ import'.existing = saved
           /\ import'.aliases = {} /\ import'.added = {} /\ import'.jumps = <<>>
           /\ imports < MaxImports /\ imports' = imports + 1
           /\ UNCHANGED <<disk, saved, complete, meddling>>
  <1> DEFINE again == sources \subseteq complete
             todo == UNION {Read(s) : s \in sources}
             used == {saved[i].name : i \in InUse}
  <1>1. import' = [stage |-> "adding", sources |-> sources, quiet |-> TRUE, again |-> again,
                   todo |-> todo, existing |-> saved, used |-> used, aliases |-> {}, added |-> {},
                   jumps |-> <<>>]
    BY DEF StartImport
  <1> HIDE DEF again, todo, used
  <1>2. /\ ImportFields \subseteq DOMAIN import' /\ import'.stage = "adding"
        /\ import'.sources = sources /\ import'.quiet = TRUE /\ import'.again = again
        /\ import'.todo = todo /\ import'.existing = saved
        /\ import'.aliases = {} /\ import'.added = {} /\ import'.jumps = <<>>
    BY <1>1 DEF ImportFields
  <1>3. QED
    BY <1>2 DEF StartImport, again, todo

LEMMA RememberIds ==
    ASSUME NEW aliases, \A a \in aliases : a.id \in RowIds, NEW c, NEW i \in RowIds
    PROVE  \A a \in Remember(aliases, c, i) : a.id \in RowIds
  BY DEF Remember

LEMMA StartFits ==
    ASSUME ImportShape, RowsFit, NEW sources \in SUBSET ToSet(Kinds), StartImport(sources)
    PROVE  ImportShape' /\ RowsFit'
  <1>1. RowsFit'
    BY StartParts, SavedStays
  <1>2. ImportFits'
    <2>1. /\ ImportFields \subseteq DOMAIN import' /\ import'.stage = "adding"
          /\ import'.sources = sources /\ import'.aliases = {} /\ import'.added = {}
          /\ import'.jumps = <<>>
      BY StartParts
    <2>2. IsList(import'.jumps) /\ ToSet(import'.jumps) = {}
      BY <2>1, EmptyList
    <2> QED
      BY <2>1, <2>2 DEF ImportFits
  <1>3. imports' \in 0..MaxImports
    <2>1. imports < MaxImports /\ imports' = imports + 1
      BY DEF StartImport
    <2>2. MaxImports \in Nat /\ imports \in 0..MaxImports
      BY RowsAssumption DEF ImportShape
    <2> QED
      BY <2>1, <2>2
  <1>4. QED
    BY <1>1, <1>2, <1>3, StartParts DEF ImportShape

LEMMA SkipFits ==
    ASSUME ImportShape, RowsFit, SkipKnown PROVE ImportShape' /\ RowsFit'
  <1>1. PICK c \in import.todo : \E i \in Twin(c) :
          /\ Same(import', import, {"todo", "aliases"})
          /\ import'.todo = import.todo \ {c} /\ import'.aliases = Remember(import.aliases, c, i)
          /\ import.stage = "adding" /\ UNCHANGED <<disk, saved, complete, imports, meddling>>
    BY SkipParts
  <1>2. PICK i \in Twin(c) :
          /\ Same(import', import, {"todo", "aliases"})
          /\ import'.todo = import.todo \ {c} /\ import'.aliases = Remember(import.aliases, c, i)
          /\ import.stage = "adding" /\ UNCHANGED <<disk, saved, complete, imports, meddling>>
    BY <1>1
  <1>3. i \in RowIds
    BY DEF Twin
  <1>4. ImportFits
    BY <1>2, UnderWay
  <1>5. \A a \in import'.aliases : a.id \in RowIds
    BY <1>2, <1>3, <1>4, RememberIds DEF ImportFits
  <1>6. ImportFits'
    BY <1>2, <1>4, <1>5, SameParts DEF ImportFits
  <1>7. QED
    BY <1>2, <1>6, SavedStays DEF ImportShape

LEMMA FailFits ==
    ASSUME ImportShape, RowsFit, FailParts PROVE ImportShape' /\ RowsFit'
  <1>1. RowsFit'
    BY SavedStays DEF FailParts
  <1>2. ImportFits
    BY UnderWay DEF FailParts
  <1>3. Same(import', import, {"stage"}) /\ import'.stage = "failed"
    BY DEF FailParts
  <1>4. ImportFits'
    BY <1>2, <1>3, SameParts DEF ImportFits
  <1>5. QED
    BY <1>1, <1>4 DEF ImportShape, FailParts

LEMMA AddFits ==
    ASSUME ImportShape, RowsFit, NEW c, NEW i, NEW name, AddParts(c, i, name)
    PROVE  ImportShape' /\ RowsFit'
  <1>1. RowsFit'
    BY RowsGrow DEF AddParts
  <1>2. ImportFits
    BY UnderWay DEF AddParts
  <1>0. i \in RowIds
    BY DEF AddParts, RowAdded
  <1>3. \A a \in import'.aliases : a.id \in RowIds
    BY <1>0, <1>2, RememberIds DEF AddParts, ImportFits
  <1>4. \A a \in import'.added : a.id \in RowIds
    BY <1>0, <1>2 DEF AddParts, ImportFits
  <1>5. IsList(import'.jumps) /\ \A jump \in ToSet(import'.jumps) : jump.id \in RowIds
    <2>1. CASE c.jump = Absent
      BY <1>2, <2>1 DEF AddParts, ImportFits
    <2>2. CASE c.jump # Absent
      <3>1. /\ IsList(Append(import.jumps, Jump(c, i)))
            /\ ToSet(Append(import.jumps, Jump(c, i))) = ToSet(import.jumps) \cup {Jump(c, i)}
        BY <1>2, ListAppend DEF ImportFits
      <3>2. Jump(c, i).id \in RowIds
        BY <1>0 DEF Jump
      <3>3. QED
        BY <1>2, <2>2, <3>1, <3>2 DEF AddParts, ImportFits
    <2>3. QED
      BY <2>1, <2>2
  <1>6. Same(import', import, {"todo", "used", "aliases", "added", "jumps"})
    BY DEF AddParts
  <1>7. ImportFits'
    BY <1>2, <1>3, <1>4, <1>5, <1>6, SameParts DEF ImportFits
  <1>8. QED
    BY <1>1, <1>7 DEF ImportShape, AddParts

\* A link concerns the row that is next only, and not its name and host.
LEMMA LinkRow ==
    ASSUME ImportShape, RowsFit, LinkJump, NEW h, h = Head(import.jumps)
    PROVE  /\ h \in ToSet(import.jumps) /\ h.id \in RowIds /\ RowsFit'
           /\ \A k \in RowIds \ {h.id} : saved'[k] = saved[k]
           /\ saved[h.id] # NoRow => /\ saved'[h.id] # NoRow /\ saved'[h.id].name = saved[h.id].name
                                     /\ saved'[h.id].host = saved[h.id].host
           /\ saved[h.id] # NoRow /\ (\E to \in Linked(h) : to # h.id) =>
                saved'[h.id].jump = CHOOSE to \in Linked(h) : TRUE
  <1>1. ImportFits /\ import.jumps # <<>>
    BY UnderWay DEF LinkJump
  <1>2. h = import.jumps[1] /\ 1 \in 1..Len(import.jumps)
    BY <1>1, ListTail, ListParts DEF ImportFits
  <1>3. h \in ToSet(import.jumps)
    BY <1>1, <1>2, ListParts DEF ImportFits
  <1>4. h.id \in RowIds
    BY <1>1, <1>3 DEF ImportFits
  <1>5. Linked(h) \subseteq RowIds
    BY <1>1 DEF Linked, ByAlias, ByNewName, ByOldName, ImportFits
  <1>6. saved' = IF \E to \in Linked(h) : to # h.id /\ saved[h.id] # NoRow
                 THEN [saved EXCEPT ![h.id].jump = CHOOSE to \in Linked(h) : TRUE] ELSE saved
    BY DEF LinkJump
  <1>7. CASE \E to \in Linked(h) : to # h.id /\ saved[h.id] # NoRow
    <2>1. PICK to \in RowIds : to = CHOOSE t \in Linked(h) : TRUE
      BY <1>5, <1>7
    <2>2. saved' = [saved EXCEPT ![h.id].jump = to]
      BY <1>6, <1>7, <2>1
    <2>3. PICK i \in RowIds : i = h.id
      BY <1>4
    <2>4. saved' = [saved EXCEPT ![i].jump = to] /\ saved[i] # NoRow
      BY <1>7, <2>2, <2>3
    <2>5. /\ RowsFit' /\ saved'[i].jump = to /\ saved'[i] # NoRow
          /\ saved'[i].name = saved[i].name /\ saved'[i].host = saved[i].host
          /\ \A k \in RowIds \ {i} : saved'[k] = saved[k]
      BY <2>4, RowLinks
    <2>6. QED
      BY <1>3, <2>1, <2>3, <2>5
  <1>8. CASE ~\E to \in Linked(h) : to # h.id /\ saved[h.id] # NoRow
    <2>1. saved' = saved
      BY <1>6, <1>8
    <2>2. QED
      BY <1>3, <1>4, <1>8, <2>1, SavedStays
  <1>9. QED
    BY <1>7, <1>8

LEMMA LinkFits ==
    ASSUME ImportShape, RowsFit, LinkJump PROVE ImportShape' /\ RowsFit'
  <1>1. RowsFit'
    BY LinkRow
  <1>2. ImportFits /\ import.jumps # <<>>
    BY UnderWay DEF LinkJump
  <1>3. PICK q : q = Tail(import.jumps)
    OBVIOUS
  <1>4. /\ IsList(q) /\ Len(q) = Len(import.jumps) - 1 /\ Len(import.jumps) > 0
        /\ \A n \in 1..(Len(import.jumps) - 1) : q[n] = import.jumps[n + 1]
    BY <1>2, <1>3, ListTail DEF ImportFits
  <1>5. Len(import.jumps) \in Nat /\ \A n \in 1..Len(import.jumps) : import.jumps[n] \in ToSet(import.jumps)
    BY <1>2, ListParts DEF ImportFits
  <1>6. \A y \in ToSet(q) : \E n \in 1..Len(q) : q[n] = y
    BY <1>4, ListParts
  <1>7. ToSet(q) \subseteq ToSet(import.jumps)
    <2>1. ASSUME NEW y \in ToSet(q) PROVE y \in ToSet(import.jumps)
      <3>1. PICK n \in 1..Len(q) : q[n] = y
        BY <1>6
      <3>2. n \in 1..(Len(import.jumps) - 1) /\ n + 1 \in 1..Len(import.jumps)
        BY <1>4, <1>5
      <3>3. QED
        BY <1>4, <1>5, <3>1, <3>2
    <2>2. QED
      BY <2>1
  <1>8. ImportFits'
    BY <1>2, <1>3, <1>4, <1>7, LinkParts, SameParts DEF ImportFits
  <1>9. QED
    BY <1>1, <1>8, LinkParts DEF ImportShape

\* The steps that change only the stage.
LEMMA StageParts ==
    ASSUME ImportShape
    PROVE  /\ BreakImport => FailParts
           /\ StartLinking => /\ Same(import', import, {"stage"}) /\ import'.stage = "linking"
                              /\ UNCHANGED <<disk, saved, complete, imports, meddling>>
           /\ FinishImport => /\ Same(import', import, {"stage"}) /\ import'.stage = "done"
                              /\ UNCHANGED <<disk, saved, imports, meddling>>
  <1>1. ASSUME BreakImport PROVE FailParts
    BY <1>1, UnderWay, StageMoves DEF BreakImport, FailParts
  <1>2. ASSUME StartLinking
        PROVE  /\ Same(import', import, {"stage"}) /\ import'.stage = "linking"
               /\ UNCHANGED <<disk, saved, complete, imports, meddling>>
    BY <1>2, UnderWay, StageMoves DEF StartLinking
  <1>3. ASSUME FinishImport
        PROVE  /\ Same(import', import, {"stage"}) /\ import'.stage = "done"
               /\ UNCHANGED <<disk, saved, imports, meddling>>
    BY <1>3, UnderWay, StageMoves DEF FinishImport
  <1>4. QED
    BY <1>1, <1>2, <1>3

LEMMA StageFits ==
    ASSUME ImportShape, RowsFit, StartLinking \/ FinishImport PROVE ImportShape' /\ RowsFit'
  <1>1. /\ Same(import', import, {"stage"}) /\ import'.stage \in {"linking", "done"}
        /\ UNCHANGED <<disk, saved, imports, meddling>>
    BY StageParts
  <1>2. ImportFits
    BY UnderWay DEF StartLinking, FinishImport
  <1>3. ImportFits'
    BY <1>1, <1>2, SameParts DEF ImportFits
  <1>4. complete' \subseteq ToSet(Kinds)
    BY <1>2 DEF ImportShape, ImportFits, StartLinking, FinishImport
  <1>5. QED
    BY <1>1, <1>3, <1>4, SavedStays DEF ImportShape

\* What another process does to an import: it is not undisturbed any more.
MeddleParts ==
    /\ complete' = {} /\ meddling < MaxMeddling /\ meddling' = meddling + 1
    /\ UNCHANGED <<disk, imports>>
    /\ \/ import' = NoImport /\ import = NoImport
       \/ import.stage # "none" /\ Same(import', import, {"quiet"}) /\ import'.quiet = FALSE

LEMMA Meddled ==
    ASSUME ImportShape, Meddle PROVE MeddleParts
  <1>1. CASE import.stage = "none"
    BY <1>1 DEF ImportShape, ImportFits, Meddle, MeddleParts
  <1>2. CASE import.stage # "none"
    BY <1>2, UnderWay, QuietMoves DEF Meddle, MeddleParts
  <1>3. QED
    BY <1>1, <1>2

LEMMA OtherFits ==
    ASSUME ImportShape, RowsFit, (\E n : OtherAdds(n)) \/ \E i \in RowIds : OtherDeletes(i)
    PROVE  ImportShape' /\ RowsFit' /\ MeddleParts
  <1>1. MeddleParts
    BY Meddled DEF OtherAdds, OtherDeletes
  <1>2. import' = NoImport \/ ImportFits'
    <2>1. CASE import.stage # "none" /\ Same(import', import, {"quiet"})
      <3>1. ImportFits
        BY <2>1, UnderWay
      <3>2. QED
        BY <2>1, <3>1, SameParts DEF ImportFits
    <2>2. QED
      BY <1>1, <2>1 DEF MeddleParts
  <1>3. meddling' \in 0..MaxMeddling
    BY <1>1, RowsAssumption DEF MeddleParts, ImportShape
  <1>4. ImportShape'
    BY <1>1, <1>2, <1>3 DEF MeddleParts, ImportShape
  <1>5. ASSUME NEW n, OtherAdds(n) PROVE RowsFit'
    <2>1. PICK i : i = NextId /\ i \in RowIds /\ saved[i] = NoRow
      BY <1>5, NextIsFree DEF OtherAdds
    <2>2. PICK name : name = Plain(n)
      OBVIOUS
    <2>0. PICK host : host = OtherHost
      OBVIOUS
    <2>3. RowAdded(i, name, host)
      BY <1>5, <2>0, <2>1, <2>2 DEF OtherAdds, RowAdded
    <2>4. QED
      BY <2>3, RowsGrow
  <1>6. ASSUME NEW i \in RowIds, OtherDeletes(i) PROVE RowsFit'
    BY <1>6, RowsShrink DEF OtherDeletes
  <1>7. QED
    BY <1>1, <1>4, <1>5, <1>6

LEMMA ShapeStep ==
    ASSUME ImportShape, RowsFit, [ImportNext]_importVars PROVE ImportShape' /\ RowsFit'
  <1>1. ASSUME NEW sources \in {{k} : k \in ToSet(Kinds)} \cup {ToSet(Kinds)}, StartImport(sources)
        PROVE  ImportShape' /\ RowsFit'
    <2>1. sources \in SUBSET ToSet(Kinds)
      OBVIOUS
    <2>2. QED
      BY <1>1, <2>1, StartFits
  <1>2. CASE SkipKnown
    BY <1>2, SkipFits
  <1>3. CASE AddCandidate
    BY <1>3, AddedParts, AddFits, FailFits
  <1>4. CASE StartLinking \/ FinishImport
    BY <1>4, StageFits
  <1>5. CASE LinkJump
    BY <1>5, LinkFits
  <1>6. CASE BreakImport
    BY <1>6, StageParts, FailFits
  <1>7. CASE (\E n \in ToSet(Alphabet) : OtherAdds(n)) \/ \E i \in RowIds : OtherDeletes(i)
    BY <1>7, OtherFits
  <1>8. CASE UNCHANGED importVars
    BY <1>8, SavedStays DEF importVars, ImportShape, ImportFits
  <1>9. QED
    BY <1>1, <1>2, <1>3, <1>4, <1>5, <1>6, <1>7, <1>8 DEF ImportNext

LEMMA ShapeTypes ==
    ASSUME ImportShape, RowsFit PROVE ImportTypeOK
  <1>1. import.stage \in {"none", "adding", "linking", "done", "failed"}
    BY DEF ImportShape, ImportFits, NoImport
  <1>2. QED
    BY <1>1 DEF ImportShape, RowsFit, RowFits, ImportTypeOK

\* Whatever profiles there are and however far an import comes, the servers have names of their
\* own and jump hosts that are ids of servers.
THEOREM ImportTypes == ImportSpec => []ImportTypeOK
  <1>1. ImportInit => ImportShape /\ RowsFit
    BY ImportStarts
  <1>2. ImportShape /\ RowsFit /\ [ImportNext]_importVars => (ImportShape /\ RowsFit)'
    BY ShapeStep
  <1>3. ImportShape /\ RowsFit => ImportTypeOK
    BY ShapeTypes
  <1>4. QED
    BY <1>1, <1>2, <1>3, PTL DEF ImportSpec

-----------------------------------------------------------------------------
(* What an import has done so far. *)

LEMMA ReadStays == disk' = disk => \A s : Read(s)' = Read(s)
  BY DEF Read, Lines

LEMMA CandidatesStay ==
    ASSUME disk' = disk, import'.sources = import.sources
    PROVE  Candidates' = Candidates
  BY ReadStays DEF Candidates

LEMMA KindsAre == ToSet(Kinds) = {"openssh", "putty", "tabby"}
  <1>1. Kinds \in Seq({"openssh", "putty", "tabby"}) /\ Len(Kinds) = 3
        /\ Kinds[1] = "openssh" /\ Kinds[2] = "putty" /\ Kinds[3] = "tabby"
    BY DEF Kinds
  <1>2. DOMAIN Kinds = 1..3
    BY <1>1
  <1>3. 1..3 = {1, 2, 3}
    OBVIOUS
  <1>4. QED
    BY <1>1, <1>2, <1>3 DEF ToSet

LEMMA ReadSource == \A s \in ToSet(Kinds) : \A c \in Read(s) : c.source = s /\ c.source # ""
  <1>1. \A lines : \A c \in OpenSsh(lines) : c.source = "openssh"
    <2>1. SUFFICES ASSUME NEW lines, NEW c \in OpenSsh(lines) PROVE c.source = "openssh"
      OBVIOUS
    <2>2. PICK a, host, jump : c = Candidate("openssh", 0, a, a, host, jump)
      BY DEF OpenSsh
    <2>3. QED
      BY <2>2 DEF Candidate
  <1>2. \A sessions : \A c \in Putty(sessions) : c.source = "putty"
    <2>1. SUFFICES ASSUME NEW sessions, NEW c \in Putty(sessions) PROVE c.source = "putty"
      OBVIOUS
    <2>2. PICK n, host : c = Candidate("putty", 0, n, n, host, Absent)
      BY DEF Putty
    <2>3. QED
      BY <2>2 DEF Candidate
  <1>3. \A profiles : \A c \in Tabby(profiles) : c.source = "tabby"
    <2>1. SUFFICES ASSUME NEW profiles, NEW c \in Tabby(profiles) PROVE c.source = "tabby"
      OBVIOUS
    <2>2. PICK i, id, n, host, jump : c = Candidate("tabby", i, id, n, host, jump)
      BY DEF Tabby
    <2>3. QED
      BY <2>2 DEF Candidate
  <1>4. QED
    BY <1>1, <1>2, <1>3, KindsAre DEF Read

LEMMA Remembers ==
    ASSUME NEW c, NEW i, import'.aliases = Remember(import.aliases, c, i)
    PROVE  KnownAs(c.source, c.name)' = {i}
  <1>1. \A a \in import'.aliases : a.source = c.source /\ a.name = c.name => a.id = i
    BY DEF Remember
  <1>2. PICK a : a = [source |-> c.source, name |-> c.name, id |-> i]
    OBVIOUS
  <1>3. a \in import'.aliases /\ a.source = c.source /\ a.name = c.name /\ a.id = i
    BY <1>2 DEF Remember
  <1>4. QED
    BY <1>1, <1>3 DEF KnownAs

LEMMA Forgets ==
    ASSUME NEW c, NEW i, import'.aliases = Remember(import.aliases, c, i), NEW source, NEW name,
           source # c.source \/ name \notin {c.id, c.name}
    PROVE  KnownAs(source, name)' = KnownAs(source, name)
  <1>1. ASSUME NEW a, a.source = source, a.name = name
        PROVE  a \in import'.aliases <=> a \in import.aliases
    BY <1>1 DEF Remember
  <1>2. QED
    BY <1>1 DEF KnownAs

\* A candidate that was dealt with stays so while others are.
LEMMA MadeStays ==
    ASSUME NEW c \in Candidates, NEW i, import'.aliases = Remember(import.aliases, c, i),
           import.stage = "adding", Candidates' = Candidates, import'.existing = import.existing,
           import.added \subseteq import'.added, ToSet(import.jumps) \subseteq ToSet(import'.jumps),
           NEW e \in Candidates, e # c, NEW k, saved'[k] = saved[k], Made(e, k)
    PROVE  Made(e, k)'
  <1>1. NamedFor(e, k)'
    BY DEF Made, NamedFor
  <1>2. Unclaimed(e)' => KnownAs(e.source, e.name)' = {k}
    <2>1. SUFFICES ASSUME Unclaimed(e) PROVE KnownAs(e.source, e.name)' = {k}
      BY DEF Unclaimed
    <2>2. e.source # c.source \/ e.name \notin {c.id, c.name}
      BY <2>1 DEF Unclaimed
    <2>3. KnownAs(e.source, e.name) = {k}
      BY <2>1 DEF Made
    <2>4. QED
      BY <2>2, <2>3, Forgets
  <1>3. IsNew(k) /\ e.jump # Absent => Jump(e, k) \in ToSet(import.jumps)
    BY DEF Made, IsLinked
  <1>4. Jump(e, k)' = Jump(e, k) /\ IsNew(k)' = IsNew(k)
    BY DEF Jump, IsNew
  <1>5. saved'[k] # NoRow /\ saved'[k].host = e.host
    BY DEF Made
  <1>6. QED
    BY <1>1, <1>2, <1>3, <1>4, <1>5 DEF Made

LEMMA StartProgresses ==
    ASSUME ImportSound, NEW sources \in SUBSET ToSet(Kinds), StartImport(sources)
    PROVE  Progresses' /\ CompletesHold'
  <1>1. /\ import'.stage = "adding" /\ import'.sources = sources /\ import'.quiet = TRUE
        /\ import'.again = (sources \subseteq complete)
        /\ import'.todo = UNION {Read(s) : s \in sources} /\ import'.existing = saved
        /\ import'.added = {} /\ import'.jumps = <<>>
        /\ disk' = disk /\ saved' = saved /\ complete' = complete
    BY StartParts
  <1>2. \A s : Read(s)' = Read(s)
    BY <1>1, ReadStays
  <1>3. Candidates' = import'.todo
    BY <1>1, <1>2 DEF Candidates
  <1>4. CompletesHold'
    BY <1>1, <1>2 DEF CompletesHold, IsThere, ImportSound
  <1>5. Kept' /\ Placed'
    BY <1>1, <1>3 DEF Kept, Placed
  <1>6. LinksFit'
    <2>1. ToSet(import'.jumps) = {}
      BY <1>1, EmptyList
    <2>2. DOMAIN import'.jumps = {}
      BY <1>1
    <2>3. QED
      BY <2>1, <2>2 DEF LinksFit
  <1>7. import'.again => Repeats'
    <2>1. SUFFICES ASSUME sources \subseteq complete PROVE Repeats'
      BY <1>1
    <2>2. ASSUME NEW c \in import'.todo PROVE Twin(c)' # {}
      <3>1. PICK s \in complete : c \in Read(s)
        BY <1>1, <2>1, <2>2
      <3>2. PICK i \in RowIds : saved[i] # NoRow /\ saved[i].name = Plain(c.name) /\ saved[i].host = c.host
        BY <3>1 DEF ImportSound, CompletesHold, IsThere
      <3>3. i \in Twin(c)'
        BY <1>1, <3>2 DEF Twin
      <3>4. QED
        BY <3>3
    <2>3. QED
      BY <1>1, <2>2 DEF Repeats
  <1>8. QED
    BY <1>1, <1>3, <1>4, <1>5, <1>6, <1>7 DEF Progresses

LEMMA SkipProgresses ==
    ASSUME ImportSound, SkipKnown PROVE Progresses' /\ CompletesHold'
  <1>0. ImportShape /\ Progresses /\ CompletesHold
    BY DEF ImportSound
  <1>1. PICK c \in import.todo : \E i \in Twin(c) :
          /\ Same(import', import, {"todo", "aliases"})
          /\ import'.todo = import.todo \ {c} /\ import'.aliases = Remember(import.aliases, c, i)
          /\ import.stage = "adding" /\ UNCHANGED <<disk, saved, complete, imports, meddling>>
    BY <1>0, SkipParts
  <1>2. PICK i \in Twin(c) :
          /\ Same(import', import, {"todo", "aliases"})
          /\ import'.todo = import.todo \ {c} /\ import'.aliases = Remember(import.aliases, c, i)
          /\ import.stage = "adding" /\ UNCHANGED <<disk, saved, complete, imports, meddling>>
    BY <1>1
  <1>3. /\ import'.stage = "adding" /\ import'.sources = import.sources
        /\ import'.quiet = import.quiet /\ import'.again = import.again
        /\ import'.existing = import.existing /\ import'.added = import.added
        /\ import'.jumps = import.jumps
    BY <1>2, SameParts
  <1>4. Candidates' = Candidates
    BY <1>2, <1>3, CandidatesStay
  <1>5. CompletesHold'
    BY <1>0, <1>2, ReadStays DEF CompletesHold, IsThere
  <1>6. import'.todo \subseteq Candidates'
    BY <1>0, <1>2, <1>4 DEF Progresses
  <1>7. ASSUME import.quiet PROVE Kept' /\ LinksFit' /\ Placed'
    <2>1. Kept /\ LinksFit /\ Placed
      BY <1>0, <1>2, <1>7 DEF Progresses
    <2>2. Kept' /\ LinksFit'
      BY <1>2, <1>3, <2>1 DEF Kept, LinksFit
    <2>3. Made(c, i)'
      <3>1. i \in RowIds /\ import.existing[i] # NoRow /\ import.existing[i].name = Plain(c.name)
            /\ import.existing[i].host = c.host
        BY DEF Twin
      <3>2. saved'[i] # NoRow /\ saved'[i].name = Plain(c.name) /\ saved'[i].host = c.host
        BY <1>2, <2>1, <3>1 DEF Kept
      <3>3. NamedFor(c, i)'
        BY <3>2 DEF NamedFor
      <3>4. ~IsNew(i)'
        BY <1>3, <3>1 DEF IsNew
      <3>5. KnownAs(c.source, c.name)' = {i}
        BY <1>2, Remembers
      <3>6. QED
        BY <3>2, <3>3, <3>4, <3>5 DEF Made
    <2>4. ASSUME NEW e \in Candidates, e \notin import.todo \ {c} PROVE \E k \in RowIds : Made(e, k)'
      <3>1. CASE e = c
        BY <2>3, <3>1 DEF Twin
      <3>2. CASE e # c
        <4>1. PICK k \in RowIds : Made(e, k)
          BY <2>1, <2>4, <3>2 DEF Placed
        <4>2. c \in Candidates
          BY <1>0, <1>2 DEF Progresses
        <4>3. Made(e, k)'
          BY <1>2, <1>3, <1>4, <3>2, <4>1, <4>2, MadeStays
        <4>4. QED
          BY <4>3
      <3>3. QED
        BY <3>1, <3>2
    <2>5. Placed'
      BY <1>2, <1>4, <2>4 DEF Placed
    <2>6. QED
      BY <2>2, <2>5
  <1>8. import.again => Repeats'
    BY <1>0, <1>2, <1>3 DEF Progresses, Repeats, Twin
  <1>9. QED
    BY <1>3, <1>5, <1>6, <1>7, <1>8 DEF Progresses

LEMMA FailProgresses ==
    ASSUME ImportSound, FailParts PROVE Progresses' /\ CompletesHold'
  BY ReadStays DEF ImportSound, FailParts, Progresses, CompletesHold, IsThere

LEMMA AddProgresses ==
    ASSUME ImportSound, NEW c, NEW i, NEW name, AddParts(c, i, name) PROVE Progresses' /\ CompletesHold'
  <1>0. ImportShape /\ RowsFit /\ Progresses /\ CompletesHold
    BY DEF ImportSound
  <1>1. /\ import.stage = "adding" /\ c \in import.todo /\ Twin(c) = {}
        /\ import'.todo = import.todo \ {c} /\ import'.aliases = Remember(import.aliases, c, i)
        /\ import'.added = import.added \cup {[name |-> name, id |-> i]}
        /\ disk' = disk /\ complete' = complete
    BY DEF AddParts
  <1>2. /\ import'.stage = "adding" /\ import'.sources = import.sources
        /\ import'.quiet = import.quiet /\ import'.again = import.again
        /\ import'.existing = import.existing
    <2>1. Same(import', import, {"todo", "used", "aliases", "added", "jumps"})
      BY DEF AddParts
    <2>2. QED
      BY <1>1, <2>1, SameParts
  <1>3. /\ i \in RowIds /\ saved[i] = NoRow /\ saved'[i] # NoRow
        /\ saved'[i].name = name /\ saved'[i].host = c.host
        /\ \A k \in RowIds \ {i} : saved'[k] = saved[k]
    <2>1. RowAdded(i, name, c.host)
      BY DEF AddParts
    <2>2. QED
      BY <1>0, <2>1, RowsGrow DEF RowAdded
  <1>4. Candidates' = Candidates
    BY <1>1, <1>2, CandidatesStay
  <1>5. CompletesHold'
    <2>1. \A e : IsThere(e) => IsThere(e)'
      BY <1>3 DEF IsThere
    <2>2. QED
      BY <1>0, <1>1, <2>1, ReadStays DEF CompletesHold
  <1>6. import'.todo \subseteq Candidates' /\ c \in Candidates
    BY <1>0, <1>1, <1>4 DEF Progresses
  <1>7. ~import.again
    BY <1>0, <1>1 DEF Progresses, Repeats
  <1>8. ASSUME import.quiet PROVE Kept' /\ LinksFit' /\ Placed'
    <2>1. Kept /\ LinksFit /\ Placed
      BY <1>0, <1>1, <1>8 DEF Progresses
    <2>2. Kept' /\ import.existing[i] = NoRow
      BY <1>2, <1>3, <2>1 DEF Kept
    <2>3. /\ IsList(import.jumps) /\ \A jump \in ToSet(import.jumps) : jump.id \in RowIds \ {i}
      <3>1. IsList(import.jumps) /\ \A jump \in ToSet(import.jumps) : jump.id \in RowIds
        BY <1>0, <1>1, UnderWay DEF ImportFits
      <3>2. QED
        BY <1>3, <2>1, <3>1 DEF LinksFit
    <2>4. /\ LinksFit' /\ ToSet(import.jumps) \subseteq ToSet(import'.jumps)
          /\ c.jump # Absent => Jump(c, i) \in ToSet(import'.jumps)
      <3>1. CASE c.jump = Absent
        <4>1. import'.jumps = import.jumps
          BY <3>1 DEF AddParts
        <4>2. QED
          BY <1>2, <1>3, <2>1, <2>3, <3>1, <4>1 DEF LinksFit
      <3>2. CASE c.jump # Absent
        <4>1. PICK x : x = Jump(c, i)
          OBVIOUS
        <4>2. import'.jumps = Append(import.jumps, x)
          BY <3>2, <4>1 DEF AddParts
        <4>3. ToSet(import'.jumps) = ToSet(import.jumps) \cup {x}
          BY <2>3, <4>2, ListAppend
        <4>4. x.id = i
          BY <4>1 DEF Jump
        <4>5. \A jump \in ToSet(import'.jumps) :
                saved'[jump.id] # NoRow /\ import'.existing[jump.id] = NoRow
          BY <1>2, <1>3, <2>1, <2>2, <2>3, <4>3, <4>4 DEF LinksFit
        <4>6. ASSUME NEW m \in DOMAIN import'.jumps, NEW n \in DOMAIN import'.jumps,
                     import'.jumps[m].id = import'.jumps[n].id
              PROVE  m = n
          <5>1. /\ DOMAIN import.jumps = 1..Len(import.jumps) /\ Len(import.jumps) \in Nat
                /\ \A l \in 1..Len(import.jumps) : import.jumps[l].id # i
            BY <2>3, ListParts
          <5>2. /\ DOMAIN import'.jumps = 1..(Len(import.jumps) + 1)
                /\ import'.jumps[Len(import.jumps) + 1] = x
                /\ \A l \in 1..Len(import.jumps) : import'.jumps[l] = import.jumps[l]
            <6>1. PICK q : q = import.jumps /\ IsList(q)
              BY <2>3
            <6>2. q \in Seq(ToSet(q) \cup {x})
              BY <6>1 DEF IsList
            <6>3. PICK S : S = ToSet(q) \cup {x}
              OBVIOUS
            <6>4. q \in Seq(S) /\ x \in S
              BY <6>2, <6>3
            <6>5. /\ DOMAIN Append(q, x) = 1..(Len(q) + 1) /\ Append(q, x)[Len(q) + 1] = x
                  /\ \A l \in 1..Len(q) : Append(q, x)[l] = q[l]
              BY <6>4
            <6>6. QED
              BY <4>2, <6>1, <6>5
          <5>3. CASE m \in 1..Len(import.jumps) /\ n \in 1..Len(import.jumps)
            BY <2>1, <4>6, <5>1, <5>2, <5>3 DEF LinksFit
          <5>4. QED
            BY <4>4, <4>6, <5>1, <5>2, <5>3
        <4>7. LinksFit'
          BY <4>5, <4>6 DEF LinksFit
        <4>8. QED
          BY <4>1, <4>3, <4>7
      <3>3. QED
        BY <3>1, <3>2
    <2>5. Made(c, i)'
      <3>1. NamedFor(c, i)'
        <4>1. CASE name = Plain(c.name)
          BY <1>3, <4>1 DEF NamedFor
        <4>2. CASE \E k : name = Final(c.name, c.source, k)
          <5>1. PICK a : a = [name |-> name, id |-> i]
            OBVIOUS
          <5>2. a \in import'.added /\ a.name = saved'[i].name
            BY <1>1, <1>3, <5>1
          <5>3. \E k : a.name = Final(c.name, c.source, k)
            BY <4>2, <5>1
          <5>4. QED
            BY <5>2, <5>3 DEF NamedFor
        <4>3. QED
          BY <4>1, <4>2 DEF AddParts
      <3>2. KnownAs(c.source, c.name)' = {i}
        BY <1>1, Remembers
      <3>3. Jump(c, i)' = Jump(c, i)
        BY DEF Jump
      <3>4. QED
        BY <1>3, <2>4, <3>1, <3>2, <3>3 DEF Made
    <2>6. ASSUME NEW e \in Candidates, e \notin import.todo \ {c} PROVE \E k \in RowIds : Made(e, k)'
      <3>1. CASE e = c
        BY <1>3, <2>5, <3>1
      <3>2. CASE e # c
        <4>1. PICK k \in RowIds : Made(e, k)
          BY <2>1, <2>6, <3>2 DEF Placed
        <4>2. saved'[k] = saved[k]
          BY <1>3, <4>1 DEF Made
        <4>3. import.added \subseteq import'.added
          BY <1>1
        <4>4. Made(e, k)'
          BY <1>1, <1>2, <1>4, <1>6, <2>4, <3>2, <4>1, <4>2, <4>3, MadeStays
        <4>5. QED
          BY <4>4
      <3>3. QED
        BY <3>1, <3>2
    <2>7. Placed'
      BY <1>1, <1>4, <2>6 DEF Placed
    <2>8. QED
      BY <2>2, <2>4, <2>7
  <1>9. QED
    BY <1>2, <1>5, <1>6, <1>7, <1>8 DEF Progresses

\* The steps that change only the stage.
LEMMA StageProgresses ==
    ASSUME ImportSound, StartLinking \/ FinishImport PROVE Progresses'
  <1>0. ImportShape /\ Progresses
    BY DEF ImportSound
  <1>1. /\ Same(import', import, {"stage"}) /\ import'.stage \in {"linking", "done"}
        /\ disk' = disk /\ saved' = saved
        /\ import'.stage = "done" => import.jumps = <<>> /\ import.stage = "linking"
        /\ import.stage \in {"adding", "linking"} /\ import.todo = {}
    <2>1. CASE StartLinking
      BY <1>0, <2>1, StageParts DEF StartLinking
    <2>2. CASE FinishImport
      <3>1. import.todo = {}
        BY <1>0, <2>2 DEF FinishImport, Progresses
      <3>2. QED
        BY <1>0, <2>2, <3>1, StageParts DEF FinishImport
    <2>3. QED
      BY <2>1, <2>2
  <1>2. /\ import'.sources = import.sources /\ import'.quiet = import.quiet
        /\ import'.again = import.again /\ import'.todo = import.todo
        /\ import'.existing = import.existing /\ import'.aliases = import.aliases
        /\ import'.added = import.added /\ import'.jumps = import.jumps
    BY <1>1, SameParts
  <1>3. Candidates' = Candidates
    BY <1>1, <1>2, CandidatesStay
  <1>4. ASSUME NEW e, NEW k, Made(e, k) PROVE Made(e, k)'
    <2>1. NamedFor(e, k)' = NamedFor(e, k)
      BY <1>1, <1>2 DEF NamedFor
    <2>2. /\ Unclaimed(e)' = Unclaimed(e) /\ KnownAs(e.source, e.name)' = KnownAs(e.source, e.name)
      BY <1>2, <1>3 DEF Unclaimed, KnownAs
    <2>3. /\ IsNew(k)' = IsNew(k) /\ Jump(e, k)' = Jump(e, k)
          /\ \A jump : Linked(jump)' = Linked(jump)
      BY <1>2 DEF IsNew, Jump, Linked, ByAlias, ByNewName, ByOldName
    <2>4. IsLinked(e, k) => IsLinked(e, k)'
      BY <1>1, <1>2, <2>3 DEF IsLinked
    <2>5. QED
      BY <1>1, <1>2, <1>4, <2>1, <2>2, <2>3, <2>4 DEF Made
  <1>5. import.quiet => Kept' /\ LinksFit'
    BY <1>0, <1>1, <1>2 DEF Progresses, Kept, LinksFit
  <1>6. import.quiet => Placed'
    BY <1>0, <1>1, <1>2, <1>3, <1>4 DEF Progresses, Placed
  <1>7. import.again => Repeats'
    BY <1>0, <1>1, <1>2 DEF Progresses, Repeats, Twin
  <1>8. import.todo \subseteq Candidates'
    BY <1>0, <1>1, <1>3 DEF Progresses
  <1>9. QED
    BY <1>1, <1>2, <1>5, <1>6, <1>7, <1>8 DEF Progresses

LEMMA FinishCompletes ==
    ASSUME ImportSound, StartLinking \/ FinishImport PROVE CompletesHold'
  <1>0. ImportShape /\ Progresses /\ CompletesHold
    BY DEF ImportSound
  <1>1. disk' = disk /\ saved' = saved
    BY DEF StartLinking, FinishImport
  <1>2. \A s : Read(s)' = Read(s)
    BY <1>1, ReadStays
  <1>3. ASSUME NEW s \in import.sources, FinishImport, import.quiet, ~Renamed, NEW c \in Read(s)
        PROVE  IsThere(c)
    <2>1. import.stage = "linking"
      BY <1>3 DEF FinishImport
    <2>2. Placed /\ import.todo = {} /\ c \in Candidates
      BY <1>0, <1>3, <2>1 DEF Progresses, Candidates
    <2>3. PICK i \in RowIds : Made(c, i)
      BY <2>2 DEF Placed
    <2>4. c.source # ""
      BY <1>0, <1>3, <2>1, UnderWay, ReadSource DEF ImportFits
    <2>5. \A k : Final(c.name, c.source, k).source = c.source
      BY DEF Final
    <2>6. saved[i].name = Plain(c.name)
      BY <1>3, <2>3, <2>4, <2>5 DEF Made, NamedFor, Renamed
    <2>7. QED
      BY <2>3, <2>6 DEF Made, IsThere
  <1>4. ASSUME NEW s \in complete', NEW c \in Read(s) PROVE IsThere(c)
    <2>1. CASE s \in complete
      BY <1>0, <1>4, <2>1 DEF CompletesHold
    <2>2. CASE s \notin complete
      <3>1. FinishImport /\ import.quiet /\ ~Renamed /\ s \in import.sources
        BY <1>4, <2>2 DEF StartLinking, FinishImport
      <3>2. QED
        BY <1>3, <1>4, <3>1
    <2>3. QED
      BY <2>1, <2>2
  <1>5. QED
    BY <1>1, <1>2, <1>4 DEF CompletesHold, IsThere

LEMMA LinkProgresses ==
    ASSUME ImportSound, LinkJump PROVE Progresses' /\ CompletesHold'
  <1>0. ImportShape /\ RowsFit /\ Progresses /\ CompletesHold
    BY DEF ImportSound
  <1>1. /\ import.stage = "linking" /\ import.jumps # <<>>
        /\ Same(import', import, {"jumps"}) /\ import'.jumps = Tail(import.jumps)
        /\ disk' = disk /\ complete' = complete
    BY <1>0, LinkParts
  <1>2. /\ import'.stage = "linking" /\ import'.sources = import.sources
        /\ import'.quiet = import.quiet /\ import'.again = import.again
        /\ import'.todo = import.todo /\ import'.existing = import.existing
        /\ import'.aliases = import.aliases /\ import'.added = import.added
    BY <1>1, SameParts
  <1>3. PICK h : h = Head(import.jumps)
    OBVIOUS
  <1>4. /\ h \in ToSet(import.jumps) /\ h.id \in RowIds
        /\ \A k \in RowIds \ {h.id} : saved'[k] = saved[k]
        /\ saved[h.id] # NoRow => /\ saved'[h.id] # NoRow /\ saved'[h.id].name = saved[h.id].name
                                  /\ saved'[h.id].host = saved[h.id].host
        /\ saved[h.id] # NoRow /\ (\E to \in Linked(h) : to # h.id) =>
             saved'[h.id].jump = CHOOSE to \in Linked(h) : TRUE
    BY <1>0, <1>3, LinkRow
  <1>5. Candidates' = Candidates
    BY <1>1, <1>2, CandidatesStay
  <1>6. CompletesHold'
    <2>1. \A e : IsThere(e) => IsThere(e)'
      BY <1>4 DEF IsThere
    <2>2. QED
      BY <1>0, <1>1, <2>1, ReadStays DEF CompletesHold
  <1>7. ~import.again
    BY <1>0, <1>1 DEF Progresses, Repeats
  <1>8. ASSUME import.quiet PROVE Kept' /\ LinksFit' /\ Placed'
    <2>1. Kept /\ LinksFit /\ Placed
      BY <1>0, <1>1, <1>8 DEF Progresses
    <2>2. saved[h.id] # NoRow /\ import.existing[h.id] = NoRow
      BY <1>4, <2>1 DEF LinksFit
    <2>3. Kept'
      BY <1>2, <1>4, <2>1, <2>2 DEF Kept
    <2> DEFINE L == Len(import.jumps)
    <2>4. IsList(import.jumps) /\ \A jump \in ToSet(import.jumps) : jump.id \in RowIds
      BY <1>0, <1>1, UnderWay DEF ImportFits
    <2>5. PICK q : q = import'.jumps
      OBVIOUS
    <2>6. /\ IsList(q) /\ Len(q) = L - 1 /\ L > 0 /\ h = import.jumps[1]
          /\ \A n \in 1..(L - 1) : q[n] = import.jumps[n + 1]
      BY <1>1, <1>3, <2>4, <2>5, ListTail
    <2>7. /\ L \in Nat /\ DOMAIN import.jumps = 1..L
          /\ \A n \in 1..L : import.jumps[n] \in ToSet(import.jumps)
          /\ \A y \in ToSet(import.jumps) : \E n \in 1..L : import.jumps[n] = y
      BY <2>4, ListParts
    <2>8. /\ DOMAIN q = 1..(L - 1)
          /\ \A n \in 1..(L - 1) : q[n] \in ToSet(q)
          /\ \A y \in ToSet(q) : \E n \in 1..(L - 1) : q[n] = y
      BY <2>6, ListParts
    <2> HIDE DEF L
    <2>9. \A m, n \in 1..L : import.jumps[m].id = import.jumps[n].id => m = n
      BY <2>1, <2>7 DEF LinksFit
    <2>10. \A y \in ToSet(q) : y \in ToSet(import.jumps) /\ y.id # h.id
      <3>1. SUFFICES ASSUME NEW y \in ToSet(q) PROVE y \in ToSet(import.jumps) /\ y.id # h.id
        OBVIOUS
      <3>2. PICK n \in 1..(L - 1) : q[n] = y
        BY <2>8
      <3>3. PICK m \in 1..L : m = n + 1 /\ m # 1 /\ 1 \in 1..L
        BY <2>7
      <3>4. y = import.jumps[m]
        BY <2>6, <3>2, <3>3
      <3>5. QED
        BY <2>6, <2>7, <2>9, <3>3, <3>4
    <2>11. \A y \in ToSet(import.jumps) : y.id = h.id => y = h
      <3>1. SUFFICES ASSUME NEW y \in ToSet(import.jumps), y.id = h.id PROVE y = h
        OBVIOUS
      <3>2. PICK n \in 1..L : import.jumps[n] = y
        BY <2>7
      <3>3. 1 \in 1..L
        BY <2>6, <2>7
      <3>4. n = 1
        BY <2>6, <2>9, <3>1, <3>2, <3>3
      <3>5. QED
        BY <2>6, <3>2, <3>4
    <2>12. \A y \in ToSet(import.jumps) : y # h => y \in ToSet(q)
      <3>1. SUFFICES ASSUME NEW y \in ToSet(import.jumps), y # h PROVE y \in ToSet(q)
        OBVIOUS
      <3>2. PICK n \in 1..L : import.jumps[n] = y
        BY <2>7
      <3>3. n # 1
        BY <2>6, <3>1, <3>2
      <3>4. n - 1 \in 1..(L - 1) /\ (n - 1) + 1 = n
        BY <2>7, <3>3
      <3>5. q[n - 1] = y
        BY <2>6, <3>2, <3>4
      <3>6. QED
        BY <2>8, <3>4, <3>5
    <2>13. LinksFit'
      <3>1. \A jump \in ToSet(q) : saved'[jump.id] # NoRow /\ import.existing[jump.id] = NoRow
        BY <1>4, <2>1, <2>4, <2>10 DEF LinksFit
      <3>2. ASSUME NEW m \in 1..(L - 1), NEW n \in 1..(L - 1), q[m].id = q[n].id PROVE m = n
        <4>1. m + 1 \in 1..L /\ n + 1 \in 1..L
          BY <2>7
        <4>2. m + 1 = n + 1
          BY <2>6, <2>9, <3>2, <4>1
        <4>3. QED
          BY <4>2
      <3>3. QED
        BY <1>2, <2>5, <2>8, <3>1, <3>2 DEF LinksFit
    <2>14. ASSUME NEW e, NEW k \in RowIds, Made(e, k) PROVE Made(e, k)'
      <3>1. /\ saved[k] # NoRow /\ saved'[k] # NoRow /\ saved'[k].name = saved[k].name
            /\ saved'[k].host = saved[k].host
        BY <1>4, <2>14 DEF Made
      <3>2. NamedFor(e, k)'
        BY <1>2, <2>14, <3>1 DEF NamedFor, Made
      <3>3. /\ Unclaimed(e)' = Unclaimed(e) /\ KnownAs(e.source, e.name)' = KnownAs(e.source, e.name)
        BY <1>2, <1>5 DEF Unclaimed, KnownAs
      <3>4. /\ IsNew(k)' = IsNew(k) /\ Jump(e, k)' = Jump(e, k)
            /\ \A jump : Linked(jump)' = Linked(jump)
        BY <1>2 DEF IsNew, Jump, Linked, ByAlias, ByNewName, ByOldName
      <3>5. ASSUME IsNew(k), e.jump # Absent
            PROVE  Jump(e, k) \in ToSet(q) \/ IsLinked(e, k)'
        <4>1. Jump(e, k) \in ToSet(import.jumps) \/ IsLinked(e, k)
          BY <2>14, <3>5 DEF Made
        <4>2. Jump(e, k).id = k
          BY DEF Jump
        <4>3. CASE k # h.id
          <5>1. saved'[k] = saved[k]
            BY <1>4, <4>3
          <5>2. IsLinked(e, k) => IsLinked(e, k)'
            BY <1>1, <1>2, <2>5, <2>10, <3>4, <5>1 DEF IsLinked
          <5>3. Jump(e, k) # h
            BY <4>2, <4>3
          <5>4. QED
            BY <2>12, <4>1, <5>2, <5>3
        <4>4. CASE k = h.id
          <5>1. ~IsLinked(e, k)
            BY <1>4, <4>4 DEF IsLinked
          <5>2. Jump(e, k) = h
            BY <2>11, <4>1, <4>2, <4>4, <5>1
          <5>3. (\E to \in Linked(Jump(e, k)) : to # k) =>
                   saved'[k].jump = CHOOSE to \in Linked(Jump(e, k)) : TRUE
            BY <1>4, <2>2, <4>4, <5>2
          <5>4. IsLinked(e, k)'
            BY <1>2, <2>5, <2>10, <3>4, <4>4, <5>3 DEF IsLinked
          <5>5. QED
            BY <5>4
        <4>5. QED
          BY <4>3, <4>4
      <3>6. QED
        BY <2>5, <2>14, <3>1, <3>2, <3>3, <3>4, <3>5 DEF Made
    <2>15. Placed'
      BY <1>2, <1>5, <2>1, <2>14 DEF Placed
    <2>16. QED
      BY <2>3, <2>13, <2>15
  <1>9. import'.todo \subseteq Candidates' /\ import'.todo = {}
    BY <1>0, <1>1, <1>2, <1>5 DEF Progresses
  <1>10. QED
    BY <1>2, <1>6, <1>7, <1>8, <1>9 DEF Progresses

LEMMA OtherProgresses ==
    ASSUME ImportSound, MeddleParts PROVE Progresses' /\ CompletesHold'
  <1>1. complete' = {} /\ disk' = disk
    BY DEF MeddleParts
  <1>2. CompletesHold'
    BY <1>1 DEF CompletesHold
  <1>3. CASE import' = NoImport
    BY <1>2, <1>3 DEF NoImport, Progresses
  <1>4. CASE Same(import', import, {"quiet"}) /\ import'.quiet = FALSE
    <2>1. /\ import'.stage = import.stage /\ import'.sources = import.sources
          /\ import'.again = import.again /\ import'.todo = import.todo
          /\ import'.existing = import.existing /\ import'.added = import.added
          /\ import'.jumps = import.jumps
      BY <1>4, SameParts
    <2>2. Candidates' = Candidates
      BY <1>1, <2>1, CandidatesStay
    <2>3. import.stage \in {"adding", "linking", "done"} =>
            /\ import.todo \subseteq Candidates
            /\ import.stage # "adding" => import.todo = {}
            /\ import.stage = "done" => import.jumps = <<>>
            /\ import.again => Repeats
      BY DEF ImportSound, Progresses
    <2>4. Repeats => Repeats'
      BY <1>4, <2>1 DEF Repeats, Twin
    <2>5. QED
      BY <1>2, <1>4, <2>1, <2>2, <2>3, <2>4 DEF Progresses
  <1>5. QED
    BY <1>3, <1>4 DEF MeddleParts

LEMMA SoundStep ==
    ASSUME ImportSound, [ImportNext]_importVars PROVE ImportSound'
  <1>0. ImportShape /\ RowsFit /\ Progresses /\ CompletesHold
    BY DEF ImportSound
  <1>1. ImportShape' /\ RowsFit'
    BY <1>0, ShapeStep
  <1>2. Progresses' /\ CompletesHold'
    <2>1. ASSUME NEW sources \in {{k} : k \in ToSet(Kinds)} \cup {ToSet(Kinds)}, StartImport(sources)
          PROVE  Progresses' /\ CompletesHold'
      <3>1. sources \in SUBSET ToSet(Kinds)
        OBVIOUS
      <3>2. QED
        BY <2>1, <3>1, StartProgresses
    <2>2. CASE SkipKnown
      BY <2>2, SkipProgresses
    <2>3. CASE AddCandidate
      BY <1>0, <2>3, AddedParts, AddProgresses, FailProgresses
    <2>4. CASE StartLinking \/ FinishImport
      BY <2>4, StageProgresses, FinishCompletes
    <2>5. CASE LinkJump
      BY <2>5, LinkProgresses
    <2>6. CASE BreakImport
      BY <1>0, <2>6, StageParts, FailProgresses
    <2>7. CASE (\E n \in ToSet(Alphabet) : OtherAdds(n)) \/ \E i \in RowIds : OtherDeletes(i)
      BY <1>0, <2>7, OtherFits, OtherProgresses
    <2>8. CASE UNCHANGED importVars
      <3>1. import' = import /\ disk' = disk /\ saved' = saved /\ complete' = complete
        BY <2>8 DEF importVars
      <3>2. Candidates' = Candidates
        BY <3>1, CandidatesStay
      <3>3. \A e, k : Made(e, k)' = Made(e, k)
        BY <3>1, <3>2 DEF Made, NamedFor, Unclaimed, KnownAs, IsNew, Jump,
           IsLinked, Linked, ByAlias, ByNewName, ByOldName
      <3>4. Progresses'
        <4>1. Placed' = Placed
          BY <3>1, <3>2, <3>3 DEF Placed
        <4>2. Kept' = Kept /\ LinksFit' = LinksFit /\ Repeats' = Repeats
          BY <3>1 DEF Kept, LinksFit, Repeats, Twin
        <4>3. QED
          BY <1>0, <3>1, <3>2, <4>1, <4>2 DEF Progresses
      <3>5. CompletesHold'
        BY <1>0, <3>1, ReadStays DEF CompletesHold, IsThere
      <3>6. QED
        BY <3>4, <3>5
    <2>9. QED
      BY <2>1, <2>2, <2>3, <2>4, <2>5, <2>6, <2>7, <2>8 DEF ImportNext
  <1>3. QED
    BY <1>1, <1>2 DEF ImportSound

LEMMA SoundFirst ==
    ASSUME ImportInit PROVE ImportSound
  BY ImportStarts DEF ImportSound, Progresses, CompletesHold, NoImport

LEMMA SoundRepeats ==
    ASSUME ImportSound PROVE ReimportIsIdle
  BY DEF ImportSound, Progresses, Repeats, ReimportIsIdle

-----------------------------------------------------------------------------
(* Least and greatest numbers, and functions that step from a number to the next. *)

LEMMA LeastIs ==
    ASSUME NEW S \in SUBSET Nat, NEW m \in S, \A k \in S : m <= k PROVE Min(S) = m
  <1>1. PICK l : l = Min(S) /\ l \in S /\ \A k \in S : l <= k
    BY DEF Min
  <1>2. l <= m /\ m <= l /\ l \in Nat /\ m \in Nat
    BY <1>1
  <1>3. QED
    BY <1>1, <1>2

LEMMA LeastOf ==
    ASSUME NEW S \in SUBSET Nat, S # {} PROVE Min(S) \in S /\ \A k \in S : Min(S) <= k
  BY LeastNumber DEF Min

LEMMA GreatestIs ==
    ASSUME NEW S \in SUBSET Nat, NEW m \in S, \A k \in S : k <= m PROVE Max(S) = m
  <1>1. \A k \in S : m >= k
    OBVIOUS
  <1>2. PICK l : l = Max(S) /\ l \in S /\ \A k \in S : l >= k
    BY <1>1 DEF Max
  <1>3. l >= m /\ l <= m /\ l \in Nat /\ m \in Nat
    BY <1>2
  <1>4. QED
    BY <1>2, <1>3

LEMMA GreatestOf ==
    ASSUME NEW n \in Nat, NEW S \in SUBSET (1..n), S # {} PROVE Max(S) \in S /\ \A k \in S : k <= Max(S)
  <1> DEFINE above == {m \in Nat : \A k \in S : k <= m}
  <1>1. n \in above
    OBVIOUS
  <1>2. PICK m \in above : \A k \in above : m <= k
    BY <1>1, LeastNumber
  <1>3. m \in Nat /\ \A k \in S : k <= m /\ k \in Nat /\ k >= 1
    BY <1>2
  <1>4. m \in S
    <2>1. SUFFICES ASSUME m \notin S PROVE FALSE
      OBVIOUS
    <2>2. ASSUME NEW k \in S PROVE k <= m - 1
      <3>1. k # m /\ k <= m /\ k \in Nat /\ m \in Nat
        BY <1>3, <2>1
      <3>2. QED
        BY <3>1
    <2>3. m >= 1
      <3>1. PICK k \in S : k <= m /\ k \in Nat /\ k >= 1
        BY <1>3
      <3>2. QED
        BY <1>3, <3>1
    <2>4. m - 1 \in above
      BY <1>3, <2>2, <2>3
    <2>5. QED
      BY <1>2, <1>3, <2>4
  <1>5. Max(S) = m
    BY <1>3, <1>4, GreatestIs
  <1>6. QED
    BY <1>3, <1>4, <1>5

LEMMA StepsStay ==
    ASSUME NEW S, NEW n \in Nat, NEW f, f[0] \in S, \A i \in 1..n : f[i - 1] \in S => f[i] \in S
    PROVE  \A k \in 0..n : f[k] \in S
  <1> DEFINE A == {k \in Nat : k <= n => f[k] \in S}
  <1>1. 0 \in A
    OBVIOUS
  <1>2. ASSUME NEW k \in Nat, k \in A PROVE k + 1 \in A
    <2>1. SUFFICES ASSUME k + 1 <= n PROVE f[k + 1] \in S
      OBVIOUS
    <2>2. f[k] \in S
      BY <1>2, <2>1
    <2>3. k + 1 \in 1..n /\ (k + 1) - 1 = k
      BY <2>1
    <2>4. f[(k + 1) - 1] \in S
      BY <2>2, <2>3
    <2>5. QED
      BY <2>3, <2>4
  <1>3. Nat \subseteq A
    <2> HIDE DEF A
    <2>1. QED
      BY <1>1, <1>2, Induction
  <1>4. QED
    BY <1>3

-----------------------------------------------------------------------------
(* The files of OpenSSH. *)

Parsed(T) == [ok : BOOLEAN, lines : Seq(T)]

LEMMA FollowedParsed ==
    ASSUME NEW T, NEW a \in Parsed(T), NEW b \in Parsed(T) PROVE Followed(a, b) \in Parsed(T)
  BY DEF Parsed, Followed

LEMMA NothingParsed == \A T : Nothing \in Parsed(T) /\ Unreadable \in Parsed(T)
  BY DEF Parsed, Nothing, Unreadable

\* Lines come in the places of their files' names.
LEMMA InPlaceParsed ==
    ASSUME NEW T, NEW file \in Seq(T), NEW included,
           \A line \in T : line.key = "include" => included[line.value] \in Parsed(T)
    PROVE  InPlace(file, included) \in Parsed(T)
  <1> DEFINE n == Len(file)
             S == Parsed(T)
             Piece(i) == IF file[i].key = "include" THEN included[file[i].value]
                         ELSE [ok |-> TRUE, lines |-> <<file[i]>>]
             F == [i \in 1..n |-> [r \in S |-> Followed(r, Piece(i))]]
             Defines(g) == g = [i \in 0..n |-> IF i = 0 THEN Nothing ELSE Followed(g[i - 1], Piece(i))]
             f == CHOOSE g : Defines(g)
  <1>1. n \in Nat /\ \A i \in 1..n : file[i] \in T
    OBVIOUS
  <1>2. \A i \in 1..n : Piece(i) \in S
    <2>1. SUFFICES ASSUME NEW i \in 1..n PROVE Piece(i) \in S
      OBVIOUS
    <2>2. CASE file[i].key = "include"
      BY <1>1, <2>2
    <2>3. CASE file[i].key # "include"
      BY <1>1, <2>3 DEF Parsed
    <2>4. QED
      BY <2>2, <2>3
  <1>3. InPlace(file, included) = f[n]
    BY DEF InPlace
  <1> HIDE DEF n, Piece
  <1>4. F \in [1..n -> [S -> S]]
    <2>1. \A i \in 1..n, r \in S : Followed(r, Piece(i)) \in S
      BY <1>2, FollowedParsed
    <2>2. QED
      BY <2>1
  <1>5. Nothing \in S
    BY NothingParsed
  <1> HIDE DEF F, S
  <1>6. PICK g : Recursive(g, S, Nothing, n, F)
    BY <1>1, <1>4, <1>5, Recursion
  <1>7. /\ g \in [0..n -> S] /\ g[0] = Nothing /\ \A i \in 1..n : g[i] = F[i][g[i - 1]]
    BY <1>6 DEF Recursive
  <1>8. \A i \in 1..n : g[i] = Followed(g[i - 1], Piece(i))
    <2>1. SUFFICES ASSUME NEW i \in 1..n PROVE g[i] = Followed(g[i - 1], Piece(i))
      OBVIOUS
    <2>2. i - 1 \in 0..n
      BY <1>1
    <2>3. g[i - 1] \in S
      BY <1>7, <2>2
    <2>4. QED
      BY <1>7, <2>3 DEF F
  <1>9. \A i \in 0..n : i # 0 => i \in 1..n
    BY <1>1
  <1>10. Defines(g)
    BY <1>7, <1>8, <1>9
  <1>11. Defines(f)
    <2> HIDE DEF Defines
    <2>1. QED
      BY <1>10
  <1>12. f[0] = Nothing /\ \A i \in 1..n : f[i] = Followed(f[i - 1], Piece(i))
    <2> HIDE DEF f
    <2>1. 0 \in 0..n /\ \A i \in 1..n : i \in 0..n /\ i # 0
      BY <1>1
    <2>2. QED
      BY <1>11, <2>1
  <1> HIDE DEF f
  <1>13. \A i \in 1..n : f[i - 1] \in S => f[i] \in S
    BY <1>2, <1>12, FollowedParsed DEF S
  <1>14. \A k \in 0..n : f[k] \in S
    BY <1>1, <1>5, <1>12, <1>13, StepsStay
  <1>15. n \in 0..n
    BY <1>1
  <1>16. QED
    BY <1>3, <1>14, <1>15 DEF S

\* Whatever is read is lines that are written in the files.
LEMMA ExpandParsed ==
    ASSUME NEW files, \A file \in DOMAIN files : IsList(files[file])
    PROVE  Expand(files).lines \in Seq(Written(files))
  <1> DEFINE T == Written(files)
             D == DOMAIN files
             I == {"config"} \cup Included(files)
             P == Parsed(T)
             n == MaxDepth + 1
             S == [SUBSET D -> [I -> P]]
             x == [above \in SUBSET D |-> [file \in I |-> Unreadable]]
             Level(prev) == [above \in SUBSET D |-> [file \in I |->
                               IF file \in above \/ file \notin D THEN Nothing
                               ELSE InPlace(files[file], prev[above \cup {file}])]]
             F == [i \in 1..n |-> [prev \in S |-> Level(prev)]]
             Defines(g) == g = [levels \in 0..n |->
                 [above \in SUBSET D |-> [file \in I |->
                    IF levels = 0 THEN Unreadable
                    ELSE IF file \in above \/ file \notin D THEN Nothing
                    ELSE InPlace(files[file], g[levels - 1][above \cup {file}])]]]
             f == CHOOSE g : Defines(g)
  <1>1. n \in Nat
    BY RowsAssumption
  <1>2. Expand(files) = f[n][{}]["config"]
    BY DEF Expand
  <1>3. \A file \in D : files[file] \in Seq(T)
    <2>1. SUFFICES ASSUME NEW file \in D PROVE files[file] \in Seq(T)
      OBVIOUS
    <2>2. PICK q : q = files[file] /\ q \in Seq(ToSet(q))
      BY DEF IsList
    <2>3. ToSet(q) \subseteq T
      BY <2>2 DEF Written
    <2> HIDE DEF T
    <2>4. q \in Seq(T)
      BY <2>2, <2>3
    <2>5. QED
      BY <2>2, <2>4
  <1>4. \A line \in T : line.key = "include" => line.value \in I
    BY DEF Included
  <1>5. Nothing \in P /\ Unreadable \in P
    BY NothingParsed
  <1> HIDE DEF n, T
  <1>6. ASSUME NEW prev \in S PROVE Level(prev) \in S
    <2>1. ASSUME NEW above \in SUBSET D, NEW file \in I, file \in D
          PROVE  InPlace(files[file], prev[above \cup {file}]) \in P
      <3>1. PICK included : included = prev[above \cup {file}]
        OBVIOUS
      <3>2. above \cup {file} \in SUBSET D
        BY <2>1
      <3>3. included \in [I -> P]
        BY <3>1, <3>2
      <3>4. \A line \in T : line.key = "include" => included[line.value] \in P
        BY <1>4, <3>3
      <3>5. files[file] \in Seq(T)
        BY <1>3, <2>1
      <3>6. InPlace(files[file], included) \in P
        BY <3>4, <3>5, InPlaceParsed
      <3>7. QED
        BY <3>1, <3>6
    <2> HIDE DEF P, D, I
    <2>2. QED
      BY <1>5, <2>1
  <1>7. x \in S
    BY <1>5
  <1> HIDE DEF P
  <1>8. F \in [1..n -> [S -> S]]
    <2> HIDE DEF S, Level
    <2>1. QED
      BY <1>6
  <1> HIDE DEF S, F, x
  <1>9. PICK g : Recursive(g, S, x, n, F)
    BY <1>1, <1>7, <1>8, Recursion
  <1>10. /\ g \in [0..n -> S] /\ g[0] = x /\ \A i \in 1..n : g[i] = F[i][g[i - 1]]
    BY <1>9 DEF Recursive
  <1>11. \A i \in 1..n : g[i] = Level(g[i - 1])
    <2>1. SUFFICES ASSUME NEW i \in 1..n PROVE g[i] = Level(g[i - 1])
      OBVIOUS
    <2>2. i - 1 \in 0..n
      BY <1>1
    <2>3. g[i - 1] \in S
      BY <1>10, <2>2
    <2> HIDE DEF Level
    <2>4. QED
      BY <1>10, <2>3 DEF F
  <1> DEFINE Either(h, i) == [above \in SUBSET D |-> [file \in I |->
                 IF i = 0 THEN Unreadable
                 ELSE IF file \in above \/ file \notin D THEN Nothing
                 ELSE InPlace(files[file], h[i - 1][above \cup {file}])]]
  <1>12. \A h : Defines(h) <=> h = [i \in 0..n |-> Either(h, i)]
    OBVIOUS
  <1>13. \A h, i : /\ i = 0 => Either(h, i) = x
                   /\ i # 0 => Either(h, i) = Level(h[i - 1])
    BY DEF x
  <1> HIDE DEF Either, Level, Defines
  <1>14. Defines(g)
    <2>1. g = [i \in 0..n |-> g[i]]
      BY <1>10
    <2>2. \A i \in 0..n : i # 0 => i \in 1..n
      BY <1>1
    <2>3. \A i \in 0..n : g[i] = Either(g, i)
      BY <1>10, <1>11, <1>13, <2>2
    <2>4. g = [i \in 0..n |-> Either(g, i)]
      BY <2>1, <2>3
    <2>5. QED
      BY <1>12, <2>4
  <1>15. Defines(f)
    BY <1>14
  <1> HIDE DEF f
  <1>16. f[0] = x /\ \A i \in 1..n : f[i] = Level(f[i - 1])
    <2>1. f = [i \in 0..n |-> Either(f, i)]
      BY <1>12, <1>15
    <2>2. \A i \in 0..n : f[i] = Either(f, i)
      BY <2>1
    <2>3. 0 \in 0..n /\ \A i \in 1..n : i \in 0..n /\ i # 0
      BY <1>1
    <2>4. QED
      BY <1>13, <2>2, <2>3
  <1>17. \A k \in 0..n : f[k] \in S
    <2>1. \A i \in 1..n : f[i - 1] \in S => f[i] \in S
      BY <1>6, <1>16
    <2>2. QED
      BY <1>1, <1>7, <1>16, <2>1, StepsStay
  <1>18. f[n] \in [SUBSET D -> [I -> P]]
    <2>1. n \in 0..n
      BY <1>1
    <2>2. QED
      BY <1>17, <2>1 DEF S
  <1>19. f[n][{}]["config"] \in P
    BY <1>18
  <1>20. QED
    BY <1>2, <1>19 DEF P, T, Parsed

-----------------------------------------------------------------------------
(* The blocks of a configuration. *)

Patterns(T) == {ForEveryone, {}} \cup {line.value : line \in {l \in T : l.key = "host"}}
BlockOf(T) == [patterns : Patterns(T), directives : Seq(T)]
BlocksOf(T) == Seq(BlockOf(T)) \ {<<>>}

BlockAdded(blocks, next, patterns) ==
    /\ Len(next) = Len(blocks) + 1 /\ \A k \in 1..Len(blocks) : next[k] = blocks[k]
    /\ next[Len(blocks) + 1] = Block(patterns)

LineAdded(blocks, next, line) ==
    /\ Len(next) = Len(blocks) /\ \A k \in 1..(Len(blocks) - 1) : next[k] = blocks[k]
    /\ next[Len(blocks)].patterns = blocks[Len(blocks)].patterns
    /\ next[Len(blocks)].directives = Append(blocks[Len(blocks)].directives, line)

LEMMA BlockAdds ==
    ASSUME NEW T, NEW blocks \in BlocksOf(T), NEW patterns \in Patterns(T)
    PROVE  /\ Append(blocks, Block(patterns)) \in BlocksOf(T)
           /\ BlockAdded(blocks, Append(blocks, Block(patterns)), patterns)
  <1>1. PICK B : B = BlockOf(T)
    OBVIOUS
  <1>2. PICK b : b = Block(patterns) /\ b \in B
    <2>1. Block(patterns) \in BlockOf(T)
      BY DEF Block, BlockOf
    <2>2. QED
      BY <1>1, <2>1
  <1>3. blocks \in Seq(B)
    BY <1>1 DEF BlocksOf
  <1>4. /\ Append(blocks, b) \in Seq(B) /\ Len(Append(blocks, b)) = Len(blocks) + 1
        /\ Len(blocks) \in Nat /\ Append(blocks, b)[Len(blocks) + 1] = b
        /\ \A k \in 1..Len(blocks) : Append(blocks, b)[k] = blocks[k]
    BY <1>2, <1>3
  <1>5. Append(blocks, b) # <<>>
    BY <1>4
  <1>6. QED
    BY <1>1, <1>2, <1>4, <1>5 DEF BlocksOf, BlockAdded

LEMMA LineAdds ==
    ASSUME NEW T, NEW blocks \in BlocksOf(T), NEW line \in T,
           NEW next, next = [blocks EXCEPT ![Len(blocks)].directives = Append(@, line)]
    PROVE  next \in BlocksOf(T) /\ LineAdded(blocks, next, line)
  <1>1. PICK B : B = BlockOf(T)
    OBVIOUS
  <1>2. blocks \in Seq(B) /\ blocks # <<>>
    BY <1>1 DEF BlocksOf
  <1>3. Len(blocks) \in 1..Len(blocks) /\ DOMAIN blocks = 1..Len(blocks) /\ Len(blocks) \in Nat
    BY <1>2
  <1>4. PICK m : m = Len(blocks) /\ m \in 1..m /\ m \in Nat
    BY <1>3
  <1>5. PICK old : old = blocks[m] /\ old \in B
    BY <1>2, <1>3, <1>4
  <1>6. old.directives \in Seq(T) /\ old.patterns \in Patterns(T)
    BY <1>1, <1>5 DEF BlockOf
  <1>7. PICK said : said = Append(old.directives, line) /\ said \in Seq(T)
    <2>1. PICK d : d = old.directives /\ d \in Seq(T)
      BY <1>6
    <2>2. Append(d, line) \in Seq(T)
      BY <2>1
    <2>3. QED
      BY <2>1, <2>2
  <1> DEFINE new == [old EXCEPT !.directives = said]
  <1>8. new \in B /\ new.patterns = old.patterns /\ new.directives = said
    BY <1>1, <1>5, <1>6, <1>7 DEF BlockOf
  <1>9. next = [blocks EXCEPT ![m] = new]
    BY <1>4, <1>5, <1>7
  <1> HIDE DEF new
  <1>10. /\ next \in Seq(B) /\ Len(next) = m /\ next[m] = new
         /\ \A k \in 1..(m - 1) : next[k] = blocks[k]
    <2>1. blocks \in [1..m -> B]
      BY <1>2, <1>4
    <2>2. next \in [1..m -> B] /\ next[m] = new /\ \A k \in (1..m) \ {m} : next[k] = blocks[k]
      BY <1>4, <1>8, <1>9, <2>1
    <2>3. \A k \in 1..(m - 1) : k \in (1..m) \ {m}
      BY <1>4
    <2>4. PICK q : q = next /\ q \in [1..m -> B]
      BY <2>2
    <2>5. q \in Seq(B)
      <3>1. PICK l : l = blocks /\ l \in Seq(B) /\ m \in 1..Len(l)
        BY <1>2, <1>3, <1>4
      <3>2. [l EXCEPT ![m] = new] \in Seq(B)
        BY <1>8, <3>1
      <3>3. QED
        BY <1>9, <2>4, <3>1, <3>2
    <2>6. Len(q) = m
      BY <1>4, <2>4, <2>5
    <2>7. QED
      BY <2>2, <2>3, <2>4, <2>5, <2>6
  <1>11. next # <<>>
    BY <1>4, <1>10
  <1>12. QED
    BY <1>1, <1>4, <1>5, <1>7, <1>8, <1>10, <1>11 DEF BlocksOf, LineAdded

LEMMA WithLineAdds ==
    ASSUME NEW T, NEW blocks \in BlocksOf(T), NEW line \in T, NEW next, next = WithLine(blocks, line)
    PROVE  /\ next \in BlocksOf(T)
           /\ line.key = "host" => BlockAdded(blocks, next, line.value)
           /\ line.key = "match" => BlockAdded(blocks, next, {})
           /\ line.key \notin Headings => LineAdded(blocks, next, line)
  <1>1. CASE line.key = "host"
    <2>1. PICK patterns \in Patterns(T) : patterns = line.value
      BY <1>1 DEF Patterns
    <2>2. next = Append(blocks, Block(patterns))
      BY <1>1, <2>1 DEF WithLine
    <2>3. QED
      BY <1>1, <2>1, <2>2, BlockAdds DEF Headings
  <1>2. CASE line.key = "match"
    <2>1. PICK patterns \in Patterns(T) : patterns = {}
      BY DEF Patterns
    <2>2. next = Append(blocks, Block(patterns))
      BY <1>2, <2>1 DEF WithLine
    <2>3. QED
      BY <1>2, <2>1, <2>2, BlockAdds DEF Headings
  <1>3. CASE line.key \notin Headings
    <2>1. line.key # "host" /\ line.key # "match"
      BY <1>3 DEF Headings
    <2>2. next = [blocks EXCEPT ![Len(blocks)].directives = Append(@, line)]
      BY <2>1 DEF WithLine
    <2>3. QED
      BY <2>1, <2>2, LineAdds
  <1>4. QED
    BY <1>1, <1>2, <1>3 DEF Headings

\* Blocks is what its recursive function says.
BlocksTo(f, T, lines) ==
    /\ f[0] = <<Block(ForEveryone)>> /\ \A i \in 1..Len(lines) : f[i] = WithLine(f[i - 1], lines[i])
    /\ \A i \in 0..Len(lines) : f[i] \in BlocksOf(T)
    /\ Blocks(lines) = f[Len(lines)]

LEMMA BlocksDefined ==
    ASSUME NEW T, NEW lines \in Seq(T) PROVE \E f : BlocksTo(f, T, lines)
  <1> DEFINE n == Len(lines)
             S == BlocksOf(T)
             x == <<Block(ForEveryone)>>
             F == [i \in 1..n |-> [b \in S |-> WithLine(b, lines[i])]]
             Defines(g) == g = [i \in 0..n |-> IF i = 0 THEN x ELSE WithLine(g[i - 1], lines[i])]
             f == CHOOSE g : Defines(g)
  <1>1. n \in Nat /\ \A i \in 1..n : lines[i] \in T
    OBVIOUS
  <1>2. Blocks(lines) = f[n]
    BY DEF Blocks
  <1>3. x \in S
    <2>1. Block(ForEveryone) \in BlockOf(T)
      BY DEF Block, BlockOf, Patterns
    <2>2. QED
      BY <2>1 DEF BlocksOf
  <1> HIDE DEF n, x
  <1>4. ASSUME NEW i \in 1..n, NEW b \in S PROVE WithLine(b, lines[i]) \in S
    BY <1>1, WithLineAdds
  <1> HIDE DEF S
  <1>5. F \in [1..n -> [S -> S]]
    BY <1>4
  <1> HIDE DEF F
  <1>6. PICK g : Recursive(g, S, x, n, F)
    BY <1>1, <1>3, <1>5, Recursion
  <1>7. /\ g \in [0..n -> S] /\ g[0] = x /\ \A i \in 1..n : g[i] = F[i][g[i - 1]]
    BY <1>6 DEF Recursive
  <1>8. \A i \in 1..n : g[i] = WithLine(g[i - 1], lines[i])
    <2>1. SUFFICES ASSUME NEW i \in 1..n PROVE g[i] = WithLine(g[i - 1], lines[i])
      OBVIOUS
    <2>2. i - 1 \in 0..n
      BY <1>1
    <2>3. g[i - 1] \in S
      BY <1>7, <2>2
    <2>4. QED
      BY <1>7, <2>3 DEF F
  <1>9. \A i \in 0..n : i # 0 => i \in 1..n
    BY <1>1
  <1>10. Defines(g)
    BY <1>7, <1>8, <1>9
  <1>11. Defines(f)
    <2> HIDE DEF Defines
    <2>1. QED
      BY <1>10
  <1>12. f[0] = x /\ \A i \in 1..n : f[i] = WithLine(f[i - 1], lines[i])
    <2> HIDE DEF f
    <2>1. 0 \in 0..n /\ \A i \in 1..n : i \in 0..n /\ i # 0
      BY <1>1
    <2>2. QED
      BY <1>11, <2>1
  <1> HIDE DEF f
  <1>13. \A i \in 0..n : f[i] \in S
    <2>1. \A i \in 1..n : f[i - 1] \in S => f[i] \in S
      BY <1>4, <1>12
    <2>2. QED
      BY <1>1, <1>3, <1>12, <2>1, StepsStay
  <1>14. QED
    BY <1>2, <1>12, <1>13 DEF S, x, n, BlocksTo

\* What the lines so far say of a host, and whether the next line is about it.
SaidBy(lines, alias, key, n) == {i \in 1..n : Applies(lines, i, alias, key)}
IsAbout(lines, alias, n) ==
    LET h == Heading(lines, n + 1) IN h.key = "host" /\ PatternsMatch(h.value, alias)
SaysAsMuch(blocks, lines, alias, key, n) ==
    /\ PatternsMatch(blocks[Len(blocks)].patterns, alias) <=> IsAbout(lines, alias, n)
    /\ Sayers(blocks, alias, key) = {} <=> SaidBy(lines, alias, key, n) = {}
    /\ SaidBy(lines, alias, key, n) # {} =>
         Obtained(blocks, alias, key) = lines[Min(SaidBy(lines, alias, key, n))].value

LEMMA NoneMatches == \A alias : ~PatternsMatch({}, alias)
  BY DEF PatternsMatch

LEMMA SaysAtFirst ==
    ASSUME NEW lines, NEW alias, NEW key
    PROVE  SaysAsMuch(<<Block(ForEveryone)>>, lines, alias, key, 0)
  <1> DEFINE b == <<Block(ForEveryone)>>
  <1>1. Len(b) = 1 /\ b[1] = Block(ForEveryone) /\ DOMAIN b = {1}
    OBVIOUS
  <1> HIDE DEF b
  <1>2. Block(ForEveryone).patterns = ForEveryone /\ Block(ForEveryone).directives = <<>>
    BY DEF Block
  <1>3. {j \in 1..((0 + 1) - 1) : lines[j].key \in Headings} = {}
    OBVIOUS
  <1>4. Heading(lines, 0 + 1) = [key |-> "host", value |-> ForEveryone]
    BY <1>3 DEF Heading
  <1>5. IsAbout(lines, alias, 0) <=> PatternsMatch(ForEveryone, alias)
    BY <1>4 DEF IsAbout
  <1>6. SaidBy(lines, alias, key, 0) = {}
    BY DEF SaidBy
  <1>7. Sayers(b, alias, key) = {}
    BY <1>1, <1>2, EmptyList DEF Sayers
  <1>8. SaysAsMuch(b, lines, alias, key, 0)
    BY <1>1, <1>2, <1>5, <1>6, <1>7 DEF SaysAsMuch
  <1>9. QED
    BY <1>8 DEF b

LEMMA HeadingNext ==
    ASSUME NEW lines, NEW n \in Nat
    PROVE  /\ lines[n + 1].key \in Headings => Heading(lines, (n + 1) + 1) = lines[n + 1]
           /\ lines[n + 1].key \notin Headings => Heading(lines, (n + 1) + 1) = Heading(lines, n + 1)
  <1> DEFINE Heads(l) == {j \in 1..(l - 1) : lines[j].key \in Headings}
  <1>1. 1..(((n + 1) + 1) - 1) = (1..((n + 1) - 1)) \cup {n + 1}
    OBVIOUS
  <1>2. Heads((n + 1) + 1) = Heads(n + 1) \cup {j \in {n + 1} : lines[j].key \in Headings}
    BY <1>1
  <1>3. \A l : Heading(lines, l) = IF Heads(l) = {} THEN [key |-> "host", value |-> ForEveryone]
                                   ELSE lines[Max(Heads(l))]
    BY DEF Heading
  <1>4. CASE lines[n + 1].key \in Headings
    <2>1. n + 1 \in Heads((n + 1) + 1)
      BY <1>2, <1>4
    <2>2. \A j \in Heads((n + 1) + 1) : j <= n + 1 /\ j \in Nat
      OBVIOUS
    <2>3. PICK S : S = Heads((n + 1) + 1)
      OBVIOUS
    <2>4. Max(S) = n + 1
      BY <2>1, <2>2, <2>3, GreatestIs
    <2> HIDE DEF Heads
    <2>5. QED
      BY <1>3, <1>4, <2>1, <2>3, <2>4
  <1>5. CASE lines[n + 1].key \notin Headings
    <2>1. Heads((n + 1) + 1) = Heads(n + 1)
      BY <1>2, <1>5
    <2> HIDE DEF Heads
    <2>2. QED
      BY <1>3, <1>5, <2>1
  <1>6. QED
    BY <1>4, <1>5

LEMMA SaidNext ==
    ASSUME NEW lines, NEW n \in Nat, NEW alias, NEW key
    PROVE  SaidBy(lines, alias, key, n + 1) =
             SaidBy(lines, alias, key, n) \cup
               (IF lines[n + 1].key = key /\ IsAbout(lines, alias, n) THEN {n + 1} ELSE {})
  <1>1. 1..(n + 1) = (1..n) \cup {n + 1}
    OBVIOUS
  <1>2. Applies(lines, n + 1, alias, key) <=> lines[n + 1].key = key /\ IsAbout(lines, alias, n)
    BY DEF Applies, IsAbout
  <1>3. QED
    BY <1>1, <1>2 DEF SaidBy

LinePut(T, block, next, line) ==
    /\ block.directives \in Seq(T) /\ line \in T
    /\ next.directives = Append(block.directives, line)

SayingsGrow(block, next, line, key) ==
    /\ Sayings(next, key) = Sayings(block, key) \cup
         (IF line.key = key THEN {Len(block.directives) + 1} ELSE {})
    /\ Sayings(block, key) \subseteq 1..Len(block.directives) /\ Len(block.directives) \in Nat
    /\ next.directives[Len(block.directives) + 1] = line
    /\ \A i \in Sayings(block, key) : next.directives[i] = block.directives[i]

LEMMA SayingsNext ==
    ASSUME NEW T, NEW block, NEW next, NEW line, NEW key, LinePut(T, block, next, line)
    PROVE  SayingsGrow(block, next, line, key)
  <1>1. PICK d : d = block.directives /\ d \in Seq(T) /\ line \in T
    BY DEF LinePut
  <1>2. PICK l : l = Len(d) /\ l \in Nat
    BY <1>1
  <1>3. PICK e : e = Append(d, line)
    OBVIOUS
  <1>4. /\ DOMAIN e = 1..(l + 1) /\ e[l + 1] = line /\ \A i \in 1..l : e[i] = d[i]
        /\ DOMAIN d = 1..l
    BY <1>1, <1>2, <1>3
  <1>5. next.directives = e
    BY <1>1, <1>3 DEF LinePut
  <1>6. 1..(l + 1) = (1..l) \cup {l + 1}
    BY <1>2
  <1>7. Sayings(block, key) = {i \in 1..l : d[i].key = key}
    BY <1>1, <1>4 DEF Sayings
  <1>8. Sayings(next, key) = {i \in (1..l) \cup {l + 1} : e[i].key = key}
    BY <1>4, <1>5, <1>6 DEF Sayings
  <1>9. Sayings(next, key) = Sayings(block, key) \cup (IF line.key = key THEN {l + 1} ELSE {})
    BY <1>4, <1>7, <1>8
  <1>10. QED
    BY <1>1, <1>2, <1>4, <1>5, <1>7, <1>9 DEF SayingsGrow

FirstSaid(block, key) == block.directives[Min(Sayings(block, key))].value

\* What a block says first is still that with another line.
FirstStays(block, next, line, key) ==
    /\ Sayings(block, key) # {} => FirstSaid(next, key) = FirstSaid(block, key)
    /\ Sayings(block, key) = {} /\ line.key = key => FirstSaid(next, key) = line.value

LEMMA SaidFirst ==
    ASSUME NEW T, NEW block, NEW next, NEW line, NEW key, LinePut(T, block, next, line)
    PROVE  FirstStays(block, next, line, key)
  <1> DEFINE l == Len(block.directives)
  <1>1. /\ Sayings(next, key) = Sayings(block, key) \cup (IF line.key = key THEN {l + 1} ELSE {})
        /\ Sayings(block, key) \subseteq 1..l /\ l \in Nat
        /\ next.directives[l + 1] = line
        /\ \A i \in Sayings(block, key) : next.directives[i] = block.directives[i]
    BY SayingsNext DEF SayingsGrow
  <1> HIDE DEF l
  <1>2. PICK S, R : S = Sayings(block, key) /\ R = Sayings(next, key)
    OBVIOUS
  <1>3. S \in SUBSET Nat /\ R \in SUBSET Nat
    BY <1>1, <1>2
  <1>4. ASSUME S # {} PROVE FirstSaid(next, key) = FirstSaid(block, key)
    <2>1. PICK i : i = Min(S) /\ i \in S /\ \A k \in S : i <= k
      BY <1>3, <1>4, LeastOf
    <2>2. i \in R /\ \A k \in R : i <= k
      <3>1. i <= l + 1
        BY <1>1, <1>2, <2>1
      <3>2. QED
        BY <1>1, <1>2, <2>1, <3>1
    <2>3. Min(R) = i
      BY <1>3, <2>2, LeastIs
    <2>4. QED
      BY <1>1, <1>2, <2>1, <2>3 DEF FirstSaid
  <1>5. ASSUME S = {}, line.key = key PROVE FirstSaid(next, key) = line.value
    <2>1. R = {l + 1}
      BY <1>1, <1>2, <1>5
    <2>2. l + 1 \in R /\ \A k \in R : l + 1 <= k
      BY <1>1, <2>1
    <2>3. Min(R) = l + 1
      BY <1>3, <2>2, LeastIs
    <2>4. QED
      BY <1>1, <1>2, <2>3 DEF FirstSaid
  <1>6. QED
    BY <1>2, <1>4, <1>5 DEF FirstStays

LEMMA IsObtained ==
    ASSUME NEW blocks, NEW alias, NEW key, Sayers(blocks, alias, key) # {}
    PROVE  Obtained(blocks, alias, key) = FirstSaid(blocks[Min(Sayers(blocks, alias, key))], key)
  BY DEF Obtained, FirstSaid

LEMMA BlocksParts ==
    ASSUME NEW T, NEW blocks \in BlocksOf(T)
    PROVE  /\ Len(blocks) \in Nat \ {0} /\ DOMAIN blocks = 1..Len(blocks)
           /\ \A k \in 1..Len(blocks) : blocks[k].directives \in Seq(T) /\ blocks[k].patterns \in Patterns(T)
  <1>1. blocks \in Seq(BlockOf(T)) /\ blocks # <<>>
    BY DEF BlocksOf
  <1>2. Len(blocks) \in Nat \ {0} /\ DOMAIN blocks = 1..Len(blocks)
        /\ \A k \in 1..Len(blocks) : blocks[k] \in BlockOf(T)
    BY <1>1
  <1>3. QED
    BY <1>2 DEF BlockOf

\* A new block says nothing yet.
LEMMA SaysNextBlock ==
    ASSUME NEW T, NEW lines, NEW alias, NEW key, key \notin Headings, NEW n \in Nat,
           NEW blocks \in BlocksOf(T), NEW next \in BlocksOf(T), NEW patterns,
           BlockAdded(blocks, next, patterns), lines[n + 1].key \in Headings,
           PatternsMatch(patterns, alias) <=> IsAbout(lines, alias, n + 1),
           SaysAsMuch(blocks, lines, alias, key, n)
    PROVE  SaysAsMuch(next, lines, alias, key, n + 1)
  <1>1. PICK m : m = Len(blocks)
    OBVIOUS
  <1>2. /\ m \in Nat \ {0} /\ DOMAIN blocks = 1..m /\ DOMAIN next = 1..(m + 1)
        /\ Len(next) = m + 1 /\ \A k \in 1..m : next[k] = blocks[k]
        /\ next[m + 1] = Block(patterns)
    BY <1>1, BlocksParts DEF BlockAdded
  <1>3. next[m + 1].patterns = patterns /\ ToSet(next[m + 1].directives) = {}
    BY <1>2, EmptyList DEF Block
  <1>4. SaidBy(lines, alias, key, n + 1) = SaidBy(lines, alias, key, n)
    <2>1. ~(lines[n + 1].key = key /\ IsAbout(lines, alias, n))
      OBVIOUS
    <2>2. PICK S, R : S = SaidBy(lines, alias, key, n) /\ R = SaidBy(lines, alias, key, n + 1)
      OBVIOUS
    <2>3. R = S \cup {}
      BY <2>1, <2>2, SaidNext
    <2>4. QED
      BY <2>2, <2>3
  <1>5. Sayers(next, alias, key) = Sayers(blocks, alias, key)
    <2>1. 1..(m + 1) = (1..m) \cup {m + 1}
      BY <1>2
    <2>2. QED
      BY <1>2, <1>3, <2>1 DEF Sayers
  <1>6. ASSUME Sayers(blocks, alias, key) # {}
        PROVE  Obtained(next, alias, key) = Obtained(blocks, alias, key)
    <2>1. PICK S : S = Sayers(blocks, alias, key) /\ S \in SUBSET (1..m)
      BY <1>2 DEF Sayers
    <2>2. S \in SUBSET Nat
      BY <2>1
    <2>3. Min(S) \in 1..m
      BY <1>6, <2>1, <2>2, LeastOf
    <2>4. QED
      BY <1>2, <1>5, <1>6, <2>1, <2>3, IsObtained
  <1>7. QED
    BY <1>2, <1>3, <1>4, <1>5, <1>6 DEF SaysAsMuch

\* A line of a block counts when it is the first of its key.
LEMMA SaysNextLine ==
    ASSUME NEW T, NEW lines, NEW alias, NEW key, NEW n \in Nat,
           NEW blocks \in BlocksOf(T), NEW next \in BlocksOf(T), lines[n + 1] \in T,
           LineAdded(blocks, next, lines[n + 1]), lines[n + 1].key \notin Headings,
           SaysAsMuch(blocks, lines, alias, key, n)
    PROVE  SaysAsMuch(next, lines, alias, key, n + 1)
  <1>1. PICK m, line : m = Len(blocks) /\ line = lines[n + 1] /\ line \in T
    OBVIOUS
  <1>2. /\ m \in Nat \ {0} /\ DOMAIN blocks = 1..m /\ DOMAIN next = 1..m
        /\ Len(next) = m /\ \A k \in 1..(m - 1) : next[k] = blocks[k]
        /\ next[m].patterns = blocks[m].patterns
        /\ next[m].directives = Append(blocks[m].directives, line)
        /\ blocks[m].directives \in Seq(T)
    <2>1. Len(blocks) \in 1..Len(blocks)
      BY BlocksParts
    <2>2. QED
      BY <1>1, <2>1, BlocksParts DEF LineAdded
  <1>3. PICK old, new : old = blocks[m] /\ new = next[m]
    OBVIOUS
  <1>4. /\ old.directives \in Seq(T) /\ new.directives = Append(old.directives, line)
        /\ new.patterns = old.patterns
    BY <1>2, <1>3
  <1>5. ToSet(new.directives) = ToSet(old.directives) \cup {line}
    <2>1. IsList(old.directives)
      BY <1>4 DEF IsList, ToSet
    <2>2. QED
      BY <1>4, <2>1, ListAppend
  <1>6. IsAbout(lines, alias, n + 1) <=> IsAbout(lines, alias, n)
    BY HeadingNext DEF IsAbout
  <1>7. PICK K, L, S, R : /\ K = Sayers(blocks, alias, key) /\ L = Sayers(next, alias, key)
                          /\ S = SaidBy(lines, alias, key, n) /\ R = SaidBy(lines, alias, key, n + 1)
    OBVIOUS
  <1>8. PatternsMatch(old.patterns, alias) <=> IsAbout(lines, alias, n)
    BY <1>1, <1>3 DEF SaysAsMuch
  <1>9. PICK applies \in BOOLEAN : applies <=> (line.key = key /\ IsAbout(lines, alias, n))
    OBVIOUS
  <1>10. R = S \cup (IF applies THEN {n + 1} ELSE {})
    BY <1>1, <1>7, <1>9, SaidNext
  <1>11. m \in L <=> m \in K \/ applies
    BY <1>2, <1>3, <1>4, <1>5, <1>7, <1>8, <1>9 DEF Sayers
  <1>12. \A k \in 1..(m - 1) : k \in L <=> k \in K
    BY <1>2, <1>7 DEF Sayers
  <1>13. K \subseteq 1..m /\ L \subseteq 1..m /\ S \subseteq 1..n
    BY <1>2, <1>7 DEF Sayers, SaidBy
  <1>14. L = K \cup (IF applies THEN {m} ELSE {})
    <2>1. \A k \in 1..m : k = m \/ k \in 1..(m - 1)
      BY <1>2
    <2>2. m \in 1..m
      BY <1>2
    <2>3. \A k \in 1..m : k \in L <=> k \in K \/ (applies /\ k = m)
      BY <1>11, <1>12, <2>1, <2>2
    <2>4. QED
      BY <1>13, <2>2, <2>3
  <1>15. K = {} <=> S = {}
    BY <1>7 DEF SaysAsMuch
  <1>16. L = {} <=> R = {}
    BY <1>10, <1>14, <1>15
  <1>17. K \in SUBSET Nat /\ L \in SUBSET Nat /\ S \in SUBSET Nat /\ R \in SUBSET Nat
    BY <1>2, <1>10, <1>13
  <1>18. m \in K => Sayings(old, key) # {}
    <2>1. SUFFICES ASSUME m \in K PROVE Sayings(old, key) # {}
      OBVIOUS
    <2>2. PICK l \in ToSet(old.directives) : l.key = key
      BY <1>3, <1>7, <2>1 DEF Sayers
    <2>3. PICK i \in DOMAIN old.directives : old.directives[i] = l
      BY <1>4 DEF ToSet
    <2>4. QED
      BY <2>2, <2>3 DEF Sayings
  <1>0. FirstStays(old, new, line, key)
    BY <1>1, <1>4, SaidFirst DEF LinePut
  <1>19. ASSUME R # {} PROVE Obtained(next, alias, key) = lines[Min(R)].value
    <2>1. CASE S # {}
      <3>1. PICK k : k = Min(K) /\ k \in K /\ \A j \in K : k <= j
        BY <1>15, <1>17, <2>1, LeastOf
      <3>2. PICK i : i = Min(S) /\ i \in S /\ \A j \in S : i <= j
        BY <1>17, <2>1, LeastOf
      <3>3. Min(L) = k
        <4>1. k \in 1..m
          BY <1>13, <3>1
        <4>2. k \in L /\ \A j \in L : k <= j
          BY <1>2, <1>14, <3>1, <4>1
        <4>3. QED
          BY <1>17, <4>2, LeastIs
      <3>4. Min(R) = i
        <4>1. i \in 1..n
          BY <1>13, <3>2
        <4>2. i \in R /\ \A j \in R : i <= j
          BY <1>10, <3>2, <4>1
        <4>3. QED
          BY <1>17, <4>2, LeastIs
      <3>5. Obtained(blocks, alias, key) = lines[i].value
        BY <1>7, <2>1, <3>2 DEF SaysAsMuch
      <3>6. FirstSaid(next[k], key) = FirstSaid(blocks[k], key)
        <4>1. CASE k = m
          BY <1>0, <1>3, <1>18, <3>1, <4>1 DEF FirstStays
        <4>2. CASE k # m
          <5>1. k \in 1..(m - 1)
            BY <1>2, <1>13, <3>1, <4>2
          <5>2. QED
            BY <1>2, <5>1
        <4>3. QED
          BY <4>1, <4>2
      <3>7. Obtained(blocks, alias, key) = FirstSaid(blocks[k], key)
        BY <1>7, <3>1, IsObtained
      <3>8. Obtained(next, alias, key) = FirstSaid(next[k], key)
        BY <1>7, <1>16, <1>19, <3>3, IsObtained
      <3>9. QED
        BY <3>4, <3>5, <3>6, <3>7, <3>8
    <2>2. CASE S = {}
      <3>1. applies /\ R = {n + 1} /\ K = {} /\ L = {m}
        BY <1>10, <1>14, <1>15, <1>19, <2>2
      <3>2. Min(R) = n + 1
        BY <1>17, <3>1, LeastIs
      <3>3. Min(L) = m
        BY <1>17, <3>1, LeastIs
      <3>4. Sayings(old, key) = {}
        <4>1. SUFFICES ASSUME NEW i \in Sayings(old, key) PROVE FALSE
          OBVIOUS
        <4>2. i \in DOMAIN old.directives /\ old.directives[i].key = key
          BY DEF Sayings
        <4>3. old.directives[i] \in ToSet(old.directives)
          BY <1>4, <4>2 DEF ToSet
        <4>4. m \in K
          BY <1>2, <1>3, <1>7, <1>8, <1>9, <3>1, <4>2, <4>3 DEF Sayers
        <4>5. QED
          BY <3>1, <4>4
      <3>5. FirstSaid(new, key) = line.value
        BY <1>0, <1>9, <3>1, <3>4 DEF FirstStays
      <3>6. Obtained(next, alias, key) = FirstSaid(next[m], key)
        BY <1>7, <1>16, <1>19, <3>3, IsObtained
      <3>7. QED
        BY <1>1, <1>3, <3>2, <3>5, <3>6
    <2>3. QED
      BY <2>1, <2>2
  <1>20. QED
    BY <1>2, <1>3, <1>4, <1>6, <1>7, <1>8, <1>16, <1>19 DEF SaysAsMuch

\* The first value that the blocks have for a host is the first that the lines give it.
LEMMA ObtainedIsSaid ==
    ASSUME NEW T, NEW lines \in Seq(T), NEW alias, NEW key, key \notin Headings
    PROVE  Obtained(Blocks(lines), alias, key) = Says(lines, alias, key, Absent)
  <1>1. PICK f : BlocksTo(f, T, lines)
    BY BlocksDefined
  <1> DEFINE A == {n \in Nat : n <= Len(lines) => SaysAsMuch(f[n], lines, alias, key, n)}
  <1>2. Len(lines) \in Nat /\ \A i \in 1..Len(lines) : lines[i] \in T
    OBVIOUS
  <1>3. 0 \in A
    BY <1>1, SaysAtFirst DEF BlocksTo
  <1>4. ASSUME NEW n \in Nat, n \in A PROVE n + 1 \in A
    <2>1. SUFFICES ASSUME n + 1 <= Len(lines) PROVE SaysAsMuch(f[n + 1], lines, alias, key, n + 1)
      OBVIOUS
    <2>2. n + 1 \in 1..Len(lines) /\ (n + 1) - 1 = n /\ n \in 0..Len(lines) /\ n + 1 \in 0..Len(lines)
      BY <1>2, <2>1
    <2>3. PICK blocks, next : blocks = f[n] /\ next = f[n + 1]
      OBVIOUS
    <2>4. /\ SaysAsMuch(blocks, lines, alias, key, n) /\ blocks \in BlocksOf(T) /\ next \in BlocksOf(T)
          /\ next = WithLine(blocks, lines[n + 1])
      BY <1>1, <1>4, <2>2, <2>3 DEF BlocksTo
    <2>5. lines[n + 1] \in T
      BY <1>2, <2>2
    <2>6. PICK line \in T : line = lines[n + 1]
      BY <2>5
    <2>7. /\ line.key = "host" => BlockAdded(blocks, next, line.value)
          /\ line.key = "match" => BlockAdded(blocks, next, {})
          /\ line.key \notin Headings => LineAdded(blocks, next, line)
      BY <2>4, <2>6, WithLineAdds
    <2>8. CASE line.key = "host"
      <3>1. Heading(lines, (n + 1) + 1) = line
        BY <2>6, <2>8, HeadingNext DEF Headings
      <3>2. PatternsMatch(line.value, alias) <=> IsAbout(lines, alias, n + 1)
        BY <2>8, <3>1 DEF IsAbout
      <3>3. lines[n + 1].key \in Headings
        BY <2>6, <2>8 DEF Headings
      <3>4. PICK patterns : patterns = line.value
        OBVIOUS
      <3>5. QED
        BY <2>3, <2>4, <2>7, <2>8, <3>2, <3>3, <3>4, SaysNextBlock
    <2>9. CASE line.key = "match"
      <3>1. Heading(lines, (n + 1) + 1) = line
        BY <2>6, <2>9, HeadingNext DEF Headings
      <3>2. PICK patterns : patterns = {}
        OBVIOUS
      <3>3. PatternsMatch(patterns, alias) <=> IsAbout(lines, alias, n + 1)
        BY <2>9, <3>1, <3>2, NoneMatches DEF IsAbout
      <3>4. lines[n + 1].key \in Headings
        BY <2>6, <2>9 DEF Headings
      <3>5. QED
        BY <2>3, <2>4, <2>7, <2>9, <3>2, <3>3, <3>4, SaysNextBlock
    <2>10. CASE line.key \notin Headings
      BY <2>3, <2>4, <2>5, <2>6, <2>7, <2>10, SaysNextLine
    <2>11. QED
      BY <2>8, <2>9, <2>10 DEF Headings
  <1>5. Nat \subseteq A
    <2> HIDE DEF A
    <2>1. QED
      BY <1>3, <1>4, Induction
  <1>6. SaysAsMuch(Blocks(lines), lines, alias, key, Len(lines))
    BY <1>1, <1>2, <1>5 DEF BlocksTo
  <1>7. {i \in DOMAIN lines : Applies(lines, i, alias, key)} = SaidBy(lines, alias, key, Len(lines))
    BY DEF SaidBy
  <1>8. CASE SaidBy(lines, alias, key, Len(lines)) = {}
    BY <1>6, <1>7, <1>8 DEF SaysAsMuch, Obtained, Says
  <1>9. CASE SaidBy(lines, alias, key, Len(lines)) # {}
    BY <1>6, <1>7, <1>9 DEF SaysAsMuch, Says
  <1>10. QED
    BY <1>8, <1>9

-----------------------------------------------------------------------------
(* What an undisturbed import has made of the profiles. *)

LEMMA LinesParsed ==
    ASSUME ImportShape
    PROVE  \E T : /\ Lines.lines \in Seq(T)
                  /\ \A line \in T : IF line.key = "host" THEN \A pattern \in line.value : pattern.of # Absent
                                     ELSE line.value # Absent
  <1>1. PICK files : files = disk.openssh
    OBVIOUS
  <1>2. \A file \in DOMAIN files :
          /\ IsList(files[file])
          /\ \A line \in ToSet(files[file]) :
               IF line.key = "host" THEN \A pattern \in line.value : pattern.of # Absent
               ELSE line.value # Absent
    BY <1>1, ProfilesAssumption DEF ImportShape
  <1>3. PICK T : T = Written(files)
    OBVIOUS
  <1>4. Lines.lines \in Seq(T)
    BY <1>1, <1>2, <1>3, ExpandParsed DEF Lines
  <1>5. \A line \in T : \E file \in DOMAIN files : line \in ToSet(files[file])
    BY <1>3 DEF Written
  <1>6. QED
    BY <1>2, <1>4, <1>5

LEMMA AliasesAreSaid ==
    ASSUME ImportShape, NEW a \in Aliases(Lines.lines) PROVE a # Absent
  <1>1. PICK lines : lines = Lines.lines
    OBVIOUS
  <1>2. PICK T : /\ lines \in Seq(T)
                 /\ \A line \in T : IF line.key = "host" THEN \A pattern \in line.value : pattern.of # Absent
                                    ELSE line.value # Absent
    BY <1>1, LinesParsed
  <1>3. PICK b \in ToSet(Blocks(lines)) : \E p \in b.patterns : p.of = a /\ p.of # Everyone
    BY <1>1 DEF Aliases
  <1>4. PICK p \in b.patterns : p.of = a /\ p.of # Everyone
    BY <1>3
  <1>5. PICK f : BlocksTo(f, T, lines)
    BY <1>2, BlocksDefined
  <1>6. PICK blocks : blocks = Blocks(lines) /\ blocks \in BlocksOf(T)
    BY <1>2, <1>5 DEF BlocksTo
  <1>7. PICK k \in 1..Len(blocks) : b = blocks[k]
    BY <1>3, <1>6, BlocksParts DEF ToSet
  <1>8. b.patterns \in Patterns(T)
    BY <1>6, <1>7, BlocksParts
  <1>9. b.patterns # ForEveryone
    BY <1>4 DEF ForEveryone
  <1>10. PICK line \in T : line.key = "host" /\ b.patterns = line.value
    BY <1>4, <1>8, <1>9 DEF Patterns
  <1>11. QED
    BY <1>2, <1>4, <1>10

LEMMA SaidIsSomething ==
    ASSUME ImportShape, NEW alias, NEW key, key \notin Headings, NEW default
    PROVE  /\ Obtained(Blocks(Lines.lines), alias, key) = Says(Lines.lines, alias, key, Absent)
           /\ Says(Lines.lines, alias, key, default) =
                OrElse(Obtained(Blocks(Lines.lines), alias, key), default)
  <1>1. PICK lines : lines = Lines.lines
    OBVIOUS
  <1>2. PICK T : /\ lines \in Seq(T)
                 /\ \A line \in T : IF line.key = "host" THEN \A pattern \in line.value : pattern.of # Absent
                                    ELSE line.value # Absent
    BY <1>1, LinesParsed
  <1>3. Obtained(Blocks(lines), alias, key) = Says(lines, alias, key, Absent)
    BY <1>2, ObtainedIsSaid
  <1>4. PICK S : S = {i \in DOMAIN lines : Applies(lines, i, alias, key)}
    OBVIOUS
  <1>5. \A i \in S : lines[i].value # Absent
    <2>1. SUFFICES ASSUME NEW i \in S PROVE lines[i].value # Absent
      OBVIOUS
    <2>2. lines[i] \in T
      BY <1>2, <1>4
    <2>3. lines[i].key = key /\ key # "host"
      BY <1>4 DEF Applies, Headings
    <2>4. QED
      BY <1>2, <2>2, <2>3
  <1>6. S \in SUBSET Nat
    BY <1>2, <1>4
  <1>7. Says(lines, alias, key, default) = OrElse(Says(lines, alias, key, Absent), default)
    <2>1. CASE S = {}
      BY <1>4, <2>1 DEF Says, OrElse
    <2>2. CASE S # {}
      <3>1. Min(S) \in S
        BY <1>6, <2>2, LeastOf
      <3>2. QED
        BY <1>4, <1>5, <2>2, <3>1 DEF Says, OrElse
    <2>3. QED
      BY <2>1, <2>2
  <1>8. QED
    BY <1>1, <1>3, <1>7

\* An import that ended undisturbed.
EndedWell == ImportSound /\ import.stage = "done" /\ import.quiet

LEMMA EndedParts ==
    ASSUME EndedWell
    PROVE  /\ ImportShape /\ import.sources \subseteq ToSet(Kinds) /\ import.jumps = <<>>
           /\ \A c \in Candidates : \E i \in RowIds : Made(c, i)
  <1>1. ImportShape /\ Progresses
    BY DEF EndedWell, ImportSound
  <1>2. Placed /\ import.todo = {} /\ import.jumps = <<>>
    BY <1>1 DEF EndedWell, Progresses
  <1>3. import.sources \subseteq ToSet(Kinds)
    BY <1>1, UnderWay DEF EndedWell, ImportFits
  <1>4. QED
    BY <1>1, <1>2, <1>3 DEF Placed

LEMMA MadeStands ==
    ASSUME NEW c, NEW i \in RowIds, Made(c, i)
    PROVE  StandsFor(i, c.source, c.name, c.host)
  <1>1. saved[i] # NoRow /\ NamedFor(c, i) /\ saved[i].host = c.host
    BY DEF Made
  <1>2. \A n, s, k : Final(n, s, k).base = n /\ Final(n, s, k).source = s
    BY DEF Final
  <1>3. \A n : Plain(n).base = n /\ Plain(n).source = ""
    BY <1>2 DEF Plain
  <1>4. saved[i].name.base = c.name /\ saved[i].name.source \in {"", c.source}
    <2>1. CASE saved[i].name = Plain(c.name)
      BY <1>3, <2>1
    <2>2. CASE \E k : saved[i].name = Final(c.name, c.source, k)
      <3>1. PICK k : saved[i].name = Final(c.name, c.source, k)
        BY <2>2
      <3>2. PICK n : n = saved[i].name
        OBVIOUS
      <3>3. n.base = c.name /\ n.source = c.source
        BY <1>2, <3>1, <3>2
      <3>4. QED
        BY <3>2, <3>3
    <2>3. QED
      BY <1>1, <2>1, <2>2 DEF NamedFor
  <1>5. QED
    BY <1>1, <1>4 DEF StandsFor, InUse

\* The link of a server that was added is to the server of the candidate that it names, when
\* nothing else of its source claims that name.
LEMMA LinkStands ==
    ASSUME EndedWell, NEW c \in Candidates, NEW i \in RowIds, Made(c, i), IsNew(i),
           NEW d \in Candidates, d.source = c.source, d.name = c.jump, c.jump # Absent,
           c.name # d.name, Unclaimed(d)
    PROVE  StandsFor(saved[i].jump, d.source, d.name, d.host)
  <1>1. PICK k \in RowIds : Made(d, k)
    BY EndedParts
  <1>2. KnownAs(d.source, d.name) = {k}
    BY <1>1 DEF Made
  <1>3. import.jumps = <<>>
    BY EndedParts
  <1>4. ToSet(import.jumps) = {}
    BY <1>3, EmptyList
  <1>5. IsLinked(c, i)
    BY <1>4 DEF Made
  <1>6. PICK jump : jump = Jump(c, i) /\ jump.source = d.source /\ jump.to = d.name
    <2>1. Jump(c, i).source = c.source /\ Jump(c, i).to = c.jump
      BY DEF Jump
    <2>2. QED
      BY <2>1
  <1>7. Linked(jump) = {k}
    <2>1. ByAlias(jump) = {k}
      BY <1>2, <1>6 DEF KnownAs, ByAlias
    <2>2. QED
      BY <2>1 DEF Linked
  <1>8. i # k
    <2>1. saved[i].name.base = c.name /\ saved[k].name.base = d.name
      BY <1>1, MadeStands DEF StandsFor
    <2>2. QED
      BY <2>1
  <1>9. saved[i].jump = k
    BY <1>5, <1>6, <1>7, <1>8 DEF IsLinked
  <1>10. QED
    BY <1>1, <1>9, MadeStands

\* The candidates of OpenSSH are its hosts.
HostOf(lines, a) ==
    Candidate("openssh", 0, a, a, OrElse(Obtained(Blocks(lines), a, "hostname"), a),
              NotNone(Obtained(Blocks(lines), a, "proxyjump")))

LEMMA HostParts ==
    ASSUME NEW lines, NEW a, NEW c, c = HostOf(lines, a)
    PROVE  /\ c.source = "openssh" /\ c.id = a /\ c.name = a
           /\ c.host = OrElse(Obtained(Blocks(lines), a, "hostname"), a)
           /\ c.jump = NotNone(Obtained(Blocks(lines), a, "proxyjump"))
  BY DEF HostOf, Candidate

LEMMA HostsAre ==
    ASSUME EndedWell, "openssh" \in import.sources, NEW a \in Aliases(Lines.lines)
    PROVE  HostOf(Lines.lines, a) \in Candidates /\ Unclaimed(HostOf(Lines.lines, a))
  <1>1. PICK lines : lines = Lines.lines
    OBVIOUS
  <1>2. Read("openssh") = {HostOf(lines, b) : b \in Aliases(lines)}
    BY <1>1 DEF Read, OpenSsh, HostOf
  <1>3. PICK c : c = HostOf(lines, a)
    OBVIOUS
  <1>4. c \in Candidates
    BY <1>1, <1>2, <1>3 DEF Candidates
  <1>5. ASSUME NEW e \in Candidates, e # c, e.source = "openssh" PROVE a \notin {e.id, e.name}
    <2>1. PICK s \in import.sources : e \in Read(s)
      BY DEF Candidates
    <2>2. s = "openssh"
      BY <1>5, <2>1, EndedParts, ReadSource
    <2>3. PICK b \in Aliases(lines) : e = HostOf(lines, b)
      BY <1>2, <2>1, <2>2
    <2>4. b # a
      BY <1>3, <1>5, <2>3
    <2>5. QED
      BY <2>3, <2>4, HostParts
  <1>6. c.name = a /\ c.source = "openssh"
    BY <1>3, HostParts
  <1>7. Unclaimed(c)
    BY <1>5, <1>6 DEF Unclaimed
  <1>8. QED
    BY <1>1, <1>3, <1>4, <1>7

LEMMA HostsAreImported ==
    ASSUME EndedWell, "openssh" \in import.sources, NEW a \in Aliases(Lines.lines)
    PROVE  LET lines == Lines.lines
               host(b) == Says(lines, b, "hostname", b)
               j == Says(lines, a, "proxyjump", Absent)
           IN  \E i \in InUse :
                 /\ StandsFor(i, "openssh", a, host(a))
                 /\ (IsNew(i) /\ j \in Aliases(lines) \ {a, "none"}) =>
                      StandsFor(saved[i].jump, "openssh", j, host(j))
  <1> DEFINE lines == Lines.lines
             host(b) == Says(lines, b, "hostname", b)
             j == Says(lines, a, "proxyjump", Absent)
  <1>1. ImportShape
    BY EndedParts
  <1>2. "hostname" \notin Headings /\ "proxyjump" \notin Headings
    BY DEF Headings
  <1>3. \A b : OrElse(Obtained(Blocks(lines), b, "hostname"), b) = host(b)
    BY <1>1, <1>2, SaidIsSomething
  <1>4. Obtained(Blocks(lines), a, "proxyjump") = j
    BY <1>1, <1>2, SaidIsSomething
  <1>5. PICK c : c = HostOf(lines, a) /\ c \in Candidates
    BY HostsAre
  <1>6. c.source = "openssh" /\ c.name = a /\ c.host = host(a) /\ c.jump = NotNone(j)
    BY <1>3, <1>4, <1>5, HostParts
  <1>7. PICK i \in RowIds : Made(c, i)
    BY <1>5, EndedParts
  <1>8. StandsFor(i, "openssh", a, host(a)) /\ i \in InUse
    BY <1>6, <1>7, MadeStands DEF StandsFor
  <1>9. ASSUME IsNew(i), j \in Aliases(lines) \ {a, "none"}
        PROVE  StandsFor(saved[i].jump, "openssh", j, host(j))
    <2>1. PICK d : d = HostOf(lines, j) /\ d \in Candidates /\ Unclaimed(d)
      BY <1>9, HostsAre
    <2>2. d.source = "openssh" /\ d.name = j /\ d.host = host(j)
      BY <1>3, <2>1, HostParts
    <2>3. c.jump = j /\ j # Absent
      BY <1>1, <1>6, <1>9, AliasesAreSaid DEF NotNone
    <2>4. a # j
      BY <1>9
    <2>5. StandsFor(saved[i].jump, d.source, d.name, d.host)
      BY <1>5, <1>6, <1>7, <1>9, <2>1, <2>2, <2>3, <2>4, LinkStands
    <2>6. QED
      BY <2>2, <2>5
  <1>10. QED
    BY <1>8, <1>9

\* The candidates of Tabby are the first of its profiles of each name and host.
Usable(profiles) == {k \in DOMAIN profiles : profiles[k].host # Absent /\ profiles[k].type \in {Absent, "ssh"}}
IsFirst(profiles, n) ==
    \A k \in Usable(profiles) : k < n => \/ TabbyName(profiles[k]) # TabbyName(profiles[n])
                                         \/ profiles[k].host # profiles[n].host
JumpName(profiles, p) == IF p.jump = Absent THEN Absent ELSE NameOfId(profiles, p.jump)
ProfileAt(profiles, n) ==
    Candidate("tabby", n, OrElse(profiles[n].id, TabbyName(profiles[n])), TabbyName(profiles[n]),
              profiles[n].host, JumpName(profiles, profiles[n]))

LEMMA TabbyIs ==
    ASSUME NEW profiles
    PROVE  /\ \A n \in Usable(profiles) : IsFirst(profiles, n) => ProfileAt(profiles, n) \in Tabby(profiles)
           /\ \A c \in Tabby(profiles) : \E n \in Usable(profiles) :
                IsFirst(profiles, n) /\ c = ProfileAt(profiles, n)
  <1>1. Tabby(profiles) = {ProfileAt(profiles, n) : n \in {k \in Usable(profiles) : IsFirst(profiles, k)}}
    BY DEF Tabby, ProfileAt, Usable, IsFirst, JumpName
  <1>2. QED
    BY <1>1

LEMMA ProfileParts ==
    ASSUME NEW profiles, NEW n, NEW c, c = ProfileAt(profiles, n)
    PROVE  /\ c.source = "tabby" /\ c.at = n /\ c.name = TabbyName(profiles[n])
           /\ c.id = OrElse(profiles[n].id, TabbyName(profiles[n])) /\ c.host = profiles[n].host
           /\ c.jump = JumpName(profiles, profiles[n])
  BY DEF ProfileAt, Candidate

\* Where a profile is found first.
LEMMA FirstPlace ==
    ASSUME NEW profiles, IsList(profiles), ToldApart(ToSet(profiles)), NEW p \in ToSet(profiles),
           p.type = "ssh", p.host # Absent
    PROVE  \E n \in Usable(profiles) : profiles[n] = p /\ IsFirst(profiles, n)
  <1>1. /\ DOMAIN profiles = 1..Len(profiles) /\ Len(profiles) \in Nat
        /\ \A n \in 1..Len(profiles) : profiles[n] \in ToSet(profiles)
        /\ \E n \in 1..Len(profiles) : profiles[n] = p
    BY ListParts
  <1>2. PICK S : S = {n \in DOMAIN profiles : profiles[n] = p}
    OBVIOUS
  <1>3. S \in SUBSET Nat /\ S # {}
    BY <1>1, <1>2
  <1>4. PICK n \in S : \A k \in S : n <= k
    BY <1>3, LeastNumber
  <1>5. n \in DOMAIN profiles /\ profiles[n] = p /\ n \in Nat
    BY <1>2, <1>3
  <1>6. n \in Usable(profiles)
    BY <1>5 DEF Usable
  <1>7. ASSUME NEW k \in Usable(profiles), k < n
        PROVE  TabbyName(profiles[k]) # TabbyName(profiles[n])
    <2>1. k \in DOMAIN profiles /\ k \in Nat
      BY <1>1 DEF Usable
    <2>2. k \notin S
      BY <1>4, <1>5, <1>7, <2>1
    <2>3. profiles[k] # p /\ profiles[k] \in ToSet(profiles)
      BY <1>1, <1>2, <2>1, <2>2
    <2>4. profiles[k].name # p.name /\ profiles[k].name # Absent /\ p.name # Absent
      BY <2>3 DEF ToldApart
    <2>5. QED
      BY <1>5, <2>4 DEF TabbyName, OrElse
  <1>8. IsFirst(profiles, n)
    BY <1>7 DEF IsFirst
  <1>9. QED
    BY <1>5, <1>6, <1>8

LEMMA NamedById ==
    ASSUME NEW profiles, IsList(profiles), ToldApart(ToSet(profiles)), NEW q \in ToSet(profiles),
           q.host # Absent, q.id # Absent
    PROVE  NameOfId(profiles, q.id) = q.name
  <1>1. PICK S : S = {i \in DOMAIN profiles : profiles[i].host # Absent /\ profiles[i].id = q.id}
    OBVIOUS
  <1>2. /\ DOMAIN profiles = 1..Len(profiles) /\ Len(profiles) \in Nat
        /\ \A n \in 1..Len(profiles) : profiles[n] \in ToSet(profiles)
        /\ \E n \in 1..Len(profiles) : profiles[n] = q
    BY ListParts
  <1>3. S \in SUBSET (1..Len(profiles)) /\ S # {}
    BY <1>1, <1>2
  <1>4. PICK i \in S : i = Max(S)
    BY <1>2, <1>3, GreatestOf
  <1>5. profiles[i] = q
    <2>1. profiles[i].id = q.id /\ profiles[i] \in ToSet(profiles)
      BY <1>1, <1>2, <1>3
    <2>2. QED
      BY <2>1 DEF ToldApart
  <1>6. q.name # Absent
    BY DEF ToldApart
  <1>7. QED
    BY <1>1, <1>3, <1>4, <1>5, <1>6 DEF NameOfId, OrElse

LEMMA ProfilesAre ==
    ASSUME EndedWell, "tabby" \in import.sources, NEW profiles, profiles = disk.tabby,
           ToldApart(ToSet(profiles)), NEW p \in ToSet(profiles), p.type = "ssh", p.host # Absent
    PROVE  \E c \in Candidates : /\ c.source = "tabby" /\ c.name = p.name /\ c.host = p.host
                                 /\ c.jump = JumpName(profiles, p) /\ Unclaimed(c)
  <1>1. IsList(profiles)
    BY EndedParts, ProfilesAssumption DEF ImportShape
  <1>2. PICK n \in Usable(profiles) : profiles[n] = p /\ IsFirst(profiles, n)
    BY <1>1, FirstPlace
  <1>3. PICK c : c = ProfileAt(profiles, n)
    OBVIOUS
  <1>4. Read("tabby") = Tabby(profiles)
    BY DEF Read
  <1>5. c \in Candidates
    BY <1>2, <1>3, <1>4, TabbyIs DEF Candidates
  <1>6. \A q \in ToSet(profiles) : TabbyName(q) = q.name
    BY DEF ToldApart, TabbyName, OrElse
  <1>7. c.source = "tabby" /\ c.name = p.name /\ c.host = p.host /\ c.jump = JumpName(profiles, p)
    BY <1>2, <1>3, <1>6, ProfileParts
  <1>8. ASSUME NEW e \in Candidates, e # c, e.source = "tabby" PROVE p.name \notin {e.id, e.name}
    <2>1. PICK s \in import.sources : e \in Read(s)
      BY DEF Candidates
    <2>2. s = "tabby"
      BY <1>8, <2>1, EndedParts, ReadSource
    <2>3. PICK m \in Usable(profiles) : IsFirst(profiles, m) /\ e = ProfileAt(profiles, m)
      BY <1>4, <2>1, <2>2, TabbyIs
    <2>4. PICK q : q = profiles[m]
      OBVIOUS
    <2>5. q \in ToSet(profiles)
      BY <1>1, <2>4, ListParts DEF Usable
    <2>6. q # p
      <3>1. m # n /\ m \in Nat /\ n \in Nat
        BY <1>1, <1>3, <1>8, <2>3, ListParts DEF Usable
      <3>2. CASE m < n
        BY <1>2, <2>4, <3>2 DEF IsFirst
      <3>3. CASE n < m
        BY <1>2, <2>3, <2>4, <3>3 DEF IsFirst
      <3>4. QED
        BY <3>1, <3>2, <3>3
    <2>7. e.name = q.name /\ e.id = OrElse(q.id, q.name)
      BY <1>6, <2>3, <2>4, <2>5, ProfileParts
    <2>8. q.name # p.name /\ q.id # p.name
      BY <2>5, <2>6 DEF ToldApart
    <2>9. QED
      BY <2>7, <2>8 DEF OrElse
  <1>9. Unclaimed(c)
    BY <1>7, <1>8 DEF Unclaimed
  <1>10. QED
    BY <1>5, <1>7, <1>9

LEMMA ProfilesAreImported ==
    ASSUME EndedWell, "tabby" \in import.sources, NEW profiles, profiles = disk.tabby,
           ToldApart(ToSet(profiles)), NEW p \in ToSet(profiles), p.type = "ssh", p.host # Absent
    PROVE  \E i \in InUse :
             /\ StandsFor(i, "tabby", p.name, p.host)
             /\ \A q \in ToSet(profiles) :
                  (/\ q.type = "ssh" /\ q.host # Absent /\ q # p
                   /\ IsNew(i) /\ p.jump # Absent /\ p.jump = q.id) =>
                    StandsFor(saved[i].jump, "tabby", q.name, q.host)
  <1>1. PICK c \in Candidates : /\ c.source = "tabby" /\ c.name = p.name /\ c.host = p.host
                                /\ c.jump = JumpName(profiles, p) /\ Unclaimed(c)
    BY ProfilesAre
  <1>2. PICK i \in RowIds : Made(c, i)
    BY EndedParts
  <1>3. StandsFor(i, "tabby", p.name, p.host) /\ i \in InUse
    BY <1>1, <1>2, MadeStands DEF StandsFor
  <1>4. ASSUME NEW q \in ToSet(profiles), q.type = "ssh", q.host # Absent, q # p,
               IsNew(i), p.jump # Absent, p.jump = q.id
        PROVE  StandsFor(saved[i].jump, "tabby", q.name, q.host)
    <2>1. PICK d \in Candidates : /\ d.source = "tabby" /\ d.name = q.name /\ d.host = q.host
                                  /\ Unclaimed(d)
      BY <1>4, ProfilesAre
    <2>2. IsList(profiles)
      BY EndedParts, ProfilesAssumption DEF ImportShape
    <2>3. c.jump = q.name
      BY <1>1, <1>4, <2>2, NamedById DEF JumpName
    <2>4. q.name # Absent /\ p.name # q.name
      BY <1>4 DEF ToldApart
    <2>5. StandsFor(saved[i].jump, d.source, d.name, d.host)
      BY <1>1, <1>2, <1>4, <2>1, <2>3, <2>4, LinkStands
    <2>6. QED
      BY <2>1, <2>5
  <1>5. QED
    BY <1>3, <1>4

LEMMA SoundConfigured ==
    ASSUME ImportSound PROVE ImportedAsConfigured
  <1>1. SUFFICES ASSUME EndedWell PROVE ImportedAsConfigured
    BY DEF EndedWell, ImportedAsConfigured
  <1>2. ASSUME "openssh" \in import.sources, NEW a \in Aliases(Lines.lines)
        PROVE  LET lines == Lines.lines
                   host(b) == Says(lines, b, "hostname", b)
                   j == Says(lines, a, "proxyjump", Absent)
               IN  \E i \in InUse :
                     /\ StandsFor(i, "openssh", a, host(a))
                     /\ (IsNew(i) /\ j \in Aliases(lines) \ {a, "none"}) =>
                          StandsFor(saved[i].jump, "openssh", j, host(j))
    BY <1>1, <1>2, HostsAreImported
  <1>3. ASSUME "tabby" \in import.sources, ToldApart(ToSet(disk.tabby)),
               NEW p \in {r \in ToSet(disk.tabby) : r.type = "ssh" /\ r.host # Absent}
        PROVE  \E i \in InUse :
                 /\ StandsFor(i, "tabby", p.name, p.host)
                 /\ \A q \in {r \in ToSet(disk.tabby) : r.type = "ssh" /\ r.host # Absent} \ {p} :
                      (IsNew(i) /\ p.jump # Absent /\ p.jump = q.id) =>
                        StandsFor(saved[i].jump, "tabby", q.name, q.host)
    <2>1. PICK profiles : profiles = disk.tabby
      OBVIOUS
    <2>2. PICK i \in InUse :
             /\ StandsFor(i, "tabby", p.name, p.host)
             /\ \A q \in ToSet(profiles) :
                  (/\ q.type = "ssh" /\ q.host # Absent /\ q # p
                   /\ IsNew(i) /\ p.jump # Absent /\ p.jump = q.id) =>
                    StandsFor(saved[i].jump, "tabby", q.name, q.host)
      BY <1>1, <1>3, <2>1, ProfilesAreImported
    <2>3. QED
      BY <2>1, <2>2
  <1>4. QED
    BY <1>2, <1>3 DEF ImportedAsConfigured

\* Whatever OpenSSH and Tabby have on disk: an import that nothing disturbs has a server for
\* each of their hosts, with the value that comes first and the jump host that is meant, and
\* importing that once more changes nothing.
THEOREM ImportIsFaithful == ImportSpec => []ImportsAreFaithful
  <1>1. ImportInit => ImportSound
    BY SoundFirst
  <1>2. ImportSound /\ [ImportNext]_importVars => ImportSound'
    BY SoundStep
  <1>3. ImportSound => ImportsAreFaithful
    BY SoundConfigured, SoundRepeats DEF ImportsAreFaithful
  <1>4. QED
    BY <1>1, <1>2, <1>3, PTL DEF ImportSpec

-----------------------------------------------------------------------------
(* The back end. *)

\* The components of MCBackend share no state, so what each does there it may do alone.
LEMMA BackendPartsStep ==
    ASSUME [BackendNext]_backendVars
    PROVE  /\ [TermNext]_termVars /\ [SyncNext]_syncVars /\ [PlugNext]_plugVars /\ [Next]_vars
           /\ [BookNext]_bookVars /\ [ObjNext]_objVars /\ [ImportNext]_importVars
  <1>1. CASE UNCHANGED backendVars
    BY <1>1 DEF backendVars
  <1>2. CASE TerminalsStep
    BY <1>2 DEF TerminalsStep
  <1>3. CASE TransferStep
    BY <1>3 DEF TransferStep
  <1>4. CASE PluginsStep
    BY <1>4 DEF PluginsStep
  <1>5. CASE ServicesStep
    BY <1>5 DEF ServicesStep
  <1>6. CASE BookStep
    BY <1>6 DEF BookStep
  <1>7. CASE ObjectStep
    BY <1>7 DEF ObjectStep
  <1>8. CASE ImportStep
    BY <1>8 DEF ImportStep
  <1>9. QED
    BY <1>1, <1>2, <1>3, <1>4, <1>5, <1>6, <1>7, <1>8 DEF BackendNext

LEMMA BackendParts ==
    BackendSpec => TermSpec /\ SyncSpec /\ PlugSpec /\ Spec /\ BookSpec /\ ObjSpec /\ ImportSpec
  <1>1. BackendInit => /\ TermInit /\ SyncInit /\ PlugInit /\ Init /\ BookInit /\ ObjInit
                       /\ ImportInit
    BY DEF BackendInit
  <1>2. [BackendNext]_backendVars
          => /\ [TermNext]_termVars /\ [SyncNext]_syncVars /\ [PlugNext]_plugVars /\ [Next]_vars
             /\ [BookNext]_bookVars /\ [ObjNext]_objVars /\ [ImportNext]_importVars
    BY BackendPartsStep
  <1>3. QED
    BY <1>1, <1>2, PTL
       DEF BackendSpec, TermSpec, SyncSpec, PlugSpec, Spec, BookSpec, ObjSpec, ImportSpec

\* The state of the back end that one run checks, part by part, is well-typed in every instance
\* of it.
THEOREM BackendTypes == BackendSpec => []BackendTypeOK
  <1>1. /\ TermTypeOK /\ SyncTypeOK /\ PlugTypeOK /\ TypeOK /\ BookTypeOK /\ ObjTypeOK /\ ImportTypeOK
        => BackendTypeOK
    BY DEF BackendTypeOK
  <1>2. QED
    BY <1>1, BackendParts, TerminalTypes, DirectoryTypes, PluginsTypes, ServicesTypes, BookTypes,
       ObjectTypes, ImportTypes, PTL

\* What that run checks of the back end holds in every instance of it: transfers that end well,
\* plugins and commands that were reviewed, teardowns that leave no service, secrets that are
\* the server's own, imports that are faithful, the output that terminals show, entries that
\* survive a transfer, and a file of envelopes that is a log.
THEOREM BackendIsSound ==
    BackendSpec => /\ [](TransferEndsWell /\ OnlyReviewed /\ TeardownStopsServices)
                   /\ [](SecretsAreOwn /\ ImportsAreFaithful /\ NoHoleInOutput)
                   /\ FreshEntriesSurvive /\ ExchangeIsAppend
  <1>1. BackendSpec => [](TransferEndsWell /\ OnlyReviewed /\ TeardownStopsServices)
    BY BackendParts, EndsWell, ReviewedOnly, TeardownIsComplete, PTL
  <1>2. BackendSpec => [](SecretsAreOwn /\ ImportsAreFaithful /\ NoHoleInOutput)
    BY BackendParts, OwnSecrets, ImportIsFaithful, OutputHasNoHole, PTL
  <1>3. BackendSpec => FreshEntriesSurvive
    BY BackendParts, FreshSurvive, PTL
  <1>4. BackendSpec => ExchangeIsAppend
    BY BackendParts, FileIsLog, PTL
  <1>5. QED
    BY <1>1, <1>2, <1>3, <1>4, PTL
==============================================================================
