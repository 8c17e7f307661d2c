------------------------------ MODULE SinkVITA49 ------------------------------
(***************************************************************************)
(* The run-time core of the SinkVITA49 component (cpp/SinkVITA49.cpp): the *)
(* threads that run inside it and the state they share without a common    *)
(* lock.                                                                   *)
(*                                                                         *)
(*   - the service thread runs serviceFunction() in a loop: it rebuilds    *)
(*     the transmitter when the network settings changed, takes packets    *)
(*     from the input port, attaches streams, merges their SRI and fills   *)
(*     workQueue2;                                                         *)
(*   - the control thread (the ORB) calls start() and stop(), one at a     *)
(*     time under startstop_lock;                                          *)
(*   - the transmit thread (TRANSMITTER, TRANSMITTER_M) empties workQueue2 *)
(*     into the sockets;                                                   *)
(*   - the context thread (timerThread) adds periodic context packets;     *)
(*   - the environment sets properties, connects the output port and       *)
(*     connects TCP clients.                                               *)
(*                                                                         *)
(* A label of svc, ctl, tx or ctx names the next step of that thread.      *)
(***************************************************************************)
EXTENDS Integers, Sequences, FiniteSets

CONSTANTS
  Streams,             \* ids of the input streams, each with its own non-zero hash
  NoStream,            \* the empty _streamMap.streamID, whose hash is 0
  Echo,                \* streams whose SRI already holds dataRef and
                       \* BULKIO_SRI_PRIORITY with this component's values
  MaxVersion,          \* bound: an SRI of a stream has a version in 1 .. MaxVersion
  UdpSettings,         \* unicast network settings with use_udp_protocol
  TcpSettings,         \* unicast network settings without it
  MulticastSettings,   \* network settings with a multicast address
  DefaultSettings,     \* what resetCurrAttach() puts in curr_attach
  Threads,             \* identities of boost::thread objects
  NoThread,            \* a NULL thread pointer
  Sizes,               \* how many VRT data packets one input packet may fill
  PeriodicContext,     \* time_between_context_packets > 0
  ForceAllowed,        \* may force_transmit be switched on?
  OpenMayFail,         \* may opening or binding a socket fail?
  RemoveStreamMayFail, \* may the port's removeStream() throw?
  PayloadMayBeSmall,   \* may the payload be too small to hold one sample?
  MaxEdits,            \* bound: property and connection changes
  MaxInputs,           \* bound: packets taken from the input port
  MaxStarts,           \* bound: calls of start()
  MaxPackets           \* bound: with so many packets pushed the context thread
                       \* falls silent

Settings == UdpSettings \union TcpSettings \union MulticastSettings

ASSUME StreamsAssumption == NoStream \notin Streams /\ Echo \subseteq Streams
ASSUME SettingsAssumption ==
  /\ Settings # {} /\ DefaultSettings \notin Settings
  /\ UdpSettings \intersect TcpSettings = {}
  /\ (UdpSettings \union TcpSettings) \intersect MulticastSettings = {}
ASSUME ThreadsAssumption == NoThread \notin Threads
ASSUME BoundsAssumption ==
  /\ MaxVersion \in Nat /\ MaxEdits \in Nat /\ MaxInputs \in Nat
  /\ MaxStarts \in Nat /\ MaxPackets \in Nat /\ Sizes \subseteq Nat
ASSUME SwitchesAssumption ==
  /\ PeriodicContext \in BOOLEAN /\ ForceAllowed \in BOOLEAN
  /\ OpenMayFail \in BOOLEAN /\ RemoveStreamMayFail \in BOOLEAN
  /\ PayloadMayBeSmall \in BOOLEAN

VARIABLES
  svc,             \* label of the service thread, "off" when it does not run
  cur,             \* the dataTransfer singleService() is working on
  svcObj,          \* ThreadedComponent holds a service thread object
  svcRun,          \* that object's running flag
  createMem,
  ctl,             \* label of the control thread, "idle" between calls
  settings,        \* the network_settings property
  listener,        \* a changed network_settings still awaits its listener
  shouldUpdate,    \* shouldUpdateStream
  connected,       \* numberOutputConnections() > 0
  force,           \* advanced_configuration.force_transmit
  currAttach,      \* the settings in curr_attach
  attach,          \* curr_attach.attach
  udpOpen,         \* unicast_udp_open
  tcpOpen,         \* unicast_tcp_open
  transmitThread, contextThread, runThread,
  tx,              \* label of each transmit thread
  peer,            \* where it sends: the multicast group or its accepted client
  ctx,             \* label of each context thread
  built,           \* the context packet a context thread has filled in
  streamMap,       \* _streamMap.streamID
  currSRI,         \* stream and version of currSRI
  waitingForSRI,
  payloadReady,    \* samplesPerPacket > 0
  lastSRI,         \* per stream, the SRI version the input port delivered last
  workQueue2,
  sent,            \* every packet popped, with the sockets it went to
  edits, inputs, starts

svcVars    == <<svc, cur>>
runVars    == <<svcObj, svcRun, createMem>>
propVars   == <<settings, listener, connected, force>>
attachVars == <<currAttach, attach>>
openVars   == <<udpOpen, tcpOpen>>
threadVars == <<transmitThread, contextThread, runThread>>
txVars     == <<tx, peer>>
ctxVars    == <<ctx, built>>
sriVars    == <<currSRI, waitingForSRI, payloadReady>>
queueVars  == <<workQueue2, sent>>
boundVars  == <<edits, inputs, starts>>

streamVars == <<streamMap, sriVars, lastSRI>>
aroundVars == <<runVars, ctl, propVars, txVars, ctxVars>>
linkVars   == <<shouldUpdate, attachVars, openVars>>
otherVars  == <<cur, aroundVars, linkVars, threadVars, streamVars, queueVars,
                boundVars>>   \* all but svc

vars == <<svc, otherVars>>

-----------------------------------------------------------------------------
(* Data *)

Versions   == 1 .. MaxVersion
DefaultSRI == [stream |-> NoStream, version |-> 0]
SRIs       == {DefaultSRI} \union [stream : Streams, version : Versions]

\* One dataTransfer of the input port. left: the VRT data packets still to cut
\* from it (the byte accounting behind that number is not part of this module).
Transfers ==
  [stream : Streams, version : Versions, sriChanged : BOOLEAN, eos : BOOLEAN,
   left : Nat]
NoTransfer == [left |-> 0]

\* id is what the packet's stream identifier is computed from; of is the SRI
\* it belongs to.
VRTPackets ==
  [kind : {"data", "context"}, id : Streams \union {NoStream}, of : SRIs]
NoPacket == [kind |-> "none"]

DataPacket(t) ==
  [kind |-> "data", id |-> streamMap,
   of |-> [stream |-> t.stream, version |-> t.version]]
ContextPacket == [kind |-> "context", id |-> streamMap, of |-> currSRI]

\* Under workQueueLock.
Push(p) == workQueue2' = Append(workQueue2, p) /\ UNCHANGED sent

\* Every packet ever pushed on workQueue2, in the order they were pushed.
Pushed == [i \in 1 .. Len(sent) |-> sent[i].packet] \o workQueue2

HasActiveOutputStream == streamMap # NoStream
SameSRI(t) == t.stream \in Echo /\ currSRI = [stream |-> t.stream, version |-> t.version]

-----------------------------------------------------------------------------
(* destroy_tx_thread(): signal both threads, join them, forget them. The   *)
(* service thread and the control thread both call it.                     *)

\* Faulty variant: the threads are joined without having been told to stop.
SignalNobody == UNCHANGED runThread

SignalThreads ==
  runThread' = (runThread /\ transmitThread = NoThread /\ contextThread = NoThread)

\* Faulty variants: only one of the two threads is joined.
ContextThreadJoined == contextThread # NoThread => ctx[contextThread] = "none"
TransmitThreadJoined == transmitThread # NoThread => tx[transmitThread] = "none"

ThreadsJoined ==
  /\ transmitThread # NoThread => tx[transmitThread] = "none"
  /\ contextThread # NoThread => ctx[contextThread] = "none"

ForgetThreads ==
  /\ transmitThread' = NoThread
  /\ contextThread' = NoThread
  /\ attach' = FALSE

\* tearDownOutputStream() up to the join, and initialize_values() after it.
RemoveStream == streamMap' = NoStream /\ SignalThreads

\* Faulty variant: the next stream's SRI is not waited for.
InitializeSizesOnly == payloadReady' = FALSE /\ UNCHANGED <<waitingForSRI, currSRI>>

InitializeValues ==
  /\ waitingForSRI' = TRUE
  /\ payloadReady' = FALSE
  /\ UNCHANGED currSRI

-----------------------------------------------------------------------------
\* Nobody initialises runThread.
Init ==
  /\ svc = "off" /\ cur = NoTransfer
  /\ svcObj = FALSE /\ svcRun = FALSE /\ createMem = TRUE
  /\ ctl = "idle"
  /\ settings \in Settings /\ listener = FALSE /\ shouldUpdate = FALSE
  /\ connected = FALSE /\ force = FALSE
  /\ currAttach = DefaultSettings /\ attach = FALSE
  /\ udpOpen = FALSE /\ tcpOpen = FALSE
  /\ transmitThread = NoThread /\ contextThread = NoThread /\ runThread \in BOOLEAN
  /\ tx = [t \in Threads |-> "none"] /\ peer = [t \in Threads |-> "none"]
  /\ ctx = [t \in Threads |-> "none"] /\ built = [t \in Threads |-> NoPacket]
  /\ streamMap = NoStream /\ currSRI = DefaultSRI
  /\ waitingForSRI = TRUE /\ payloadReady = FALSE
  /\ lastSRI = [s \in Streams |-> 0]
  /\ workQueue2 = <<>> /\ sent = <<>>
  /\ edits = 0 /\ inputs = 0 /\ starts = 0

-----------------------------------------------------------------------------
(* Service thread: ProcessThread's loop and serviceFunction()              *)

Goto(label) == svc' = label /\ UNCHANGED otherVars

ServiceExit ==
  /\ svc = "top" /\ ~svcRun
  /\ Goto("off")

\* The first pass allocates spareBuffer, after a destroy_tx_thread().
MemoryManagement ==
  /\ svc = "top" /\ svcRun /\ createMem
  /\ createMem' = FALSE
  /\ SignalThreads
  /\ svc' = "joinMemory"
  /\ UNCHANGED <<cur, svcObj, svcRun, ctl, propVars, txVars, ctxVars,
                 linkVars, transmitThread, contextThread, streamVars,
                 queueVars, boundVars>>

BeginPass ==
  /\ svc = "top" /\ svcRun /\ ~createMem
  /\ Goto("update")

HonourUpdate ==
  /\ svc = "update" /\ shouldUpdate
  /\ SignalThreads
  /\ svc' = "joinUpdate"
  /\ UNCHANGED <<cur, aroundVars, linkVars, transmitThread, contextThread,
                 streamVars, queueVars, boundVars>>

NoUpdate ==
  /\ svc = "update" /\ ~shouldUpdate
  /\ Goto("launch")

\* Faulty variant: the request is never taken down.
ClearNothing == svc = "clear" /\ Goto("launch")

ClearUpdate ==
  /\ svc = "clear"
  /\ shouldUpdate' = FALSE
  /\ svc' = "launch"
  /\ UNCHANGED <<cur, aroundVars, attachVars, openVars, threadVars,
                 streamVars, queueVars, boundVars>>

\* The transmitter is missing and somebody listens: updateCurrAttach(), then
\* launch_tx_thread() up to its own destroy_tx_thread().
Launch ==
  /\ svc = "launch" /\ transmitThread = NoThread /\ (connected \/ force)
  /\ currAttach' = settings
  /\ SignalThreads
  /\ svc' = "joinLaunch"
  /\ UNCHANGED <<cur, aroundVars, shouldUpdate, attach, openVars,
                 transmitThread, contextThread, streamVars, queueVars,
                 boundVars>>

NoLaunch ==
  /\ svc = "launch" /\ ~(transmitThread = NoThread /\ (connected \/ force))
  /\ Goto("port")

\* A UDP or multicast socket could not be opened: launch_tx_thread() returns
\* false, which serviceFunction() does not look at. (The TCP branch never looks
\* at its socket.)
OpenFails ==
  /\ svc = "open" /\ OpenMayFail
  /\ currAttach \notin TcpSettings
  /\ Goto("port")

\* The sockets are open: launch_tx_thread() starts the context thread and the
\* transmit thread of the kind curr_attach calls for.
Open ==
  /\ svc = "open"
  /\ udpOpen' = (udpOpen \/ currAttach \in UdpSettings)
  /\ tcpOpen' = (tcpOpen \/ currAttach \in TcpSettings)
  /\ runThread' = TRUE
  /\ \E t \in Threads :
       /\ tx[t] = "none"
       /\ transmitThread' = t
       /\ tx' = [tx EXCEPT ![t] = "start"]
       /\ peer' = [peer EXCEPT ![t] =
                     IF currAttach \in MulticastSettings THEN "multicast" ELSE "none"]
  /\ \E c \in Threads :
       /\ ctx[c] = "none"
       /\ contextThread' = IF PeriodicContext THEN c ELSE NoThread
       /\ ctx' = IF PeriodicContext THEN [ctx EXCEPT ![c] = "check"] ELSE ctx
  /\ svc' = "port"
  /\ UNCHANGED <<cur, runVars, ctl, propVars, built, shouldUpdate, attachVars,
                 streamVars, queueVars, boundVars>>

\* Where the service thread goes once a join is over.
Joined == [joinMemory |-> "update", joinUpdate |-> "clear",
           joinLaunch |-> "open", joinTear |-> "init"]
Joining == {"joinMemory", "joinUpdate", "joinLaunch", "joinTear"}

ServiceJoined ==
  /\ svc \in Joining /\ ThreadsJoined
  /\ ForgetThreads
  /\ svc' = Joined[svc]
  /\ UNCHANGED <<cur, aroundVars, shouldUpdate, currAttach, openVars,
                 runThread, streamVars, queueVars, boundVars>>

-----------------------------------------------------------------------------
(* Service thread: singleService() on the one active input port            *)

NoInput ==
  /\ svc = "port"
  /\ Goto("top")

\* getPacket(): the port says whether the stream's SRI differs from the one it
\* delivered before, and forgets the stream at its end.
GetPacket(t) ==
  /\ inputs < MaxInputs
  /\ inputs' = inputs + 1
  /\ t.left \in Sizes
  /\ t.sriChanged = (t.version # lastSRI[t.stream])
  /\ lastSRI' = [lastSRI EXCEPT ![t.stream] = IF t.eos THEN 0 ELSE t.version]

\* The three answers of readyToProcessPacket().
Interrupted == ~force /\ ~connected /\ HasActiveOutputStream
Unwanted(s) ==
  /\ ~force
  /\ IF connected THEN HasActiveOutputStream /\ streamMap # s
                  ELSE ~HasActiveOutputStream
ReadyToProcessPacket(s) == ~Interrupted /\ ~Unwanted(s)

Incoming ==
  [stream : Streams, version : Versions, sriChanged : BOOLEAN, eos : BOOLEAN,
   left : Sizes]

\* Nobody listens any more: the active stream is torn down, the packet dropped.
InterruptStream ==
  /\ svc = "port" /\ Interrupted
  /\ \E t \in Incoming : GetPacket(t)
  /\ svc' = "tear"
  /\ UNCHANGED <<cur, aroundVars, linkVars, threadVars, streamMap, sriVars,
                 queueVars, edits, starts>>

DropPacket ==
  /\ svc = "port"
  /\ \E t \in Incoming : Unwanted(t.stream) /\ GetPacket(t)
  /\ svc' = "top"
  /\ UNCHANGED <<cur, aroundVars, linkVars, threadVars, streamMap, sriVars,
                 queueVars, edits, starts>>

AcceptPacket ==
  /\ svc = "port"
  /\ \E t \in Incoming :
       ReadyToProcessPacket(t.stream) /\ GetPacket(t) /\ cur' = t
  /\ svc' = IF HasActiveOutputStream THEN "merge" ELSE "setup"
  /\ UNCHANGED <<aroundVars, linkVars, threadVars, streamMap, sriVars,
                 queueVars, edits, starts>>

SetupOutputStream ==
  /\ svc = "setup"
  /\ streamMap' = cur.stream
  /\ attach' = TRUE
  /\ svc' = "merge"
  /\ UNCHANGED <<cur, aroundVars, shouldUpdate, currAttach, openVars,
                 threadVars, sriVars, lastSRI, queueVars, boundVars>>

\* Faulty variant: only a stream's first SRI is merged.
MustMergeFirst == attach /\ waitingForSRI

\* Faulty variant: the input port's flag alone decides.
MustMergeFlagged == attach /\ cur.sriChanged

MustMerge == attach /\ (cur.sriChanged \/ waitingForSRI)

SkipMerge ==
  /\ svc = "merge" /\ ~MustMerge
  /\ Goto("push")

\* compareSRI() finds nothing new: no pushSRI(), no createPayload().
MergeSameSRI ==
  /\ svc = "merge" /\ MustMerge /\ SameSRI(cur)
  /\ waitingForSRI' = FALSE
  /\ svc' = "push"
  /\ UNCHANGED <<cur, aroundVars, linkVars, threadVars, streamMap, currSRI,
                 payloadReady, lastSRI, queueVars, boundVars>>

\* mergeRecSRI() takes the new SRI over and pushes it on the output port.
MergeNewSRI ==
  /\ svc = "merge" /\ MustMerge /\ ~SameSRI(cur)
  /\ currSRI' = [stream |-> cur.stream, version |-> cur.version]
  /\ svc' = "context"
  /\ UNCHANGED <<cur, aroundVars, linkVars, threadVars, streamMap,
                 waitingForSRI, payloadReady, lastSRI, queueVars, boundVars>>

\* Whole samples in the payload, of which there may be none.
CreatePayload == \E small \in {FALSE, PayloadMayBeSmall} : payloadReady' = ~small

\* createPayload(), then createIFContextPacket(), which adds nothing while the
\* threads are told to stop or the SRI is not of the attached stream.
AnnounceContext ==
  /\ svc = "context"
  /\ CreatePayload
  /\ waitingForSRI' = FALSE
  /\ IF runThread /\ streamMap = currSRI.stream
     THEN Push(ContextPacket)
     ELSE UNCHANGED queueVars
  /\ svc' = "push"
  /\ UNCHANGED <<cur, aroundVars, linkVars, threadVars, streamMap, currSRI,
                 lastSRI, boundVars>>

PushData ==
  /\ svc = "push" /\ payloadReady /\ cur.left > 0
  /\ Push(DataPacket(cur))
  /\ cur' = [cur EXCEPT !.left = @ - 1]
  /\ UNCHANGED <<svc, aroundVars, linkVars, threadVars, streamVars, boundVars>>

\* samplesPerPacket < 1: the packet is dropped, its end of stream with it.
DropUnready ==
  /\ svc = "push" /\ ~payloadReady
  /\ svc' = "top" /\ cur' = NoTransfer
  /\ UNCHANGED <<aroundVars, linkVars, threadVars, streamVars, queueVars,
                 boundVars>>

\* Faulty variant: a stream is only torn down while its threads run.
EndPacketRunning ==
  /\ svc = "push" /\ payloadReady /\ cur.left = 0
  /\ svc' = IF cur.eos /\ runThread THEN "tear" ELSE "top"
  /\ cur' = NoTransfer
  /\ UNCHANGED <<aroundVars, linkVars, threadVars, streamVars, queueVars,
                 boundVars>>

EndPacket ==
  /\ svc = "push" /\ payloadReady /\ cur.left = 0
  /\ svc' = IF cur.eos THEN "tear" ELSE "top"
  /\ cur' = NoTransfer
  /\ UNCHANGED <<aroundVars, linkVars, threadVars, streamVars, queueVars,
                 boundVars>>

ServiceTearDown ==
  /\ svc = "tear"
  /\ RemoveStream
  /\ svc' = "joinTear"
  /\ UNCHANGED <<cur, aroundVars, linkVars, transmitThread, contextThread,
                 sriVars, lastSRI, queueVars, boundVars>>

\* removeStream() threw: tearDownOutputStream() swallows it and does no more.
ServiceTearDownFails ==
  /\ svc = "tear" /\ RemoveStreamMayFail
  /\ Goto("top")

ServiceInitializeValues ==
  /\ svc = "init"
  /\ InitializeValues
  /\ svc' = "top"
  /\ UNCHANGED <<cur, aroundVars, linkVars, threadVars, streamMap, lastSRI,
                 queueVars, boundVars>>

-----------------------------------------------------------------------------
(* Control thread: start() and stop() under startstop_lock                 *)

\* startThread() makes a service thread only when it holds none.
Start ==
  /\ ctl = "idle" /\ starts < MaxStarts
  /\ starts' = starts + 1
  /\ svcObj' = TRUE
  /\ svcRun' = (svcRun \/ ~svcObj)
  /\ svc' = IF svcObj THEN svc ELSE "top"
  /\ UNCHANGED <<cur, createMem, ctl, propVars, txVars, ctxVars, linkVars,
                 threadVars, streamVars, queueVars, edits, inputs>>

\* Faulty variant: stop() takes the socket flags down before it has waited.
StopClosingFirst ==
  /\ ctl = "idle"
  /\ ctl' = "wait"
  /\ svcRun' = FALSE /\ udpOpen' = FALSE /\ tcpOpen' = FALSE
  /\ UNCHANGED <<svcVars, svcObj, createMem, propVars, txVars, ctxVars,
                 shouldUpdate, attachVars, threadVars, streamVars, queueVars,
                 boundVars>>

\* stopThread() clears the running flag and waits for the thread.
Stop ==
  /\ ctl = "idle"
  /\ ctl' = "wait"
  /\ svcRun' = FALSE
  /\ UNCHANGED <<svcVars, svcObj, createMem, propVars, txVars, ctxVars,
                 linkVars, threadVars, streamVars, queueVars, boundVars>>

\* The wait is timed: stop() throws StopError and the thread object is kept.
StopTimeout ==
  /\ ctl = "wait" /\ svc # "off"
  /\ ctl' = "idle"
  /\ UNCHANGED <<svcVars, runVars, propVars, txVars, ctxVars, linkVars,
                 threadVars, streamVars, queueVars, boundVars>>

\* Faulty variant: that the thread was told to stop is taken for its end.
ServiceSignalled == ~svcRun

ServiceGone == svc = "off"

\* Faulty variant: the socket flags stay up.
StopLeavingFlags ==
  /\ ctl = "wait" /\ ServiceGone
  /\ svcObj' = FALSE
  /\ ctl' = "tear"
  /\ UNCHANGED <<svcVars, svcRun, createMem, propVars, txVars, ctxVars, linkVars,
                 threadVars, streamVars, queueVars, boundVars>>

StopJoined ==
  /\ ctl = "wait" /\ ServiceGone
  /\ svcObj' = FALSE
  /\ udpOpen' = FALSE /\ tcpOpen' = FALSE
  /\ ctl' = "tear"
  /\ UNCHANGED <<svcVars, svcRun, createMem, propVars, txVars, ctxVars,
                 shouldUpdate, attachVars, threadVars, streamVars, queueVars,
                 boundVars>>

ControlTearDown ==
  /\ ctl = "tear"
  /\ RemoveStream
  /\ ctl' = "join"
  /\ UNCHANGED <<svcVars, runVars, propVars, txVars, ctxVars, linkVars,
                 transmitThread, contextThread, sriVars, lastSRI, queueVars,
                 boundVars>>

ControlTearDownFails ==
  /\ ctl = "tear" /\ RemoveStreamMayFail
  /\ ctl' = "idle"
  /\ UNCHANGED <<svcVars, runVars, propVars, txVars, ctxVars, linkVars,
                 threadVars, streamVars, queueVars, boundVars>>

ControlJoined ==
  /\ ctl = "join" /\ ThreadsJoined
  /\ ForgetThreads
  /\ ctl' = "init"
  /\ UNCHANGED <<svcVars, runVars, propVars, txVars, ctxVars, shouldUpdate,
                 currAttach, openVars, runThread, streamVars, queueVars,
                 boundVars>>

ControlInitializeValues ==
  /\ ctl = "init"
  /\ InitializeValues
  /\ ctl' = "idle"
  /\ UNCHANGED <<svcVars, runVars, propVars, txVars, ctxVars, linkVars,
                 threadVars, streamMap, lastSRI, queueVars, boundVars>>

-----------------------------------------------------------------------------
(* Transmit thread: TRANSMITTER and TRANSMITTER_M                          *)

\* TRANSMITTER first waits for a TCP client when the TCP flag is up.
BeginTransmitter(t) ==
  /\ tx[t] = "start"
  /\ tx' = [tx EXCEPT ![t] =
              IF peer[t] # "multicast" /\ tcpOpen THEN "accept" ELSE "loop"]
  /\ UNCHANGED <<svcVars, runVars, ctl, propVars, peer, ctxVars,
                 linkVars, threadVars, streamVars, queueVars, boundVars>>

\* A client connects, which is the environment's doing, or accept() fails: it
\* reads the uninitialised size of the address it may fill in.
AcceptClient(t) ==
  /\ tx[t] = "accept"
  /\ \E p \in {"client", "lost"} : peer' = [peer EXCEPT ![t] = p]
  /\ tx' = [tx EXCEPT ![t] = "loop"]
  /\ UNCHANGED <<svcVars, runVars, ctl, propVars, ctxVars, linkVars,
                 threadVars, streamVars, queueVars, boundVars>>

ExitTransmitter(t) ==
  /\ tx[t] = "loop" /\ ~runThread
  /\ tx' = [tx EXCEPT ![t] = "none"]
  /\ peer' = [peer EXCEPT ![t] = "none"]
  /\ UNCHANGED <<svcVars, runVars, ctl, propVars, ctxVars, linkVars,
                 threadVars, streamVars, queueVars, boundVars>>

\* Faulty variant: the last packet of the queue is overlooked.
SeeAllButLast(t) ==
  /\ tx[t] = "loop" /\ runThread /\ Len(workQueue2) > 1
  /\ tx' = [tx EXCEPT ![t] = "front"]
  /\ UNCHANGED <<svcVars, runVars, ctl, propVars, peer, ctxVars,
                 linkVars, threadVars, streamVars, queueVars, boundVars>>

\* The unlocked test: the queue is not empty.
SeePacket(t) ==
  /\ tx[t] = "loop" /\ runThread /\ workQueue2 # <<>>
  /\ tx' = [tx EXCEPT ![t] = "front"]
  /\ UNCHANGED <<svcVars, runVars, ctl, propVars, peer, ctxVars,
                 linkVars, threadVars, streamVars, queueVars, boundVars>>

\* Where a packet goes: every socket whose flag is up.
Sockets(t) ==
  IF peer[t] = "multicast" THEN {"multicast"}
  ELSE {s \in {"udp", "tcp"} : \/ s = "udp" /\ udpOpen
                               \/ s = "tcp" /\ tcpOpen /\ peer[t] = "client"}

\* Under workQueueLock: front(), transmit, pop().
Transmit(t) ==
  /\ tx[t] = "front" /\ workQueue2 # <<>>
  /\ sent' = Append(sent, [packet |-> Head(workQueue2), sockets |-> Sockets(t)])
  /\ workQueue2' = Tail(workQueue2)
  /\ tx' = [tx EXCEPT ![t] = "loop"]
  /\ UNCHANGED <<svcVars, runVars, ctl, propVars, peer, ctxVars, linkVars,
                 threadVars, streamVars, boundVars>>

-----------------------------------------------------------------------------
(* Context thread: timerThread() calling createIFContextPacket()           *)

ExitTimer(c) ==
  /\ ctx[c] = "check" /\ ~runThread
  /\ ctx' = [ctx EXCEPT ![c] = "none"]
  /\ UNCHANGED <<svcVars, runVars, ctl, propVars, txVars, built, linkVars,
                 threadVars, streamVars, queueVars, boundVars>>

\* The tests of timerThread() and createIFContextPacket(): run on, SRI known,
\* and the stream of _streamMap the one of currSRI.
CheckStream(c) ==
  /\ ctx[c] = "check" /\ runThread /\ ~waitingForSRI
  /\ streamMap = currSRI.stream
  /\ Len(Pushed) < MaxPackets
  /\ ctx' = [ctx EXCEPT ![c] = "fill"]
  /\ UNCHANGED <<svcVars, runVars, ctl, propVars, txVars, built, linkVars,
                 threadVars, streamVars, queueVars, boundVars>>

\* Faulty variant: a packet is handed on that has not been filled in.
FillNothing(c) ==
  /\ ctx[c] = "fill"
  /\ ctx' = [ctx EXCEPT ![c] = "push"]
  /\ UNCHANGED <<svcVars, runVars, ctl, propVars, txVars, built, linkVars,
                 threadVars, streamVars, queueVars, boundVars>>

\* _streamMap.hash and currSRI are read again, without sriLock.
FillContext(c) ==
  /\ ctx[c] = "fill"
  /\ built' = [built EXCEPT ![c] = ContextPacket]
  /\ ctx' = [ctx EXCEPT ![c] = "push"]
  /\ UNCHANGED <<svcVars, runVars, ctl, propVars, txVars, linkVars,
                 threadVars, streamVars, queueVars, boundVars>>

PushContext(c) ==
  /\ ctx[c] = "push"
  /\ Push(built[c])
  /\ built' = [built EXCEPT ![c] = NoPacket]
  /\ ctx' = [ctx EXCEPT ![c] = "check"]
  /\ UNCHANGED <<svcVars, runVars, ctl, propVars, txVars, linkVars,
                 threadVars, streamVars, boundVars>>

-----------------------------------------------------------------------------
(* Environment: properties and connections. A property is stored first and *)
(* its listener is called afterwards, within the same configure().         *)

SetNetworkSettings ==
  /\ edits < MaxEdits /\ ~listener
  /\ edits' = edits + 1
  /\ \E n \in Settings : n # settings /\ settings' = n
  /\ listener' = TRUE
  /\ UNCHANGED <<svcVars, runVars, ctl, connected, force, txVars, ctxVars,
                 linkVars, threadVars, streamVars, queueVars, inputs, starts>>

\* Faulty variant: a change counts only while the component is started.
RequestUpdateIfStarted == shouldUpdate' = (shouldUpdate \/ svcRun)

RequestUpdate == shouldUpdate' = TRUE

NetworkSettingsChanged ==
  /\ listener
  /\ listener' = FALSE
  /\ RequestUpdate
  /\ UNCHANGED <<svcVars, runVars, ctl, settings, connected, force, txVars,
                 ctxVars, attachVars, openVars, threadVars, streamVars,
                 queueVars, boundVars>>

ChangeConnection ==
  /\ edits < MaxEdits
  /\ edits' = edits + 1
  /\ connected' = ~connected
  /\ UNCHANGED <<svcVars, runVars, ctl, settings, listener, force, txVars,
                 ctxVars, linkVars, threadVars, streamVars, queueVars, inputs,
                 starts>>

ChangeForce ==
  /\ edits < MaxEdits /\ ForceAllowed /\ ~listener
  /\ edits' = edits + 1
  /\ force' = ~force
  /\ UNCHANGED <<svcVars, runVars, ctl, settings, listener, connected, txVars,
                 ctxVars, linkVars, threadVars, streamVars, queueVars, inputs,
                 starts>>

-----------------------------------------------------------------------------
ServiceStep ==
  \/ ServiceExit \/ MemoryManagement \/ BeginPass
  \/ HonourUpdate \/ NoUpdate \/ ClearUpdate
  \/ Launch \/ NoLaunch \/ OpenFails \/ Open \/ ServiceJoined
  \/ NoInput \/ InterruptStream \/ DropPacket \/ AcceptPacket
  \/ SetupOutputStream \/ SkipMerge \/ MergeSameSRI \/ MergeNewSRI
  \/ AnnounceContext \/ PushData \/ DropUnready \/ EndPacket
  \/ ServiceTearDown \/ ServiceTearDownFails \/ ServiceInitializeValues

StopStep ==
  \/ StopTimeout \/ StopJoined \/ ControlTearDown \/ ControlTearDownFails
  \/ ControlJoined \/ ControlInitializeValues

TransmitStep(t) ==
  BeginTransmitter(t) \/ ExitTransmitter(t) \/ SeePacket(t) \/ Transmit(t)

TimerStep(c) == ExitTimer(c) \/ CheckStream(c) \/ FillContext(c) \/ PushContext(c)

Environment ==
  \/ SetNetworkSettings \/ ChangeConnection \/ ChangeForce
  \/ \E t \in Threads : AcceptClient(t)

Next ==
  \/ ServiceStep
  \/ Start \/ Stop \/ StopStep
  \/ \E t \in Threads : TransmitStep(t) \/ TimerStep(t)
  \/ NetworkSettingsChanged
  \/ Environment

Spec == Init /\ [][Next]_vars

\* Every thread of the process gets processor time, so each takes its next
\* step when it has one; a call of configure() that has begun is finished.
\* Nothing is assumed of callers, peers and TCP clients.
Fairness ==
  /\ WF_vars(ServiceStep)
  /\ WF_vars(StopStep)
  /\ \A t \in Threads : WF_vars(TransmitStep(t)) /\ WF_vars(TimerStep(t))
  /\ WF_vars(NetworkSettingsChanged)

LiveSpec == Spec /\ Fairness
=============================================================================
