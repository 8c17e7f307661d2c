-------------------------- MODULE SinkProperties ---------------------------
(***************************************************************************)
(* What must hold of SinkVITA49: invariants, action and liveness           *)
(* properties, the abstract specification it implements, and what comments *)
(* and tests of the repository claim of it.                                *)
(***************************************************************************)
EXTENDS SinkVITA49

-----------------------------------------------------------------------------
(* Invariants                                                              *)

ServiceLabels == {"off", "top", "update", "clear", "launch", "open", "port",
                  "setup", "merge", "context", "push", "tear", "init"} \union Joining

\* Every variable has its type.
TypeOK ==
  /\ svc \in ServiceLabels /\ cur \in Transfers \union {NoTransfer}
  /\ svcObj \in BOOLEAN /\ svcRun \in BOOLEAN /\ createMem \in BOOLEAN
  /\ ctl \in {"idle", "wait", "tear", "join", "init"}
  /\ settings \in Settings /\ currAttach \in Settings \union {DefaultSettings}
  /\ listener \in BOOLEAN /\ shouldUpdate \in BOOLEAN
  /\ connected \in BOOLEAN /\ force \in BOOLEAN /\ attach \in BOOLEAN
  /\ udpOpen \in BOOLEAN /\ tcpOpen \in BOOLEAN
  /\ transmitThread \in Threads \union {NoThread}
  /\ contextThread \in Threads \union {NoThread}
  /\ runThread \in BOOLEAN
  /\ tx \in [Threads -> {"none", "start", "accept", "loop", "front"}]
  /\ peer \in [Threads -> {"none", "multicast", "client", "lost"}]
  /\ ctx \in [Threads -> {"none", "check", "fill", "push"}]
  /\ built \in [Threads -> VRTPackets \union {NoPacket}]
  /\ streamMap \in Streams \union {NoStream}
  /\ currSRI \in SRIs
  /\ waitingForSRI \in BOOLEAN /\ payloadReady \in BOOLEAN
  /\ lastSRI \in [Streams -> 0 .. MaxVersion]
  /\ workQueue2 \in Seq(VRTPackets)
  /\ sent \in Seq([packet : VRTPackets, sockets : SUBSET {"multicast", "udp", "tcp"}])
  /\ edits \in 0 .. MaxEdits /\ inputs \in 0 .. MaxInputs /\ starts \in 0 .. MaxStarts

\* No thread is orphaned: each one that lives is the one its pointer names, so
\* that there are never two transmitters on workQueue2 nor two context threads,
\* although destroy_tx_thread() runs in the service thread, in start-up and in
\* stop() (cpp/SinkVITA49.cpp:374-390).
ThreadsOwned ==
  \A t \in Threads : /\ tx[t] # "none" => t = transmitThread
                     /\ ctx[t] # "none" => t = contextThread

\* front() finds a packet: between a transmitter's unlocked empty() and its
\* locked front() and pop() nobody else takes the packet it saw
\* (cpp/SinkVITA49.cpp:527-534).
FrontFindsPacket == \A t \in Threads : tx[t] = "front" => workQueue2 # <<>>

\* stop() and the service thread never tear a stream down together: the control
\* thread has seen the service thread end before it touches what both own.
SingleOwner == ctl \in {"tear", "join", "init"} => svc = "off"

\* No network change is lost: a transmitter that runs on other settings than the
\* configured ones has an update request, or the listener that raises it, still
\* pending, wherever the change falls in the service thread's pass.
StaleSettingsFlagged ==
  transmitThread # NoThread /\ currAttach # settings => listener \/ shouldUpdate

\* Once stop() has returned no transmit or context thread is left, no stream is
\* attached, and the next stream will be announced.
QuietAfterStop ==
  ctl = "idle" /\ ~svcObj =>
    /\ \A t \in Threads : tx[t] = "none" /\ ctx[t] = "none"
    /\ streamMap = NoStream /\ ~attach /\ waitingForSRI

\* Data is cut with the SRI it came with: while curr_attach.attach holds, the
\* packet about to be filled has the stream and version that were merged last,
\* although SRI changes are only seen once per stream at the input port (force
\* off, and removeStream() not throwing).
AttachedSRICurrent ==
  svc = "push" /\ attach => currSRI = [stream |-> cur.stream, version |-> cur.version]

\* With each stream samplesPerPacket is reset, and it is only set again when the
\* stream's SRI differs from the one in currSRI; as long as it is 0 every push is
\* dropped, with the end of stream it may carry. That happens to no other stream
\* than one that comes back with the very SRI and keywords that currSRI kept of
\* it, and not to streams that take turns with changing SRIs, whatever is rebuilt
\* in between (force off, payloads that hold a sample; cpp/SinkVITA49.cpp:1155).
UnsizedOnlyIfResumed ==
  svc = "push" /\ ~payloadReady =>
    PayloadMayBeSmall \/ (cur.stream \in Echo /\ currSRI.stream = cur.stream)

\* Context packets and data reach the queue as sessions of one stream after the
\* other: this component implements StreamSession. A stream is announced once
\* waitingForSRI is cleared; while _streamMap is empty and waitingForSRI still
\* cleared, the threads of the removed stream have not been joined.
Session ==
  INSTANCE StreamSession WITH
    stream <- IF streamMap # NoStream THEN streamMap
              ELSE IF waitingForSRI THEN NoStream ELSE currSRI.stream,
    phase <- IF streamMap # NoStream
             THEN IF waitingForSRI THEN "open" ELSE "announced"
             ELSE IF waitingForSRI THEN "closed" ELSE "closing",
    out <- Pushed
SessionSpec == Session!Spec

-----------------------------------------------------------------------------
(* What comments, property descriptions and tests say, and the code does   *)
(* not always do                                                           *)

\* "Push more data with new SRI and check SRI update"
\* (tests/test_SinkVITA49.py:568): every SRI change of the active stream is
\* merged before the data that comes with it is sent.
SRIChangesHandled ==
  svc = "push" => currSRI = [stream |-> cur.stream, version |-> cur.version]

-----------------------------------------------------------------------------
(* Action and liveness properties                                          *)

\* Packets are lost without a send only to a stop() under way (or a TCP client
\* that could not be accepted): whatever else happens, a packet that leaves the
\* queue goes to a socket.
LostOnlyOnStop ==
  [][sent' # sent /\ sent'[Len(sent')].sockets = {} =>
       \/ ctl \in {"tear", "join"}
       \/ \E t \in Threads : peer[t] = "lost"]_vars

\* A stop() that has begun returns, with or without StopError.
StopReturns == ctl = "wait" ~> ctl = "idle"

\* A stream that has ended is detached, unless the component is stopped first
\* (testDataEOS, tests/test_SinkVITA49.py:713-714), also a stream that was
\* interrupted and taken up again. Its last push must have got past the test of
\* cpp/SinkVITA49.cpp:1155, which drops push and end of stream while
\* samplesPerPacket is 0: UnsizedOnlyIfResumed says when that is.
EndOfStreamDetaches ==
  svc = "push" /\ payloadReady /\ cur.eos /\ cur.stream = streamMap
    ~> streamMap = NoStream \/ ~svcRun

\* A requested network change is taken up: the transmitter is rebuilt, unless
\* the component is stopped first.
UpdateHonoured == shouldUpdate /\ svcRun ~> ~shouldUpdate \/ ~svcRun

\* While the component runs and is listened to, the queue empties again and
\* again.
QueueDrains == <>[](svcRun /\ connected) => []<>(workQueue2 = <<>>)
=============================================================================
