# SinkVITA49 in TLA+

SinkVITA49 is a REDHAWK component: it takes samples with their signal description (SRI) from
a bulkio input port, packs them into VITA 49 (VRT) packets and sends these over UDP, multicast or
TCP to receivers it tells about the stream. This directory models that component, checks the
models with TLC and proves with TLAPS every safety property that they show. All references of the form
`cpp:NNN` are to `src/cpp/SinkVITA49.cpp`.

    tlc -config SinkSession.cfg MCSinkVITA49     # model-check one instance
    tlapm SinkProofs.tla                         # check the proofs of one module

`PROJECT.json` lists the runs, which source lines every definition stands for, the hazards of the
code with the properties that watch them, and the theorems.

## The system

### Components

| component | state | operations | modules |
|---|---|---|---|
| Service, control, transmit and context threads | `_transmitThread`, `_contextThread`, `runThread`, `curr_attach`, `shouldUpdateStream`, `_streamMap`, `waitingForSRI`, socket flags, `workQueue2` | `start`, `stop`, `serviceFunction`, `destroy_tx_thread`, `launch_tx_thread`, `TRANSMITTER`, `TRANSMITTER_M`, `timerThread`, `readyToProcessPacket`, `setupOutputStream`, `tearDownOutputStream` | `SinkVITA49`, `SinkProperties`, `StreamSession` |
| Sockets | `uni_server`, `multi_server`, `tcp_server`, each transmitter's `client`, the process's descriptors | `unicast*`, `multicast*` helpers, `close` in `stop` | `Transport`, on `SinkVITA49` |
| Stream definition | `_streamDef` | `initstreamDef`, `updateStreamDef` | `Transport` (address), `Announcement` (data format) |
| Packetizing | `spareBuffer`, `leftOverDataSize`, `samplesPerPacket`, `dataIndex`, `vita49_payload_size` | `memoryManagement`, `singleService`, `createPayload` | `Packetizer`, `Announcement` (size limit) |
| Time stamps | `nextTimeStamp`, `_tContext` | `calcNextTimeStamp`, `createPacket`, `timerThread` | `TimeStamps`, on `Packetizer` |
| SRI merging, context packets | `currSRI`, `pf`, `standardPacketClassID`, `VITAProcess` | `compareSRI`, `mergeRecSRI`, `addModifyKeyword`, `createIFContextPacket` | `SinkVITA49` (when), `Announcement` (format, keywords), `ContextPackets` (fields) |
| Property listeners | the property structures and their copies | the five `...Changed` listeners | `SinkVITA49` (network), `Announcement` (the others), `Packetizer` (payload size) |
| TCP server (boost) | `sessions`, each `writeBuffer_`, `pendingData`, three locks | `write`, `read`, accept, read and write handlers, `closeSession` | `TcpServer` |
| Component base, process | ports, properties | generated set-up, `start`, `stop`, `releaseObject` | `start`/`stop` in `SinkVITA49` |

### How they interact

- The **service thread** runs `serviceFunction()` in a loop (cpp:1030). A pass rebuilds the
  transmitter when `shouldUpdateStream` is set, launches it when there is none and a receiver is
  connected, takes one packet from the input port, attaches its stream (`addStream`), merges its
  SRI (`pushSRI`), makes a context packet and fills `workQueue2`.
- The **transmit thread** pops `workQueue2` and sends; the **context thread** adds a context packet
  about once per `time_between_context_packets`. Both are made by `launch_tx_thread()` and ended by
  `destroy_tx_thread()`, which clears `runThread` and joins them.
- The **control thread** (the ORB) calls `start()` and `stop()` under `startstop_lock` and runs the
  property listeners. `stop()` waits for the service thread, for a limited time, and then tears
  the stream down and joins the threads itself.
- `workQueueLock` protects single operations of the queue, `sriLock` the merge; everything else is
  shared without a lock.

### What is hard

- `destroy_tx_thread()` runs in two threads and from five places; a forgotten thread would go on
  sending. `empty()` is tested without the lock that `front()` takes.
- A network change can fall anywhere in a pass: before, between and after the two lines that take
  it up and clear the request.
- `stop()` gives up after a timeout, with the service thread still at work.
- Streams are attached, described and removed by one thread while another makes packets of them.
- A transmitter waits for a TCP client without looking at `runThread`.
- Pushes of any size and either mode meet packets of fixed size; what is left over is kept across
  pushes, SRI changes and ends of stream.
- Clipping the payload to the datagram limit is done again and again on its own result, beside a
  listener that sets the same variable.
- Sockets of an earlier transport, address or failed launch stay open, and so may their flags, when
  the settings change; the numbers of closed descriptors are given away again.
- Samples that are left over were taken before the push that completes their packet; their time is
  reckoned backwards from the time of the push, with an offset that comes from an unsigned number.
- The context thread reads `currSRI` keyword by keyword, and `_tContext` field by field, while the
  service thread changes them.
- The TCP server takes two locks in both orders.

### What makes each component correct

Threads: none is orphaned, none is met twice, none outlives `stop()`; every network change takes
effect; `stop()` returns. Streams: one after the other, each described before its data, its data
cut with its own SRI, its end detached. Packetizing: every element once, in order, in packets of
at most the payload that was configured (or the default, where the code goes back to it), and stamped
with the time its first sample was taken. Sockets: packets go where
the settings say and where receivers were told, and a flag never speaks of another socket.
Announcements: right, complete and early enough, and put right where they were not. TCP server: every client
gets what is written, in order, without a stuck queue, and `write()` returns.

## The models

### SinkVITA49 with SinkProperties

`SinkVITA49` is the core: every thread has a program counter (`svc`, `ctl`, `tx[t]`, `ctx[t]`) whose
value names the next step of its function, and a step is what happens between two points where
another thread can see or do something. An action is named after the function or the branch it
stands for.

| TLA+ | code |
|---|---|
| `transmitThread`, `contextThread`, `tx`, `ctx` | the two pointers, and what each thread object does, so that a thread no pointer names can still run |
| `runThread`, `udpOpen`, `tcpOpen`, `attach`, `currAttach` | the members of these names; `currAttach` stands for all network settings in `curr_attach` |
| `settings`, `listener`, `shouldUpdate` | `network_settings`; a listener that has not yet set the flag; `shouldUpdateStream` |
| `streamMap`, `currSRI`, `waitingForSRI` | `_streamMap.streamID`, stream and version of `currSRI`, the flag |
| `payloadReady` | `samplesPerPacket > 0`; `createPayload()` may leave it FALSE, where `PayloadMayBeSmall` allows payloads that hold no sample |
| `cur`, `lastSRI` | the dataTransfer under work; what the input port knows, from which it computes `sriChanged` |
| `workQueue2`, `sent`, `peer` | the queue, every packet popped with the sockets it went to, and whether the transmitter is a multicast one or has a TCP client |

Abstractions, each with its reason:

- One input port is active, as `serviceFunction()` itself assumes (cpp:1043).
- `runThread`, which the constructor never sets, starts with either value.
- `updateCurrAttach()` copies the settings in one step, and `CheckStream` makes the two tests of
  `createIFContextPacket()` in one.
- An SRI is its stream and a version number. Two SRIs that differ have different versions,
  except for streams in `Echo`: their SRI already holds the keywords `dataRef` and
  `BULKIO_SRI_PRIORITY`, so that `compareSRI()` can find it equal to `currSRI`
  (`MergeSameSRI`); for all others it never does, because `setupOutputStream()` adds the two.
- Stream ids have distinct hashes other than 0, `ip_address` is not empty, and
  `VITAProcess.IFCPacket.enable` is TRUE, so that `createPayload()` is called with every new SRI
  (`Announcement` has context packets switched on and off).
- VRL framing and throttling are left out. Packets are counted, not cut: `Sizes` says how many a
  push may fill. Descriptors and `updateStream()` are in `Transport`.

`StreamSession` is the abstract specification: what a receiver of `dataVITA49_out` may rely on. Streams
come one after the other, each attached, announced and only then followed by packets, all of them
its own; late context packets may still come while a stream is removed, none once the next is
attached. `SinkProperties!Session` maps the core to it and `SessionSpec` states the refinement.

### Packetizer

`singleService()` and `createPayload()` at the level of elements: an element is the number of its
place in all data received, so order, loss and repetition are visible in `out`. Sizes are counted
in elements (the code's bytes are multiples of the element size). `allocated` is the size of
`spareBuffer`, which the first pass fixes. `maxPayload` is the property `max_payload_size` and `payloadSize`
the variable `vita49_payload_size`: the listener sets both at any time, `initialize_values()` puts the second
back to 1428 with the end of a stream (cpp:205) and leaves the property alone. `overridden` records that,
and `Allowed` is what a packet may have: the property, or the default from such a reset until the
property is set again. So a packet may well be longer than the property "Specifies [as] the maximum payload
size" (`SinkVITA49.prf.xml:180`) after a stream has ended; `PayloadRespected` says that this is the only way
for it to be. `Junk` is what is
read where no push has put anything; `Crash` is a `memcpy()` of negative length or past the end of
`spareBuffer`, which may also go unnoticed.

The code does not cut every push without loss. `Whole` and `Fits` name the pushes it does cut: what is
left over and the push make at least a packet that `spareBuffer` has room for, a complex sample is
not split between pushes, a push that changes the mode fills whole packets, and a stream's first SRI
differs from `currSRI`. `regular` remembers whether all pushes so far were such. Every property of packets and
times, here and in `TimeStamps`, speaks of runs with regular pushes only; `short_push` shows what happens
with others.

### TimeStamps

`Packetizer` with times: each of its actions is conjoined with what it does to `T`, `xdelta`,
`nextTimeStamp` and `_tContext`. Time is counted in ticks instead of double seconds and picoseconds; `Second`
and `FractionScale` (the factor between `getFractionalSeconds() / 10e9` and `* 1.0e12`) are constants.
`CalcNextTimeStamp` is the function in `SinkVITA49.h` with its `floor()` and carry; its two branches for a
negative remainder are left out because `floor()` makes the remainder positive. `ToInt` and
`NegatedLeftOver` are the unsigned division of cpp:1178, with `UIntRange` for 2^32. `_tContext` is written
fraction first (`Stamp...`, then `StampSeconds`) and read field by field (`ReadFraction`, `TellTime`).
`born` is the history of when each element was sampled. `TimesKept` speaks of packets that start in the
push, and of scalar ones that start with left-over data; complex ones are the finding `complex_time`.

`DescribedInTime` speaks of the context packet of an SRI, in two halves. Its time is the one at which the
first sample was taken, unless there was a gap or another `xdelta` between samples left over and the
push: these are reckoned back from the push with its `xdelta` (cpp:1149), which then gives a wrong time.
And with or without a gap it is the time that the data packet with the same first sample carries, if that
goes out with the same push (`SameStart`; `by` is the number of the push). This leaves out complex
left-over samples, which cpp:1178 stamps elsewhere, and a rest that an empty push sends.

### Announcement

What receivers are told, and when: the data format of the stream definition, the keywords of the
announced SRI, the payload format of context packets, and the sizes `createPayload()` computes with the
real constants (65515, 65503, header sizes). `mergeRecSRI()` is split into its fields, each keyword, and
`pushSRI()`, because the context thread reads meanwhile. The context thread reads `pf` in one step and
queues the packet in a later one; listeners run between any two steps, also inside `createPayload()`
(`MeasurePacket` and `ClipPayload`; `torn` remembers it). A description is reduced to the mode, scalar or
complex, because the port in use has one sample size. The network side is taken as steady: a receiver is
connected and no network change happens, so `curr_attach.attach` is TRUE while a stream is active.
`ClippedAsNeeded` bounds the clipping from one side, and the finding `datagram` shows what the other side
is missing. A keyword is an id, different from the others of its SRI (`SRIsAssumption`), and a value;
`Text` is the set of both. Left out: the byte conversion of the payload, throttling, the context
interval, `numBuffers`, and the SRI fields that are copied like the mode.

### ContextPackets

`Announcement` with the contents of context packets: the class identifier (`classIdentifier` is the
property's copy, which the first packet overwrites) and the fields set from keywords. `Register` names
the local variable that the loop in `createIFContextPacket()` reads a keyword into and `Mistyped` the
values that `>>=` leaves the variable alone for. Both threads run the same loop, each on a packet of its
own and one keyword per step: the service thread from `DescribedClip` by `FillNext` to
`DescribedAnnounce`, the context thread from `BeginPacket` by `ReadNext` to `QueuePacket`. The
geolocation and ephemeris keywords are left out, and so is what a reallocation of the keyword sequence
under the reader may do beyond mixing old and new.

### Transport

`SinkVITA49` with its sockets: `fds` is the table of descriptors, `uniServer`, `multiServer`, `tcpServer` and
`client` hold numbers in it, `streamDef` is the address in the definition receivers were given last. A
closed number is given away again first, as the system does. Opening never closes what the variable
held; only `stop()` closes, and only the UDP socket. A TCP socket whose address is taken (`AddressInUse`) is
handed out without listening, and one without an interface is -1; neither is noticed.
`accept()` is called with an uninitialised length and may fail. `verify()`, which throws, is left out.

### TcpServer

`boost_tcp_server`: one thread calls `write()` and `read()`, the io thread runs one handler after the
other. `sessionsLock` is a variable with its holder; a session's `writeLock` shows in who stands at
which step; `received` and `taken` are histories. It is built with the component, which uses
`unicast_tcp` instead. `is_open()` is TRUE for the sessions on the list; destructors are left out. A
session's first read is bound to a plain `this`, later ones to `shared_from_this()`; the model lets
such a read end without effect.

## What is checked

| run | instance | shows |
|---|---|---|
| `session` | 2 streams, changes between UDP and TCP, opens and `removeStream()` that fail, receivers that come and go, the context thread (7.9M states) | `TypeOK`, `ThreadsOwned`, `FrontFindsPacket`, `SingleOwner`, `UnsizedOnlyIfResumed`, and the refinement `SessionSpec` |
| `transport` | two UDP addresses, TCP, multicast, failing opens and `accept()`, `force_transmit`, payloads that hold no sample, a restart, the context thread (8.1M states) | `StaleSettingsFlagged`, `QuietAfterStop`, `LostOnlyOnStop` of the threads, and `SentWhereConfigured`, `ToldWhereSent`, `FlagsTellSockets`, `SocketsTypeOK` of the sockets |
| `live` | UDP, a stream that changes its SRI or comes back with the one kept in `currSRI`, 2 edits, `force_transmit`, start and stop (543,000 states) | `AttachedSRICurrent`, `UnsizedOnlyIfResumed`, and `StopReturns`, `UpdateHonoured`, `QueueDrains`, `EndOfStreamDetaches` |
| `packets` | payload 2, 3 or 5, pushes of 0, 2, 4 elements, both modes, two values of `xdelta`, a gap, the context thread (5.5M states) | `DataInOrder`, `NothingLost`, `PayloadRespected` of the data, and `TimesKept`, `DescribedInTime`, `ToldFromOwnStream`, `TimeTypeOK` of the times |
| `announce` | 5 SRIs of 2 streams, 3 pushes, a property change, both threads reading by keyword (1.6M states) | `DataDescribed`, `SRIDescribed`, `KeywordsAnnounced`, `ClippedAsNeeded`, `DescriptionSettles`, `ContextTypeOK` |
| `tcp_server` | 2 clients, 3 messages, 3 bytes | `DeliveredInOrder`, `NothingStuck`, `ReadInOrder`, `WriteReturns` |

The properties of `transport` hold only if `removeStream()` does not throw: when it does, `stop()`
returns with the threads running and the flags down, and `QuietAfterStop`, `LostOnlyOnStop`,
`SentWhereConfigured`, `ToldWhereSent` and `FlagsTellSockets` fail. So does `AttachedSRICurrent`: a
packet whose SRI change `getPacket()` has flagged can be dropped with the output stream while the input
stream stays, and its next packet is not flagged again. `session` lets `removeStream()` throw; its
properties and `SocketsTypeOK` are proved with and without it.

`EndOfStreamDetaches` is about a last push that gets past the test `samplesPerPacket >= 1` (cpp:1155). A
push that does not is dropped with its end of stream, and the stream stays attached: this happens to a
stream that is resumed with the very SRI and keywords that `currSRI` kept of it, and
`UnsizedOnlyIfResumed` says that it happens to no other, as long as payloads hold a sample. `live` has such a
stream; in `session` there is none, and every stream gets its payload sized.

The runs named after a finding check one property each, which the code violates; they are listed
under "Where code and documentation differ".

Deadlock is not checked: every instance may stop when its bounded pushes, edits and starts are used
up, and the TCP server may stop for good (below).

### Bounds

Bounds are constants named `Max...` that guard the actions of the environment. They are chosen so
that what a property is about happens at least twice where once is not enough: two thread objects
let a forgotten one meet its successor (`live` has one, which is enough because `NoOrphanedThread` proves
that no second one of a kind is ever alive); two settings let a change be taken up and
overtaken; two inputs let a stream end and another begin, or its SRI change; one restart shows what
`stop()` left behind. `MaxPackets` keeps the queue finite by silencing the context thread; packets of the
service thread are bounded by the inputs; in `live` it is 1, so that the context thread runs and is
joined but never gets to queue a packet. In `packets` three pushes of up to six elements in all allow
one to be left over, completed, cut and left over again, or an end of stream between; pushes are
shorter and longer than a packet, and the three payload sizes are one `spareBuffer` has room for, a
smaller one and one it has not. A second has 4 ticks and `xdelta` is 1 or 6, below and above it, so that
every carry between seconds and fraction occurs; `UIntRange` is 64, far above every size in use. In `announce`
three pushes allow a stream to be described, changed and ended, or two streams; an edit makes the
payload as large or as small as can be. Each cfg begins with the question it asks.

Symmetry is used in the safety runs only, over UDP settings, threads, and streams, those in `Echo` and the
others each among themselves; no action treats one of them specially.

### Fairness

`LiveSpec` of `SinkVITA49` gives each thread weak fairness: they are operating system threads whose
loops sleep for bounded times and poll, so each takes its next step when it has one, and a step that
waits for a join is enabled once the other thread has ended. A `configure()` call that has begun is
finished. Nothing is assumed of callers, of the input and of TCP clients; that is why `StopReturns` is
checked over UDP and fails over TCP. `LiveContextSpec` of `ContextPackets` has weak fairness of the service
thread within a pass and of the context thread's loop, `TcpServer` of the caller within a call and of the handlers
(the io thread runs `io_service.run()`); no client has to do anything.

`WriteReturns` says that a `write()` returns unless the server is in the state `Deadlocked`: `write()` holds
`sessionsLock` and wants the `writeLock` of a session whose failed write is being handled, and the handler holds
that `writeLock` and wants `sessionsLock`. Both threads then stop for good; the property shows that this is the
only way for them to.

`DescriptionSettles` is the counterpart of two races. The context thread may fill in a packet, the
service thread merge a new SRI and queue its description, and the old packet be queued after it; and
the packet may mix old and new keywords. The data that follows is described wrong, until the context
thread comes round again: `DescriptionSettles` says that it does, again and again.

### Where code and documentation differ

| run | property | |
|---|---|---|
| `ignores_sri` | `SRIChangesHandled` | A rebuilt transmitter leaves `curr_attach.attach` FALSE until the stream ends; SRI changes are then ignored (a test pushes new SRI and checks the update). |
| `tcp_stop` | `StopReturns` | Without a TCP client the transmitter stays in `accept()`, and `stop()` with it. |
| `short_push` | `ReceivedIsPushed` | A push that does not complete a packet overwrites what was left over. |
| `complex_time` | `FirstSampleTime` | The offset of complex left-over samples is divided as an unsigned number; their packet is stamped far in the future. |
| `datagram` | `WithinDatagram` | A payload at the limit is clipped to packets one to two samples too long for a UDP datagram: `subtract_bytes` (cpp:673) takes a sample off where it should add one. |
| `class_id` | `ClassFromPayloadFormat` | `DEFAULT` is overwritten by the first class identifier; later payload formats do not reach it. |

Seen while modelling and not given a run of their own:

- *Streams.* A context packet filled in while `tearDownOutputStream()` has already reset `_streamMap`
  goes out with stream identifier 0 (cpp:789, cpp:1268; tests/test_SinkVITA49.py:358 expects the
  identifier of the stream). A stream id whose 32-bit hash is 0, as that of the empty id, never counts
  as active (cpp:1252). A stream resumed with an SRI that `compareSRI()` finds equal to `currSRI` has
  `samplesPerPacket` 0 and all its data dropped, its end of stream included (`DropUnready`).
- *Stream definition.* It is made before the SRI is merged (cpp:1137): without context packets a first
  complex stream is announced as scalar. A multicast address with `use_udp_protocol` off is announced as
  TCP, though the packets go by UDP.
- *Sockets.* After a change from UDP to TCP packets go out both ways; after one from TCP to UDP
  `TRANSMITTER` waits in `accept()` on the old listener first. Every relaunch leaks a UDP socket, and
  multicast, listener and client sockets are never closed. So the second launch over TCP cannot `bind()`,
  which is only printed (`AddressInUse`): `accept()` on a socket that does not listen fails at once, and
  the transmitter sends to a client it has not got.
- *Packets.* A first complex push is measured in scalar samples, so its last packet takes in more than
  the push holds (excluded by `Whole`). `spareBuffer` is never made larger (`Crash`, excluded by `Fits`).
  `vita49_payload_size` starts as 1428 and goes back to it with each stream, whatever the property says
  (`Allowed`). A listener between the two parts of `createPayload()` can leave `vita49_payload_size`
  negative, and nothing is sent then.
- *Times.* `_tContext.tfsec` is 100 times the fraction of the packet's time, so that the second of a periodic
  context packet may be off by up to 99. The rest of a stream that an empty push ends has the time of
  that push. After a change of `xdelta` the left-over samples are stamped with the new one. A packet
  with left-over data is stamped even when `embed_time_stamp` is off.
- *SRI and keywords.* One whose keywords differ only in their ids is not announced. `subsize` is compared
  but never merged, so an SRI that has one is new with every change. Keywords of earlier streams
  stay announced. `convertEndian` is never switched off again, while `dataRef` is reset with each stream.
  `contextCount` and the geolocation objects are shared by two threads without a lock.
- *TCP server.* A read error leaves the session on the list until a write to it fails
  (cpp/boost_tcp_server.cpp:64).

## What is proved

For every value of the constants that satisfies the named assumptions:

| theorem | module | property |
|---|---|---|
| `TypeCorrect`, `NoOrphanedThread`, `FrontIsSafe`, `TearDownIsExclusive`, `NoUpdateLost`, `StopIsQuiet` | `SinkProofs` | `TypeOK`, `ThreadsOwned`, `FrontFindsPacket`, `SingleOwner`, `StaleSettingsFlagged`, `QuietAfterStop` |
| `DataUnderItsSRI`, `UnsizedIsResumed`, `SessionsImplemented` | `StreamProofs` | `AttachedSRICurrent`, `UnsizedOnlyIfResumed`, `SessionSpec` |
| `SocketTypes`, `FlagsAreTrue`, `AddressIsRight`, `DefinitionIsRight`, `NoPacketUnsent`, `SessionsOverSockets` | `TransportProofs` | `SocketsTypeOK`, `FlagsTellSockets`, `SentWhereConfigured`, `ToldWhereSent`, `LostOnlyOnStop`, and `SessionSpec` of `TransportSpec` |
| `PacketizerTypes`, `OrderKept`, `AllSent`, `PacketsFit` | `PacketizerProofs` | `TypeOK`, `DataInOrder`, `NothingLost`, `PayloadRespected` |
| `TimeTypes`, `StampsRight`, `SRIInTime`, `TimesTold` | `TimeProofs` | `TimeTypeOK`, `TimesKept`, `DescribedInTime`, `ToldFromOwnStream` |
| `AnnouncementTypes`, `NoDataUndescribed`, `KeywordsReachReceivers`, `ClipsNoMore` | `AnnouncementProofs` | `TypeOK`, `DataDescribed`, `KeywordsAnnounced`, `ClippedAsNeeded` |
| `ContextTypes`, `FieldsReachReceivers` | `ContextProofs` | `ContextTypeOK`, `SRIDescribed` |
| `ServerTypes`, `MessagesInOrder`, `QueuesMove`, `BytesInOrder` | `TcpProofs` | `TypeOK`, `DeliveredInOrder`, `NothingStuck`, `ReadInOrder` |
| `TransportRefines`, `TimeRefines`, `ContextRefines` | `TransportProofs`, `TimeProofs`, `ContextProofs` | `TransportSpec => Spec`, `TimeSpec => Spec`, `ContextSpec => Spec` |

The last row is what lets the theorems of `SinkVITA49`, `Packetizer` and `Announcement` be used of the modules
built on them; `TransportProofs`, `TimeProofs` and `ContextProofs` do so.

The arguments:

- **SinkProofs.** `Ownership` is the invariant behind the first four: types, each live thread is the
  one its pointer names, the service thread's label says what work it has in hand (`WorkInHand`),
  and the control thread is past waiting only when the service thread is off. It is needed as a
  whole: that a pointer may be forgotten follows from both threads having been joined, which follows
  from who was allowed to join. `LaunchedSettings` adds that between `ClearUpdate` and the launch nothing
  is missed. `StopProgress` follows `stop()` through its labels, each of which adds one thing that is quiet.
- **StreamProofs.** `SRIKept` relates what the input port has delivered of a stream (`lastSRI`) to what
  was merged, per label of the service thread. `AttachedSRICurrent` alone is not inductive: it must be
  known that a packet without `sriChanged` follows one whose SRI was merged. The theorem assumes that
  `force_transmit` is off and `removeStream()` does not throw. `SizedKept` says that the attached
  stream's payload has been sized since its SRI was taken over, unless it was resumed.
  `SessionsImplemented` is the refinement, step by step: the steps that queue a packet, or attach,
  announce or remove a stream, map to the actions of `StreamSession`, all others to stutters.
  `SessionKept` is what makes its guards hold: per label of the service thread, of `stop()` and of the
  context thread, which stream is attached and announced, and whose packet is under way (`SessionSteps`,
  `SessionSRI`). What receivers are given, `Pushed`, is what was sent and what is queued: a push adds to
  it (`PushedGrows`), sending leaves it alone (`PushedStays`). It assumes that `force_transmit` is off,
  without which packets of two streams mix.
- **TransportProofs.** `Descriptors` types the table; `SocketsInUse` says per transmitter what its
  protocol's socket is (`Serves`, `Accepted`) and what the UDP flag means (`UdpFlag`). It rests on
  `Ownership`: a socket can be replaced at a launch because no transmitter runs then. `Told` relates the
  definition to `currAttach` while a stream is attached, and needs no assumption. `SocketTypes` needs
  `Descriptors` alone. `NoPacketUnsent` follows from `Ownership` and `SocketsInUse`, in which a
  transmitter at work has its flag up until `stop()` clears it.
- **TimeProofs.** `Told` splits each time into the packet its seconds and the one its fraction come from
  (`Sources`), through the copy the context thread holds in between and across the end of a stream.
  `Division` and `NextTime` are the arithmetic: however seconds and fractions carry, `CalcNextTimeStamp`
  is `n` deltas later, or earlier, and its fraction is one. On these rest the other three theorems.
  `PushBorn` says which times the elements of the push under work have; `LeftOverBorn` says, per step of
  a push, until when the left-over ones in front of it were sampled, a statement about one element that
  no packet shows yet; `Kept` of `PacketizerProofs` says which elements these are. `Agreed` carries the
  time that was described through the push to the first packet cut from it, at whose stamp the two are
  computed from the same numbers. `NegatedScalar` is where the unsigned division does no harm; it needs
  payloads shorter than half of the unsigned range (`UIntAssumption`; the code allows 65503 bytes of
  2^32).
- **PacketizerProofs.** `SizeAllowed` says that `vita49_payload_size` is what a packet may have, however
  the listener and `initialize_values()` take turns, so that `PayloadRespected` compares with the
  property. `Kept` says where every element received is: sent, in `spareBuffer`, or in the part of the
  push not yet cut, in this order, and how the size variables add up at each step of a push, with
  `spareBuffer` as large as it was made.
- **AnnouncementProofs.** `Describing` says that packets can only be cut once the mode in force has been
  described (`samplesPerPacket >= 1` implies it, outside the three steps that change both). `Clipping`
  carries what was measured to the subtraction; the rest is `ClipArithmetic`, linear arithmetic with `%`
  and `\div` by each of the five unit sizes. `Typed` bounds what clipping and listeners make of the
  payload size in any order. `Announcing` follows the keywords: `With` and the loop of `mergeRecSRI()`
  only add or replace (`WithKeyword`, `AllMerged`), so that what has been announced includes what the
  last push came with.
- **ContextProofs.** `ContextTyped` keeps the loop inside the list because the list never gets shorter
  (`ListGrows`). `ContextShown` is the loop's invariant: the fields show the keywords read so far, the
  last of each id; what shows all of `currSRI` shows all of the push, which is in it (`ShownIncludes`,
  `Announcing`).
- **TcpProofs.** `Served` adds to the properties how sessions, handlers and locks fit together
  (`Structure`, `Writers`) and that what a client has, what is queued for it and what is being written make up
  all messages since it was accepted (`Numbered`).

Every invariant and action property of the passing runs is proved. Only model-checked are the liveness
properties `StopReturns`, `UpdateHonoured`, `QueueDrains`, `EndOfStreamDetaches`, `DescriptionSettles`
and `WriteReturns`, because neither fairness nor `ENABLED` can be used in the proofs.

## Not modelled

Packet counters, device identifiers and the geolocation and ephemeris keywords (copied field by field
into objects of the VITA49 library, which is not in the repository); payload bytes and byte order;
the rounding of doubles; throttling and the interval between context packets, which only change when
a thread takes its next step; exceptions of `verify()` and of memory allocation; an empty `ip_address`, with
which `launch_tx_thread()` opens nothing; the destructors of the component and of the TCP server; the
generated base classes, `main()` and `struct_props.h`; the client and receive functions of the sockets,
which nothing calls.

## Plan

Done, in this order: `StreamSession`, `SinkVITA49` (the most important behaviour: threads and
streams), `Packetizer`, `TcpServer`, `Announcement`, then on top of these `TimeStamps`, `Transport` and
`ContextPackets`, and the proofs above. Next:

1. What liveness rests on, as invariants with proofs: that a thread that is waited for has its step, without
   `ENABLED` (the guards of its step, per label), for `stop()` over UDP and for the locks of `TcpServer`.
2. Abstract specifications of `Packetizer` (a stream of elements) and `TcpServer` (a log per client), implemented
   step by step as `StreamSession` is.
