--------------------------- MODULE TransportProofs ---------------------------
(***************************************************************************)
(* Proofs about Transport: it only refines SinkVITA49, so that all that is *)
(* proved in SinkProofs and StreamProofs holds of it; its flags and        *)
(* addresses never speak of the wrong socket; and no packet is popped for  *)
(* none.                                                                   *)
(***************************************************************************)
EXTENDS Transport, StreamProofs

USE DEF Goto, otherVars, aroundVars, linkVars, streamVars, svcVars, runVars,
        propVars, attachVars, openVars, threadVars, txVars, ctxVars, sriVars,
        queueVars, boundVars, ServiceGone, CreatePayload, RequestUpdate

\* Every step of Transport is one of SinkVITA49.
LEMMA TransportStep == [TransportNext]_transportVars => [Next]_vars
  BY DEF TransportNext, TransportOpen, TransportOpenFails, TransportStopJoined,
     TransportAccept, TransportExit, LaunchTold, AddStream, Elsewhere, transportVars, vars, Next,
     ServiceStep, StopStep, TransmitStep, TimerStep, Environment

\* Opening and closing sockets takes nothing away from the threads: Transport
\* implements SinkVITA49.
THEOREM TransportRefines == TransportSpec => Spec
<1>1. TransportInit => Init
  BY DEF TransportInit
<1> QED
  BY <1>1, TransportStep, PTL DEF TransportSpec, Spec

\* With real sockets, which open late, fail or are those of an earlier transport,
\* receivers still get the sessions of StreamSession.
THEOREM SessionsOverSockets == ~ForceAllowed /\ TransportSpec => SessionSpec
  BY TransportRefines, SessionsImplemented

-----------------------------------------------------------------------------
(* Descriptors                                                             *)

SocketKinds == {"udp", "multicast", "listener", "unbound", "client"}
Table == fds \in Seq(Used \union {Closed})

\* The number of a new descriptor is that of a closed one or the next.
LEMMA NewFdType ==
  ASSUME Table
  PROVE  /\ NewFd \in 1 .. Len(fds) + 1
         /\ NewFd \in 1 .. Len(fds) => fds[NewFd] = Closed
<1>1. Len(fds) \in Nat
  BY DEF Table
<1>2. CASE \E d \in 1 .. Len(fds) : fds[d] = Closed
  BY <1>1, <1>2 DEF NewFd
<1>3. CASE ~ \E d \in 1 .. Len(fds) : fds[d] = Closed
  BY <1>1, <1>3 DEF NewFd
<1> QED
  BY <1>2, <1>3

\* A new socket disturbs none that is open.
LEMMA OpenedKeeps ==
  ASSUME Table, NEW kind \in SocketKinds, NEW to \in Settings,
         fds' = Opened(kind, to)
  PROVE  /\ Table'
         /\ NewFd \in 1 .. Len(fds') /\ fds'[NewFd] = [kind |-> kind, to |-> to]
         /\ 1 .. Len(fds) \subseteq 1 .. Len(fds')
         /\ \A d \in 1 .. Len(fds) : fds[d] # Closed => fds'[d] = fds[d]
<1> DEFINE n == IF NewFd \in 1 .. Len(fds) THEN Len(fds) ELSE Len(fds) + 1
           S == Used \union {Closed}
<1>1. Len(fds) \in Nat /\ n \in Nat
  BY DEF Table
<1>2. \A d \in 1 .. Len(fds) : fds[d] \in S
  BY DEF Table
<1>3. 1 .. n = (1 .. Len(fds)) \union {NewFd}
  BY <1>1, NewFdType
<1>4. [kind |-> kind, to |-> to] \in S
  BY DEF Used, SocketKinds
<1>5. fds' \in [1 .. n -> S]
  BY <1>2, <1>3, <1>4 DEF Opened
<1>6. fds' \in Seq(S) /\ Len(fds') = n
  BY <1>1, <1>5
<1>7. fds'[NewFd] = [kind |-> kind, to |-> to]
  BY DEF Opened
<1>8. \A d \in 1 .. Len(fds) : fds[d] # Closed => fds'[d] = fds[d]
  BY NewFdType DEF Opened
<1> QED
  BY <1>1, <1>3, <1>6, <1>7, <1>8 DEF Table

\* Closing the UDP socket leaves all others.
LEMMA ClosedKeeps ==
  ASSUME Table, NEW c \in 1 .. Len(fds), fds' = [fds EXCEPT ![c] = Closed]
  PROVE  /\ Table' /\ Len(fds') = Len(fds)
         /\ \A d \in 1 .. Len(fds) : d # c => fds'[d] = fds[d]
  BY DEF Table

\* d is an open descriptor of the table, of the kind.
OpenAs(d, kind) == d \in 1 .. Len(fds) /\ fds[d].kind = kind

LEMMA OpenIsNotClosed ==
  ASSUME NEW d, NEW kind, kind # "closed", OpenAs(d, kind)
  PROVE  d \in 1 .. Len(fds) /\ fds[d] # Closed
  BY DEF OpenAs, Closed

\* The table and the descriptors in the server and client variables.
Descriptors ==
  /\ Table
  /\ uniServer \in (1 .. Len(fds)) \union {NoSocket}
  /\ multiServer \in (1 .. Len(fds)) \union {NoSocket}
  /\ tcpServer \in (1 .. Len(fds)) \union {NoSocket}
  /\ client \in [Threads -> (1 .. Len(fds)) \union {NoSocket}]

\* What unicast_udp_open promises stop().
UdpFlag == udpOpen /\ uniServer # NoSocket => OpenAs(uniServer, "udp")

\* The servers a thread that lives was started with.
Serves(t) ==
  tx[t] # "none" =>
    /\ currAttach \in Settings
    /\ peer[t] = "multicast" <=> currAttach \in MulticastSettings
    /\ currAttach \in MulticastSettings => Is(multiServer, "multicast", currAttach)
    /\ currAttach \in TcpSettings /\ tcpServer # NoSocket =>
         /\ OpenAs(tcpServer, "listener") \/ OpenAs(tcpServer, "unbound")
         /\ fds[tcpServer].to = currAttach
    /\ ctl \notin {"tear", "join"} =>
         /\ currAttach \in UdpSettings => udpOpen /\ Is(uniServer, "udp", currAttach)
         /\ currAttach \in TcpSettings => tcpOpen

\* The client a thread has accepted, or not.
Accepted(t) ==
  /\ tx[t] \in {"none", "start"} => peer[t] \in {"none", "multicast"}
  /\ tx[t] = "accept" => peer[t] = "none"
  /\ tx[t] \in {"loop", "front"} /\ tcpOpen => peer[t] # "none"
  /\ peer[t] = "lost" => client[t] = NoSocket
  /\ peer[t] = "client" =>
       /\ OpenAs(client[t], "client")
       /\ currAttach \in TcpSettings => fds[client[t]].to = currAttach

SocketsInUse == UdpFlag /\ \A t \in Threads : Serves(t) /\ Accepted(t)

-----------------------------------------------------------------------------
(* Steps                                                                   *)

\* Where no descriptor, flag, address or transmit thread changes.
LEMMA UndisturbedSockets ==
  ASSUME Descriptors, SocketsInUse,
         UNCHANGED <<socketVars, tx, peer, currAttach, udpOpen, tcpOpen>>,
         ctl \in {"tear", "join"} => ctl' \in {"tear", "join"}
  PROVE  Descriptors' /\ SocketsInUse'
  BY DEF Descriptors, Table, SocketsInUse, UdpFlag, Serves, Accepted, OpenAs, Is,
     socketVars

\* Where a thread moves on without a change to its peer.
LEMMA ThreadMovesOn ==
  ASSUME Descriptors, SocketsInUse, NEW t \in Threads, TypeOK,
         tx[t] \in {"start", "loop", "front"},
         \E label \in {"accept", "loop", "front"} : tx' = [tx EXCEPT ![t] = label],
         tx'[t] = "accept" => tx[t] = "start" /\ peer[t] # "multicast",
         tx'[t] = "front" => tx[t] = "loop",
         tx'[t] = "loop" /\ tx[t] = "start" => ~tcpOpen \/ peer[t] = "multicast",
         UNCHANGED <<socketVars, peer, currAttach, udpOpen, tcpOpen, ctl>>
  PROVE  Descriptors' /\ SocketsInUse'
<1>1. Descriptors' /\ UdpFlag'
  BY DEF Descriptors, Table, SocketsInUse, UdpFlag, OpenAs, socketVars
<1>2. ASSUME NEW u \in Threads PROVE Serves(u)'
  <2>1. Serves(u) /\ (tx'[u] # "none" => tx[u] # "none")
    BY DEF SocketsInUse, TypeOK
  <2> QED
    BY <2>1 DEF Serves, OpenAs, Is, socketVars
<1>3. ASSUME NEW u \in Threads PROVE Accepted(u)'
  <2>1. CASE u = t
    BY <2>1 DEF SocketsInUse, Accepted, OpenAs, socketVars, TypeOK
  <2>2. CASE u # t
    BY <2>2 DEF SocketsInUse, Accepted, OpenAs, socketVars, TypeOK
  <2> QED
    BY <2>1, <2>2
<1> QED
  BY <1>1, <1>2, <1>3 DEF SocketsInUse

\* Where no transmit thread is left.
LEMMA ThreadlessStep ==
  ASSUME Descriptors, SocketsInUse, \A t \in Threads : tx[t] = "none",
         UNCHANGED <<socketVars, tx, peer, udpOpen>>
  PROVE  Descriptors' /\ SocketsInUse'
<1>1. \A t \in Threads : peer[t] \in {"none", "multicast"}
  BY DEF SocketsInUse, Accepted
<1> QED
  BY <1>1 DEF Descriptors, Table, SocketsInUse, UdpFlag, Serves, Accepted, OpenAs,
     socketVars

LEMMA DefinitionStep ==
  ASSUME Ownership, Descriptors, SocketsInUse, LaunchTold \/ AddStream,
         UNCHANGED socketVars
  PROVE  Descriptors' /\ SocketsInUse'
<1>1. CASE LaunchTold
  BY <1>1, ThreadlessStep, ThreadsAssumption DEF LaunchTold, Launch, Ownership,
     ThreadsOwned, TypeOK
<1>2. CASE AddStream
  BY <1>2, UndisturbedSockets DEF AddStream, SetupOutputStream
<1> QED
  BY <1>1, <1>2

LEMMA ElsewhereStep ==
  Ownership /\ Descriptors /\ SocketsInUse /\ ~RemoveStreamMayFail
    /\ Elsewhere /\ UNCHANGED socketVars => Descriptors' /\ SocketsInUse'
<1> SUFFICES ASSUME Ownership, Descriptors, SocketsInUse, ~RemoveStreamMayFail,
                    Elsewhere, UNCHANGED socketVars
             PROVE  Descriptors' /\ SocketsInUse'
  OBVIOUS
<1>1. CASE \/ ServiceExit \/ MemoryManagement \/ BeginPass
           \/ HonourUpdate \/ NoUpdate \/ ClearUpdate \/ NoLaunch
           \/ ServiceJoined \/ NoInput
  BY <1>1, UndisturbedSockets DEF ServiceExit, MemoryManagement, BeginPass,
     HonourUpdate, NoUpdate, ClearUpdate, NoLaunch, ServiceJoined,
     ForgetThreads, NoInput
<1>2. CASE \/ InterruptStream \/ DropPacket \/ AcceptPacket
           \/ SkipMerge \/ MergeSameSRI \/ MergeNewSRI
           \/ AnnounceContext \/ PushData \/ DropUnready \/ EndPacket
  BY <1>2, UndisturbedSockets DEF InterruptStream, DropPacket, AcceptPacket,
     SkipMerge, MergeSameSRI, MergeNewSRI, AnnounceContext, PushData, DropUnready, EndPacket
<1>3. CASE \/ ServiceTearDown \/ ServiceTearDownFails \/ ServiceInitializeValues
           \/ Start \/ Stop \/ StopTimeout \/ ControlTearDown
           \/ ControlTearDownFails \/ ControlInitializeValues
  BY <1>3, UndisturbedSockets DEF ServiceTearDown, ServiceTearDownFails,
     ServiceInitializeValues, InitializeValues, RemoveStream, Start, Stop,
     StopTimeout, ControlTearDown, ControlTearDownFails, ControlInitializeValues
<1>4. CASE \/ NetworkSettingsChanged \/ SetNetworkSettings
           \/ ChangeConnection \/ ChangeForce
           \/ \E t \in Threads : TimerStep(t)
  BY <1>4, UndisturbedSockets DEF NetworkSettingsChanged, SetNetworkSettings,
     ChangeConnection, ChangeForce, TimerStep, ExitTimer, CheckStream,
     FillContext, PushContext
<1>5. CASE ControlJoined
  BY <1>5, ThreadlessStep, ThreadsAssumption DEF ControlJoined, ThreadsJoined,
     ForgetThreads, Ownership, ThreadsOwned, TypeOK
<1>6. ASSUME NEW t \in Threads, BeginTransmitter(t)
      PROVE  Descriptors' /\ SocketsInUse'
  BY <1>6, ThreadMovesOn DEF BeginTransmitter, Ownership, TypeOK
<1>7. ASSUME NEW t \in Threads, SeePacket(t)
      PROVE  Descriptors' /\ SocketsInUse'
  BY <1>7, ThreadMovesOn DEF SeePacket, Ownership, TypeOK
<1>8. ASSUME NEW t \in Threads, Transmit(t)
      PROVE  Descriptors' /\ SocketsInUse'
  BY <1>8, ThreadMovesOn DEF Transmit, Ownership, TypeOK
<1> QED
  BY <1>1, <1>2, <1>3, <1>4, <1>5, <1>6, <1>7, <1>8 DEF Elsewhere

\* An open descriptor stays one, for the same address, whatever is opened.
LEMMA OpenStays ==
  ASSUME Descriptors, NEW kind \in SocketKinds, NEW to \in Settings,
         fds' = Opened(kind, to)
  PROVE  /\ Table' /\ 1 .. Len(fds) \subseteq 1 .. Len(fds')
         /\ NewFd \in 1 .. Len(fds') /\ NewFd # NoSocket
         /\ fds'[NewFd] = [kind |-> kind, to |-> to]
         /\ \A d, k : k # "closed" /\ OpenAs(d, k) => d \in 1 .. Len(fds') /\ fds'[d] = fds[d]
<1>1. Table
  BY DEF Descriptors
<1>2. NewFd # NoSocket
  BY <1>1, NewFdType DEF NoSocket, Table
<1> QED
  BY <1>1, <1>2, OpenedKeeps, OpenIsNotClosed DEF OpenAs

\* Where a new transmitter starts there is none yet.
LEMMA NoneBefore ==
  ASSUME Ownership, Descriptors, SocketsInUse, svc = "open"
  PROVE  /\ \A t \in Threads : tx[t] = "none" /\ peer[t] \in {"none", "multicast"}
         /\ ctl \notin {"tear", "join", "init"}
  BY ThreadsAssumption DEF Ownership, NothingToLose, ThreadsOwned, SingleOwner,
     TypeOK, SocketsInUse, Accepted

LEMMA OpenStep ==
  ASSUME Ownership, Descriptors, SocketsInUse, TransportOpen
  PROVE  Descriptors' /\ SocketsInUse'
<1> USE SettingsAssumption
<1>1. /\ \A t \in Threads : tx[t] = "none" /\ peer[t] \in {"none", "multicast"}
      /\ ctl \notin {"tear", "join", "init"}
  BY NoneBefore DEF TransportOpen, Open
<1>4. CASE OpenUdp
  <2>1. Is(uniServer, "udp", currAttach)' /\ uniServer' # NoSocket /\ Table'
        /\ 1 .. Len(fds) \subseteq 1 .. Len(fds')
    BY <1>4, OpenStays DEF OpenUdp, SocketKinds, Settings, TransportOpen, Open, Is
  <2>2. Descriptors'
    BY <1>4, <2>1 DEF Descriptors, OpenUdp, Is, TransportOpen, Open
  <2>3. UdpFlag'
    BY <2>1 DEF UdpFlag, OpenAs, Is
  <2>4. ASSUME NEW t \in Threads PROVE Serves(t)' /\ Accepted(t)'
    BY <1>1, <1>4, <2>1 DEF OpenUdp, TransportOpen, Open, Serves, Accepted, Is,
       Ownership, TypeOK, Settings
  <2> QED
    BY <2>2, <2>3, <2>4 DEF SocketsInUse
<1>5. CASE OpenMulticast
  <2>1. /\ Is(multiServer, "multicast", currAttach)' /\ multiServer' # NoSocket
        /\ Table' /\ 1 .. Len(fds) \subseteq 1 .. Len(fds')
        /\ OpenAs(uniServer, "udp") => OpenAs(uniServer, "udp")'
    BY <1>5, OpenStays DEF OpenMulticast, SocketKinds, Settings, TransportOpen,
       Open, Is, OpenAs
  <2>2. Descriptors'
    BY <1>5, <2>1 DEF Descriptors, OpenMulticast, Is, TransportOpen, Open
  <2>3. UdpFlag'
    BY <1>5, <2>1 DEF UdpFlag, SocketsInUse, OpenMulticast, TransportOpen, Open
  <2>4. ASSUME NEW t \in Threads PROVE Serves(t)' /\ Accepted(t)'
    BY <1>1, <1>5, <2>1 DEF OpenMulticast, TransportOpen, Open, Serves, Accepted,
       Is, Ownership, TypeOK, Settings
  <2> QED
    BY <2>2, <2>3, <2>4 DEF SocketsInUse
<1>6. CASE OpenTcp
  <2>1. PICK kind \in {"listener", "unbound"} :
          fds' = Opened(kind, currAttach) /\ tcpServer' = NewFd
    BY <1>6 DEF OpenTcp
  <2>2. /\ Is(tcpServer, kind, currAttach)' /\ tcpServer' # NoSocket
        /\ Table' /\ 1 .. Len(fds) \subseteq 1 .. Len(fds')
        /\ OpenAs(uniServer, "udp") => OpenAs(uniServer, "udp")'
    BY <1>6, <2>1, OpenStays DEF OpenTcp, SocketKinds, Settings, TransportOpen,
       Open, Is, OpenAs
  <2>3. Descriptors'
    BY <1>6, <2>2 DEF Descriptors, OpenTcp, Is, TransportOpen, Open
  <2>4. UdpFlag'
    BY <1>6, <2>2 DEF UdpFlag, SocketsInUse, OpenTcp, TransportOpen, Open
  <2>5. /\ OpenAs(tcpServer, "listener")' \/ OpenAs(tcpServer, "unbound")'
        /\ fds'[tcpServer'].to = currAttach'
    BY <2>2 DEF Is, OpenAs
  <2>6. ASSUME NEW t \in Threads PROVE Serves(t)'
    <3>1. /\ currAttach' \in TcpSettings /\ currAttach' \in Settings /\ tcpOpen'
          /\ currAttach' \notin UdpSettings \union MulticastSettings
      BY <1>6 DEF OpenTcp, TransportOpen, Open, Settings
    <3>2. tx'[t] # "none" => peer'[t] # "multicast"
      BY <1>1, <1>6 DEF OpenTcp, TransportOpen, Open, Ownership, TypeOK
    <3> QED
      BY <2>5, <3>1, <3>2 DEF Serves, OpenAs
  <2>7. ASSUME NEW t \in Threads PROVE Accepted(t)'
    BY <1>1, <1>6 DEF OpenTcp, TransportOpen, Open, Accepted, Ownership, TypeOK
  <2> QED
    BY <2>3, <2>4, <2>6, <2>7 DEF SocketsInUse
<1>7. CASE OpenTcpNowhere
  <2>1. Descriptors' /\ UdpFlag'
    BY <1>7 DEF OpenTcpNowhere, TransportOpen, Open, Descriptors, Table, UdpFlag,
       SocketsInUse, OpenAs
  <2>2. ASSUME NEW t \in Threads PROVE Serves(t)' /\ Accepted(t)'
    BY <1>1, <1>7 DEF OpenTcpNowhere, TransportOpen, Open, Serves, Accepted, Is,
       Ownership, TypeOK, Settings
  <2> QED
    BY <2>1, <2>2 DEF SocketsInUse
<1> QED
  BY <1>4, <1>5, <1>6, <1>7 DEF TransportOpen

LEMMA OpenFailsStep ==
  ASSUME Ownership, Descriptors, SocketsInUse, TransportOpenFails
  PROVE  Descriptors' /\ SocketsInUse'
<1>1. \A t \in Threads : tx[t] = "none" /\ peer[t] \in {"none", "multicast"}
  BY NoneBefore DEF TransportOpenFails, OpenFails
<1> QED
  BY <1>1 DEF TransportOpenFails, OpenFails, Descriptors, Table, SocketsInUse,
     UdpFlag, Serves, Accepted, OpenAs

LEMMA StopStepSockets ==
  ASSUME Ownership, Descriptors, SocketsInUse, TransportStopJoined
  PROVE  Descriptors' /\ SocketsInUse'
<1>1. CASE udpOpen /\ uniServer \in 1 .. Len(fds)
  <2>1. fds' = [fds EXCEPT ![uniServer] = Closed] /\ Table
    BY <1>1 DEF TransportStopJoined, Descriptors
  <2>2. Table' /\ Len(fds') = Len(fds)
        /\ \A d \in 1 .. Len(fds) : d # uniServer => fds'[d] = fds[d]
    BY <1>1, <2>1, ClosedKeeps
  <2>3. fds[uniServer].kind = "udp"
    BY <1>1 DEF SocketsInUse, UdpFlag, OpenAs, NoSocket, Descriptors, Table
  <2>4. \A d, k : k # "udp" /\ OpenAs(d, k) => OpenAs(d, k)' /\ fds'[d] = fds[d]
    BY <2>2, <2>3 DEF OpenAs
  <2>5. Descriptors'
    BY <2>2 DEF TransportStopJoined, StopJoined, Descriptors
  <2>6. UdpFlag'
    BY DEF TransportStopJoined, StopJoined, UdpFlag
  <2>7. ASSUME NEW t \in Threads PROVE Serves(t)' /\ Accepted(t)'
    BY <2>4 DEF TransportStopJoined, StopJoined, SocketsInUse, Serves, Accepted,
       Is, OpenAs
  <2> QED
    BY <2>5, <2>6, <2>7 DEF SocketsInUse
<1>2. CASE ~(udpOpen /\ uniServer \in 1 .. Len(fds))
  BY <1>2 DEF TransportStopJoined, StopJoined, Descriptors, Table, SocketsInUse,
     UdpFlag, Serves, Accepted, OpenAs, Is
<1> QED
  BY <1>1, <1>2

\* Accepting a client makes no transmitter one for multicast, nor a new one.
LEMMA AcceptKeepsKind ==
  ASSUME Ownership, Descriptors, SocketsInUse, NEW t \in Threads, TransportAccept(t),
         NEW u \in Threads
  PROVE  /\ peer'[u] = "multicast" <=> peer[u] = "multicast"
         /\ tx'[u] # "none" => tx[u] # "none"
<1>1. tx[t] = "accept" /\ peer[t] = "none"
  BY DEF TransportAccept, AcceptClient, SocketsInUse, Accepted
<1> QED
  BY <1>1 DEF TransportAccept, AcceptClient, Ownership, TypeOK

LEMMA AcceptStep ==
  ASSUME Ownership, Descriptors, SocketsInUse, NEW t \in Threads, TransportAccept(t)
  PROVE  Descriptors' /\ SocketsInUse'
<1>1. tx[t] = "accept" /\ UNCHANGED <<currAttach, udpOpen, tcpOpen, ctl>>
      /\ tx' = [tx EXCEPT ![t] = "loop"]
      /\ \A u \in Threads : u # t => peer'[u] = peer[u] /\ client'[u] = client[u]
  BY DEF TransportAccept, AcceptClient, Ownership, TypeOK, Descriptors
<1>2. CASE peer'[t] = "lost"
  <2>1. UNCHANGED fds /\ client' = [client EXCEPT ![t] = NoSocket]
    BY <1>2 DEF TransportAccept
  <2>2. Descriptors' /\ UdpFlag'
    BY <1>1, <2>1 DEF TransportAccept, Descriptors, Table, UdpFlag, SocketsInUse, OpenAs
  <2>3. ASSUME NEW u \in Threads PROVE Serves(u)'
    BY <1>1, <1>2, <2>1, AcceptKeepsKind DEF TransportAccept, SocketsInUse, Serves,
       OpenAs, Is
  <2>4. ASSUME NEW u \in Threads PROVE Accepted(u)'
    BY <1>1, <1>2, <2>1 DEF SocketsInUse, Accepted, OpenAs, Ownership, TypeOK,
       Descriptors
  <2> QED
    BY <2>2, <2>3, <2>4 DEF SocketsInUse
<1>3. CASE peer'[t] = "client"
  <2> DEFINE to == fds[tcpServer].to
  <2>1. /\ OpenAs(tcpServer, "listener") /\ fds' = Opened("client", to)
        /\ client' = [client EXCEPT ![t] = NewFd]
    BY <1>3 DEF TransportAccept, OpenAs
  <2>2. to \in Settings
    BY <2>1 DEF OpenAs, Descriptors, Table, Used, Closed
  <2> HIDE DEF to
  <2>3. /\ Table' /\ 1 .. Len(fds) \subseteq 1 .. Len(fds')
        /\ NewFd \in 1 .. Len(fds') /\ NewFd # NoSocket
        /\ fds'[NewFd] = [kind |-> "client", to |-> to]
        /\ \A d, k : k # "closed" /\ OpenAs(d, k) => d \in 1 .. Len(fds') /\ fds'[d] = fds[d]
    BY <2>1, <2>2, OpenStays DEF SocketKinds
  <2>4. \A d, k : k # "closed" /\ OpenAs(d, k) => OpenAs(d, k)' /\ fds'[d] = fds[d]
    BY <2>3 DEF OpenAs
  <2>5. \A d, k : k # "closed" /\ Is(d, k, currAttach) => Is(d, k, currAttach)'
    <3>1. SUFFICES ASSUME NEW d, NEW k, k # "closed", Is(d, k, currAttach)
                   PROVE  Is(d, k, currAttach)'
      OBVIOUS
    <3>2. OpenAs(d, k)
      BY <3>1 DEF Is, OpenAs
    <3> QED
      BY <1>1, <2>4, <3>1, <3>2 DEF Is, OpenAs
  <2>6. Descriptors'
    BY <2>1, <2>3 DEF TransportAccept, Descriptors
  <2>7. UdpFlag'
    BY <1>1, <2>4 DEF TransportAccept, UdpFlag, SocketsInUse
  <2>8. ASSUME NEW u \in Threads PROVE Serves(u)'
    <3>1. Serves(u)
      BY DEF SocketsInUse
    <3> QED
      BY <1>1, <2>4, <2>5, <3>1, AcceptKeepsKind DEF TransportAccept, Serves
  <2>9. ASSUME NEW u \in Threads, u # t PROVE Accepted(u)'
    <3>1. Accepted(u) /\ tx'[u] = tx[u] /\ peer'[u] = peer[u] /\ client'[u] = client[u]
      BY <1>1, <2>9 DEF SocketsInUse, Ownership, TypeOK
    <3>2. OpenAs(client[u], "client") =>
            client[u] \in 1 .. Len(fds') /\ fds'[client[u]] = fds[client[u]]
      BY <2>3
    <3> QED
      BY <1>1, <3>1, <3>2 DEF Accepted, OpenAs
  <2>10. currAttach \in TcpSettings => to = currAttach
    BY <1>1, <2>1 DEF SocketsInUse, Serves, to, OpenAs, NoSocket, Descriptors, Table
  <2>11. Accepted(t)'
    BY <1>1, <1>3, <2>1, <2>3, <2>10 DEF Accepted, OpenAs, Descriptors, Ownership, TypeOK
  <2> QED
    BY <2>6, <2>7, <2>8, <2>9, <2>11 DEF SocketsInUse
<1> QED
  BY <1>2, <1>3 DEF TransportAccept

LEMMA ExitStep ==
  ASSUME Ownership, Descriptors, SocketsInUse, NEW t \in Threads, TransportExit(t)
  PROVE  Descriptors' /\ SocketsInUse'
<1>1. Descriptors' /\ UdpFlag'
  BY DEF TransportExit, ExitTransmitter, Descriptors, Table, UdpFlag, SocketsInUse, OpenAs
<1>2. ASSUME NEW u \in Threads PROVE Serves(u)' /\ Accepted(u)'
  BY DEF TransportExit, ExitTransmitter, SocketsInUse, Serves, Accepted, OpenAs,
     Is, Ownership, TypeOK, Descriptors
<1> QED
  BY <1>1, <1>2 DEF SocketsInUse

LEMMA SocketsStep ==
  Ownership /\ Descriptors /\ SocketsInUse /\ ~RemoveStreamMayFail
    /\ [TransportNext]_transportVars => Descriptors' /\ SocketsInUse'
<1> SUFFICES ASSUME Ownership, Descriptors, SocketsInUse, ~RemoveStreamMayFail,
                    [TransportNext]_transportVars
             PROVE  Descriptors' /\ SocketsInUse'
  OBVIOUS
<1>1. CASE UNCHANGED transportVars
  BY <1>1, UndisturbedSockets DEF transportVars, vars
<1>2. CASE TransportNext
  BY <1>2, OpenStep, OpenFailsStep, StopStepSockets, AcceptStep, ExitStep,
     DefinitionStep, ElsewhereStep DEF TransportNext
<1> QED
  BY <1>1, <1>2

\* The invariant of the sockets.
LEMMA SocketsInvariant ==
  ~RemoveStreamMayFail /\ TransportSpec => [](Ownership /\ Descriptors /\ SocketsInUse)
<1> SUFFICES ASSUME ~RemoveStreamMayFail
             PROVE  TransportSpec => [](Ownership /\ Descriptors /\ SocketsInUse)
  OBVIOUS
<1>1. TransportInit => Descriptors /\ SocketsInUse
  BY DEF TransportInit, Init, Descriptors, Table, SocketsInUse, UdpFlag, Serves, Accepted
<1>2. Ownership /\ Descriptors /\ SocketsInUse /\ [TransportNext]_transportVars
        => Descriptors' /\ SocketsInUse'
  BY SocketsStep
<1> QED
  BY <1>1, <1>2, TransportRefines, OwnershipInvariant, PTL DEF TransportSpec

-----------------------------------------------------------------------------
(* Theorems                                                                *)

\* Descriptors does not depend on what the threads do.
LEMMA DescriptorsStep ==
  ASSUME Descriptors, [TransportNext]_transportVars
  PROVE  Descriptors'
<1>1. Len(fds) \in Nat
  BY DEF Descriptors, Table
<1>2. ASSUME NEW kind \in SocketKinds, NEW to \in Settings, fds' = Opened(kind, to),
             \A d \in {uniServer', multiServer', tcpServer'} :
               d \in {uniServer, multiServer, tcpServer, NewFd},
             \/ UNCHANGED client
             \/ \E t \in Threads : client' = [client EXCEPT ![t] = NewFd]
      PROVE  Descriptors'
  <2>1. /\ Table' /\ NewFd \in 1 .. Len(fds')
        /\ 1 .. Len(fds) \subseteq 1 .. Len(fds')
    BY <1>2, OpenedKeeps DEF Descriptors
  <2> QED
    BY <1>2, <2>1 DEF Descriptors
<1>3. ASSUME UNCHANGED fds,
             \A d \in {uniServer', multiServer', tcpServer'} :
               d \in {uniServer, multiServer, tcpServer, NoSocket},
             \/ UNCHANGED client
             \/ \E t \in Threads : client' = [client EXCEPT ![t] = NoSocket]
      PROVE  Descriptors'
  BY <1>3 DEF Descriptors, Table
<1>4. CASE TransportOpen
  <2>1. CASE OpenUdp \/ OpenMulticast
    BY <1>2, <1>4, <2>1 DEF TransportOpen, OpenUdp, OpenMulticast, SocketKinds, Settings
  <2>2. CASE OpenTcp
    <3>1. PICK kind \in {"listener", "unbound"} :
            fds' = Opened(kind, currAttach) /\ tcpServer' = NewFd
      BY <2>2 DEF OpenTcp
    <3> QED
      BY <1>2, <1>4, <2>2, <3>1 DEF TransportOpen, OpenTcp, SocketKinds, Settings
  <2>3. CASE OpenTcpNowhere
    BY <1>3, <1>4, <2>3 DEF TransportOpen, OpenTcpNowhere
  <2> QED
    BY <1>4, <2>1, <2>2, <2>3 DEF TransportOpen
<1>5. CASE TransportOpenFails
  BY <1>3, <1>5 DEF TransportOpenFails
<1>6. CASE TransportStopJoined
  <2>1. CASE udpOpen /\ uniServer \in 1 .. Len(fds)
    BY <1>6, <2>1, ClosedKeeps DEF TransportStopJoined, Descriptors
  <2>2. CASE ~(udpOpen /\ uniServer \in 1 .. Len(fds))
    BY <1>3, <1>6, <2>2 DEF TransportStopJoined
  <2> QED
    BY <2>1, <2>2
<1>7. ASSUME NEW t \in Threads, TransportAccept(t) PROVE Descriptors'
  <2>1. CASE peer'[t] = "client"
    <3>1. /\ tcpServer \in 1 .. Len(fds) /\ fds[tcpServer].kind = "listener"
          /\ fds' = Opened("client", fds[tcpServer].to)
          /\ client' = [client EXCEPT ![t] = NewFd]
          /\ UNCHANGED <<uniServer, multiServer, tcpServer>>
      BY <1>7, <2>1 DEF TransportAccept
    <3>2. fds[tcpServer] \in Used \union {Closed}
      BY <3>1 DEF Descriptors, Table
    <3>3. fds[tcpServer].to \in Settings
      BY <3>1, <3>2 DEF Used, Closed
    <3> QED
      BY <1>2, <3>1, <3>3 DEF SocketKinds
  <2>2. CASE peer'[t] # "client"
    BY <1>3, <1>7, <2>2 DEF TransportAccept
  <2> QED
    BY <2>1, <2>2
<1>8. ASSUME NEW t \in Threads, TransportExit(t) PROVE Descriptors'
  BY <1>3, <1>8 DEF TransportExit
<1>9. CASE UNCHANGED socketVars
  BY <1>3, <1>9 DEF socketVars
<1> QED
  BY <1>4, <1>5, <1>6, <1>7, <1>8, <1>9 DEF TransportNext, transportVars

\* What unicast.cpp, multicast.cpp and unicast_tcp.cpp leave in the server and
\* client variables is a descriptor the process has been given, whatever was
\* closed or reused and whether or not removeStream() throws.
THEOREM SocketTypes == TransportSpec => []SocketsTypeOK
<1>1. TransportInit => Descriptors
  BY DEF TransportInit, Descriptors, Table
<1>2. Descriptors => SocketsTypeOK
  BY DEF Descriptors, Table, SocketsTypeOK
<1> QED
  BY <1>1, <1>2, DescriptorsStep, PTL DEF TransportSpec

\* Where a transmitter sends nothing, its flags have been taken down by stop(),
\* or it was never given a client.
LEMMA TransmitsSomewhere ==
  ASSUME Ownership, SocketsInUse, NEW t \in Threads, Transmit(t), Sockets(t) = {}
  PROVE  ctl \in {"tear", "join"} \/ peer[t] = "lost"
<1> SUFFICES ASSUME ctl \notin {"tear", "join"} PROVE peer[t] = "lost"
  OBVIOUS
<1>1. tx[t] = "front" /\ peer[t] \in {"none", "multicast", "client", "lost"}
  BY DEF Transmit, Ownership, TypeOK
<1>2. /\ currAttach \in Settings
      /\ currAttach \in MulticastSettings => peer[t] = "multicast"
      /\ currAttach \in UdpSettings => udpOpen
      /\ currAttach \in TcpSettings => tcpOpen
      /\ tcpOpen => peer[t] # "none"
  BY <1>1 DEF SocketsInUse, Serves, Accepted
<1>3. peer[t] # "multicast"
  BY DEF Sockets
<1>4. ~udpOpen /\ ~(tcpOpen /\ peer[t] = "client")
  BY <1>3 DEF Sockets
<1> QED
  BY <1>1, <1>2, <1>3, <1>4 DEF Settings

\* TRANSMITTER and TRANSMITTER_M: every packet that leaves the queue goes to a
\* socket, unless stop() has taken the flags down or no client was accepted,
\* provided removeStream() does not throw.
THEOREM NoPacketUnsent == ~RemoveStreamMayFail /\ TransportSpec => LostOnlyOnStop
<1>1. ASSUME Ownership, SocketsInUse, [Next]_vars, sent' # sent,
             sent'[Len(sent')].sockets = {}
      PROVE  ctl \in {"tear", "join"} \/ \E t \in Threads : peer[t] = "lost"
  <2>1. PICK t \in Threads : Transmit(t)
    <3>1. \/ \E t \in Threads : Transmit(t)
          \/ UNCHANGED sent
      <4>1. CASE ServiceStep
        BY <4>1 DEF ServiceStep, ServiceExit, MemoryManagement, BeginPass, HonourUpdate,
           NoUpdate, ClearUpdate, Launch, NoLaunch, OpenFails, Open, ServiceJoined,
           ForgetThreads, NoInput, InterruptStream, DropPacket, AcceptPacket,
           SetupOutputStream, SkipMerge, MergeSameSRI, MergeNewSRI, AnnounceContext,
           PushData, Push, DropUnready, EndPacket, ServiceTearDown,
           ServiceTearDownFails, ServiceInitializeValues, InitializeValues
      <4>2. CASE Start \/ Stop \/ StopStep
        BY <4>2 DEF Start, Stop, StopStep, StopTimeout, StopJoined, ControlTearDown,
           ControlTearDownFails, ControlJoined, ForgetThreads,
           ControlInitializeValues, InitializeValues
      <4>3. CASE \E t \in Threads : TransmitStep(t) \/ TimerStep(t)
        BY <4>3 DEF TransmitStep, BeginTransmitter, ExitTransmitter, SeePacket,
           TimerStep, ExitTimer, CheckStream, FillContext, PushContext, Push
      <4>4. CASE NetworkSettingsChanged \/ Environment
        BY <4>4 DEF NetworkSettingsChanged, Environment, SetNetworkSettings,
           ChangeConnection, ChangeForce, AcceptClient
      <4> QED
        BY <1>1, <4>1, <4>2, <4>3, <4>4 DEF Next, vars
    <3> QED
      BY <1>1, <3>1
  <2>2. sent \in Seq([packet : VRTPackets, sockets : SUBSET {"multicast", "udp", "tcp"}])
    BY <1>1 DEF Ownership, TypeOK
  <2>3. sent' = Append(sent, [packet |-> Head(workQueue2), sockets |-> Sockets(t)])
    BY <2>1 DEF Transmit
  <2>4. sent'[Len(sent')].sockets = Sockets(t)
    BY <2>2, <2>3
  <2> QED
    BY <1>1, <2>1, <2>4, TransmitsSomewhere
<1> QED
  BY <1>1, TransportStep, SocketsInvariant, PTL DEF TransportSpec, LostOnlyOnStop

\* The flags that stop() and TRANSMITTER go by never speak of a descriptor that
\* has been given away again, provided removeStream() does not throw.
THEOREM FlagsAreTrue == ~RemoveStreamMayFail /\ TransportSpec => []FlagsTellSockets
<1>1. ASSUME Ownership, Descriptors, SocketsInUse PROVE FlagsTellSockets
  <2>1. udpOpen /\ uniServer # NoSocket => fds[uniServer].kind = "udp"
    BY <1>1 DEF SocketsInUse, UdpFlag, OpenAs
  <2>2. ASSUME NEW t \in Threads,
               tx[t] \in {"loop", "front"} /\ peer[t] # "multicast" /\ tcpOpen
        PROVE  IF client[t] = NoSocket THEN peer[t] = "lost"
               ELSE fds[client[t]].kind = "client"
    <3>1. peer[t] \in {"client", "lost"}
      BY <1>1, <2>2 DEF Ownership, TypeOK, SocketsInUse, Accepted
    <3>2. peer[t] = "client" => client[t] # NoSocket /\ fds[client[t]].kind = "client"
      BY <1>1 DEF SocketsInUse, Accepted, OpenAs, Descriptors, Table, NoSocket
    <3>3. peer[t] = "lost" => client[t] = NoSocket
      BY <1>1 DEF SocketsInUse, Accepted
    <3> QED
      BY <3>1, <3>2, <3>3
  <2> QED
    BY <2>1, <2>2 DEF FlagsTellSockets
<1> QED
  BY <1>1, SocketsInvariant, PTL

\* A running transmitter has the socket of the configured protocol for the
\* configured address, provided removeStream() does not throw.
THEOREM AddressIsRight == ~RemoveStreamMayFail /\ TransportSpec => []SentWhereConfigured
<1>1. ASSUME Ownership, Descriptors, SocketsInUse, NEW t \in Threads,
             tx[t] \in {"loop", "front"} /\ ctl \notin {"tear", "join"}
      PROVE  SendsTo(t, currAttach)
  <2>1. tx[t] # "none" /\ peer[t] \in {"none", "client", "lost", "multicast"}
    BY <1>1 DEF Ownership, TypeOK
  <2>2. Serves(t) /\ Accepted(t)
    BY <1>1 DEF SocketsInUse
  <2>3. currAttach \in UdpSettings => udpOpen /\ Is(uniServer, "udp", currAttach)
    BY <1>1, <2>1, <2>2 DEF Serves
  <2>4. currAttach \in MulticastSettings =>
          peer[t] = "multicast" /\ Is(multiServer, "multicast", currAttach)
    BY <2>1, <2>2 DEF Serves
  <2>5. currAttach \in TcpSettings =>
          tcpOpen /\ (peer[t] = "client" => Is(client[t], "client", currAttach))
    <3>1. ASSUME currAttach \in TcpSettings, peer[t] = "client"
          PROVE  Is(client[t], "client", currAttach)
      <4>1. /\ client[t] \in 1 .. Len(fds) /\ fds[client[t]].kind = "client"
            /\ fds[client[t]].to = currAttach /\ fds[client[t]] \in Used \union {Closed}
        BY <1>1, <2>2, <3>1 DEF Accepted, OpenAs, Descriptors, Table
      <4> QED
        BY <4>1 DEF Is, Used, Closed
    <3> QED
      BY <1>1, <2>1, <2>2, <3>1 DEF Serves
  <2> QED
    BY <2>3, <2>4, <2>5 DEF SendsTo
<1>2. Ownership /\ Descriptors /\ SocketsInUse => SentWhereConfigured
  BY <1>1 DEF SentWhereConfigured
<1> QED
  BY <1>2, SocketsInvariant, PTL

-----------------------------------------------------------------------------
(* The stream definition                                                   *)

\* What receivers of a stream were told last is curr_attach.
Told == streamMap # NoStream => streamDef = currAttach

\* Only the actions of the definition change curr_attach or attach a stream.
LEMMA ToldElsewhere ==
  ASSUME Told, TransportNext, UNCHANGED streamDef, ~LaunchTold, ~AddStream
  PROVE  Told'
<1>1. UNCHANGED currAttach /\ streamMap' \in {streamMap, NoStream}
  <2>1. CASE TransportOpen \/ TransportOpenFails \/ TransportStopJoined
    BY <2>1 DEF TransportOpen, Open, TransportOpenFails, OpenFails,
       TransportStopJoined, StopJoined
  <2>2. CASE \E t \in Threads : TransportAccept(t) \/ TransportExit(t)
    BY <2>2 DEF TransportAccept, AcceptClient, TransportExit, ExitTransmitter
  <2>3. CASE \/ ServiceExit \/ MemoryManagement \/ BeginPass
             \/ HonourUpdate \/ NoUpdate \/ ClearUpdate \/ NoLaunch
             \/ ServiceJoined \/ NoInput
    BY <2>3 DEF ServiceExit, MemoryManagement, BeginPass, HonourUpdate, NoUpdate,
       ClearUpdate, NoLaunch, ServiceJoined, ForgetThreads, NoInput
  <2>4. CASE \/ InterruptStream \/ DropPacket \/ AcceptPacket
             \/ SkipMerge \/ MergeSameSRI \/ MergeNewSRI
             \/ AnnounceContext \/ PushData \/ DropUnready \/ EndPacket
    BY <2>4 DEF InterruptStream, DropPacket, AcceptPacket, SkipMerge, MergeSameSRI,
       MergeNewSRI, AnnounceContext, PushData, DropUnready, EndPacket
  <2>5. CASE \/ ServiceTearDown \/ ServiceTearDownFails \/ ServiceInitializeValues
             \/ Start \/ Stop \/ StopTimeout \/ ControlTearDown
             \/ ControlTearDownFails \/ ControlJoined \/ ControlInitializeValues
    BY <2>5 DEF ServiceTearDown, ServiceTearDownFails, ServiceInitializeValues,
       InitializeValues, RemoveStream, Start, Stop, StopTimeout, ControlTearDown,
       ControlTearDownFails, ControlJoined, ForgetThreads, ControlInitializeValues
  <2>6. CASE \/ NetworkSettingsChanged \/ SetNetworkSettings
             \/ ChangeConnection \/ ChangeForce
             \/ \E t \in Threads : \/ BeginTransmitter(t) \/ SeePacket(t)
                                   \/ Transmit(t) \/ TimerStep(t)
    BY <2>6 DEF NetworkSettingsChanged, SetNetworkSettings, ChangeConnection,
       ChangeForce, BeginTransmitter, SeePacket, Transmit, TimerStep, ExitTimer,
       CheckStream, FillContext, PushContext
  <2> QED
    BY <2>1, <2>2, <2>3, <2>4, <2>5, <2>6 DEF TransportNext, Elsewhere
<1> QED
  BY <1>1 DEF Told

LEMMA ToldInvariant == TransportSpec => []Told
<1>1. TransportInit => Told
  BY DEF TransportInit, Init, Told
<1>2. Told /\ [TransportNext]_transportVars => Told'
  <2> SUFFICES ASSUME Told, [TransportNext]_transportVars PROVE Told'
    OBVIOUS
  <2>1. CASE LaunchTold
    BY <2>1 DEF LaunchTold, Launch, Told
  <2>2. CASE AddStream
    BY <2>2 DEF AddStream, SetupOutputStream, Told
  <2>3. CASE TransportNext /\ ~LaunchTold /\ ~AddStream
    BY <2>3, ToldElsewhere DEF TransportNext
  <2>4. CASE UNCHANGED transportVars
    BY <2>4 DEF transportVars, vars, Told
  <2> QED
    BY <2>1, <2>2, <2>3, <2>4
<1> QED
  BY <1>1, <1>2, PTL DEF TransportSpec

\* Receivers are always told the address that packets are sent to, however
\* often and when the settings change, provided removeStream() does not throw.
THEOREM DefinitionIsRight == ~RemoveStreamMayFail /\ TransportSpec => []ToldWhereSent
<1>1. SentWhereConfigured /\ Told => ToldWhereSent
  BY DEF SentWhereConfigured, Told, ToldWhereSent
<1> QED
  BY <1>1, AddressIsRight, ToldInvariant, PTL
=============================================================================
