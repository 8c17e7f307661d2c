------------------------------ MODULE Transport ------------------------------
(***************************************************************************)
(* The sockets behind the flags of SinkVITA49: what launch_tx_thread(),    *)
(* TRANSMITTER and stop() (cpp/SinkVITA49.cpp) do with the socket helpers  *)
(* of unicast.cpp, multicast.cpp and unicast_tcp.cpp, and the address that *)
(* receivers are told with addStream() and updateStream(). Each action     *)
(* here is one of SinkVITA49 together with its effect on them.             *)
(***************************************************************************)
EXTENDS SinkProperties

VARIABLES
  fds,          \* the process's table of network descriptors
  uniServer,    \* uni_server.sock
  multiServer,  \* multi_server.sock
  tcpServer,    \* tcp_server.sock
  client,       \* client.sock of each TRANSMITTER thread
  streamDef     \* the settings in the _streamDef given to receivers last

socketVars    == <<fds, uniServer, multiServer, tcpServer, client>>
transportVars == <<vars, socketVars, streamDef>>

-----------------------------------------------------------------------------
NoSocket == -1
Closed   == [kind |-> "closed"]
Used     == [kind : {"udp", "multicast", "listener", "unbound", "client"},
             to : Settings]

\* A new descriptor takes the place of a closed one before the table grows.
NewFd == IF \E d \in 1 .. Len(fds) : fds[d] = Closed
         THEN CHOOSE d \in 1 .. Len(fds) : fds[d] = Closed
         ELSE Len(fds) + 1
Opened(kind, to) ==
  [d \in (1 .. Len(fds)) \union {NewFd} |->
     IF d = NewFd THEN [kind |-> kind, to |-> to] ELSE fds[d]]

\* d is an open socket of the kind, for these settings.
Is(d, kind, to) ==
  d \in 1 .. Len(fds) /\ fds[d] = [kind |-> kind, to |-> to]

\* bind() answers EADDRINUSE while a socket of the process listens there.
AddressInUse(to) == \E d \in 1 .. Len(fds) : Is(d, "listener", to)

TransportInit ==
  /\ Init
  /\ fds = <<>>
  /\ uniServer = NoSocket /\ multiServer = NoSocket /\ tcpServer = NoSocket
  /\ client = [t \in Threads |-> NoSocket]
  /\ streamDef = DefaultSettings

-----------------------------------------------------------------------------
(* launch_tx_thread()                                                      *)

\* Faulty variant: a socket that is open is taken for the one that is wanted.
OpenUdpOnce ==
  /\ currAttach \in UdpSettings
  /\ fds' = IF udpOpen THEN fds ELSE Opened("udp", currAttach)
  /\ uniServer' = IF udpOpen THEN uniServer ELSE NewFd
  /\ UNCHANGED <<multiServer, tcpServer>>

\* The socket of an earlier launch is overwritten, not closed.
OpenUdp ==
  /\ currAttach \in UdpSettings
  /\ fds' = Opened("udp", currAttach) /\ uniServer' = NewFd
  /\ UNCHANGED <<multiServer, tcpServer>>

OpenMulticast ==
  /\ currAttach \in MulticastSettings
  /\ fds' = Opened("multicast", currAttach) /\ multiServer' = NewFd
  /\ UNCHANGED <<uniServer, tcpServer>>

\* unicast_tcp_open_() prints that it could not bind, and hands the socket out.
OpenTcp ==
  /\ currAttach \in TcpSettings
  /\ \E kind \in {"listener", "unbound"} :
       /\ kind = "listener" => ~AddressInUse(currAttach)
       /\ kind = "unbound" => AddressInUse(currAttach) \/ OpenMayFail
       /\ fds' = Opened(kind, currAttach) /\ tcpServer' = NewFd
  /\ UNCHANGED <<uniServer, multiServer>>

\* Faulty variant: the number of the socket that was closed again is kept.
OpenTcpStale ==
  /\ currAttach \in TcpSettings /\ OpenMayFail
  /\ tcpServer' = NewFd
  /\ UNCHANGED <<fds, uniServer, multiServer>>

\* No interface fits the settings: the helper closes the socket again, which
\* the TCP branch does not notice.
OpenTcpNowhere ==
  /\ currAttach \in TcpSettings /\ OpenMayFail
  /\ tcpServer' = NoSocket
  /\ UNCHANGED <<fds, uniServer, multiServer>>

TransportOpen ==
  /\ Open
  /\ OpenUdp \/ OpenMulticast \/ OpenTcp \/ OpenTcpNowhere
  /\ UNCHANGED client

TransportOpenFails ==
  /\ OpenFails
  /\ uniServer' = IF currAttach \in UdpSettings THEN NoSocket ELSE uniServer
  /\ multiServer' = IF currAttach \in MulticastSettings THEN NoSocket ELSE multiServer
  /\ UNCHANGED <<fds, tcpServer, client>>

-----------------------------------------------------------------------------
(* stop() and TRANSMITTER                                                  *)

\* Only the UDP socket is ever closed.
TransportStopJoined ==
  /\ StopJoined
  /\ fds' = IF udpOpen /\ uniServer \in 1 .. Len(fds)
            THEN [fds EXCEPT ![uniServer] = Closed] ELSE fds
  /\ UNCHANGED <<uniServer, multiServer, tcpServer, client>>

\* accept() on what unicast_tcp_server() handed out.
TransportAccept(t) ==
  /\ AcceptClient(t)
  /\ \/ /\ peer'[t] = "client"
        /\ tcpServer \in 1 .. Len(fds) /\ fds[tcpServer].kind = "listener"
        /\ fds' = Opened("client", fds[tcpServer].to)
        /\ client' = [client EXCEPT ![t] = NewFd]
     \/ /\ peer'[t] = "lost"
        /\ client' = [client EXCEPT ![t] = NoSocket]
        /\ UNCHANGED fds
  /\ UNCHANGED <<uniServer, multiServer, tcpServer>>

\* client goes out of scope with the thread, its socket stays open.
TransportExit(t) ==
  /\ ExitTransmitter(t)
  /\ client' = [client EXCEPT ![t] = NoSocket]
  /\ UNCHANGED <<fds, uniServer, multiServer, tcpServer>>

-----------------------------------------------------------------------------
(* The stream definition                                                   *)

\* Faulty variant: receivers are not told of new settings.
LaunchUntold == Launch /\ UNCHANGED streamDef

\* updateCurrAttach() and updateStreamDef(): the port passes the definition on
\* while a stream is attached.
LaunchTold ==
  /\ Launch
  /\ streamDef' = IF streamMap = NoStream THEN streamDef ELSE currAttach'

\* initstreamDef() and addStream()
AddStream == SetupOutputStream /\ streamDef' = currAttach

-----------------------------------------------------------------------------
\* The steps of SinkVITA49 that open, close and tell nothing.
Elsewhere ==
  \/ ServiceExit \/ MemoryManagement \/ BeginPass
  \/ HonourUpdate \/ NoUpdate \/ ClearUpdate
  \/ NoLaunch \/ ServiceJoined
  \/ NoInput \/ InterruptStream \/ DropPacket \/ AcceptPacket
  \/ SkipMerge \/ MergeSameSRI \/ MergeNewSRI
  \/ AnnounceContext \/ PushData \/ DropUnready \/ EndPacket
  \/ ServiceTearDown \/ ServiceTearDownFails \/ ServiceInitializeValues
  \/ Start \/ Stop \/ StopTimeout
  \/ ControlTearDown \/ ControlTearDownFails \/ ControlJoined
  \/ ControlInitializeValues
  \/ \E t \in Threads : \/ BeginTransmitter(t) \/ SeePacket(t) \/ Transmit(t)
                        \/ TimerStep(t)
  \/ NetworkSettingsChanged \/ SetNetworkSettings
  \/ ChangeConnection \/ ChangeForce

TransportNext ==
  \/ (TransportOpen \/ TransportOpenFails \/ TransportStopJoined) /\ UNCHANGED streamDef
  \/ \E t \in Threads : (TransportAccept(t) \/ TransportExit(t)) /\ UNCHANGED streamDef
  \/ (LaunchTold \/ AddStream) /\ UNCHANGED socketVars
  \/ Elsewhere /\ UNCHANGED <<socketVars, streamDef>>

TransportSpec == TransportInit /\ [][TransportNext]_transportVars

-----------------------------------------------------------------------------
(* Properties                                                              *)

\* The descriptors and the table have their types.
SocketsTypeOK ==
  /\ fds \in Seq(Used \union {Closed})
  /\ \A d \in {uniServer, multiServer, tcpServer} : d \in 1 .. Len(fds) \/ d = NoSocket
  /\ DOMAIN client = Threads
  /\ \A t \in Threads : client[t] \in 1 .. Len(fds) \/ client[t] = NoSocket

\* A flag is never up for another socket than the one it speaks of: stop(),
\* which goes by unicast_udp_open, closes a UDP socket and no descriptor whose
\* number has been given away again, and a transmitter that goes by
\* unicast_tcp_open sends on a client it has accepted, never on the
\* uninitialised local (cpp/SinkVITA49.cpp:250-258, 515-517, 554-557).
FlagsTellSockets ==
  /\ udpOpen /\ uniServer # NoSocket => fds[uniServer].kind = "udp"
  /\ \A t \in Threads :
       tx[t] \in {"loop", "front"} /\ peer[t] # "multicast" /\ tcpOpen
         => IF client[t] = NoSocket THEN peer[t] = "lost"
            ELSE fds[client[t]].kind = "client"

\* What transmitter t sends with the protocol of the settings goes to their address.
SendsTo(t, to) ==
  /\ to \in UdpSettings => udpOpen /\ Is(uniServer, "udp", to)
  /\ to \in MulticastSettings => peer[t] = "multicast" /\ Is(multiServer, "multicast", to)
  /\ to \in TcpSettings => tcpOpen /\ (peer[t] = "client" => Is(client[t], "client", to))

\* Whatever transports and addresses were used before, and whatever they left
\* open: a running transmitter's socket of the configured protocol is one for
\* the configured address, except while stop() takes the transmitter down.
SentWhereConfigured ==
  \A t \in Threads :
    tx[t] \in {"loop", "front"} /\ ctl \notin {"tear", "join"} => SendsTo(t, currAttach)

\* Receivers of a stream have been told where its packets go: whenever the
\* transmitter is rebuilt for other settings, in the middle of a stream, between
\* two streams or after a launch that failed, what they were told last is the
\* address of the socket in use.
ToldWhereSent ==
  \A t \in Threads :
    tx[t] \in {"loop", "front"} /\ ctl \notin {"tear", "join"} /\ streamMap # NoStream
      => SendsTo(t, streamDef)
=============================================================================
