----------------------------- MODULE SinkProofs -----------------------------
(***************************************************************************)
(* Proofs about SinkVITA49 that hold for every number of streams, network  *)
(* settings, threads and packets.                                          *)
(***************************************************************************)
EXTENDS SinkProperties, TLAPS

\* The packet under work is a real one where singleService() reads it, and the
\* context packet a context thread is about to push has been filled in.
WorkInHand ==
  /\ svc \in {"setup", "merge", "context", "push"} => cur \in Transfers
  /\ \A c \in Threads : ctx[c] = "push" => built[c] \in VRTPackets

\* No thread pointer is set where a new transmitter is about to be started.
NothingToLose ==
  svc \in {"clear", "open"} => transmitThread = NoThread /\ contextThread = NoThread

\* The inductive invariant of thread ownership.
Ownership ==
  /\ TypeOK
  /\ WorkInHand
  /\ NothingToLose
  /\ ThreadsOwned
  /\ FrontFindsPacket
  /\ SingleOwner

\* The settings curr_attach takes over on the way to a new transmitter.
LaunchedSettings ==
  svc \in {"joinLaunch", "open"} =>
    /\ transmitThread = NoThread
    /\ currAttach # settings => listener \/ shouldUpdate

\* stop() leaves nothing behind, step by step.
StopProgress ==
  /\ ctl \in {"tear", "join", "init"} => ~svcObj
  /\ svc # "off" => svcObj
  /\ ctl \in {"join", "init"} => streamMap = NoStream
  /\ ctl = "init" => transmitThread = NoThread /\ contextThread = NoThread /\ ~attach
  /\ ctl \in {"idle", "wait"} /\ ~svcObj =>
       /\ transmitThread = NoThread /\ contextThread = NoThread
       /\ streamMap = NoStream /\ ~attach /\ waitingForSRI

USE DEF Goto, otherVars, aroundVars, linkVars, streamVars, svcVars, runVars,
        propVars, attachVars, openVars, threadVars, txVars, ctxVars, sriVars,
        queueVars, boundVars, ServiceGone, CreatePayload, RequestUpdate

-----------------------------------------------------------------------------
(* Types                                                                   *)

\* A context packet is made of the attached stream and the SRI in use.
LEMMA ContextPacketType == TypeOK => ContextPacket \in VRTPackets
  BY DEF TypeOK, ContextPacket, VRTPackets

\* What the service thread accepts, and what is left of it after a VRT packet
\* has been cut off, is a transfer of the input port.
LEMMA AcceptedTransfer == AcceptPacket => cur' \in Transfers
<1> SUFFICES ASSUME AcceptPacket PROVE cur' \in Transfers
  OBVIOUS
<1>1. PICK p \in Incoming : cur' = p
  BY DEF AcceptPacket
<1> QED
  BY <1>1, BoundsAssumption DEF Incoming, Transfers

LEMMA RemainingTransfer == WorkInHand /\ PushData => cur' \in Transfers
<1> SUFFICES ASSUME WorkInHand, PushData PROVE cur' \in Transfers
  OBVIOUS
<1>1. cur \in Transfers
  BY DEF PushData, WorkInHand
<1>2. cur.left - 1 \in Nat
  BY <1>1 DEF PushData, Transfers
<1> QED
  BY <1>1, <1>2 DEF PushData, Transfers

LEMMA InitTypeOK == Init => TypeOK
<1> SUFFICES ASSUME Init PROVE TypeOK
  OBVIOUS
<1>1. /\ svcObj \in BOOLEAN /\ svcRun \in BOOLEAN /\ createMem \in BOOLEAN
      /\ listener \in BOOLEAN /\ shouldUpdate \in BOOLEAN
      /\ connected \in BOOLEAN /\ force \in BOOLEAN /\ attach \in BOOLEAN
      /\ udpOpen \in BOOLEAN /\ tcpOpen \in BOOLEAN /\ runThread \in BOOLEAN
      /\ waitingForSRI \in BOOLEAN /\ payloadReady \in BOOLEAN
  BY Zenon DEF Init
<1>2. QED
  BY <1>1, BoundsAssumption
  DEF Init, TypeOK, ServiceLabels, NoTransfer, SRIs, DefaultSRI

LEMMA TypeStep == TypeOK /\ WorkInHand /\ [Next]_vars => TypeOK'
<1> SUFFICES ASSUME TypeOK, WorkInHand, [Next]_vars PROVE TypeOK'
  OBVIOUS
<1> USE BoundsAssumption DEF TypeOK
<1>1. CASE ServiceExit
  BY <1>1 DEF ServiceExit, ServiceLabels, Joining
<1>2. CASE MemoryManagement
  <2>1. createMem' \in BOOLEAN
    BY <1>2, Zenon DEF MemoryManagement
  <2>2. runThread' \in BOOLEAN
    BY <1>2 DEF MemoryManagement, SignalThreads
  <2> QED
    BY <1>2, <2>1, <2>2 DEF MemoryManagement, ServiceLabels, Joining
<1>3. CASE BeginPass
  BY <1>3 DEF BeginPass, ServiceLabels, Joining
<1>4. CASE HonourUpdate
  <2>1. runThread' \in BOOLEAN
    BY <1>4 DEF HonourUpdate, SignalThreads
  <2> QED
    BY <1>4, <2>1 DEF HonourUpdate, ServiceLabels, Joining
<1>5. CASE NoUpdate
  BY <1>5 DEF NoUpdate, ServiceLabels, Joining
<1>6. CASE ClearUpdate
  <2>1. shouldUpdate' \in BOOLEAN
    BY <1>6, Zenon DEF ClearUpdate
  <2> QED
    BY <1>6, <2>1 DEF ClearUpdate, ServiceLabels, Joining
<1>7. CASE Launch
  <2>1. runThread' \in BOOLEAN
    BY <1>7 DEF Launch, SignalThreads
  <2> QED
    BY <1>7, <2>1 DEF Launch, ServiceLabels, Joining
<1>8. CASE NoLaunch
  BY <1>8 DEF NoLaunch, ServiceLabels, Joining
<1>9. CASE OpenFails
  BY <1>9 DEF OpenFails, ServiceLabels, Joining
<1>10. CASE Open
  BY <1>10 DEF Open, ServiceLabels, Joining
<1>11. CASE ServiceJoined
  <2>1. attach' \in BOOLEAN
    BY <1>11, Zenon DEF ServiceJoined, ForgetThreads
  <2> QED
    BY <1>11, <2>1 DEF ServiceJoined, ForgetThreads, Joined, Joining,
       ServiceLabels
<1>12. CASE NoInput
  BY <1>12 DEF NoInput, ServiceLabels, Joining
<1>13. CASE InterruptStream
  BY <1>13 DEF InterruptStream, GetPacket, Incoming, Transfers, ServiceLabels,
     Joining, Versions
<1>14. CASE DropPacket
  BY <1>14 DEF DropPacket, GetPacket, Incoming, Transfers, ServiceLabels,
     Joining, Versions
<1>15. CASE AcceptPacket
  <2>1. PICK p \in Incoming : GetPacket(p)
    BY <1>15 DEF AcceptPacket
  <2>2. cur' \in Transfers
    BY <1>15, AcceptedTransfer
  <2>3. inputs' \in 0 .. MaxInputs /\ lastSRI' \in [Streams -> 0 .. MaxVersion]
    BY <2>1 DEF GetPacket, Incoming, Versions
  <2> QED
    BY <1>15, <2>2, <2>3 DEF AcceptPacket, ServiceLabels
<1>16. CASE SetupOutputStream
  BY <1>16 DEF SetupOutputStream, ServiceLabels, Joining, WorkInHand,
     Transfers
<1>17. CASE SkipMerge
  BY <1>17 DEF SkipMerge, ServiceLabels, Joining
<1>18. CASE MergeSameSRI
  <2>1. waitingForSRI' \in BOOLEAN
    BY <1>18, Zenon DEF MergeSameSRI
  <2> QED
    BY <1>18, <2>1 DEF MergeSameSRI, ServiceLabels, Joining
<1>19. CASE MergeNewSRI
  BY <1>19 DEF MergeNewSRI, ServiceLabels, Joining, WorkInHand, Transfers,
     SRIs
<1>20. CASE AnnounceContext
  <2>1. waitingForSRI' \in BOOLEAN
    BY <1>20, Zenon DEF AnnounceContext
  <2>2. ContextPacket \in VRTPackets
    BY ContextPacketType
  <2>3. workQueue2' \in Seq(VRTPackets) /\ sent' = sent
    <3>1. CASE runThread /\ streamMap = currSRI.stream
      <4>1. Push(ContextPacket)
        BY <1>20, <3>1, Zenon DEF AnnounceContext
      <4> QED
        BY <4>1, <2>2 DEF Push
    <3>2. CASE ~(runThread /\ streamMap = currSRI.stream)
      BY <1>20, <3>2 DEF AnnounceContext
    <3> QED
      BY <3>1, <3>2
  <2> QED
    BY <1>20, <2>1, <2>3 DEF AnnounceContext, ServiceLabels
<1>21. CASE PushData
  <2>1. cur \in Transfers
    BY <1>21 DEF PushData, WorkInHand
  <2>2. cur' \in Transfers
    BY <1>21, RemainingTransfer
  <2>3. DataPacket(cur) \in VRTPackets
    BY <2>1 DEF DataPacket, VRTPackets, Transfers, SRIs
  <2>4. workQueue2' \in Seq(VRTPackets) /\ sent' = sent
    BY <1>21, <2>3 DEF PushData, Push
  <2> QED
    BY <1>21, <2>2, <2>4 DEF PushData
<1>22. CASE DropUnready
  BY <1>22 DEF DropUnready, ServiceLabels, Joining, Transfers, NoTransfer
<1>23. CASE EndPacket
  BY <1>23 DEF EndPacket, ServiceLabels, Joining, Transfers, NoTransfer
<1>24. CASE ServiceTearDown
  <2>1. runThread' \in BOOLEAN
    BY <1>24 DEF ServiceTearDown, RemoveStream, SignalThreads
  <2> QED
    BY <1>24, <2>1 DEF ServiceTearDown, RemoveStream, ServiceLabels, Joining
<1>25. CASE ServiceTearDownFails
  BY <1>25 DEF ServiceTearDownFails, ServiceLabels, Joining
<1>26. CASE ServiceInitializeValues
  <2>1. payloadReady' \in BOOLEAN
    BY <1>26, Zenon DEF ServiceInitializeValues, InitializeValues
  <2> QED
    BY <1>26, <2>1 DEF ServiceInitializeValues, InitializeValues,
       ServiceLabels, Joining
<1>27. CASE Start
  BY <1>27 DEF Start, ServiceLabels, Joining
<1>28. CASE Stop
  <2>1. svcRun' \in BOOLEAN
    BY <1>28, Zenon DEF Stop
  <2> QED
    BY <1>28, <2>1 DEF Stop
<1>29. CASE StopTimeout
  BY <1>29 DEF StopTimeout
<1>30. CASE StopJoined
  <2>1. svcObj' \in BOOLEAN /\ udpOpen' \in BOOLEAN /\ tcpOpen' \in BOOLEAN
    BY <1>30, Zenon DEF StopJoined
  <2> QED
    BY <1>30, <2>1 DEF StopJoined
<1>31. CASE ControlTearDown
  <2>1. runThread' \in BOOLEAN
    BY <1>31 DEF ControlTearDown, RemoveStream, SignalThreads
  <2> QED
    BY <1>31, <2>1 DEF ControlTearDown, RemoveStream, ServiceLabels, Joining
<1>32. CASE ControlTearDownFails
  BY <1>32 DEF ControlTearDownFails
<1>33. CASE ControlJoined
  <2>1. attach' \in BOOLEAN
    BY <1>33, Zenon DEF ControlJoined, ForgetThreads
  <2> QED
    BY <1>33, <2>1 DEF ControlJoined, ForgetThreads, Joined, Joining
<1>34. CASE ControlInitializeValues
  <2>1. payloadReady' \in BOOLEAN
    BY <1>34, Zenon DEF ControlInitializeValues, InitializeValues
  <2> QED
    BY <1>34, <2>1 DEF ControlInitializeValues, InitializeValues
<1>35. CASE NetworkSettingsChanged
  <2>1. listener' \in BOOLEAN
    BY <1>35, Zenon DEF NetworkSettingsChanged
  <2> QED
    BY <1>35, <2>1 DEF NetworkSettingsChanged
<1>36. CASE SetNetworkSettings
  BY <1>36 DEF SetNetworkSettings
<1>37. CASE ChangeConnection
  BY <1>37 DEF ChangeConnection
<1>38. CASE ChangeForce
  BY <1>38 DEF ChangeForce
<1>39. ASSUME NEW t \in Threads, BeginTransmitter(t) PROVE TypeOK'
  BY <1>39 DEF BeginTransmitter
<1>40. ASSUME NEW t \in Threads, ExitTransmitter(t) PROVE TypeOK'
  BY <1>40 DEF ExitTransmitter
<1>41. ASSUME NEW t \in Threads, SeePacket(t) PROVE TypeOK'
  BY <1>41 DEF SeePacket
<1>42. ASSUME NEW t \in Threads, Transmit(t) PROVE TypeOK'
  <2>1. Head(workQueue2) \in VRTPackets /\ workQueue2' \in Seq(VRTPackets)
    BY <1>42 DEF Transmit
  <2>2. Sockets(t) \subseteq {"multicast", "udp", "tcp"}
    BY DEF Sockets
  <2>3. sent' \in Seq([packet : VRTPackets, sockets : SUBSET {"multicast", "udp", "tcp"}])
    BY <1>42, <2>1, <2>2 DEF Transmit
  <2> QED
    BY <1>42, <2>1, <2>3 DEF Transmit
<1>43. ASSUME NEW t \in Threads, ExitTimer(t) PROVE TypeOK'
  BY <1>43 DEF ExitTimer
<1>44. ASSUME NEW t \in Threads, CheckStream(t) PROVE TypeOK'
  BY <1>44 DEF CheckStream
<1>45. ASSUME NEW t \in Threads, FillContext(t) PROVE TypeOK'
  BY <1>45 DEF FillContext, ContextPacket, VRTPackets
<1>46. ASSUME NEW t \in Threads, PushContext(t) PROVE TypeOK'
  BY <1>46 DEF PushContext, Push, NoPacket, VRTPackets, WorkInHand
<1>47. ASSUME NEW t \in Threads, AcceptClient(t) PROVE TypeOK'
  BY <1>47 DEF AcceptClient
<1>48. CASE UNCHANGED vars
  BY <1>48 DEF vars
<1> QED
  BY <1>1, <1>2, <1>3, <1>4, <1>5, <1>6, <1>7, <1>8, <1>9, <1>10, <1>11,
     <1>12, <1>13, <1>14, <1>15, <1>16, <1>17, <1>18, <1>19, <1>20, <1>21,
     <1>22, <1>23, <1>24, <1>25, <1>26, <1>27, <1>28, <1>29, <1>30, <1>31,
     <1>32, <1>33, <1>34, <1>35, <1>36, <1>37, <1>38, <1>39, <1>40, <1>41,
     <1>42, <1>43, <1>44, <1>45, <1>46, <1>47, <1>48 DEF Next, ServiceStep,
     StopStep, TransmitStep, TimerStep, Environment

-----------------------------------------------------------------------------
(* Threads: who owns them, who sees which packet, who tears down           *)

LEMMA OwnershipStep ==
  Ownership /\ [Next]_vars =>
    /\ WorkInHand' /\ NothingToLose'
    /\ ThreadsOwned' /\ FrontFindsPacket' /\ SingleOwner'
<1> DEFINE Goal == /\ WorkInHand /\ NothingToLose
                   /\ ThreadsOwned /\ FrontFindsPacket /\ SingleOwner
<1> SUFFICES ASSUME Ownership, [Next]_vars PROVE Goal'
  OBVIOUS
<1> USE ThreadsAssumption
    DEF Ownership, TypeOK, WorkInHand, NothingToLose, ThreadsOwned,
        FrontFindsPacket, SingleOwner
<1>1. CASE ServiceExit
  BY <1>1 DEF ServiceExit
<1>2. CASE MemoryManagement
  BY <1>2 DEF MemoryManagement, SignalThreads
<1>3. CASE BeginPass
  BY <1>3 DEF BeginPass
<1>4. CASE HonourUpdate
  BY <1>4 DEF HonourUpdate, SignalThreads
<1>5. CASE NoUpdate
  BY <1>5 DEF NoUpdate
<1>6. CASE ClearUpdate
  BY <1>6 DEF ClearUpdate
<1>7. CASE Launch
  BY <1>7 DEF Launch, SignalThreads
<1>8. CASE NoLaunch
  BY <1>8 DEF NoLaunch
<1>9. CASE OpenFails
  BY <1>9 DEF OpenFails
<1>10. CASE Open
  BY <1>10 DEF Open
<1>11. CASE ServiceJoined
  BY <1>11 DEF ServiceJoined, ForgetThreads, ThreadsJoined, Joined, Joining
<1>12. CASE NoInput
  BY <1>12 DEF NoInput
<1>13. CASE InterruptStream
  BY <1>13 DEF InterruptStream
<1>14. CASE DropPacket
  BY <1>14 DEF DropPacket
<1>15. CASE AcceptPacket
  BY <1>15, AcceptedTransfer DEF AcceptPacket
<1>16. CASE SetupOutputStream
  BY <1>16 DEF SetupOutputStream
<1>17. CASE SkipMerge
  BY <1>17 DEF SkipMerge
<1>18. CASE MergeSameSRI
  BY <1>18 DEF MergeSameSRI
<1>19. CASE MergeNewSRI
  BY <1>19 DEF MergeNewSRI
<1>20. CASE AnnounceContext
  BY <1>20 DEF AnnounceContext, Push
<1>21. CASE PushData
  <2>1. workQueue2' # <<>>
    BY <1>21 DEF PushData, Push
  <2> QED
    BY <1>21, <2>1, RemainingTransfer DEF PushData
<1>22. CASE DropUnready
  BY <1>22 DEF DropUnready, NoTransfer
<1>23. CASE EndPacket
  BY <1>23 DEF EndPacket, NoTransfer
<1>24. CASE ServiceTearDown
  BY <1>24 DEF ServiceTearDown, RemoveStream
<1>25. CASE ServiceTearDownFails
  BY <1>25 DEF ServiceTearDownFails
<1>26. CASE ServiceInitializeValues
  BY <1>26 DEF ServiceInitializeValues
<1>27. CASE Start
  BY <1>27 DEF Start
<1>28. CASE Stop
  BY <1>28 DEF Stop
<1>29. CASE StopTimeout
  BY <1>29 DEF StopTimeout
<1>30. CASE StopJoined
  BY <1>30 DEF StopJoined
<1>31. CASE ControlTearDown
  BY <1>31 DEF ControlTearDown, RemoveStream
<1>32. CASE ControlTearDownFails
  BY <1>32 DEF ControlTearDownFails
<1>33. CASE ControlJoined
  BY <1>33 DEF ControlJoined, ForgetThreads, ThreadsJoined
<1>34. CASE ControlInitializeValues
  BY <1>34 DEF ControlInitializeValues
<1>35. CASE NetworkSettingsChanged
  BY <1>35 DEF NetworkSettingsChanged
<1>36. CASE SetNetworkSettings
  BY <1>36 DEF SetNetworkSettings
<1>37. CASE ChangeConnection
  BY <1>37 DEF ChangeConnection
<1>38. CASE ChangeForce
  BY <1>38 DEF ChangeForce
<1>39. ASSUME NEW t \in Threads, BeginTransmitter(t) PROVE Goal'
  BY <1>39 DEF BeginTransmitter
<1>40. ASSUME NEW t \in Threads, ExitTransmitter(t) PROVE Goal'
  BY <1>40 DEF ExitTransmitter
<1>41. ASSUME NEW t \in Threads, SeePacket(t) PROVE Goal'
  BY <1>41 DEF SeePacket
<1>42. ASSUME NEW t \in Threads, Transmit(t) PROVE Goal'
  BY <1>42 DEF Transmit
<1>43. ASSUME NEW t \in Threads, ExitTimer(t) PROVE Goal'
  BY <1>43 DEF ExitTimer
<1>44. ASSUME NEW t \in Threads, CheckStream(t) PROVE Goal'
  BY <1>44 DEF CheckStream
<1>45. ASSUME NEW t \in Threads, FillContext(t) PROVE Goal'
  BY <1>45, ContextPacketType DEF FillContext
<1>46. ASSUME NEW t \in Threads, PushContext(t) PROVE Goal'
  <2>1. workQueue2' # <<>>
    BY <1>46 DEF PushContext, Push
  <2> QED
    BY <1>46, <2>1 DEF PushContext
<1>47. ASSUME NEW t \in Threads, AcceptClient(t) PROVE Goal'
  BY <1>47 DEF AcceptClient
<1>48. CASE UNCHANGED vars
  BY <1>48 DEF vars
<1> QED
  BY <1>1, <1>2, <1>3, <1>4, <1>5, <1>6, <1>7, <1>8, <1>9, <1>10, <1>11,
     <1>12, <1>13, <1>14, <1>15, <1>16, <1>17, <1>18, <1>19, <1>20, <1>21,
     <1>22, <1>23, <1>24, <1>25, <1>26, <1>27, <1>28, <1>29, <1>30, <1>31,
     <1>32, <1>33, <1>34, <1>35, <1>36, <1>37, <1>38, <1>39, <1>40, <1>41,
     <1>42, <1>43, <1>44, <1>45, <1>46, <1>47, <1>48 DEF Next, ServiceStep,
     StopStep, TransmitStep, TimerStep, Environment

LEMMA OwnershipInvariant == Spec => []Ownership
<1>1. Init => Ownership
  BY InitTypeOK DEF Init, Ownership, WorkInHand, NothingToLose, ThreadsOwned,
     FrontFindsPacket, SingleOwner
<1>2. Ownership /\ [Next]_vars => Ownership'
  BY TypeStep, OwnershipStep DEF Ownership
<1> QED
  BY <1>1, <1>2, PTL DEF Spec

\* Every variable keeps its type, whatever the threads do.
THEOREM TypeCorrect == Spec => []TypeOK
<1>1. Ownership => TypeOK
  BY DEF Ownership
<1> QED
  BY <1>1, OwnershipInvariant, PTL

\* destroy_tx_thread() leaves no thread behind: there is never a transmitter or
\* context thread besides the one its pointer names.
THEOREM NoOrphanedThread == Spec => []ThreadsOwned
<1>1. Ownership => ThreadsOwned
  BY DEF Ownership
<1> QED
  BY <1>1, OwnershipInvariant, PTL

\* The transmitter's unlocked test of the queue is good: front() and pop() find
\* a packet.
THEOREM FrontIsSafe == Spec => []FrontFindsPacket
<1>1. Ownership => FrontFindsPacket
  BY DEF Ownership
<1> QED
  BY <1>1, OwnershipInvariant, PTL

\* stop() tears down only once the service thread has ended.
THEOREM TearDownIsExclusive == Spec => []SingleOwner
<1>1. Ownership => SingleOwner
  BY DEF Ownership
<1> QED
  BY <1>1, OwnershipInvariant, PTL

-----------------------------------------------------------------------------
(* Network settings                                                        *)

LEMMA LaunchedSettingsStep ==
  Ownership /\ LaunchedSettings /\ StaleSettingsFlagged /\ [Next]_vars =>
    LaunchedSettings' /\ StaleSettingsFlagged'
<1> DEFINE Goal == LaunchedSettings /\ StaleSettingsFlagged
<1> SUFFICES ASSUME Ownership, Goal, [Next]_vars PROVE Goal'
  OBVIOUS
<1> USE DEF Ownership, TypeOK, NothingToLose, LaunchedSettings,
            StaleSettingsFlagged
<1>1. CASE ServiceExit
  BY <1>1 DEF ServiceExit
<1>2. CASE MemoryManagement
  BY <1>2 DEF MemoryManagement, SignalThreads
<1>3. CASE BeginPass
  BY <1>3 DEF BeginPass
<1>4. CASE HonourUpdate
  BY <1>4 DEF HonourUpdate, SignalThreads
<1>5. CASE NoUpdate
  BY <1>5 DEF NoUpdate
<1>6. CASE ClearUpdate
  BY <1>6 DEF ClearUpdate
<1>7. CASE Launch
  BY <1>7 DEF Launch, SignalThreads
<1>8. CASE NoLaunch
  BY <1>8 DEF NoLaunch
<1>9. CASE OpenFails
  BY <1>9 DEF OpenFails
<1>10. CASE Open
  BY <1>10 DEF Open
<1>11. CASE ServiceJoined
  BY <1>11 DEF ServiceJoined, ForgetThreads, Joined, Joining
<1>12. CASE NoInput
  BY <1>12 DEF NoInput
<1>13. CASE InterruptStream
  BY <1>13 DEF InterruptStream
<1>14. CASE DropPacket
  BY <1>14 DEF DropPacket
<1>15. CASE AcceptPacket
  BY <1>15 DEF AcceptPacket
<1>16. CASE SetupOutputStream
  BY <1>16 DEF SetupOutputStream
<1>17. CASE SkipMerge
  BY <1>17 DEF SkipMerge
<1>18. CASE MergeSameSRI
  BY <1>18 DEF MergeSameSRI
<1>19. CASE MergeNewSRI
  BY <1>19 DEF MergeNewSRI
<1>20. CASE AnnounceContext
  BY <1>20 DEF AnnounceContext
<1>21. CASE PushData
  BY <1>21 DEF PushData
<1>22. CASE DropUnready
  BY <1>22 DEF DropUnready
<1>23. CASE EndPacket
  BY <1>23 DEF EndPacket
<1>24. CASE ServiceTearDown
  BY <1>24 DEF ServiceTearDown, RemoveStream
<1>25. CASE ServiceTearDownFails
  BY <1>25 DEF ServiceTearDownFails
<1>26. CASE ServiceInitializeValues
  BY <1>26 DEF ServiceInitializeValues
<1>27. CASE Start
  BY <1>27 DEF Start
<1>28. CASE Stop
  BY <1>28 DEF Stop
<1>29. CASE StopTimeout
  BY <1>29 DEF StopTimeout
<1>30. CASE StopJoined
  BY <1>30 DEF StopJoined
<1>31. CASE ControlTearDown
  BY <1>31 DEF ControlTearDown, RemoveStream
<1>32. CASE ControlTearDownFails
  BY <1>32 DEF ControlTearDownFails
<1>33. CASE ControlJoined
  BY <1>33 DEF ControlJoined, ForgetThreads
<1>34. CASE ControlInitializeValues
  BY <1>34 DEF ControlInitializeValues
<1>35. CASE NetworkSettingsChanged
  BY <1>35 DEF NetworkSettingsChanged
<1>36. CASE SetNetworkSettings
  BY <1>36 DEF SetNetworkSettings
<1>37. CASE ChangeConnection
  BY <1>37 DEF ChangeConnection
<1>38. CASE ChangeForce
  BY <1>38 DEF ChangeForce
<1>39. ASSUME NEW t \in Threads, BeginTransmitter(t) PROVE Goal'
  BY <1>39 DEF BeginTransmitter
<1>40. ASSUME NEW t \in Threads, ExitTransmitter(t) PROVE Goal'
  BY <1>40 DEF ExitTransmitter
<1>41. ASSUME NEW t \in Threads, SeePacket(t) PROVE Goal'
  BY <1>41 DEF SeePacket
<1>42. ASSUME NEW t \in Threads, Transmit(t) PROVE Goal'
  BY <1>42 DEF Transmit
<1>43. ASSUME NEW t \in Threads, ExitTimer(t) PROVE Goal'
  BY <1>43 DEF ExitTimer
<1>44. ASSUME NEW t \in Threads, CheckStream(t) PROVE Goal'
  BY <1>44 DEF CheckStream
<1>45. ASSUME NEW t \in Threads, FillContext(t) PROVE Goal'
  BY <1>45 DEF FillContext
<1>46. ASSUME NEW t \in Threads, PushContext(t) PROVE Goal'
  BY <1>46 DEF PushContext
<1>47. ASSUME NEW t \in Threads, AcceptClient(t) PROVE Goal'
  BY <1>47 DEF AcceptClient
<1>48. CASE UNCHANGED vars
  BY <1>48 DEF vars
<1> QED
  BY <1>1, <1>2, <1>3, <1>4, <1>5, <1>6, <1>7, <1>8, <1>9, <1>10, <1>11,
     <1>12, <1>13, <1>14, <1>15, <1>16, <1>17, <1>18, <1>19, <1>20, <1>21,
     <1>22, <1>23, <1>24, <1>25, <1>26, <1>27, <1>28, <1>29, <1>30, <1>31,
     <1>32, <1>33, <1>34, <1>35, <1>36, <1>37, <1>38, <1>39, <1>40, <1>41,
     <1>42, <1>43, <1>44, <1>45, <1>46, <1>47, <1>48 DEF Next, ServiceStep,
     StopStep, TransmitStep, TimerStep, Environment

\* A transmitter that runs on outdated settings has an update on the way.
THEOREM NoUpdateLost == Spec => []StaleSettingsFlagged
<1> DEFINE Inv == Ownership /\ LaunchedSettings /\ StaleSettingsFlagged
<1>1. Init => LaunchedSettings /\ StaleSettingsFlagged
  BY DEF Init, LaunchedSettings, StaleSettingsFlagged
<1>2. Inv /\ [Next]_vars => (LaunchedSettings /\ StaleSettingsFlagged)'
  BY LaunchedSettingsStep
<1> QED
  BY <1>1, <1>2, OwnershipInvariant, PTL DEF Spec

-----------------------------------------------------------------------------
(* stop()                                                                  *)

LEMMA StopProgressStep ==
  Ownership /\ StopProgress /\ ~RemoveStreamMayFail /\ [Next]_vars => StopProgress'
<1> SUFFICES ASSUME Ownership, StopProgress, ~RemoveStreamMayFail, [Next]_vars
             PROVE StopProgress'
  OBVIOUS
<1> USE DEF Ownership, TypeOK, NothingToLose, SingleOwner, StopProgress
<1>1. CASE ServiceExit
  BY <1>1 DEF ServiceExit
<1>2. CASE MemoryManagement
  BY <1>2 DEF MemoryManagement, SignalThreads
<1>3. CASE BeginPass
  BY <1>3 DEF BeginPass
<1>4. CASE HonourUpdate
  BY <1>4 DEF HonourUpdate, SignalThreads
<1>5. CASE NoUpdate
  BY <1>5 DEF NoUpdate
<1>6. CASE ClearUpdate
  BY <1>6 DEF ClearUpdate
<1>7. CASE Launch
  BY <1>7 DEF Launch, SignalThreads
<1>8. CASE NoLaunch
  BY <1>8 DEF NoLaunch
<1>9. CASE OpenFails
  BY <1>9 DEF OpenFails
<1>10. CASE Open
  BY <1>10 DEF Open
<1>11. CASE ServiceJoined
  BY <1>11 DEF ServiceJoined, ForgetThreads, Joined, Joining
<1>12. CASE NoInput
  BY <1>12 DEF NoInput
<1>13. CASE InterruptStream
  BY <1>13 DEF InterruptStream
<1>14. CASE DropPacket
  BY <1>14 DEF DropPacket
<1>15. CASE AcceptPacket
  BY <1>15 DEF AcceptPacket
<1>16. CASE SetupOutputStream
  BY <1>16 DEF SetupOutputStream
<1>17. CASE SkipMerge
  BY <1>17 DEF SkipMerge
<1>18. CASE MergeSameSRI
  BY <1>18 DEF MergeSameSRI
<1>19. CASE MergeNewSRI
  BY <1>19 DEF MergeNewSRI
<1>20. CASE AnnounceContext
  BY <1>20 DEF AnnounceContext
<1>21. CASE PushData
  BY <1>21 DEF PushData
<1>22. CASE DropUnready
  BY <1>22 DEF DropUnready
<1>23. CASE EndPacket
  BY <1>23 DEF EndPacket
<1>24. CASE ServiceTearDown
  BY <1>24 DEF ServiceTearDown, RemoveStream
<1>25. CASE ServiceTearDownFails
  BY <1>25 DEF ServiceTearDownFails
<1>26. CASE ServiceInitializeValues
  BY <1>26 DEF ServiceInitializeValues, InitializeValues
<1>27. CASE Start
  BY <1>27 DEF Start
<1>28. CASE Stop
  BY <1>28 DEF Stop
<1>29. CASE StopTimeout
  BY <1>29 DEF StopTimeout
<1>30. CASE StopJoined
  BY <1>30 DEF StopJoined
<1>31. CASE ControlTearDown
  BY <1>31 DEF ControlTearDown, RemoveStream
<1>32. CASE ControlTearDownFails
  BY <1>32 DEF ControlTearDownFails
<1>33. CASE ControlJoined
  BY <1>33 DEF ControlJoined, ForgetThreads
<1>34. CASE ControlInitializeValues
  BY <1>34 DEF ControlInitializeValues, InitializeValues
<1>35. CASE NetworkSettingsChanged
  BY <1>35 DEF NetworkSettingsChanged
<1>36. CASE SetNetworkSettings
  BY <1>36 DEF SetNetworkSettings
<1>37. CASE ChangeConnection
  BY <1>37 DEF ChangeConnection
<1>38. CASE ChangeForce
  BY <1>38 DEF ChangeForce
<1>39. ASSUME NEW t \in Threads, BeginTransmitter(t) PROVE StopProgress'
  BY <1>39 DEF BeginTransmitter
<1>40. ASSUME NEW t \in Threads, ExitTransmitter(t) PROVE StopProgress'
  BY <1>40 DEF ExitTransmitter
<1>41. ASSUME NEW t \in Threads, SeePacket(t) PROVE StopProgress'
  BY <1>41 DEF SeePacket
<1>42. ASSUME NEW t \in Threads, Transmit(t) PROVE StopProgress'
  BY <1>42 DEF Transmit
<1>43. ASSUME NEW t \in Threads, ExitTimer(t) PROVE StopProgress'
  BY <1>43 DEF ExitTimer
<1>44. ASSUME NEW t \in Threads, CheckStream(t) PROVE StopProgress'
  BY <1>44 DEF CheckStream
<1>45. ASSUME NEW t \in Threads, FillContext(t) PROVE StopProgress'
  BY <1>45 DEF FillContext
<1>46. ASSUME NEW t \in Threads, PushContext(t) PROVE StopProgress'
  BY <1>46 DEF PushContext
<1>47. ASSUME NEW t \in Threads, AcceptClient(t) PROVE StopProgress'
  BY <1>47 DEF AcceptClient
<1>48. CASE UNCHANGED vars
  BY <1>48 DEF vars
<1> QED
  BY <1>1, <1>2, <1>3, <1>4, <1>5, <1>6, <1>7, <1>8, <1>9, <1>10, <1>11,
     <1>12, <1>13, <1>14, <1>15, <1>16, <1>17, <1>18, <1>19, <1>20, <1>21,
     <1>22, <1>23, <1>24, <1>25, <1>26, <1>27, <1>28, <1>29, <1>30, <1>31,
     <1>32, <1>33, <1>34, <1>35, <1>36, <1>37, <1>38, <1>39, <1>40, <1>41,
     <1>42, <1>43, <1>44, <1>45, <1>46, <1>47, <1>48 DEF Next, ServiceStep,
     StopStep, TransmitStep, TimerStep, Environment

\* Once stop() has returned the component is quiet, provided the output port's
\* removeStream() does not throw.
THEOREM StopIsQuiet == ~RemoveStreamMayFail /\ Spec => []QuietAfterStop
<1> SUFFICES ASSUME ~RemoveStreamMayFail PROVE Spec => []QuietAfterStop
  OBVIOUS
<1>1. Init => StopProgress
  BY DEF Init, StopProgress
<1>2. Ownership /\ StopProgress /\ [Next]_vars => StopProgress'
  BY StopProgressStep
<1>3. Ownership /\ StopProgress => QuietAfterStop
  BY ThreadsAssumption DEF Ownership, TypeOK, ThreadsOwned, StopProgress,
     QuietAfterStop
<1> QED
  BY <1>1, <1>2, <1>3, OwnershipInvariant, PTL DEF Spec
=============================================================================
