---------------------------- MODULE StreamProofs ----------------------------
(***************************************************************************)
(* Proofs about the streams SinkVITA49 attaches: the SRI that data is cut  *)
(* with, that their packets form the sessions of StreamSession, and which  *)
(* of them may be left without a packet size.                              *)
(***************************************************************************)
EXTENDS SinkProofs, SequenceTheorems

\* The SRI of the transfer under work.
CurSRI == [stream |-> cur.stream, version |-> cur.version]

\* What the service thread knows of the transfer under work.
TransferKnown ==
  /\ svc = "setup" => streamMap = NoStream
  /\ svc \in {"merge", "context", "push"} => streamMap = cur.stream
  /\ svc \in {"setup", "merge", "context", "push"} =>
       lastSRI[cur.stream] = IF cur.eos THEN 0 ELSE cur.version
  /\ svc = "merge" /\ attach /\ ~waitingForSRI /\ ~cur.sriChanged => currSRI = CurSRI
  /\ svc = "context" => currSRI = CurSRI

\* Without an attached stream the next one is announced; with one, the SRI that
\* was merged last is the one the port delivered last, unless the port has
\* forgotten the stream and will flag its next packet.
StreamKnown ==
  /\ streamMap = NoStream /\ svc \notin {"joinTear", "init"}
     /\ ctl \notin {"join", "init"} => waitingForSRI
  /\ attach /\ ~waitingForSRI /\ streamMap # NoStream
     /\ svc \notin {"merge", "context", "push", "tear"}
     /\ lastSRI[streamMap] # 0 =>
       currSRI = [stream |-> streamMap, version |-> lastSRI[streamMap]]

\* The inductive invariant behind AttachedSRICurrent.
SRIKept == ~force /\ TransferKnown /\ StreamKnown /\ AttachedSRICurrent

USE DEF Goto, otherVars, aroundVars, linkVars, streamVars, svcVars, runVars,
        propVars, attachVars, openVars, threadVars, txVars, ctxVars, sriVars,
        queueVars, boundVars, ServiceGone, CreatePayload, RequestUpdate

-----------------------------------------------------------------------------
LEMMA SRIStep ==
  Ownership /\ StopProgress /\ SRIKept /\ ~ForceAllowed /\ ~RemoveStreamMayFail
  /\ [Next]_vars => SRIKept'
<1> SUFFICES ASSUME Ownership, StopProgress, SRIKept, ~ForceAllowed,
                    ~RemoveStreamMayFail, [Next]_vars
             PROVE  SRIKept'
  OBVIOUS
<1> USE StreamsAssumption DEF Ownership, TypeOK, WorkInHand, SingleOwner, Transfers,
        SRIKept, CurSRI, TransferKnown, StreamKnown, AttachedSRICurrent
<1>1. CASE ServiceExit
  BY <1>1 DEF ServiceExit
<1>2. CASE MemoryManagement
  BY <1>2 DEF MemoryManagement, SignalThreads
<1>3. CASE BeginPass
  BY <1>3 DEF BeginPass
<1>4. CASE HonourUpdate
  BY <1>4 DEF HonourUpdate, SignalThreads
<1>5. CASE NoUpdate
  BY <1>5 DEF NoUpdate
<1>6. CASE ClearUpdate
  BY <1>6 DEF ClearUpdate
<1>7. CASE Launch
  BY <1>7 DEF Launch, SignalThreads
<1>8. CASE NoLaunch
  BY <1>8 DEF NoLaunch
<1>9. CASE OpenFails
  BY <1>9 DEF OpenFails
<1>10. CASE Open
  BY <1>10 DEF Open
<1>11. CASE ServiceJoined
  BY <1>11 DEF ServiceJoined, ForgetThreads, Joined, Joining
<1>12. CASE NoInput
  BY <1>12 DEF NoInput
<1>13. CASE InterruptStream
  BY <1>13 DEF InterruptStream, GetPacket, Incoming, Interrupted, Unwanted,
     ReadyToProcessPacket, HasActiveOutputStream
<1>14. CASE DropPacket
  BY <1>14 DEF DropPacket, GetPacket, Incoming, Unwanted,
     ReadyToProcessPacket, Interrupted, HasActiveOutputStream
<1>15. CASE AcceptPacket
  <2>1. PICK p \in Incoming : ReadyToProcessPacket(p.stream) /\ GetPacket(p) /\ cur' = p
    BY <1>15 DEF AcceptPacket
  <2>2. /\ p.stream \in Streams /\ p.version \in 1 .. MaxVersion
        /\ p.eos \in BOOLEAN /\ p.sriChanged \in BOOLEAN
    BY DEF Incoming, Versions
  <2>3. /\ lastSRI'[p.stream] = IF p.eos THEN 0 ELSE p.version
        /\ p.sriChanged = (p.version # lastSRI[p.stream])
    BY <2>1, <2>2 DEF GetPacket
  <2>4. streamMap # NoStream => streamMap = p.stream
    BY <2>1 DEF ReadyToProcessPacket, Interrupted, Unwanted, HasActiveOutputStream
  <2>5. UNCHANGED <<streamMap, currSRI, waitingForSRI, attach, ctl, force>>
        /\ svc = "port" /\ svc' = IF streamMap # NoStream THEN "merge" ELSE "setup"
    BY <1>15 DEF AcceptPacket, HasActiveOutputStream
  <2>6. TransferKnown'
    BY <2>1, <2>2, <2>3, <2>4, <2>5, BoundsAssumption
  <2>7. StreamKnown'
    BY <2>2, <2>4, <2>5
  <2> QED
    BY <2>5, <2>6, <2>7
<1>16. CASE SetupOutputStream
  BY <1>16 DEF SetupOutputStream
<1>17. CASE SkipMerge
  BY <1>17 DEF SkipMerge, MustMerge
<1>18. CASE MergeSameSRI
  BY <1>18 DEF MergeSameSRI, MustMerge, SameSRI
<1>19. CASE MergeNewSRI
  BY <1>19 DEF MergeNewSRI, MustMerge, SameSRI
<1>20. CASE AnnounceContext
  BY <1>20 DEF AnnounceContext
<1>21. CASE PushData
  BY <1>21 DEF PushData
<1>22. CASE DropUnready
  BY <1>22 DEF DropUnready
<1>23. CASE EndPacket
  BY <1>23 DEF EndPacket
<1>24. CASE ServiceTearDown
  BY <1>24 DEF ServiceTearDown, RemoveStream, SignalThreads
<1>25. CASE ServiceTearDownFails
  BY <1>25 DEF ServiceTearDownFails
<1>26. CASE ServiceInitializeValues
  BY <1>26 DEF ServiceInitializeValues, InitializeValues
<1>27. CASE Start
  BY <1>27 DEF Start, StopProgress
<1>28. CASE Stop
  BY <1>28 DEF Stop
<1>29. CASE StopTimeout
  BY <1>29 DEF StopTimeout
<1>30. CASE StopJoined
  BY <1>30 DEF StopJoined
<1>31. CASE ControlTearDown
  BY <1>31 DEF ControlTearDown, RemoveStream, SignalThreads
<1>32. CASE ControlTearDownFails
  BY <1>32 DEF ControlTearDownFails
<1>33. CASE ControlJoined
  BY <1>33 DEF ControlJoined, ForgetThreads
<1>34. CASE ControlInitializeValues
  BY <1>34 DEF ControlInitializeValues, InitializeValues
<1>35. CASE NetworkSettingsChanged
  BY <1>35 DEF NetworkSettingsChanged
<1>36. CASE SetNetworkSettings
  BY <1>36 DEF SetNetworkSettings
<1>37. CASE ChangeConnection
  BY <1>37 DEF ChangeConnection
<1>38. CASE ChangeForce
  BY <1>38 DEF ChangeForce
<1>39. ASSUME NEW t \in Threads, BeginTransmitter(t) PROVE SRIKept'
  BY <1>39 DEF BeginTransmitter
<1>40. ASSUME NEW t \in Threads, ExitTransmitter(t) PROVE SRIKept'
  BY <1>40 DEF ExitTransmitter
<1>41. ASSUME NEW t \in Threads, SeePacket(t) PROVE SRIKept'
  BY <1>41 DEF SeePacket
<1>42. ASSUME NEW t \in Threads, Transmit(t) PROVE SRIKept'
  BY <1>42 DEF Transmit
<1>43. ASSUME NEW t \in Threads, ExitTimer(t) PROVE SRIKept'
  BY <1>43 DEF ExitTimer
<1>44. ASSUME NEW t \in Threads, CheckStream(t) PROVE SRIKept'
  BY <1>44 DEF CheckStream
<1>45. ASSUME NEW t \in Threads, FillContext(t) PROVE SRIKept'
  BY <1>45 DEF FillContext
<1>46. ASSUME NEW t \in Threads, PushContext(t) PROVE SRIKept'
  BY <1>46 DEF PushContext
<1>47. ASSUME NEW t \in Threads, AcceptClient(t) PROVE SRIKept'
  BY <1>47 DEF AcceptClient
<1>48. CASE UNCHANGED vars
  BY <1>48 DEF vars
<1> QED
  BY <1>1, <1>2, <1>3, <1>4, <1>5, <1>6, <1>7, <1>8, <1>9, <1>10, <1>11,
     <1>12, <1>13, <1>14, <1>15, <1>16, <1>17, <1>18, <1>19, <1>20, <1>21,
     <1>22, <1>23, <1>24, <1>25, <1>26, <1>27, <1>28, <1>29, <1>30, <1>31,
     <1>32, <1>33, <1>34, <1>35, <1>36, <1>37, <1>38, <1>39, <1>40, <1>41,
     <1>42, <1>43, <1>44, <1>45, <1>46, <1>47, <1>48 DEF Next, ServiceStep,
     StopStep, TransmitStep, TimerStep, Environment

\* Data is cut with the SRI it came with as long as curr_attach.attach holds,
\* provided force_transmit stays off and removeStream() does not throw: when it
\* does, the SRI change that getPacket() flagged on the packet thrown away is not
\* flagged again on the next packet of the stream that stays.
THEOREM DataUnderItsSRI ==
  ~ForceAllowed /\ ~RemoveStreamMayFail /\ Spec => []AttachedSRICurrent
<1> SUFFICES ASSUME ~ForceAllowed, ~RemoveStreamMayFail
             PROVE  Spec => []AttachedSRICurrent
  OBVIOUS
<1>1. Init => SRIKept
  BY StreamsAssumption DEF Init, SRIKept, TransferKnown, StreamKnown, AttachedSRICurrent
<1>2. Ownership /\ StopProgress /\ SRIKept /\ [Next]_vars => SRIKept'
  BY SRIStep
<1>3. SRIKept => AttachedSRICurrent
  BY DEF SRIKept
<1>4. Init => StopProgress
  BY DEF Init, StopProgress
<1>5. Ownership /\ StopProgress /\ [Next]_vars => StopProgress'
  BY StopProgressStep
<1> QED
  BY <1>1, <1>2, <1>3, <1>4, <1>5, OwnershipInvariant, PTL DEF Spec

-----------------------------------------------------------------------------
(* SessionSpec                                                             *)

\* What the service thread knows of the stream between two streams and within
\* one: announcing is over before data is cut and the stream is removed.
SessionSteps ==
  /\ svc # "off" => svcObj
  /\ svc \in {"joinTear", "init"} \/ ctl \in {"join", "init"} => streamMap = NoStream
  /\ svc = "init" \/ ctl = "init" => contextThread = NoThread
  /\ streamMap = NoStream /\ svc \notin {"joinTear", "init"}
     /\ ctl \notin {"join", "init"} => waitingForSRI
  /\ svc = "setup" => streamMap = NoStream
  /\ svc \in {"merge", "context", "push"} => streamMap = cur.stream
  /\ svc = "context" => currSRI.stream = cur.stream
  /\ streamMap # NoStream /\ waitingForSRI => svc \in {"merge", "context"} /\ attach

\* currSRI is of the stream that was announced last, and so is all that a
\* context thread has in hand, which lives no longer than the session.
SessionSRI ==
  /\ ~waitingForSRI => /\ currSRI.stream \in Streams
                       /\ streamMap # NoStream => currSRI.stream = streamMap
  /\ \A c \in Threads :
       /\ ctx[c] \in {"fill", "push"} => ~waitingForSRI
       /\ ctx[c] = "push" => /\ built[c].kind = "context"
                             /\ built[c].of.stream = currSRI.stream
                             /\ built[c].id \in {currSRI.stream, streamMap}

\* The inductive invariant behind SessionSpec.
SessionKept == ~force /\ SessionSteps /\ SessionSRI

LEMMA SessionKeptStep ==
  ASSUME Ownership, SessionKept, ~ForceAllowed, [Next]_vars
  PROVE  SessionKept'
<1> USE StreamsAssumption, ThreadsAssumption
    DEF Ownership, TypeOK, WorkInHand, SingleOwner, ThreadsOwned, Transfers,
        SessionKept, SessionSteps, SessionSRI
<1>1. CASE ServiceExit
  BY <1>1 DEF ServiceExit
<1>2. CASE MemoryManagement
  BY <1>2 DEF MemoryManagement, SignalThreads
<1>3. CASE BeginPass
  BY <1>3 DEF BeginPass
<1>4. CASE HonourUpdate
  BY <1>4 DEF HonourUpdate, SignalThreads
<1>5. CASE NoUpdate
  BY <1>5 DEF NoUpdate
<1>6. CASE ClearUpdate
  BY <1>6 DEF ClearUpdate
<1>7. CASE Launch
  BY <1>7 DEF Launch, SignalThreads
<1>8. CASE NoLaunch
  BY <1>8 DEF NoLaunch
<1>9. CASE OpenFails
  BY <1>9 DEF OpenFails
<1>10. CASE Open
  BY <1>10 DEF Open
<1>11. CASE ServiceJoined
  BY <1>11 DEF ServiceJoined, ForgetThreads, Joined, Joining
<1>12. CASE NoInput
  BY <1>12 DEF NoInput
<1>13. CASE InterruptStream
  BY <1>13 DEF InterruptStream, GetPacket, Incoming, Interrupted, Unwanted,
     ReadyToProcessPacket, HasActiveOutputStream
<1>14. CASE DropPacket
  BY <1>14 DEF DropPacket, GetPacket, Incoming, Unwanted,
     ReadyToProcessPacket, Interrupted, HasActiveOutputStream
<1>15. CASE AcceptPacket
  <2>1. PICK p \in Incoming : ReadyToProcessPacket(p.stream) /\ GetPacket(p) /\ cur' = p
    BY <1>15 DEF AcceptPacket
  <2>2. streamMap # NoStream => streamMap = p.stream
    BY <2>1 DEF ReadyToProcessPacket, Interrupted, Unwanted, HasActiveOutputStream
  <2> QED
    BY <1>15, <2>1, <2>2 DEF AcceptPacket, HasActiveOutputStream
<1>16. CASE SetupOutputStream
  BY <1>16 DEF SetupOutputStream
<1>17. CASE SkipMerge
  BY <1>17 DEF SkipMerge, MustMerge
<1>18. CASE MergeSameSRI
  BY <1>18 DEF MergeSameSRI, MustMerge, SameSRI
<1>19. CASE MergeNewSRI
  BY <1>19 DEF MergeNewSRI, MustMerge, SameSRI
<1>20. CASE AnnounceContext
  BY <1>20 DEF AnnounceContext
<1>21. CASE PushData
  BY <1>21 DEF PushData
<1>22. CASE DropUnready
  BY <1>22 DEF DropUnready
<1>23. CASE EndPacket
  BY <1>23 DEF EndPacket
<1>24. CASE ServiceTearDown
  BY <1>24 DEF ServiceTearDown, RemoveStream, SignalThreads
<1>25. CASE ServiceTearDownFails
  BY <1>25 DEF ServiceTearDownFails
<1>26. CASE ServiceInitializeValues
  BY <1>26 DEF ServiceInitializeValues, InitializeValues
<1>27. CASE Start
  BY <1>27 DEF Start, StopProgress
<1>28. CASE Stop
  BY <1>28 DEF Stop
<1>29. CASE StopTimeout
  BY <1>29 DEF StopTimeout
<1>30. CASE StopJoined
  BY <1>30 DEF StopJoined
<1>31. CASE ControlTearDown
  BY <1>31 DEF ControlTearDown, RemoveStream, SignalThreads
<1>32. CASE ControlTearDownFails
  BY <1>32 DEF ControlTearDownFails
<1>33. CASE ControlJoined
  BY <1>33 DEF ControlJoined, ForgetThreads
<1>34. CASE ControlInitializeValues
  BY <1>34 DEF ControlInitializeValues, InitializeValues
<1>35. CASE NetworkSettingsChanged
  BY <1>35 DEF NetworkSettingsChanged
<1>36. CASE SetNetworkSettings
  BY <1>36 DEF SetNetworkSettings
<1>37. CASE ChangeConnection
  BY <1>37 DEF ChangeConnection
<1>38. CASE ChangeForce
  BY <1>38 DEF ChangeForce
<1>39. ASSUME NEW t \in Threads, BeginTransmitter(t) PROVE SessionKept'
  BY <1>39 DEF BeginTransmitter
<1>40. ASSUME NEW t \in Threads, ExitTransmitter(t) PROVE SessionKept'
  BY <1>40 DEF ExitTransmitter
<1>41. ASSUME NEW t \in Threads, SeePacket(t) PROVE SessionKept'
  BY <1>41 DEF SeePacket
<1>42. ASSUME NEW t \in Threads, Transmit(t) PROVE SessionKept'
  BY <1>42 DEF Transmit
<1>43. ASSUME NEW t \in Threads, ExitTimer(t) PROVE SessionKept'
  BY <1>43 DEF ExitTimer
<1>44. ASSUME NEW t \in Threads, CheckStream(t) PROVE SessionKept'
  BY <1>44 DEF CheckStream
<1>45. ASSUME NEW t \in Threads, FillContext(t) PROVE SessionKept'
  BY <1>45 DEF FillContext, ContextPacket
<1>46. ASSUME NEW t \in Threads, PushContext(t) PROVE SessionKept'
  BY <1>46 DEF PushContext
<1>47. ASSUME NEW t \in Threads, AcceptClient(t) PROVE SessionKept'
  BY <1>47 DEF AcceptClient
<1>48. CASE UNCHANGED vars
  BY <1>48 DEF vars
<1> QED
  BY <1>1, <1>2, <1>3, <1>4, <1>5, <1>6, <1>7, <1>8, <1>9, <1>10, <1>11,
     <1>12, <1>13, <1>14, <1>15, <1>16, <1>17, <1>18, <1>19, <1>20, <1>21,
     <1>22, <1>23, <1>24, <1>25, <1>26, <1>27, <1>28, <1>29, <1>30, <1>31,
     <1>32, <1>33, <1>34, <1>35, <1>36, <1>37, <1>38, <1>39, <1>40, <1>41,
     <1>42, <1>43, <1>44, <1>45, <1>46, <1>47, <1>48 DEF Next, ServiceStep,
     StopStep, TransmitStep, TimerStep, Environment


\* The packets that have been transmitted.
Past == [i \in 1 .. Len(sent) |-> sent[i].packet]

LEMMA PastType ==
  ASSUME TypeOK
  PROVE  /\ Past \in Seq(VRTPackets) /\ Len(Past) = Len(sent)
         /\ workQueue2 \in Seq(VRTPackets)
<1>1. /\ sent \in Seq([packet : VRTPackets, sockets : SUBSET {"multicast", "udp", "tcp"}])
      /\ workQueue2 \in Seq(VRTPackets)
  BY DEF TypeOK
<1>2. ASSUME NEW i \in 1 .. Len(sent) PROVE sent[i].packet \in VRTPackets
  <2>1. sent[i] \in [packet : VRTPackets, sockets : SUBSET {"multicast", "udp", "tcp"}]
    BY <1>1, ElementOfSeq
  <2> QED
    BY <2>1
<1>3. Len(sent) \in Nat
  BY <1>1
<1>4. Past \in [1 .. Len(sent) -> VRTPackets]
  BY <1>2 DEF Past
<1> QED
  BY <1>1, <1>3, <1>4

LEMMA PushedType ==
  ASSUME TypeOK
  PROVE  Pushed = Past \o workQueue2 /\ Pushed \in Seq(VRTPackets)
<1>1. Pushed = Past \o workQueue2
  BY DEF Pushed, Past
<1> QED
  BY <1>1, PastType

LEMMA PushedGrows ==
  ASSUME TypeOK, NEW p \in VRTPackets, Push(p)
  PROVE  /\ Pushed' = Append(Pushed, p)
         /\ Pushed' # <<>> /\ Pushed'[Len(Pushed')] = p
<1>1. Pushed' = Past \o Append(workQueue2, p)
  BY DEF Pushed, Past, Push
<1>2. Pushed' = Append(Pushed, p)
  BY <1>1, PastType, PushedType
<1> QED
  BY <1>2, PushedType

\* A packet that is transmitted has been pushed all the same.
LEMMA PushedStays ==
  ASSUME TypeOK, NEW t \in Threads, Transmit(t)
  PROVE  UNCHANGED Pushed
<1> DEFINE p == Head(workQueue2)
<1>1. /\ workQueue2 # <<>> /\ workQueue2' = Tail(workQueue2)
      /\ sent' = Append(sent, [packet |-> p, sockets |-> Sockets(t)])
  BY DEF Transmit
<1>2. Len(sent) \in Nat
  BY DEF TypeOK
<1>3. Past' = Append(Past, p)
  <2> DEFINE new == [packet |-> p, sockets |-> Sockets(t)]
  <2>1. sent \in Seq([packet : VRTPackets, sockets : SUBSET {"multicast", "udp", "tcp"}])
    BY DEF TypeOK
  <2>2. /\ Len(sent') = Len(sent) + 1 /\ sent'[Len(sent) + 1] = new
        /\ \A i \in 1 .. Len(sent) : sent'[i] = sent[i]
    BY <1>1, <2>1
  <2>3. /\ p \in VRTPackets /\ Append(Past, p) \in Seq(VRTPackets)
        /\ Len(Append(Past, p)) = Len(sent) + 1
        /\ Append(Past, p)[Len(sent) + 1] = p
        /\ \A i \in 1 .. Len(sent) : Append(Past, p)[i] = Past[i]
    <3>1. p \in VRTPackets
      BY <1>1, PastType
    <3> QED
      BY <3>1, PastType, AppendProperties
  <2>4. Append(Past, p) = [i \in 1 .. Len(sent) + 1 |-> Append(Past, p)[i]]
    BY <1>2, <2>3, LenProperties
  <2>5. Past' = [i \in 1 .. Len(sent) + 1 |-> sent'[i].packet]
    BY <2>2 DEF Past
  <2>6. ASSUME NEW i \in 1 .. Len(sent) + 1
        PROVE  sent'[i].packet = Append(Past, p)[i]
    <3>1. i \in 1 .. Len(sent) => Past[i] = sent[i].packet
      BY DEF Past
    <3> QED
      BY <1>2, <2>2, <2>3, <3>1
  <2> QED
    BY <2>4, <2>5, <2>6
<1>4. Append(Past, p) \o Tail(workQueue2) = Past \o workQueue2
  BY <1>1, PastType
<1>5. Pushed' = Past' \o workQueue2'
  BY DEF Pushed, Past
<1> QED
  BY <1>1, <1>3, <1>4, <1>5, PushedType

LEMMA SessionStutter ==
  ASSUME UNCHANGED <<streamMap, waitingForSRI, Pushed>>,
         streamMap # NoStream \/ UNCHANGED currSRI
  PROVE  UNCHANGED Session!vars
BY DEF Session!vars

\* A pushed context packet is one of the session, or a late one.
LEMMA SessionContext ==
  ASSUME Ownership, SessionKept, NEW c \in Threads, PushContext(c)
  PROVE  Session!Next
<1> DEFINE p == built[c]
<1>1. /\ p \in VRTPackets /\ p.kind = "context" /\ p.of.stream = currSRI.stream
      /\ p.id \in {currSRI.stream, streamMap} /\ ~waitingForSRI
      /\ streamMap # NoStream => streamMap = currSRI.stream
  BY DEF PushContext, Ownership, WorkInHand, SessionKept, SessionSRI
<1>2. /\ Pushed' = Append(Pushed, p)
      /\ Pushed' # <<>> /\ Pushed'[Len(Pushed')] = p
  BY <1>1, PushedGrows DEF PushContext, Ownership
<1>3. UNCHANGED <<streamMap, waitingForSRI, currSRI>>
  BY DEF PushContext
<1>4. Session!Emitted /\ Session!Newest = p
  BY <1>2 DEF Session!Emitted, Session!Newest
<1>5. CASE streamMap # NoStream
  <2>1. Session!OwnContext(p)
    BY <1>1, <1>5 DEF Session!OwnContext
  <2> QED
    BY <1>1, <1>3, <1>4, <1>5, <2>1 DEF Session!Next, Session!Emit
<1>6. CASE streamMap = NoStream
  <2>1. Session!OwnContext(p) \/ Session!LateContext(p)
    BY <1>1, <1>6 DEF Session!OwnContext, Session!LateContext
  <2> QED
    BY <1>1, <1>3, <1>4, <1>6, <2>1 DEF Session!Next, Session!EmitLate
<1> QED
  BY <1>5, <1>6

LEMMA SessionData ==
  ASSUME Ownership, SessionKept, PushData
  PROVE  Session!Next
<1> DEFINE p == DataPacket(cur)
<1>1. /\ streamMap = cur.stream /\ streamMap \in Streams /\ streamMap # NoStream
      /\ ~waitingForSRI /\ cur \in Transfers
  BY StreamsAssumption DEF PushData, Ownership, WorkInHand, Transfers, SessionKept, SessionSteps
<1>2. /\ p.kind = "data" /\ p.id = streamMap /\ p.of.stream = streamMap /\ p \in VRTPackets
  BY <1>1 DEF DataPacket, VRTPackets, SRIs, Versions, Transfers
<1>3. /\ Pushed' = Append(Pushed, p)
      /\ Pushed' # <<>> /\ Pushed'[Len(Pushed')] = p
  BY <1>2, PushedGrows DEF PushData, Ownership
<1>4. Session!Emitted /\ Session!Newest = p
  BY <1>3 DEF Session!Emitted, Session!Newest
<1>5. Session!OwnData(p)
  BY <1>1, <1>2 DEF Session!OwnData
<1> QED
  BY <1>1, <1>4, <1>5 DEF PushData, Session!Next, Session!Emit

LEMMA SessionAnnounce ==
  ASSUME Ownership, SessionKept, AnnounceContext
  PROVE  [Session!Next]_(Session!vars)
<1> DEFINE p == ContextPacket
<1>1. /\ streamMap = cur.stream /\ streamMap \in Streams /\ streamMap # NoStream
      /\ currSRI.stream = streamMap /\ ~waitingForSRI'
      /\ UNCHANGED <<streamMap, currSRI>>
  BY StreamsAssumption DEF AnnounceContext, Ownership, WorkInHand, Transfers, SessionKept, SessionSteps
<1>2. CASE runThread
  <2>1. p.kind = "context" /\ p.id = streamMap /\ p.of.stream = streamMap /\ p \in VRTPackets
    BY <1>1, ContextPacketType DEF ContextPacket, Ownership
  <2>2. /\ Pushed' = Append(Pushed, p)
        /\ Pushed' # <<>> /\ Pushed'[Len(Pushed')] = p
    BY <1>1, <1>2, <2>1, PushedGrows DEF AnnounceContext, Ownership
  <2>3. Session!Emitted /\ Session!Newest = p
    BY <2>2 DEF Session!Emitted, Session!Newest
  <2>4. Session!OwnContext(p)
    BY <1>1, <2>1 DEF Session!OwnContext
  <2> QED
    BY <1>1, <2>3, <2>4 DEF Session!Next, Session!Announce, Session!Emit
<1>3. CASE ~runThread
  <2>1. UNCHANGED Pushed
    BY <1>3 DEF AnnounceContext, Pushed
  <2> QED
    BY <1>1, <2>1 DEF Session!Next, Session!Announce, Session!vars
<1> QED
  BY <1>2, <1>3

\* Each step of SinkVITA49 is one of the session or none.
LEMMA SessionStep ==
  ASSUME Ownership, SessionKept, [Next]_vars
  PROVE  [Session!Next]_(Session!vars)
<1>1. ASSUME UNCHANGED <<streamMap, waitingForSRI, currSRI, queueVars>>
      PROVE  UNCHANGED Session!vars
  BY <1>1, SessionStutter DEF Pushed
<1>2. CASE \/ ServiceExit \/ MemoryManagement \/ BeginPass \/ HonourUpdate \/ NoUpdate
           \/ ClearUpdate \/ Launch \/ NoLaunch \/ OpenFails \/ Open \/ ServiceJoined
           \/ NoInput \/ InterruptStream \/ DropPacket \/ AcceptPacket \/ SkipMerge
           \/ DropUnready \/ EndPacket \/ ServiceTearDownFails
  BY <1>1, <1>2 DEF ServiceExit, MemoryManagement, BeginPass, HonourUpdate,
     NoUpdate, ClearUpdate, Launch, NoLaunch, OpenFails, Open, ServiceJoined,
     ForgetThreads, NoInput, InterruptStream, DropPacket, AcceptPacket, SkipMerge,
     DropUnready, EndPacket, ServiceTearDownFails
<1>3. CASE SetupOutputStream
  <2>1. /\ streamMap = NoStream /\ waitingForSRI
        /\ streamMap' \in Streams /\ streamMap' # NoStream
        /\ UNCHANGED <<waitingForSRI, queueVars>>
    BY <1>3, StreamsAssumption DEF SetupOutputStream, Ownership, WorkInHand, Transfers,
       SingleOwner, SessionKept, SessionSteps
  <2> QED
    BY <2>1 DEF Session!Next, Session!Attach, Pushed
<1>4. CASE MergeSameSRI
  <2>1. /\ streamMap # NoStream /\ ~waitingForSRI'
        /\ UNCHANGED <<streamMap, currSRI, queueVars>>
    BY <1>4, StreamsAssumption DEF MergeSameSRI, Ownership, WorkInHand, Transfers,
       SessionKept, SessionSteps
  <2> QED
    BY <2>1 DEF Session!Next, Session!Announce, Session!vars, Pushed
<1>5. CASE MergeNewSRI
  <2>1. streamMap # NoStream /\ UNCHANGED <<streamMap, waitingForSRI, queueVars>>
    BY <1>5, StreamsAssumption DEF MergeNewSRI, Ownership, WorkInHand, Transfers,
       SessionKept, SessionSteps
  <2> QED
    BY <2>1, SessionStutter DEF Pushed
<1>6. CASE AnnounceContext
  BY <1>6, SessionAnnounce
<1>7. CASE PushData
  BY <1>7, SessionData
<1>8. CASE ServiceTearDown \/ ControlTearDown
  <2>1. /\ streamMap' = NoStream /\ UNCHANGED <<waitingForSRI, currSRI, queueVars>>
        /\ streamMap # NoStream => ~waitingForSRI /\ currSRI.stream = streamMap
    BY <1>8 DEF ServiceTearDown, ControlTearDown, RemoveStream, Ownership, SingleOwner,
       SessionKept, SessionSteps, SessionSRI
  <2>2. UNCHANGED Pushed
    BY <2>1 DEF Pushed
  <2> QED
    BY <2>1, <2>2 DEF Session!Next, Session!Remove, Session!vars
<1>9. CASE ServiceInitializeValues \/ ControlInitializeValues
  <2>1. /\ streamMap = NoStream /\ waitingForSRI'
        /\ UNCHANGED <<streamMap, currSRI, queueVars>>
    BY <1>9 DEF ServiceInitializeValues, ControlInitializeValues, InitializeValues,
       SessionKept, SessionSteps
  <2>2. UNCHANGED Pushed
    BY <2>1 DEF Pushed
  <2>3. waitingForSRI \in BOOLEAN
    BY DEF Ownership, TypeOK
  <2> QED
    BY <2>1, <2>2, <2>3 DEF Session!Next, Session!Close, Session!vars
<1>10. CASE Start \/ Stop \/ StopTimeout \/ StopJoined \/ ControlTearDownFails \/ ControlJoined
  BY <1>1, <1>10 DEF Start, Stop, StopTimeout, StopJoined, ControlTearDownFails,
     ControlJoined, ForgetThreads
<1>11. ASSUME NEW t \in Threads, Transmit(t) PROVE UNCHANGED Session!vars
  BY <1>11, PushedStays, SessionStutter DEF Transmit, Ownership
<1>12. ASSUME NEW c \in Threads, PushContext(c) PROVE Session!Next
  BY <1>12, SessionContext
<1>13. ASSUME NEW t \in Threads,
              \/ BeginTransmitter(t) \/ ExitTransmitter(t) \/ SeePacket(t)
              \/ ExitTimer(t) \/ CheckStream(t) \/ FillContext(t) \/ AcceptClient(t)
       PROVE  UNCHANGED Session!vars
  BY <1>1, <1>13 DEF BeginTransmitter, ExitTransmitter, SeePacket, ExitTimer,
     CheckStream, FillContext, AcceptClient
<1>14. CASE \/ NetworkSettingsChanged \/ SetNetworkSettings \/ ChangeConnection
            \/ ChangeForce
  BY <1>1, <1>14 DEF NetworkSettingsChanged, SetNetworkSettings, ChangeConnection, ChangeForce
<1>15. CASE UNCHANGED vars
  BY <1>1, <1>15 DEF vars
<1> QED
  BY <1>2, <1>3, <1>4, <1>5, <1>6, <1>7, <1>8, <1>9, <1>10, <1>11, <1>12, <1>13,
     <1>14, <1>15 DEF Next, ServiceStep, StopStep, TransmitStep, TimerStep, Environment

\* Four threads around workQueue2 without a common lock amount to what
\* StreamSession promises receivers, for any streams, settings and packets, also
\* where removeStream() throws or sockets fail, as long as force_transmit is off.
THEOREM SessionsImplemented == ~ForceAllowed /\ Spec => SessionSpec
<1> SUFFICES ASSUME ~ForceAllowed PROVE Spec => SessionSpec
  OBVIOUS
<1>1. Init => SessionKept
  BY DEF Init, SessionKept, SessionSteps, SessionSRI
<1>2. Ownership /\ SessionKept /\ [Next]_vars => SessionKept'
  BY SessionKeptStep
<1>3. Init => Session!Init
  BY DEF Init, Session!Init, Pushed
<1>4. Ownership /\ SessionKept /\ [Next]_vars => [Session!Next]_(Session!vars)
  BY SessionStep
<1> QED
  BY <1>1, <1>2, <1>3, <1>4, OwnershipInvariant, PTL DEF Spec, SessionSpec, Session!Spec

-----------------------------------------------------------------------------
(* UnsizedOnlyIfResumed                                                    *)

\* The attached stream's payload has been sized since its SRI was taken over,
\* save for the two exceptions of UnsizedOnlyIfResumed.
SizedKept ==
  streamMap # NoStream /\ ~waitingForSRI /\ svc # "context" /\ ~payloadReady =>
    PayloadMayBeSmall \/ streamMap \in Echo

LEMMA SizedStep ==
  ASSUME Ownership, SessionKept, SizedKept, [Next]_vars
  PROVE  SizedKept'
<1> USE DEF SizedKept
<1>1. ASSUME UNCHANGED <<streamMap, waitingForSRI, payloadReady>>,
             svc = "context" => svc' = "context"
      PROVE  SizedKept'
  BY <1>1
<1>2. CASE \/ ServiceExit \/ MemoryManagement \/ BeginPass \/ HonourUpdate \/ NoUpdate
           \/ ClearUpdate \/ Launch \/ NoLaunch \/ OpenFails \/ Open \/ ServiceJoined
           \/ NoInput \/ InterruptStream \/ DropPacket \/ AcceptPacket \/ SkipMerge
           \/ PushData \/ DropUnready \/ EndPacket \/ ServiceTearDownFails
  BY <1>1, <1>2 DEF ServiceExit, MemoryManagement, BeginPass, HonourUpdate,
     NoUpdate, ClearUpdate, Launch, NoLaunch, OpenFails, Open, ServiceJoined, Joining, Joined,
     ForgetThreads, NoInput, InterruptStream, DropPacket, AcceptPacket, SkipMerge,
     PushData, DropUnready, EndPacket, ServiceTearDownFails
<1>3. CASE SetupOutputStream
  BY <1>3 DEF SetupOutputStream, Ownership, SingleOwner, SessionKept, SessionSteps
<1>4. CASE MergeSameSRI
  BY <1>4 DEF MergeSameSRI, SameSRI, SessionKept, SessionSteps
<1>5. CASE MergeNewSRI
  BY <1>5 DEF MergeNewSRI
<1>6. CASE AnnounceContext
  <2>1. PICK small \in {FALSE, PayloadMayBeSmall} : payloadReady' = ~small
    BY <1>6, Zenon DEF AnnounceContext
  <2>2. CASE small = FALSE
    BY <2>1, <2>2
  <2>3. CASE small = PayloadMayBeSmall
    BY <2>1, <2>3, SwitchesAssumption
  <2> QED
    BY <2>1, <2>2, <2>3
<1>7. CASE ServiceTearDown \/ ControlTearDown
  BY <1>7 DEF ServiceTearDown, ControlTearDown, RemoveStream
<1>8. CASE ServiceInitializeValues \/ ControlInitializeValues
  BY <1>8 DEF ServiceInitializeValues, ControlInitializeValues, InitializeValues
<1>9. CASE Start
  BY <1>1, <1>9 DEF Start, SessionKept, SessionSteps
<1>10. CASE Stop \/ StopTimeout \/ StopJoined \/ ControlTearDownFails \/ ControlJoined
  BY <1>1, <1>10 DEF Stop, StopTimeout, StopJoined, ControlTearDownFails, ControlJoined,
     ForgetThreads
<1>11. ASSUME NEW t \in Threads,
              \/ BeginTransmitter(t) \/ AcceptClient(t) \/ ExitTransmitter(t) \/ SeePacket(t)
              \/ Transmit(t) \/ ExitTimer(t) \/ CheckStream(t) \/ FillContext(t)
              \/ PushContext(t)
       PROVE  SizedKept'
  BY <1>1, <1>11 DEF BeginTransmitter, AcceptClient, ExitTransmitter, SeePacket, Transmit,
     ExitTimer, CheckStream, FillContext, PushContext
<1>12. CASE \/ NetworkSettingsChanged \/ SetNetworkSettings \/ ChangeConnection
            \/ ChangeForce
  BY <1>1, <1>12 DEF NetworkSettingsChanged, SetNetworkSettings, ChangeConnection, ChangeForce
<1>13. CASE UNCHANGED vars
  BY <1>1, <1>13 DEF vars
<1> QED
  BY <1>2, <1>3, <1>4, <1>5, <1>6, <1>7, <1>8, <1>9, <1>10, <1>11, <1>12, <1>13
     DEF Next, ServiceStep, StopStep, TransmitStep, TimerStep, Environment

\* A push, and the end of stream with it, is dropped for want of a packet size
\* only where a stream comes back with the SRI that currSRI kept of it, or where
\* the payload holds no sample; for any streams, SRIs, rebuilds, interruptions
\* and restarts, as long as force_transmit is off.
THEOREM UnsizedIsResumed == ~ForceAllowed /\ Spec => []UnsizedOnlyIfResumed
<1> SUFFICES ASSUME ~ForceAllowed PROVE Spec => []UnsizedOnlyIfResumed
  OBVIOUS
<1>1. Init => SessionKept /\ SizedKept
  BY DEF Init, SessionKept, SessionSteps, SessionSRI, SizedKept
<1>2. Ownership /\ SessionKept /\ [Next]_vars => SessionKept'
  BY SessionKeptStep
<1>3. Ownership /\ SessionKept /\ SizedKept /\ [Next]_vars => SizedKept'
  BY SizedStep
<1>4. Ownership /\ SessionKept /\ SizedKept => UnsizedOnlyIfResumed
  BY StreamsAssumption DEF SessionKept, SessionSteps, SessionSRI, SizedKept,
     UnsizedOnlyIfResumed, Ownership, WorkInHand, Transfers
<1> QED
  BY <1>1, <1>2, <1>3, <1>4, OwnershipInvariant, PTL DEF Spec
=============================================================================
