---------------------------- MODULE ContextPackets ----------------------------
(***************************************************************************)
(* What the context packets of Announcement say besides the payload format *)
(* (cpp/SinkVITA49.cpp, createIFContextPacket()): the class identifier and *)
(* the fields that the keywords of currSRI give. Both threads read these   *)
(* one after the other: the service thread while nobody writes currSRI,    *)
(* the context thread without sriLock, while mergeRecSRI() may be changing *)
(* it.                                                                     *)
(*                                                                         *)
(* Every action of Announcement is conjoined with what it does to them.    *)
(* The identifiers stay switched on in VITA49IFContextPacket, and its      *)
(* class_identifier stays "DEFAULT".                                       *)
(***************************************************************************)
EXTENDS Announcement

CONSTANTS
  Register, \* the local variable that takes the value of each context keyword
  Mistyped  \* keywords whose value has another type than that variable

VARIABLES
  classIdentifier, \* VITAProcess.IFCPacket.class_identifier
  standardClass,   \* standardPacketClassID: the mode it was made for, or NoClass
  filling,         \* the packet under work of the service thread
  reading,         \* that of the context thread
  toldFields,      \* the fields in the stream's last context packet queued
  announcedFields, \* those in the last one of the service thread
  announcedClass   \* and its class identifier

packetVars == <<classIdentifier, standardClass, filling, reading, toldFields,
                announcedFields, announcedClass>>
allVars == <<vars, packetVars>>

DEFAULT == -2
NoClass == -1
Garbage == "uninitialized"
NoFields == <<>>

IsContext(k) == k.id \in DOMAIN Register

\* One turn of the loop over the keywords: >>= leaves the variable as it was when
\* the value has another type.
ReadKeyword(k, r) ==
  IF ~IsContext(k) THEN r
  ELSE LET value == IF k \in Mistyped THEN r.locals[Register[k.id]] ELSE k.value
       IN  [locals |-> [r.locals EXCEPT ![Register[k.id]] = value],
            fields |-> [id \in DOMAIN r.fields \union {k.id} |->
                          IF id = k.id THEN value ELSE r.fields[id]]]

Unread == [locals |-> [v \in {Register[id] : id \in DOMAIN Register} |-> Garbage],
           fields |-> NoFields]

\* A packet for which the loop over these keywords, whose number is read once, has
\* not begun yet; and after one more turn.
Begun(keywords) == [next |-> 1, size |-> Len(keywords), read |-> Unread]
Turned(packet, keywords) ==
  [next |-> packet.next + 1, size |-> packet.size,
   read |-> ReadKeyword(keywords[packet.next], packet.read)]
Done(packet) == packet.next > packet.size

\* The class identifier of a packet; "DEFAULT" is used once and then replaced by
\* the class of that packet.
ClassID == IF classIdentifier = DEFAULT THEN standardClass ELSE classIdentifier

ContextInit ==
  /\ Init
  /\ classIdentifier = DEFAULT /\ standardClass = NoClass
  /\ filling = Begun(<<>>) /\ reading = Begun(<<>>)
  /\ toldFields = NoFields /\ announcedFields = NoFields /\ announcedClass = NoClass

-----------------------------------------------------------------------------
(* The service thread                                                      *)

DescribedSetup ==
  /\ SetupOutputStream
  /\ toldFields' = NoFields /\ announcedFields' = NoFields /\ announcedClass' = NoClass
  /\ UNCHANGED <<classIdentifier, standardClass, filling, reading>>

\* createPayload() is followed by createIFContextPacket().
DescribedClip ==
  /\ ClipPayload
  /\ standardClass' = pf
  /\ filling' = Begun(currSRI.keywords)
  /\ UNCHANGED <<classIdentifier, reading, toldFields, announcedFields, announcedClass>>

FillNext ==
  /\ svc = "context" /\ ~Done(filling)
  /\ filling' = Turned(filling, currSRI.keywords)
  /\ UNCHANGED <<vars, classIdentifier, standardClass, reading, toldFields,
                 announcedFields, announcedClass>>

\* Faulty variant: the loop ends one keyword early.
DescribedAnnounceShort ==
  /\ AnnounceContext /\ filling.next >= filling.size
  /\ classIdentifier' = ClassID /\ announcedClass' = ClassID
  /\ announcedFields' = filling.read.fields
  /\ toldFields' = announcedFields'
  /\ filling' = Begun(<<>>)
  /\ UNCHANGED <<standardClass, reading>>

DescribedAnnounce ==
  /\ AnnounceContext /\ Done(filling)
  /\ classIdentifier' = ClassID /\ announcedClass' = ClassID
  /\ announcedFields' = filling.read.fields
  /\ toldFields' = announcedFields'
  /\ filling' = Begun(<<>>)
  /\ UNCHANGED <<standardClass, reading>>

DescribedInitialize ==
  /\ InitializeValues
  /\ standardClass' = NoClass
  /\ UNCHANGED <<classIdentifier, filling, reading, toldFields, announcedFields,
                 announcedClass>>

OtherServiceStep ==
  \/ SkipMerge \/ MergeSameSRI \/ MergeFields \/ MergeKeyword \/ PushSRI
  \/ MeasurePacket \/ Merged \/ DropUnready \/ CutPush \/ EndPush \/ RemoveStream

-----------------------------------------------------------------------------
(* The context thread                                                      *)

BeginPacket ==
  /\ FillContext
  /\ classIdentifier' = ClassID
  /\ reading' = Begun(currSRI.keywords)
  /\ UNCHANGED <<standardClass, filling, toldFields, announcedFields, announcedClass>>

ReadNext ==
  /\ ctx = "push" /\ ~Done(reading)
  /\ reading' = Turned(reading, currSRI.keywords)
  /\ UNCHANGED <<vars, classIdentifier, standardClass, filling, toldFields,
                 announcedFields, announcedClass>>

QueuePacket ==
  /\ PushContext /\ Done(reading)
  /\ toldFields' = reading.read.fields
  /\ reading' = Begun(<<>>)
  /\ UNCHANGED <<classIdentifier, standardClass, filling, announcedFields,
                 announcedClass>>

-----------------------------------------------------------------------------
(* The listeners                                                           *)

\* Only a listener that enables the packets copies the identifiers.
DescribedIFContextPacketChanged ==
  /\ VITA49IFContextPacketChanged
  /\ classIdentifier' = IF contextEnabled' THEN DEFAULT ELSE classIdentifier
  /\ UNCHANGED <<standardClass, filling, reading, toldFields, announcedFields,
                 announcedClass>>

OtherListener ==
  VITA49EncapsulationChanged \/ VITA49IFDataPacketChanged \/ AdvancedConfigurationChanged

-----------------------------------------------------------------------------
DescribedService ==
  \/ DescribedSetup \/ DescribedClip \/ FillNext \/ DescribedAnnounce
  \/ DescribedInitialize
  \/ OtherServiceStep /\ UNCHANGED packetVars

TimerStep == BeginPacket \/ ReadNext \/ QueuePacket

ContextNext ==
  \/ DescribedService \/ TimerStep
  \/ DescribedIFContextPacketChanged
  \/ (Receive \/ OtherListener) /\ UNCHANGED packetVars

ContextSpec == ContextInit /\ [][ContextNext]_allVars

\* Both threads run their loops; nobody has to push or to change a property.
LiveContextSpec ==
  ContextSpec /\ WF_allVars(DescribedService) /\ WF_allVars(TimerStep)

-----------------------------------------------------------------------------
(* Properties                                                              *)

Classes == {NoClass, 0, 1}

\* Values are in the domains of the code's variables, and the context thread never
\* reads past the keywords there are while mergeRecSRI() changes their number.
ContextTypeOK ==
  /\ classIdentifier \in Classes \union {DEFAULT} /\ standardClass \in Classes
  /\ announcedClass \in Classes
  /\ DOMAIN toldFields \subseteq DOMAIN Register
  /\ DOMAIN announcedFields \subseteq DOMAIN Register
  /\ \A packet \in {filling, reading} :
       /\ packet.next \in 1 .. packet.size + 1
       /\ DOMAIN packet.read.fields \subseteq DOMAIN Register
  /\ ctx = "push" => reading.size <= Len(currSRI.keywords)

\* The context keywords are among the fields, with their values where these have
\* the type of the field.
Shows(fields, keywords) ==
  \A i \in 1 .. Len(keywords) :
    LET k == keywords[i]
    IN  IsContext(k) /\ k \notin Mistyped => /\ k.id \in DOMAIN fields
                                             /\ fields[k.id] = k.value

\* When data is queued, the service thread's last context packet shows every
\* context keyword of the SRI that the data came with, whatever SRIs, streams and
\* listeners came before - unless compareSRI() took two SRIs for the same
\* because only the ids of keywords differ.
SRIDescribed ==
  svc = "sent" =>
    \/ Shows(announcedFields, push.sri.keywords)
    \/ Values(push.sri.keywords) = Values(currSRI.keywords)

\* A periodic context packet that was filled in while mergeRecSRI() changed
\* currSRI mixes old and new keywords, and is queued after the service thread's
\* correct one. It does not stay that way: again and again what receivers were
\* told last is what the stream is.
DescriptionSettles ==
  []<>(streamMap # NoStream => told = pf /\ Shows(toldFields, currSRI.keywords))

\* SinkVITA49.prf.xml:138: "Leaving the value to "DEFAULT" will cause the Class
\* Identifier to be generated using the payload format."
ClassFromPayloadFormat == svc = "sent" => announcedClass = push.sri.mode
=============================================================================
