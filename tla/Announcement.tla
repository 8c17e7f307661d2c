----------------------------- MODULE Announcement -----------------------------
(***************************************************************************)
(* What receivers are told about the data they get, and with which sizes   *)
(* it is cut (cpp/SinkVITA49.cpp): the stream definition of addStream(),   *)
(* the SRI of pushSRI(), the payload format of context packets, and        *)
(* createPayload(). Three threads meet here without a common lock:         *)
(*                                                                         *)
(*   - the service thread takes a push through singleService();            *)
(*   - the context thread describes the stream with what it reads from     *)
(*     pf, and queues that later;                                          *)
(*   - the control thread runs the property listeners.                     *)
(*                                                                         *)
(* The transmitter is running, a receiver is connected and the network     *)
(* settings stay, so curr_attach.attach holds while a stream is active     *)
(* (SinkVITA49 has these); pushes of other streams meanwhile are dropped.  *)
(* A packet's description is its payload format, here the mode: the port   *)
(* in use has one sample size. VITAProcess.IFDPacket.enable is set TRUE    *)
(* and never cleared.                                                      *)
(***************************************************************************)
EXTENDS Integers, Sequences

CONSTANTS
  Text,             \* strings: ids of streams and keywords, values of keywords
  NoStream,         \* the empty _streamMap.streamID
  SRIs,             \* what the SRI of a push may be
  Configurations,   \* what advanced_configuration may be set to
  Encapsulations,   \* what VITA49Encapsulation may be set to
  DataSettings,     \* what VITA49IFDataPacket may be set to
  SampleSize,       \* bytes of an element of the port in use
  ProtocolHeader,   \* 8 for UDP, 20 for TCP
  HostOrder,        \* BYTE_ORDER
  MaxPushes,        \* bound: pushes taken
  MaxEdits          \* bound: property changes

Orders == {"little", "big"}
Fields == {"stream", "class", "time", "trailer"}

\* A keyword list names an id once; keywords are in the order of the list.
Distinct(keywords) ==
  \A i, j \in 1 .. Len(keywords) : keywords[i].id = keywords[j].id => i = j

KeywordType == [id : Text, value : Text]
Keywords == Seq(KeywordType)
SRI == [stream : Text, mode : {0, 1}, keywords : Keywords]

ASSUME TextAssumption ==
  {NoStream, "DEFAULT_SINKVITA49_STREAMID", "dataRef", "BULKIO_SRI_PRIORITY"}
    \union Orders \union {"yes", "no"} \subseteq Text
ASSUME SRIsAssumption ==
  /\ SRIs \subseteq SRI
  /\ \A s \in SRIs : s.stream # NoStream /\ Distinct(s.keywords)
ASSUME PropertiesAssumption ==
  /\ \A c \in Configurations :
       c.payload \in Nat /\ c.endian \in Orders \union {"native"} /\ c.priority \in {"yes", "no"}
  /\ Encapsulations \subseteq SUBSET {"vrl", "crc"}
  /\ DataSettings \subseteq [enable : BOOLEAN, fields : SUBSET Fields]
ASSUME HostAssumption ==
  SampleSize \in {1, 2, 4, 8} /\ ProtocolHeader \in {8, 20} /\ HostOrder \in Orders
ASSUME BoundsAssumption == MaxPushes \in Nat /\ MaxEdits \in Nat

VARIABLES
  svc,              \* the next step of the service thread
  push,             \* the dataTransfer under work
  streamMap,        \* _streamMap.streamID
  waitingForSRI,
  currSRI,
  announced,        \* the SRI last given to pushSRI()
  streamDef,        \* the format part of the _streamDef given to addStream()
  pf,               \* the mode in the payload format pf
  difference,       \* createPayload()'s local
  payloadSize,      \* vita49_payload_size
  samplesPerPacket,
  packetBytes,      \* history: bytes of a full packet when it was last measured
  torn,             \* history: a listener ran inside that measuring
  ctx,              \* the next step of the context thread
  filled,           \* the mode in the packet it has filled in
  told,             \* the mode in the stream's last context packet queued
  described,        \* history: the modes in all of the stream's context packets
  encap,            \* VITAProcess.Encap: the optional parts switched on
  dataFields,       \* VITAProcess.IFDPacket: the optional parts switched on
  contextEnabled,   \* the property VITA49IFContextPacket.enable
  contextOn,        \* VITAProcess.IFCPacket.enable
  dataRef,          \* _dataRef
  priority,         \* _bulkioPriority
  edits, pushes     \* for the bounds

streamVars  == <<streamMap, waitingForSRI, currSRI, announced, streamDef>>
sizeVars    == <<pf, difference, samplesPerPacket, packetBytes>>
contextVars == <<ctx, filled, told, described>>
configVars  == <<encap, dataFields, contextEnabled, contextOn, priority, edits>>
vars == <<svc, push, pushes, streamVars, sizeVars, torn, payloadSize, dataRef,
          contextVars, configVars>>

NotTold == -1
Limit   == 65515 \* the largest UDP datagram, with its header
MaxSize == 65503

Keyword(id, value) == [id |-> id, value |-> value]
Ids(keywords) == {keywords[i].id : i \in 1 .. Len(keywords)}
Values(keywords) == [i \in 1 .. Len(keywords) |-> keywords[i].value]

\* Faulty variant: the new keyword is added without looking for an old one.
WithAdded(keywords, new) == Append(keywords, new)

\* addModifyKeyword(), and the loop over currSRI in mergeRecSRI(): a known id gets
\* the new value in its place, another keyword is added at the end.
With(keywords, new) ==
  IF new.id \in Ids(keywords)
  THEN [i \in 1 .. Len(keywords) |->
          IF keywords[i].id = new.id THEN new ELSE keywords[i]]
  ELSE Append(keywords, new)

\* compareSRI(): keywords are compared by their values, place by place, and not
\* by their ids.
SameSRI(a, b) ==
  /\ a.stream = b.stream /\ a.mode = b.mode
  /\ Values(a.keywords) = Values(b.keywords)

Unit == (currSRI.mode + 1) * SampleSize
Part(part, on, bytes) == IF part \in on THEN bytes ELSE 0

\* The bytes around the payload of a data packet, as createPayload() adds them up.
Overhead ==
  ProtocolHeader + Part("vrl", encap, 12) + Part("crc", encap, 4)
  + 4 + Part("stream", dataFields, 4) + Part("class", dataFields, 8)
  + Part("time", dataFields, 12) + Part("trailer", dataFields, 4)

DefaultSRI == [stream |-> "DEFAULT_SINKVITA49_STREAMID", mode |-> 0, keywords |-> <<>>]

Init ==
  /\ svc = "idle" /\ pushes = 0 /\ edits = 0
  /\ push = [sri |-> DefaultSRI, changed |-> FALSE, eos |-> FALSE]
  /\ streamMap = NoStream /\ waitingForSRI = TRUE
  /\ currSRI = DefaultSRI /\ announced = DefaultSRI
  /\ streamDef = [valid |-> FALSE, complexity |-> 0]
  /\ pf = 1 /\ difference = 0 /\ samplesPerPacket = 0 /\ packetBytes = 0
  /\ torn = FALSE /\ payloadSize = 1428
  /\ ctx = "idle" /\ filled = NotTold /\ told = NotTold /\ described = {}
  /\ encap = {"vrl"} /\ dataFields = {"stream", "class", "time"}
  /\ contextEnabled = TRUE /\ contextOn = TRUE
  /\ dataRef = HostOrder /\ priority = "yes"

-----------------------------------------------------------------------------
(* The service thread                                                      *)

\* getPacket() flags an SRI unlike the last one of the stream; a new stream is
\* set up first.
Receive ==
  /\ svc = "idle" /\ pushes < MaxPushes
  /\ \E sri \in SRIs, changed, eos \in BOOLEAN :
       /\ streamMap \in {NoStream, sri.stream}
       /\ changed \/ waitingForSRI \/ sri = push.sri
       /\ push' = [sri |-> sri, changed |-> changed, eos |-> eos]
  /\ pushes' = pushes + 1
  /\ svc' = IF streamMap = NoStream THEN "setup" ELSE "merge"
  /\ UNCHANGED <<streamVars, sizeVars, torn, payloadSize, dataRef, contextVars,
                 configVars>>

\* Without context packets the definition has the format, that of currSRI.
InitStreamDef ==
  streamDef' = IF contextEnabled
               THEN [streamDef EXCEPT !.valid = FALSE]
               ELSE [valid |-> TRUE, complexity |-> currSRI.mode]

\* setupOutputStream()
SetupOutputStream ==
  /\ svc = "setup"
  /\ streamMap' = push.sri.stream
  /\ InitStreamDef
  /\ currSRI' = [currSRI EXCEPT !.keywords =
                   With(With(@, Keyword("dataRef", dataRef)),
                        Keyword("BULKIO_SRI_PRIORITY", priority))]
  /\ told' = NotTold /\ described' = {}
  /\ svc' = "merge"
  /\ UNCHANGED <<push, pushes, waitingForSRI, announced, sizeVars, torn,
                 payloadSize, dataRef, ctx, filled, configVars>>

MustMerge == push.changed \/ waitingForSRI

SkipMerge ==
  /\ svc = "merge" /\ ~MustMerge
  /\ svc' = "cut"
  /\ UNCHANGED <<push, pushes, streamVars, sizeVars, torn, payloadSize, dataRef,
                 contextVars, configVars>>

MergeSameSRI ==
  /\ svc = "merge" /\ MustMerge /\ SameSRI(push.sri, currSRI)
  /\ waitingForSRI' = FALSE
  /\ svc' = "cut"
  /\ UNCHANGED <<push, pushes, streamMap, currSRI, announced, streamDef, sizeVars,
                 torn, payloadSize, dataRef, contextVars, configVars>>

\* Faulty variant: the keywords of the last SRI are dropped.
MergeFieldsAnew ==
  /\ svc = "merge" /\ MustMerge /\ ~SameSRI(push.sri, currSRI)
  /\ currSRI' = [push.sri EXCEPT !.keywords = <<>>]
  /\ svc' = "keywords"
  /\ UNCHANGED <<push, pushes, streamMap, waitingForSRI, announced, streamDef,
                 sizeVars, torn, payloadSize, dataRef, contextVars, configVars>>

\* mergeRecSRI() of another SRI: first all but the keywords.
MergeFields ==
  /\ svc = "merge" /\ MustMerge /\ ~SameSRI(push.sri, currSRI)
  /\ currSRI' = [push.sri EXCEPT !.keywords = currSRI.keywords]
  /\ svc' = "keywords"
  /\ UNCHANGED <<push, pushes, streamMap, waitingForSRI, announced, streamDef,
                 sizeVars, torn, payloadSize, dataRef, contextVars, configVars>>

\* The keywords that currSRI does not have yet, or not with this value.
Unmerged ==
  {i \in 1 .. Len(push.sri.keywords) :
     \A j \in 1 .. Len(currSRI.keywords) : currSRI.keywords[j] # push.sri.keywords[i]}

\* One keyword after the other; none is ever removed.
MergeKeyword ==
  /\ svc = "keywords"
  /\ \E i \in Unmerged :
       /\ \A j \in Unmerged : i <= j
       /\ currSRI' = [currSRI EXCEPT !.keywords = With(@, push.sri.keywords[i])]
  /\ UNCHANGED <<svc, push, pushes, streamMap, waitingForSRI, announced, streamDef,
                 sizeVars, torn, payloadSize, dataRef, contextVars, configVars>>

\* Faulty variant: the payload is only made for the first SRI of a stream.
PushSRIOnce ==
  /\ svc = "keywords" /\ Unmerged = {}
  /\ announced' = currSRI
  /\ svc' = IF contextOn /\ waitingForSRI THEN "measure" ELSE "merged"
  /\ UNCHANGED <<push, pushes, streamMap, waitingForSRI, currSRI, streamDef,
                 sizeVars, torn, payloadSize, dataRef, contextVars, configVars>>

\* The end of mergeRecSRI().
PushSRI ==
  /\ svc = "keywords" /\ Unmerged = {}
  /\ announced' = currSRI
  /\ svc' = IF contextOn THEN "measure" ELSE "merged"
  /\ UNCHANGED <<push, pushes, streamMap, waitingForSRI, currSRI, streamDef,
                 sizeVars, torn, payloadSize, dataRef, contextVars, configVars>>

\* Faulty variant: difference is only set for a packet that is too large.
MeasureTooLarge ==
  /\ svc = "measure"
  /\ difference' = IF Overhead + payloadSize > Limit
                   THEN Overhead + payloadSize - Limit ELSE difference
  /\ pf' = currSRI.mode
  /\ torn' = FALSE
  /\ svc' = "clip"
  /\ UNCHANGED <<push, pushes, streamVars, samplesPerPacket, packetBytes,
                 payloadSize, dataRef, contextVars, configVars>>

\* createPayload(), first part: how much too large a packet is.
MeasurePacket ==
  /\ svc = "measure"
  /\ difference' = Overhead + payloadSize - Limit
  /\ pf' = currSRI.mode
  /\ torn' = FALSE
  /\ svc' = "clip"
  /\ UNCHANGED <<push, pushes, streamVars, samplesPerPacket, packetBytes,
                 payloadSize, dataRef, contextVars, configVars>>

\* subtract_bytes: a whole number of samples, one or two less than would be enough,
\* and even negative.
SubtractBytes ==
  IF difference > 0 THEN (difference - Unit - 1) - ((difference - 1) % Unit) ELSE 0

\* createPayload(), second part. When a listener has made payloadSize small in
\* between it may get negative, and the pushes that follow are dropped.
ClipPayload ==
  /\ svc = "clip"
  /\ payloadSize' = payloadSize - SubtractBytes
  /\ samplesPerPacket' = payloadSize' \div Unit
  /\ packetBytes' = Overhead + samplesPerPacket' * Unit
  /\ svc' = "context"
  /\ UNCHANGED <<push, pushes, streamVars, pf, difference, torn, dataRef,
                 contextVars, configVars>>

\* A context packet with format m is queued.
QueueContext(m) == told' = m /\ described' = described \union {m}

\* createIFContextPacket() by the service thread.
AnnounceContext ==
  /\ svc = "context"
  /\ QueueContext(pf)
  /\ svc' = "merged"
  /\ UNCHANGED <<push, pushes, streamVars, sizeVars, torn, payloadSize, dataRef,
                 ctx, filled, configVars>>

Merged ==
  /\ svc = "merged"
  /\ waitingForSRI' = FALSE
  /\ svc' = "cut"
  /\ UNCHANGED <<push, pushes, streamMap, currSRI, announced, streamDef, sizeVars,
                 torn, payloadSize, dataRef, contextVars, configVars>>

DropUnready ==
  /\ svc = "cut" /\ samplesPerPacket < 1
  /\ svc' = "idle"
  /\ UNCHANGED <<push, pushes, streamVars, sizeVars, torn, payloadSize, dataRef,
                 contextVars, configVars>>

\* The push is cut into data packets of format pf.
CutPush ==
  /\ svc = "cut" /\ samplesPerPacket >= 1
  /\ svc' = "sent"
  /\ UNCHANGED <<push, pushes, streamVars, sizeVars, torn, payloadSize, dataRef,
                 contextVars, configVars>>

EndPush ==
  /\ svc = "sent" /\ ~push.eos
  /\ svc' = "idle"
  /\ UNCHANGED <<push, pushes, streamVars, sizeVars, torn, payloadSize, dataRef,
                 contextVars, configVars>>

\* tearDownOutputStream() up to the join of the threads.
RemoveStream ==
  /\ svc = "sent" /\ push.eos
  /\ streamMap' = NoStream
  /\ svc' = "join"
  /\ UNCHANGED <<push, pushes, waitingForSRI, currSRI, announced, streamDef,
                 sizeVars, torn, payloadSize, dataRef, contextVars, configVars>>

\* initialize_values()
InitializeValues ==
  /\ svc = "join" /\ ctx = "idle"
  /\ samplesPerPacket' = 0
  /\ dataRef' = HostOrder
  /\ payloadSize' = 1428
  /\ waitingForSRI' = TRUE
  /\ svc' = "idle"
  /\ UNCHANGED <<push, pushes, streamMap, currSRI, announced, streamDef, pf,
                 difference, packetBytes, torn, contextVars, configVars>>

-----------------------------------------------------------------------------
(* The context thread: createIFContextPacket() from timerThread()          *)

\* Faulty variant: the payload format is only filled in once.
FillContextOnce ==
  /\ ctx = "idle" /\ ~waitingForSRI
  /\ streamMap = currSRI.stream
  /\ filled' = IF filled = NotTold THEN pf ELSE filled
  /\ ctx' = "push"
  /\ UNCHANGED <<svc, push, pushes, streamVars, sizeVars, torn, payloadSize,
                 dataRef, told, described, configVars>>

FillContext ==
  /\ ctx = "idle" /\ ~waitingForSRI
  /\ streamMap = currSRI.stream
  /\ filled' = pf
  /\ ctx' = "push"
  /\ UNCHANGED <<svc, push, pushes, streamVars, sizeVars, torn, payloadSize,
                 dataRef, told, described, configVars>>

PushContext ==
  /\ ctx = "push"
  /\ QueueContext(filled)
  /\ ctx' = "idle"
  /\ UNCHANGED <<svc, push, pushes, streamVars, sizeVars, torn, payloadSize,
                 dataRef, filled, configVars>>

-----------------------------------------------------------------------------
(* The property listeners                                                  *)

Edit ==
  /\ edits < MaxEdits /\ edits' = edits + 1
  /\ torn' = (torn \/ svc = "clip")
  /\ UNCHANGED <<svc, push, pushes, streamVars, sizeVars, contextVars>>

VITA49EncapsulationChanged ==
  /\ Edit
  /\ encap' \in Encapsulations
  /\ UNCHANGED <<payloadSize, dataRef, dataFields, contextEnabled, contextOn, priority>>

\* A VITA49IFDataPacket that is not enabled is ignored.
VITA49IFDataPacketChanged ==
  /\ Edit
  /\ \E new \in DataSettings :
       dataFields' = IF new.enable THEN new.fields ELSE dataFields
  /\ UNCHANGED <<payloadSize, dataRef, encap, contextEnabled, contextOn, priority>>

\* The listener only ever switches VITAProcess.IFCPacket.enable on.
VITA49IFContextPacketChanged ==
  /\ Edit
  /\ contextEnabled' = ~contextEnabled
  /\ contextOn' = (contextOn \/ contextEnabled')
  /\ UNCHANGED <<payloadSize, dataRef, encap, dataFields, priority>>

\* Faulty variant: max_payload_size is taken as it is.
AdvancedConfigurationUnlimited ==
  /\ Edit
  /\ \E new \in Configurations :
       /\ payloadSize' = new.payload
       /\ dataRef' = IF new.endian \in Orders \ {HostOrder} THEN new.endian ELSE dataRef
       /\ priority' = new.priority
  /\ UNCHANGED <<encap, dataFields, contextEnabled, contextOn>>

AdvancedConfigurationChanged ==
  /\ Edit
  /\ \E new \in Configurations :
       /\ payloadSize' = IF new.payload >= MaxSize THEN MaxSize ELSE new.payload
       /\ dataRef' = IF new.endian \in Orders \ {HostOrder} THEN new.endian ELSE dataRef
       /\ priority' = new.priority
  /\ UNCHANGED <<encap, dataFields, contextEnabled, contextOn>>

-----------------------------------------------------------------------------
\* The steps of a service pass that has taken a push.
ServiceStep ==
  \/ SetupOutputStream \/ SkipMerge \/ MergeSameSRI
  \/ MergeFields \/ MergeKeyword \/ PushSRI
  \/ MeasurePacket \/ ClipPayload \/ AnnounceContext \/ Merged
  \/ DropUnready \/ CutPush \/ EndPush \/ RemoveStream \/ InitializeValues

ContextStep == FillContext \/ PushContext

Listeners ==
  \/ VITA49EncapsulationChanged \/ VITA49IFDataPacketChanged
  \/ VITA49IFContextPacketChanged \/ AdvancedConfigurationChanged

Next == Receive \/ ServiceStep \/ ContextStep \/ Listeners

Spec == Init /\ [][Next]_vars

-----------------------------------------------------------------------------
(* Properties                                                              *)

TypeOK ==
  /\ svc \in {"idle", "setup", "merge", "keywords", "measure", "clip", "context",
              "merged", "cut", "sent", "join"}
  /\ push \in [sri : SRI, changed : BOOLEAN, eos : BOOLEAN]
  /\ streamMap \in Text /\ waitingForSRI \in BOOLEAN
  /\ currSRI \in SRI /\ announced \in SRI
  /\ streamDef \in [valid : BOOLEAN, complexity : {0, 1}]
  /\ pf \in {0, 1} /\ difference \in Int
  /\ payloadSize \in Int /\ payloadSize <= MaxSize + 4 * SampleSize
  /\ samplesPerPacket \in Int /\ packetBytes \in Int /\ torn \in BOOLEAN
  /\ ctx \in {"idle", "push"} /\ filled \in {NotTold, 0, 1}
  /\ told \in {NotTold, 0, 1} /\ described \subseteq {0, 1}
  /\ encap \subseteq {"vrl", "crc"} /\ dataFields \subseteq Fields
  /\ contextEnabled \in BOOLEAN /\ contextOn \in BOOLEAN
  /\ dataRef \in Orders /\ priority \in {"yes", "no"}
  /\ edits \in 0 .. MaxEdits /\ pushes \in 0 .. MaxPushes

\* Data of a mode is queued only when a context packet with that mode is already
\* queued for the stream, whatever SRI changes, streams, listeners and context
\* packets of the other thread came before.
DataDescribed == svc = "sent" => push.sri.mode \in described

\* The SRI that receivers were given last names every keyword of the SRI that
\* the data came with, once and with its value - unless compareSRI() took the
\* two for the same because only the ids of keywords differ.
KeywordsAnnounced ==
  svc = "sent" =>
    /\ Distinct(announced.keywords)
    /\ \/ \A k \in {push.sri.keywords[i] : i \in 1 .. Len(push.sri.keywords)} :
            \E i \in 1 .. Len(announced.keywords) : announced.keywords[i] = k
       \/ Values(push.sri.keywords) = Values(currSRI.keywords)

\* createPayload() clips only what is too large, and by no more than needed: however
\* often the payload is clipped, for SRIs of either mode and over several streams, a
\* packet that has been clipped is less than two samples shorter than the largest
\* datagram, unless a listener changed the sizes inside createPayload().
ClippedAsNeeded ==
  svc = "context" /\ ~torn /\ difference > 0 => packetBytes > Limit - 2 * Unit

\* "UDP payload size cannot exceed 65507, this is the max UDP payload size"
\* (cpp/SinkVITA49.cpp:356): no packet that createPayload() has measured and
\* clipped is longer than that, with its header, even if no listener came between.
WithinDatagram == svc = "context" /\ ~torn => packetBytes <= Limit
=============================================================================
