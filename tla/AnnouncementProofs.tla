-------------------------- MODULE AnnouncementProofs --------------------------
(***************************************************************************)
(* Proofs about Announcement: no data is queued before its description,    *)
(* the payload is clipped by no more than needed, and keywords arrive.     *)
(***************************************************************************)
EXTENDS Announcement, TLAPS

USE SRIsAssumption, HostAssumption

-----------------------------------------------------------------------------
(* DataDescribed                                                           *)

\* Without a stream the next push will be merged, and no packet can be cut.
Fresh ==
  /\ contextOn
  /\ streamMap = NoStream /\ svc # "join" =>
       waitingForSRI /\ ~(samplesPerPacket >= 1) /\ svc \in {"idle", "setup"}
  /\ svc = "setup" => streamMap = NoStream /\ push.sri.stream # NoStream
  /\ svc = "join" => streamMap = NoStream

\* The SRI in force is that of the last push, and pf has its mode while a
\* context packet is made of it.
InForce ==
  /\ svc \in {"cut", "sent", "keywords", "measure", "clip", "context", "merged"} =>
       push.sri.mode = currSRI.mode
  /\ svc = "idle" /\ ~waitingForSRI => push.sri.mode = currSRI.mode
  /\ svc = "merge" /\ ~MustMerge => push.sri.mode = currSRI.mode
  /\ svc \in {"clip", "context"} => pf = currSRI.mode

\* As soon as packets can be cut the stream is described for the SRI in force.
Covered ==
  /\ svc = "merged" => currSRI.mode \in described
  /\ svc \in {"idle", "merge", "cut", "sent"} /\ samplesPerPacket >= 1 =>
       currSRI.mode \in described
  /\ svc = "sent" => samplesPerPacket >= 1

Describing == Fresh /\ InForce /\ Covered

LEMMA DescribingInit == Init => Describing
BY DEF Init, Describing, Fresh, InForce, Covered, DefaultSRI

LEMMA DescribingStep == Describing /\ [Next]_vars => Describing'
<1> SUFFICES ASSUME Describing, [Next]_vars PROVE Describing'
  OBVIOUS
<1> USE DEF Describing, Fresh, InForce, Covered, MustMerge, streamVars, sizeVars,
            contextVars, configVars
<1>1. CASE Receive
  BY <1>1 DEF Receive
<1>2. CASE SetupOutputStream
  BY <1>2 DEF SetupOutputStream
<1>3. CASE SkipMerge \/ MergeSameSRI
  BY <1>3 DEF SkipMerge, MergeSameSRI, SameSRI
<1>4. CASE MergeFields
  BY <1>4 DEF MergeFields
<1>12. CASE MergeKeyword
  BY <1>12 DEF MergeKeyword
<1>13. CASE PushSRI
  BY <1>13 DEF PushSRI
<1>5. CASE MeasurePacket \/ ClipPayload
  BY <1>5 DEF MeasurePacket, ClipPayload
<1>6. CASE AnnounceContext \/ Merged
  BY <1>6 DEF AnnounceContext, Merged, QueueContext
<1>7. CASE DropUnready \/ CutPush \/ EndPush \/ RemoveStream
  BY <1>7 DEF DropUnready, CutPush, EndPush, RemoveStream
<1>8. CASE InitializeValues
  BY <1>8 DEF InitializeValues
<1>9. CASE ContextStep
  BY <1>9 DEF ContextStep, FillContext, PushContext, QueueContext
<1>10. CASE Listeners
  BY <1>10 DEF Listeners, Edit, VITA49EncapsulationChanged,
       VITA49IFDataPacketChanged, VITA49IFContextPacketChanged,
       AdvancedConfigurationChanged
<1>11. CASE UNCHANGED vars
  BY <1>11 DEF vars
<1> QED
  BY <1>1, <1>2, <1>3, <1>4, <1>5, <1>6, <1>7, <1>8, <1>9, <1>10, <1>11,
     <1>12, <1>13 DEF Next, ServiceStep

\* singleService(): a data packet is never queued before a context packet of its
\* stream that has its mode, for every set of SRIs, properties and bounds.
THEOREM NoDataUndescribed == Spec => []DataDescribed
<1>1. Describing => DataDescribed
  BY DEF Describing, Fresh, InForce, Covered, DataDescribed
<1> QED
  BY <1>1, DescribingInit, DescribingStep, PTL DEF Spec

-----------------------------------------------------------------------------
(* ClippedAsNeeded                                                         *)

\* A size that is subtract_bytes below p, and the whole units it holds, do not come
\* two units below the limit.
LEMMA ClipArithmetic ==
  ASSUME NEW u \in {1, 2, 4, 8, 16}, NEW p \in Int, NEW over \in Int,
         NEW d \in Int, d = over + p - Limit,
         NEW q \in Int,
         q = p - (IF d > 0 THEN (d - u - 1) - ((d - 1) % u) ELSE 0)
  PROVE  d > 0 => over + (q \div u) * u > Limit - 2 * u
<1>1. CASE u = 1
  BY <1>1, SMTT(30) DEF Limit
<1>2. CASE u = 2
  BY <1>2, SMTT(30) DEF Limit
<1>3. CASE u = 4
  BY <1>3, SMTT(30) DEF Limit
<1>4. CASE u = 8
  BY <1>4, SMTT(30) DEF Limit
<1>5. CASE u = 16
  BY <1>5, SMTT(30) DEF Limit
<1> QED
  BY <1>1, <1>2, <1>3, <1>4, <1>5

\* What subtract_bytes comes to is an integer.
LEMMA ClipIsInteger ==
  ASSUME NEW u \in {1, 2, 4, 8, 16}, NEW d \in Int
  PROVE  (IF d > 0 THEN (d - u - 1) - ((d - 1) % u) ELSE 0) \in Int
<1>1. (d - 1) % u \in Int
  <2>1. CASE u = 1
    BY <2>1
  <2>2. CASE u = 2
    BY <2>2
  <2>3. CASE u = 4
    BY <2>3
  <2>4. CASE u = 8
    BY <2>4
  <2>5. CASE u = 16
    BY <2>5
  <2> QED
    BY <2>1, <2>2, <2>3, <2>4, <2>5
<1> QED
  BY <1>1

LEMMA OverheadIsInteger == Overhead \in Int
BY DEF Overhead, Part

\* The types the arithmetic needs, and that what createPayload() has measured
\* is still so when it clips, unless a listener came between.
Sized ==
  /\ push.sri.mode \in {0, 1} /\ currSRI.mode \in {0, 1}
  /\ difference \in Int /\ payloadSize \in Int
  /\ svc = "clip" /\ ~torn => difference = Overhead + payloadSize - Limit

Clipping == Sized /\ ClippedAsNeeded

LEMMA UnitIsPower ==
  ASSUME currSRI.mode \in {0, 1} PROVE Unit \in {1, 2, 4, 8, 16}
<1>1. CASE currSRI.mode = 0
  BY <1>1 DEF Unit
<1>2. CASE currSRI.mode = 1
  BY <1>2 DEF Unit
<1> QED
  BY <1>1, <1>2

LEMMA ClippingInit == Init => Clipping
BY DEF Init, Clipping, Sized, ClippedAsNeeded, DefaultSRI

LEMMA ClippingStep == Clipping /\ [Next]_vars => Clipping'
<1> SUFFICES ASSUME Clipping, [Next]_vars PROVE Clipping'
  OBVIOUS
<1> USE DEF Clipping, Sized, ClippedAsNeeded, streamVars, sizeVars, contextVars,
            configVars
<1>1. CASE ClipPayload
  <2>1. Unit \in {1, 2, 4, 8, 16} /\ Overhead \in Int
    BY UnitIsPower, OverheadIsInteger
  <2>2. PICK u \in {1, 2, 4, 8, 16}, o \in Int : u = Unit /\ o = Overhead
    BY <2>1
  <2>3. PICK q \in Int :
          q = payloadSize - (IF difference > 0
                             THEN (difference - u - 1) - ((difference - 1) % u) ELSE 0)
    BY ClipIsInteger
  <2>4. /\ payloadSize' = q /\ Unit' = u /\ difference' = difference
        /\ packetBytes' = o + (q \div u) * u
    BY <1>1, <2>2, <2>3 DEF ClipPayload, SubtractBytes, Unit
  <2>5. ~torn /\ difference > 0 => o + (q \div u) * u > Limit - 2 * u
    <3> SUFFICES ASSUME ~torn, difference > 0
                 PROVE  o + (q \div u) * u > Limit - 2 * u
      OBVIOUS
    <3>1. difference = o + payloadSize - Limit
      BY <1>1, <2>2 DEF ClipPayload
    <3> QED
      BY <3>1, <2>3, ClipArithmetic
  <2>6. ClippedAsNeeded'
    BY <1>1, <2>4, <2>5 DEF ClipPayload
  <2> QED
    BY <1>1, <2>4, <2>6 DEF ClipPayload
<1>2. CASE MeasurePacket
  BY <1>2, OverheadIsInteger DEF MeasurePacket, Overhead, Limit
<1>3. CASE Receive
  BY <1>3 DEF Receive, SRI
<1>4. CASE SetupOutputStream
  BY <1>4 DEF SetupOutputStream
<1>5. CASE SkipMerge \/ MergeSameSRI \/ AnnounceContext \/ Merged
  BY <1>5 DEF SkipMerge, MergeSameSRI, AnnounceContext, Merged
<1>6. CASE MergeFields
  BY <1>6 DEF MergeFields
<1>12. CASE MergeKeyword
  BY <1>12 DEF MergeKeyword
<1>13. CASE PushSRI
  BY <1>13 DEF PushSRI
<1>7. CASE DropUnready \/ CutPush \/ EndPush \/ RemoveStream
  BY <1>7 DEF DropUnready, CutPush, EndPush, RemoveStream
<1>8. CASE InitializeValues
  BY <1>8 DEF InitializeValues
<1>9. CASE ContextStep
  BY <1>9 DEF ContextStep, FillContext, PushContext, Overhead, Unit
<1>10. CASE Listeners
  <2>1. payloadSize' \in Int
    BY <1>10, PropertiesAssumption DEF Listeners, VITA49EncapsulationChanged,
       VITA49IFDataPacketChanged, VITA49IFContextPacketChanged,
       AdvancedConfigurationChanged, MaxSize
  <2>2. Edit
    BY <1>10 DEF Listeners, VITA49EncapsulationChanged, VITA49IFDataPacketChanged,
       VITA49IFContextPacketChanged, AdvancedConfigurationChanged
  <2> QED
    BY <2>1, <2>2 DEF Edit, Unit
<1>11. CASE UNCHANGED vars
  BY <1>11 DEF vars, Unit, Overhead
<1> QED
  BY <1>1, <1>2, <1>3, <1>4, <1>5, <1>6, <1>7, <1>8, <1>9, <1>10, <1>11,
     <1>12, <1>13 DEF Next, ServiceStep

\* createPayload(): clipped again and again, for SRIs of either mode and over any
\* number of streams, packets never become two samples shorter than the largest
\* datagram, for every sample size and all property values, unless a listener runs
\* inside it.
THEOREM ClipsNoMore == Spec => []ClippedAsNeeded
<1>1. Clipping => ClippedAsNeeded
  BY DEF Clipping
<1> QED
  BY <1>1, ClippingInit, ClippingStep, PTL DEF Spec

-----------------------------------------------------------------------------
(* TypeOK                                                                  *)

\* addModifyKeyword() makes a keyword list no shorter, and puts the keyword in.
LEMMA WithKeyword ==
  ASSUME NEW ks \in Keywords, NEW k \in KeywordType
  PROVE  /\ With(ks, k) \in Keywords
         /\ Len(With(ks, k)) >= Len(ks)
         /\ \E j \in 1 .. Len(With(ks, k)) : With(ks, k)[j] = k
<1> DEFINE w == With(ks, k)
<1> USE DEF Keywords
<1>1. CASE k.id \in Ids(ks)
  <2>1. w = [i \in 1 .. Len(ks) |-> IF ks[i].id = k.id THEN k ELSE ks[i]]
    BY <1>1 DEF With
  <2>2. w \in Keywords /\ Len(w) = Len(ks)
    BY <2>1
  <2>3. PICK n \in 1 .. Len(ks) : ks[n].id = k.id
    BY <1>1 DEF Ids
  <2>4. w[n] = k
    BY <2>1, <2>3
  <2> QED
    BY <2>2, <2>3, <2>4
<1>2. CASE k.id \notin Ids(ks)
  <2>1. w = Append(ks, k)
    BY <1>2 DEF With
  <2> QED
    BY <2>1
<1> QED
  BY <1>1, <1>2

\* It keeps a list one that names each id once.
LEMMA WithDistinct ==
  ASSUME NEW ks \in Keywords, Distinct(ks), NEW k \in KeywordType
  PROVE  Distinct(With(ks, k))
<1> DEFINE w == With(ks, k)
<1> USE DEF Keywords
<1>1. CASE k.id \in Ids(ks)
  <2>1. w = [i \in 1 .. Len(ks) |-> IF ks[i].id = k.id THEN k ELSE ks[i]]
    BY <1>1 DEF With
  <2>2. Len(w) = Len(ks) /\ \A i \in 1 .. Len(ks) : w[i].id = ks[i].id
    BY <2>1
  <2> QED
    BY <2>2 DEF Distinct
<1>2. CASE k.id \notin Ids(ks)
  <2>1. w = Append(ks, k)
    BY <1>2 DEF With
  <2>2. /\ Len(w) = Len(ks) + 1 /\ w[Len(ks) + 1] = k
        /\ \A i \in 1 .. Len(ks) : w[i] = ks[i]
    BY <2>1
  <2>3. \A i \in 1 .. Len(ks) : ks[i].id # k.id
    BY <1>2 DEF Ids
  <2> QED
    BY <2>2, <2>3 DEF Distinct
<1> QED
  BY <1>1, <1>2

\* A size clipped with what was measured of it, or changed by a listener since,
\* is at most two samples above the largest that can be configured.
LEMMA ClipBound ==
  ASSUME NEW u \in {1, 2, 4, 8, 16}, NEW max \in Int, u <= max,
         NEW d \in Int, NEW p \in Int, p <= MaxSize + 2 * max,
         p <= MaxSize \/ d >= p - MaxSize
  PROVE  p - (IF d > 0 THEN (d - u - 1) - ((d - 1) % u) ELSE 0) <= MaxSize + 2 * max
<1>1. CASE u = 1
  BY <1>1, SMTT(30) DEF MaxSize
<1>2. CASE u = 2
  BY <1>2, SMTT(30) DEF MaxSize
<1>3. CASE u = 4
  BY <1>3, SMTT(30) DEF MaxSize
<1>4. CASE u = 8
  BY <1>4, SMTT(30) DEF MaxSize
<1>5. CASE u = 16
  BY <1>5, SMTT(30) DEF MaxSize
<1> QED
  BY <1>1, <1>2, <1>3, <1>4, <1>5

\* What createPayload() has measured is enough for the size it clips, and a packet
\* of the context thread has a format.
Typed ==
  /\ TypeOK
  /\ ctx = "push" => filled \in {0, 1}
  /\ svc = "clip" => payloadSize <= MaxSize \/ difference >= payloadSize - MaxSize

LEMMA TypedInit == Init => Typed
<1>1. DefaultSRI \in SRI
  <2>1. <<>> \in Keywords
    BY DEF Keywords
  <2> QED
    BY <2>1, TextAssumption DEF DefaultSRI, SRI
<1>2. ASSUME Init PROVE TypeOK
  <2>1. push \in [sri : SRI, changed : BOOLEAN, eos : BOOLEAN]
    BY <1>1, <1>2 DEF Init
  <2>2. streamDef \in [valid : BOOLEAN, complexity : {0, 1}]
    BY <1>2 DEF Init
  <2>3. /\ payloadSize \in Int /\ payloadSize <= MaxSize + 4 * SampleSize
        /\ difference \in Int /\ samplesPerPacket \in Int /\ packetBytes \in Int
        /\ edits \in 0 .. MaxEdits /\ pushes \in 0 .. MaxPushes
    BY <1>2, BoundsAssumption DEF Init, MaxSize
  <2>4. /\ streamMap \in Text /\ currSRI \in SRI /\ announced \in SRI
        /\ encap \subseteq {"vrl", "crc"} /\ dataFields \subseteq Fields
    BY <1>1, <1>2, TextAssumption DEF Init, Fields
  <2> QED
    BY <1>2, <2>1, <2>2, <2>3, <2>4 DEF Init, TypeOK, NotTold
<1> QED
  BY <1>2 DEF Init, Typed

LEMMA OverheadIsLeast == Overhead \in Int /\ Overhead >= 12
BY DEF Overhead, Part

LEMMA TypedClip ==
  ASSUME Typed, ClipPayload
  PROVE  Typed'
<1>1. currSRI.mode \in {0, 1} /\ difference \in Int /\ payloadSize \in Int
  BY DEF Typed, TypeOK, SRI
<1>2. PICK u \in {1, 2, 4, 8, 16} : u = Unit
  BY <1>1, UnitIsPower
<1>3. u <= 2 * SampleSize
  BY <1>1, <1>2 DEF Unit
<1>4. PICK q \in Int :
        q = payloadSize - (IF difference > 0
                           THEN (difference - u - 1) - ((difference - 1) % u) ELSE 0)
  BY <1>1, ClipIsInteger
<1>5. payloadSize' = q
  BY <1>2, <1>4 DEF ClipPayload, SubtractBytes
<1>6. q <= MaxSize + 4 * SampleSize
  <2>1. payloadSize <= MaxSize \/ difference >= payloadSize - MaxSize
    BY DEF Typed, ClipPayload
  <2>2. PICK max \in Int : max = 2 * SampleSize
    OBVIOUS
  <2>3. payloadSize <= MaxSize + 2 * max /\ u <= max
    BY <1>3, <2>2 DEF Typed, TypeOK
  <2>4. q <= MaxSize + 2 * max
    BY <1>1, <1>4, <2>1, <2>3, ClipBound
  <2> QED
    BY <2>2, <2>4, <1>4 DEF MaxSize
<1>7. samplesPerPacket' \in Int
  BY <1>2, <1>5 DEF ClipPayload
<1>8. packetBytes' \in Int
  <2>1. packetBytes' = Overhead + samplesPerPacket' * u
    BY <1>2 DEF ClipPayload
  <2> QED
    BY <2>1, <1>7, OverheadIsLeast
<1> QED
  BY <1>5, <1>6, <1>7, <1>8 DEF Typed, TypeOK, ClipPayload, streamVars, contextVars,
     configVars

Labels == {"idle", "setup", "merge", "keywords", "measure", "clip", "context",
           "merged", "cut", "sent", "join"}

\* A step that only moves a thread on, or queues a context packet.
LEMMA TypedMove ==
  ASSUME Typed,
         svc' \in Labels, svc' = "clip" => svc = "clip",
         waitingForSRI' \in BOOLEAN, streamMap' \in Text,
         ctx' \in {"idle", "push"}, filled' \in {NotTold, 0, 1},
         ctx' = "push" => filled' \in {0, 1},
         told' \in {NotTold, 0, 1}, described' \subseteq {0, 1},
         UNCHANGED <<push, pushes, currSRI, announced, streamDef, sizeVars, torn,
                     payloadSize, dataRef, configVars>>
  PROVE  Typed'
BY DEF Typed, TypeOK, Labels, sizeVars, configVars

LEMMA TypedService ==
  ASSUME Typed, ServiceStep
  PROVE  Typed'
<1> USE DEF Typed, TypeOK, streamVars, sizeVars, contextVars, configVars
<1>1. CASE SkipMerge \/ MergeSameSRI \/ Merged \/ DropUnready \/ CutPush \/ EndPush
  <2>1. /\ svc' \in {"cut", "idle", "sent"} /\ waitingForSRI' \in BOOLEAN
        /\ UNCHANGED <<push, pushes, streamMap, currSRI, announced, streamDef,
                       sizeVars, torn, payloadSize, dataRef, contextVars, configVars>>
    BY <1>1 DEF SkipMerge, MergeSameSRI, Merged, DropUnready, CutPush, EndPush
  <2> QED
    BY <2>1, TypedMove DEF Labels
<1>2. CASE AnnounceContext
  <2>1. told' = pf /\ described' = described \union {pf} /\ svc' = "merged"
    BY <1>2 DEF AnnounceContext, QueueContext
  <2> QED
    BY <1>2, <2>1, TypedMove DEF AnnounceContext, Labels
<1>3. CASE RemoveStream
  <2>1. streamMap' \in Text /\ svc' = "join"
    BY <1>3, TextAssumption DEF RemoveStream
  <2> QED
    BY <1>3, <2>1, TypedMove DEF RemoveStream, Labels
<1>4. CASE SetupOutputStream
  <2>1. /\ Keyword("dataRef", dataRef) \in KeywordType
        /\ Keyword("BULKIO_SRI_PRIORITY", priority) \in KeywordType
    BY TextAssumption DEF Keyword, KeywordType
  <2>2. currSRI' \in SRI
    BY <1>4, <2>1, WithKeyword DEF SetupOutputStream, SRI
  <2>3. streamDef' \in [valid : BOOLEAN, complexity : {0, 1}]
    BY <1>4 DEF SetupOutputStream, InitStreamDef, SRI
  <2> QED
    BY <1>4, <2>2, <2>3 DEF SetupOutputStream, SRI
<1>5. CASE MergeFields
  BY <1>5 DEF MergeFields, SRI
<1>6. CASE MergeKeyword
  <2>1. PICK i \in Unmerged :
          currSRI' = [currSRI EXCEPT !.keywords = With(@, push.sri.keywords[i])]
    BY <1>6 DEF MergeKeyword
  <2>2. push.sri.keywords[i] \in KeywordType
    BY <2>1 DEF Unmerged, SRI, Keywords
  <2>3. currSRI' \in SRI
    BY <2>1, <2>2, WithKeyword DEF SRI
  <2> QED
    BY <1>6, <2>3 DEF MergeKeyword
<1>7. CASE PushSRI
  BY <1>7 DEF PushSRI
<1>8. CASE MeasurePacket
  <2>1. difference' = Overhead + payloadSize - Limit
    BY <1>8 DEF MeasurePacket
  <2>2. difference' \in Int /\ difference' >= payloadSize - MaxSize
    BY <2>1, OverheadIsLeast DEF Limit, MaxSize
  <2>3. /\ pf' \in {0, 1} /\ torn' \in BOOLEAN /\ svc' = "clip"
        /\ UNCHANGED <<push, pushes, streamVars, samplesPerPacket, packetBytes,
                       payloadSize, dataRef, contextVars, configVars>>
    BY <1>8 DEF MeasurePacket, SRI
  <2>4. TypeOK'
    BY <2>2, <2>3
  <2> QED
    BY <2>2, <2>3, <2>4
<1>9. CASE ClipPayload
  BY <1>9, TypedClip
<1>10. CASE InitializeValues
  BY <1>10 DEF InitializeValues, MaxSize
<1> QED
  BY <1>1, <1>2, <1>3, <1>4, <1>5, <1>6, <1>7, <1>8, <1>9, <1>10 DEF ServiceStep

LEMMA TypedStep == Typed /\ [Next]_vars => Typed'
<1> SUFFICES ASSUME Typed, [Next]_vars PROVE Typed'
  OBVIOUS
<1> USE DEF Typed, TypeOK, streamVars, sizeVars, contextVars, configVars
<1>1. CASE Receive
  BY <1>1, BoundsAssumption DEF Receive
<1>2. CASE ServiceStep
  BY <1>2, TypedService
<1>3. CASE FillContext
  BY <1>3, TypedMove DEF FillContext, Labels
<1>4. CASE PushContext
  <2>1. told' \in {NotTold, 0, 1} /\ described' \subseteq {0, 1}
    BY <1>4 DEF PushContext, QueueContext
  <2> QED
    BY <1>4, <2>1, TypedMove DEF PushContext, Labels
<1>5. CASE Listeners
  <2>1. Edit /\ edits' \in 0 .. MaxEdits
    BY <1>5, BoundsAssumption DEF Listeners, VITA49EncapsulationChanged,
       VITA49IFDataPacketChanged, VITA49IFContextPacketChanged,
       AdvancedConfigurationChanged, Edit
  <2>2. CASE AdvancedConfigurationChanged
    <3>1. payloadSize' \in Int /\ payloadSize' <= MaxSize
      BY <2>2, PropertiesAssumption DEF AdvancedConfigurationChanged, MaxSize
    <3>2. dataRef' \in Orders /\ priority' \in {"yes", "no"}
      BY <2>2, PropertiesAssumption DEF AdvancedConfigurationChanged
    <3> QED
      BY <2>1, <2>2, <3>1, <3>2 DEF AdvancedConfigurationChanged, Edit
  <2>3. CASE VITA49EncapsulationChanged
    BY <2>1, <2>3, PropertiesAssumption DEF VITA49EncapsulationChanged, Edit
  <2>4. CASE VITA49IFDataPacketChanged
    BY <2>1, <2>4, PropertiesAssumption DEF VITA49IFDataPacketChanged, Edit
  <2>5. CASE VITA49IFContextPacketChanged
    BY <2>1, <2>5 DEF VITA49IFContextPacketChanged, Edit
  <2> QED
    BY <1>5, <2>2, <2>3, <2>4, <2>5 DEF Listeners
<1>6. CASE UNCHANGED vars
  BY <1>6 DEF vars
<1> QED
  BY <1>1, <1>2, <1>3, <1>4, <1>5, <1>6 DEF Next, ContextStep

\* Every variable stays in its range; vita49_payload_size, which createPayload()
\* clips again and again and the listener changes at any time, may pass the
\* largest configurable size, but by no more than two samples.
THEOREM AnnouncementTypes == Spec => []TypeOK
<1>1. Typed => TypeOK
  BY DEF Typed
<1> QED
  BY <1>1, TypedInit, TypedStep, PTL DEF Spec

-----------------------------------------------------------------------------
(* KeywordsAnnounced                                                       *)

\* Every keyword of keywords is one of all, with its value.
Includes(all, keywords) ==
  \A i \in 1 .. Len(keywords) : \E j \in 1 .. Len(all) : all[j] = keywords[i]

\* compareSRI() compares values, so an SRI it finds equal may have other ids.
Known ==
  \/ Includes(announced.keywords, push.sri.keywords)
  \/ Values(push.sri.keywords) = Values(currSRI.keywords)

\* From pushSRI() on receivers know what is in force, and between two pushes of a
\* stream they still know what the last one came with.
Announcing ==
  /\ \A sri \in {push.sri, currSRI, announced} : Distinct(sri.keywords)
  /\ svc \in {"measure", "clip", "context", "merged"} =>
       announced = currSRI /\ Includes(announced.keywords, push.sri.keywords)
  /\ \/ svc \in {"cut", "sent"}
     \/ svc = "idle" /\ ~waitingForSRI
     \/ svc = "merge" /\ ~MustMerge
     => Known

LEMMA AnnouncingInit == Init => Announcing
<1>1. Distinct(<<>>)
  BY DEF Distinct
<1> QED
  BY <1>1 DEF Init, Announcing, DefaultSRI

\* The keywords are merged once every one of them has been found or put there.
LEMMA AllMerged ==
  ASSUME push.sri.keywords \in Keywords, currSRI.keywords \in Keywords
  PROVE  Unmerged = {} => Includes(currSRI.keywords, push.sri.keywords)
  BY DEF Unmerged, Includes

LEMMA AnnouncingStep ==
  ASSUME TypeOK, Describing, Announcing, [Next]_vars
  PROVE  Announcing'
<1> USE DEF Announcing, Known, streamVars, sizeVars, contextVars, configVars
<1>1. /\ push.sri.keywords \in Keywords /\ currSRI.keywords \in Keywords
      /\ \A sri \in SRIs : Distinct(sri.keywords)
  BY DEF TypeOK, SRI
<1>2. CASE Receive
  BY <1>1, <1>2 DEF Receive, MustMerge
<1>3. CASE SetupOutputStream
  <2>1. waitingForSRI /\ svc' = "merge" /\ UNCHANGED <<push, announced, waitingForSRI>>
    BY <1>3 DEF Describing, Fresh, SetupOutputStream
  <2>2. /\ Keyword("dataRef", dataRef) \in KeywordType
        /\ Keyword("BULKIO_SRI_PRIORITY", priority) \in KeywordType
    BY TextAssumption DEF Keyword, KeywordType, TypeOK
  <2>3. Distinct(currSRI'.keywords)
    BY <1>1, <1>3, <2>2, WithKeyword, WithDistinct DEF SetupOutputStream, TypeOK, SRI
  <2> QED
    BY <2>1, <2>3 DEF MustMerge
<1>4. CASE SkipMerge \/ MergeSameSRI
  BY <1>4 DEF SkipMerge, MergeSameSRI, SameSRI
<1>5. CASE MergeFields
  BY <1>1, <1>5 DEF MergeFields, TypeOK, SRI
<1>6. CASE MergeKeyword
  <2>1. PICK i \in Unmerged :
          currSRI' = [currSRI EXCEPT !.keywords = With(@, push.sri.keywords[i])]
    BY <1>6 DEF MergeKeyword
  <2>2. push.sri.keywords[i] \in KeywordType
    BY <1>1, <2>1 DEF Unmerged, Keywords
  <2>3. Distinct(currSRI'.keywords)
    BY <1>1, <2>1, <2>2, WithDistinct DEF TypeOK, SRI
  <2> QED
    BY <1>6, <2>3 DEF MergeKeyword
<1>7. CASE PushSRI
  BY <1>1, <1>7, AllMerged DEF PushSRI
<1>8. CASE MeasurePacket \/ ClipPayload \/ AnnounceContext \/ Merged
  BY <1>8 DEF MeasurePacket, ClipPayload, AnnounceContext, Merged
<1>9. CASE DropUnready \/ CutPush \/ EndPush \/ RemoveStream \/ InitializeValues
  BY <1>9 DEF DropUnready, CutPush, EndPush, RemoveStream, InitializeValues
<1>10. CASE ContextStep
  BY <1>10 DEF ContextStep, FillContext, PushContext, MustMerge
<1>11. CASE Listeners
  <2>1. UNCHANGED <<svc, push, streamVars>>
    BY <1>11 DEF Listeners, Edit, VITA49EncapsulationChanged,
       VITA49IFDataPacketChanged, VITA49IFContextPacketChanged,
       AdvancedConfigurationChanged
  <2> QED
    BY <2>1 DEF MustMerge
<1>12. CASE UNCHANGED vars
  BY <1>12 DEF vars, MustMerge
<1> QED
  BY <1>2, <1>3, <1>4, <1>5, <1>6, <1>7, <1>8, <1>9, <1>10, <1>11, <1>12
  DEF Next, ServiceStep

LEMMA AlwaysAnnouncing == Spec => [](TypeOK /\ Describing /\ Announcing)
<1>1. Spec => []TypeOK
  BY AnnouncementTypes
<1>2. Spec => []Describing
  BY DescribingInit, DescribingStep, PTL DEF Spec
<1> QED
  BY <1>1, <1>2, AnnouncingInit, AnnouncingStep, PTL DEF Spec

\* mergeRecSRI() and addModifyKeyword(): whatever keyword lists streams come with,
\* and whatever a listener changes meanwhile, receivers have been given every
\* keyword of the SRI that data came with, unless compareSRI() missed it.
THEOREM KeywordsReachReceivers == Spec => []KeywordsAnnounced
<1>1. Announcing => KeywordsAnnounced
  BY DEF Announcing, Known, Includes, KeywordsAnnounced
<1> QED
  BY <1>1, AlwaysAnnouncing, PTL
=============================================================================
