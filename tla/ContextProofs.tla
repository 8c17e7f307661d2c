----------------------------- MODULE ContextProofs -----------------------------
(***************************************************************************)
(* ContextPackets implements Announcement, so that what is proved in       *)
(* AnnouncementProofs holds with the fields of context packets as well.    *)
(***************************************************************************)
EXTENDS ContextPackets, AnnouncementProofs

\* Every step of ContextPackets is one of Announcement.
LEMMA ContextPacketStep == [ContextNext]_allVars => [Next]_vars
  BY DEF ContextNext, DescribedService, DescribedSetup, DescribedClip,
     FillNext, DescribedAnnounce, DescribedInitialize, OtherServiceStep, TimerStep,
     BeginPacket, ReadNext, QueuePacket, DescribedIFContextPacketChanged,
     OtherListener, allVars, Next, ServiceStep, ContextStep, Listeners

\* Reading keywords one by one takes nothing away from the threads:
\* ContextPackets implements Announcement.
THEOREM ContextRefines == ContextSpec => Spec
<1>1. ContextInit => Init
  BY DEF ContextInit
<1> QED
  BY <1>1, ContextPacketStep, PTL DEF ContextSpec, Spec

-----------------------------------------------------------------------------
(* ContextTypeOK                                                           *)

\* A packet under work: the loop counter is within the number of keywords that
\* was read, and fields are those of context keywords.
PacketOK(packet) ==
  /\ packet.size \in Nat /\ packet.next \in 1 .. packet.size + 1
  /\ DOMAIN packet.read.fields \subseteq DOMAIN Register

LEMMA BegunOK ==
  ASSUME NEW keywords \in Keywords
  PROVE  PacketOK(Begun(keywords))
BY DEF PacketOK, Begun, Unread, NoFields, Keywords

LEMMA TurnedOK ==
  ASSUME NEW keywords, NEW packet, PacketOK(packet), ~Done(packet)
  PROVE  /\ PacketOK(Turned(packet, keywords))
         /\ Turned(packet, keywords).next = packet.next + 1
         /\ Turned(packet, keywords).size = packet.size
         /\ Turned(packet, keywords).read = ReadKeyword(keywords[packet.next], packet.read)
<1>1. DOMAIN ReadKeyword(keywords[packet.next], packet.read).fields \subseteq DOMAIN Register
  BY DEF ReadKeyword, IsContext, PacketOK
<1> QED
  BY <1>1 DEF PacketOK, Turned, Done

\* The context thread may read on while keywords are merged, because the list only
\* gets longer.
ContextTyped ==
  /\ classIdentifier \in Classes \union {DEFAULT} /\ standardClass \in Classes
  /\ announcedClass \in Classes
  /\ DOMAIN toldFields \subseteq DOMAIN Register
  /\ DOMAIN announcedFields \subseteq DOMAIN Register
  /\ PacketOK(filling) /\ PacketOK(reading)
  /\ ctx = "push" => reading.size <= Len(currSRI.keywords)

LEMMA EmptyPacketOK == PacketOK(Begun(<<>>))
<1>1. <<>> \in Keywords
  BY DEF Keywords
<1> QED
  BY <1>1, BegunOK

LEMMA ContextTypedInit == ContextInit => ContextTyped
  BY EmptyPacketOK DEF ContextInit, Init, ContextTyped, Classes, NoClass, DEFAULT, NoFields

LEMMA ListGrows ==
  ASSUME TypeOK, TypeOK', [Next]_vars
  PROVE  Len(currSRI'.keywords) >= Len(currSRI.keywords)
<1>1. currSRI.keywords \in Keywords /\ push.sri.keywords \in Keywords
  BY DEF TypeOK, SRI
<1>2. CASE SetupOutputStream
  <2>1. /\ Keyword("dataRef", dataRef) \in KeywordType
        /\ Keyword("BULKIO_SRI_PRIORITY", priority) \in KeywordType
    BY TextAssumption DEF Keyword, KeywordType, TypeOK
  <2>2. PICK ks \in Keywords : ks = With(currSRI.keywords, Keyword("dataRef", dataRef))
    BY <1>1, <2>1, WithKeyword
  <2>3. Len(ks) >= Len(currSRI.keywords)
    BY <1>1, <2>1, <2>2, WithKeyword
  <2>4. Len(With(ks, Keyword("BULKIO_SRI_PRIORITY", priority))) >= Len(ks)
    BY <2>1, WithKeyword
  <2>5. currSRI'.keywords = With(ks, Keyword("BULKIO_SRI_PRIORITY", priority))
    BY <1>2, <2>2 DEF SetupOutputStream, TypeOK, SRI
  <2> QED
    BY <1>1, <2>3, <2>4, <2>5 DEF TypeOK, SRI, Keywords
<1>3. CASE MergeKeyword
  <2>1. PICK i \in Unmerged :
          currSRI' = [currSRI EXCEPT !.keywords = With(@, push.sri.keywords[i])]
    BY <1>3 DEF MergeKeyword
  <2>2. push.sri.keywords[i] \in KeywordType
    BY <1>1, <2>1 DEF Unmerged, Keywords
  <2> QED
    BY <1>1, <2>1, <2>2, WithKeyword DEF TypeOK, SRI
<1>4. CASE MergeFields
  BY <1>1, <1>4 DEF MergeFields, TypeOK, SRI, Keywords
<1>5. ASSUME UNCHANGED currSRI PROVE Len(currSRI'.keywords) >= Len(currSRI.keywords)
  BY <1>1, <1>5 DEF Keywords
<1>6. CASE UNCHANGED vars
  BY <1>5, <1>6 DEF vars, streamVars
<1>7. CASE Listeners \/ ContextStep \/ Receive
  BY <1>5, <1>7 DEF Listeners, VITA49EncapsulationChanged, VITA49IFDataPacketChanged,
     VITA49IFContextPacketChanged, AdvancedConfigurationChanged, Edit, ContextStep,
     FillContext, PushContext, Receive, streamVars
<1>8. CASE \/ SkipMerge \/ MergeSameSRI \/ PushSRI \/ MeasurePacket \/ ClipPayload
           \/ AnnounceContext \/ Merged \/ DropUnready \/ CutPush \/ EndPush
           \/ RemoveStream \/ InitializeValues
  BY <1>5, <1>8 DEF SkipMerge, MergeSameSRI, PushSRI, MeasurePacket, ClipPayload,
     AnnounceContext, Merged, DropUnready, CutPush, EndPush, RemoveStream,
     InitializeValues, streamVars
<1> QED
  BY <1>2, <1>3, <1>4, <1>6, <1>7, <1>8 DEF Next, ServiceStep

LEMMA ContextTypedStep ==
  ASSUME TypeOK, TypeOK', ContextTyped, [ContextNext]_allVars
  PROVE  ContextTyped'
<1>1. Len(currSRI'.keywords) >= Len(currSRI.keywords)
  BY ListGrows, ContextPacketStep
<1>2. /\ currSRI.keywords \in Keywords /\ Len(currSRI.keywords) \in Nat
      /\ Len(currSRI'.keywords) \in Nat /\ pf \in Classes
  BY DEF TypeOK, SRI, Keywords, Classes
<1>3. /\ PacketOK(Begun(currSRI.keywords)) /\ PacketOK(Begun(<<>>))
      /\ Begun(currSRI.keywords).size = Len(currSRI.keywords)
  BY <1>2, BegunOK, EmptyPacketOK DEF Begun
<1>4. /\ filling.size \in Nat /\ DOMAIN filling.read.fields \subseteq DOMAIN Register
      /\ reading.size \in Nat /\ DOMAIN reading.read.fields \subseteq DOMAIN Register
  BY DEF ContextTyped, PacketOK
<1>5. ClassID \in Classes \/ ClassID = classIdentifier
  BY DEF ContextTyped, ClassID
<1> USE DEF ContextTyped
<1>6. CASE DescribedSetup
  BY <1>1, <1>2, <1>4, <1>6 DEF DescribedSetup, SetupOutputStream, NoFields, NoClass,
     Classes
<1>7. CASE DescribedClip
  BY <1>1, <1>2, <1>3, <1>4, <1>7 DEF DescribedClip, ClipPayload, contextVars, streamVars
<1>8. CASE FillNext
  BY <1>1, <1>2, <1>4, <1>8, TurnedOK DEF FillNext, vars, contextVars, streamVars
<1>9. CASE DescribedAnnounce
  BY <1>1, <1>2, <1>3, <1>4, <1>5, <1>9 DEF DescribedAnnounce, AnnounceContext, ClassID,
     streamVars
<1>10. CASE DescribedInitialize
  BY <1>1, <1>2, <1>4, <1>10 DEF DescribedInitialize, InitializeValues, NoClass, Classes,
     contextVars
<1>11. CASE BeginPacket
  BY <1>1, <1>2, <1>3, <1>4, <1>5, <1>11 DEF BeginPacket, FillContext, ClassID, streamVars
<1>12. CASE ReadNext
  BY <1>1, <1>2, <1>4, <1>12, TurnedOK DEF ReadNext, vars, contextVars, streamVars
<1>13. CASE QueuePacket
  BY <1>1, <1>2, <1>3, <1>4, <1>13 DEF QueuePacket, PushContext, streamVars
<1>14. CASE DescribedIFContextPacketChanged
  BY <1>1, <1>2, <1>4, <1>14 DEF DescribedIFContextPacketChanged,
     VITA49IFContextPacketChanged, Edit, contextVars, streamVars
<1>15. ASSUME UNCHANGED packetVars, UNCHANGED ctx PROVE ContextTyped'
  BY <1>1, <1>2, <1>4, <1>15 DEF packetVars
<1>16. CASE OtherServiceStep /\ UNCHANGED packetVars
  BY <1>15, <1>16 DEF OtherServiceStep, SkipMerge, MergeSameSRI, MergeFields, MergeKeyword,
     PushSRI, MeasurePacket, Merged, DropUnready, CutPush, EndPush, RemoveStream, contextVars
<1>17. CASE (Receive \/ OtherListener) /\ UNCHANGED packetVars
  BY <1>15, <1>17 DEF Receive, OtherListener, VITA49EncapsulationChanged,
     VITA49IFDataPacketChanged, AdvancedConfigurationChanged, Edit, contextVars
<1>18. CASE UNCHANGED allVars
  BY <1>15, <1>18 DEF allVars, vars, contextVars
<1> QED
  BY <1>6, <1>7, <1>8, <1>9, <1>10, <1>11, <1>12, <1>13, <1>14, <1>16, <1>17, <1>18
  DEF ContextNext, DescribedService, TimerStep

\* createIFContextPacket() in two threads: neither reads past the keywords there
\* are, though mergeRecSRI() changes their number under the context thread, and
\* only context keywords become fields.
THEOREM ContextTypes == ContextSpec => []ContextTypeOK
<1>1. ContextTyped => ContextTypeOK
  BY DEF ContextTyped, ContextTypeOK, PacketOK
<1>2. ContextSpec => []TypeOK
  BY ContextRefines, AnnouncementTypes, PTL
<1> QED
  BY <1>1, <1>2, ContextTypedInit, ContextTypedStep, PTL DEF ContextSpec

-----------------------------------------------------------------------------
(* SRIDescribed                                                            *)

\* The first n keywords are among the fields, as Shows says.
Shown(fields, keywords, n) ==
  \A i \in 1 .. n :
    IsContext(keywords[i]) /\ keywords[i] \notin Mistyped =>
      keywords[i].id \in DOMAIN fields /\ fields[keywords[i].id] = keywords[i].value

\* One turn of the loop adds its keyword, and overwrites no other because each id
\* is named once.
LEMMA ShownTurn ==
  ASSUME NEW keywords \in Keywords, Distinct(keywords), NEW n \in 1 .. Len(keywords),
         NEW r, Shown(r.fields, keywords, n - 1)
  PROVE  Shown(ReadKeyword(keywords[n], r).fields, keywords, n)
<1> DEFINE k == keywords[n]
<1>1. CASE ~IsContext(k)
  BY <1>1 DEF Shown, ReadKeyword
<1>2. CASE IsContext(k)
  <2>1. PICK value : /\ k \notin Mistyped => value = k.value
                     /\ ReadKeyword(k, r).fields
                        = [id \in DOMAIN r.fields \union {k.id} |->
                             IF id = k.id THEN value ELSE r.fields[id]]
    BY <1>2 DEF ReadKeyword
  <2>2. \A i \in 1 .. n - 1 : keywords[i].id # k.id
    BY DEF Distinct
  <2> QED
    BY <2>1, <2>2 DEF Shown
<1> QED
  BY <1>1, <1>2

\* The service thread's loop has shown what it has read; when the packet is queued
\* all keywords of the push are in it, since currSRI has them.
ContextShown ==
  /\ svc = "context" => /\ filling.size = Len(currSRI.keywords)
                        /\ Shown(filling.read.fields, currSRI.keywords, filling.next - 1)
  /\ svc = "merged" => Shows(announcedFields, push.sri.keywords)
  /\ \/ svc \in {"cut", "sent"}
     \/ svc = "idle" /\ ~waitingForSRI
     \/ svc = "merge" /\ ~MustMerge
     => \/ Shows(announcedFields, push.sri.keywords)
        \/ Values(push.sri.keywords) = Values(currSRI.keywords)

LEMMA ContextShownInit == ContextInit => ContextShown
  BY DEF ContextInit, Init, ContextShown

\* What shows all of currSRI shows all that is included in it.
LEMMA ShownIncludes ==
  ASSUME NEW all \in Keywords, NEW keywords, NEW fields,
         Shown(fields, all, Len(all)), Includes(all, keywords)
  PROVE  Shows(fields, keywords)
<1> SUFFICES ASSUME NEW i \in 1 .. Len(keywords), IsContext(keywords[i]),
                    keywords[i] \notin Mistyped
             PROVE  /\ keywords[i].id \in DOMAIN fields
                    /\ fields[keywords[i].id] = keywords[i].value
  BY DEF Shows
<1>1. PICK j \in 1 .. Len(all) : all[j] = keywords[i]
  BY DEF Includes
<1> QED
  BY <1>1 DEF Shown

LEMMA ContextShownStep ==
  ASSUME TypeOK, Describing, Announcing, ContextTyped, ContextShown,
         [ContextNext]_allVars
  PROVE  ContextShown'
<1> USE DEF ContextShown, streamVars, contextVars
<1>1. currSRI.keywords \in Keywords /\ Distinct(currSRI.keywords)
  BY DEF TypeOK, SRI, Announcing
<1>2. CASE DescribedSetup
  BY <1>2 DEF DescribedSetup, SetupOutputStream, Describing, Fresh, MustMerge
<1>3. CASE DescribedClip
  BY <1>3 DEF DescribedClip, ClipPayload, Begun, Shown
<1>4. CASE FillNext
  <2>1. /\ filling.next \in 1 .. Len(currSRI.keywords)
        /\ filling.size = Len(currSRI.keywords)
        /\ Shown(filling.read.fields, currSRI.keywords, filling.next - 1)
    BY <1>4 DEF FillNext, ContextTyped, PacketOK, Done
  <2>2. Shown(filling'.read.fields, currSRI.keywords, filling.next)
    BY <1>1, <1>4, <2>1, ShownTurn DEF FillNext, Turned
  <2>3. filling'.next - 1 = filling.next /\ filling'.size = filling.size
    BY <1>4, <2>1 DEF FillNext, Turned
  <2>4. svc = "context" /\ UNCHANGED <<svc, currSRI>>
    BY <1>4 DEF FillNext, vars
  <2> QED
    BY <2>1, <2>2, <2>3, <2>4
<1>5. CASE DescribedAnnounce
  <2>1. svc = "context" /\ svc' = "merged" /\ UNCHANGED <<push, currSRI>>
    BY <1>5 DEF DescribedAnnounce, AnnounceContext
  <2>2. filling.next - 1 = Len(currSRI.keywords)
    BY <1>1, <1>5, <2>1 DEF DescribedAnnounce, ContextTyped, PacketOK, Done, Keywords
  <2>3. Shown(announcedFields', currSRI.keywords, Len(currSRI.keywords))
    BY <1>5, <2>1, <2>2 DEF DescribedAnnounce
  <2>4. Includes(currSRI.keywords, push.sri.keywords)
    BY <2>1 DEF Announcing
  <2>5. Shows(announcedFields', push.sri.keywords)
    BY <1>1, <2>3, <2>4, ShownIncludes
  <2> QED
    BY <2>1, <2>5
<1>6. CASE DescribedInitialize
  BY <1>6 DEF DescribedInitialize, InitializeValues
<1>7. CASE TimerStep
  BY <1>7 DEF TimerStep, BeginPacket, FillContext, ReadNext, QueuePacket, PushContext,
     vars, MustMerge
<1>8. CASE DescribedIFContextPacketChanged
  BY <1>8 DEF DescribedIFContextPacketChanged, VITA49IFContextPacketChanged, Edit, MustMerge
<1>9. CASE OtherServiceStep /\ UNCHANGED packetVars
  <2>1. CASE SkipMerge \/ MergeSameSRI
    BY <1>9, <2>1 DEF packetVars, SkipMerge, MergeSameSRI, SameSRI
  <2>2. CASE MergeFields \/ MergeKeyword \/ MeasurePacket
    BY <1>9, <2>2 DEF packetVars, MergeFields, MergeKeyword, MeasurePacket
  <2>3. CASE PushSRI
    BY <1>9, <2>3 DEF packetVars, PushSRI, Describing, Fresh
  <2>4. CASE Merged \/ DropUnready \/ CutPush \/ EndPush \/ RemoveStream
    BY <1>9, <2>4 DEF packetVars, Merged, DropUnready, CutPush, EndPush, RemoveStream
  <2> QED
    BY <1>9, <2>1, <2>2, <2>3, <2>4 DEF OtherServiceStep
<1>10. CASE (Receive \/ OtherListener) /\ UNCHANGED packetVars
  <2>1. CASE Receive
    BY <1>10, <2>1 DEF packetVars, Receive, MustMerge
  <2>2. CASE OtherListener
    BY <1>10, <2>2 DEF packetVars, OtherListener, VITA49EncapsulationChanged,
       VITA49IFDataPacketChanged, AdvancedConfigurationChanged, Edit, MustMerge
  <2> QED
    BY <1>10, <2>1, <2>2
<1>11. CASE UNCHANGED allVars
  BY <1>11 DEF allVars, vars, packetVars, MustMerge
<1> QED
  BY <1>2, <1>3, <1>4, <1>5, <1>6, <1>7, <1>8, <1>9, <1>10, <1>11
  DEF ContextNext, DescribedService

\* mergeRecSRI() and createIFContextPacket(): whatever keyword lists, streams and
\* listeners came before, every context keyword that data came with is a field of
\* the context packet before it, with its value.
THEOREM FieldsReachReceivers == ContextSpec => []SRIDescribed
<1>1. ContextSpec => [](TypeOK /\ Describing /\ Announcing)
  BY ContextRefines, AlwaysAnnouncing, PTL
<1>2. ContextSpec => []ContextTyped
  BY <1>1, ContextTypedInit, ContextTypedStep, PTL DEF ContextSpec
<1>3. ContextShown => SRIDescribed
  BY DEF ContextShown, SRIDescribed
<1> QED
  BY <1>1, <1>2, <1>3, ContextShownInit, ContextShownStep, PTL DEF ContextSpec
=============================================================================
