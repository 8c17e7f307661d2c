------------------------------ MODULE TimeProofs ------------------------------
(***************************************************************************)
(* Proofs about TimeStamps: it implements Packetizer, so that what is      *)
(* proved in PacketizerProofs holds with times as well; the times that the *)
(* context thread tells are those of its own stream; and packets carry the *)
(* time of their first sample, an SRI that of the first it describes.      *)
(***************************************************************************)
EXTENDS TimeStamps, PacketizerProofs

\* Every step of TimeStamps is one of Packetizer.
LEMMA TimeStep == [TimeNext]_allVars => [Next]_vars
  BY DEF TimeNext, TimedReceive, TimedMerge, TimedCutLeftOver, TimedCutPush,
     StampSeconds, TimedEndOfStream, Untimed, ReadFraction, TellTime, allVars, Next

\* The times take nothing away from the cutting of packets: TimeStamps
\* implements Packetizer.
THEOREM TimeRefines == TimeSpec => Spec
<1>1. TimeInit => Init
  BY DEF TimeInit
<1> QED
  BY <1>1, TimeStep, PTL DEF TimeSpec, Spec

-----------------------------------------------------------------------------
(* What the context thread tells                                           *)

Sources == spoken \union {Time(0, 0)}

\* Both fields of _tContext, and the fraction under way to a packet, come from
\* data packets of the stream; the seconds are behind only inside singleService().
Heard ==
  /\ \E p \in Sources : tContext.twsec = p.twsec
  /\ \E q \in Sources : tContext.tfsec = FractionScale * q.tfsec
  /\ tContext = [twsec |-> tContext.twsec, tfsec |-> tContext.tfsec]
  /\ torn => step = "cut" /\ nextTimeStamp \in spoken
  /\ ctxRead # NotRead => \E q \in Sources : ctxRead = FractionScale * q.tfsec

\* A time told with an offset of no samples does not depend on xdelta.
LEMMA NoOffset ==
  ASSUME NEW T, NEW d \in Int, NEW e \in Int
  PROVE  CalcNextTimeStamp(T, d, 0) = CalcNextTimeStamp(T, e, 0)
<1>1. 0 * d = 0 /\ 0 * e = 0
  OBVIOUS
<1> QED
  BY <1>1 DEF CalcNextTimeStamp

DeltaType == xdelta \in Int /\ pushDelta \in Int

LEMMA DeltaStep == TimeSpec => []DeltaType
<1>1. TimeInit => DeltaType
  BY TicksAssumption DEF TimeInit, DeltaType
<1>2. DeltaType /\ [TimeNext]_allVars => DeltaType'
  <2> SUFFICES ASSUME DeltaType, [TimeNext]_allVars PROVE DeltaType'
    OBVIOUS
  <2>1. CASE TimedReceive
    BY <2>1, TicksAssumption DEF TimedReceive, DeltaType
  <2>2. CASE TimedMerge
    BY <2>2 DEF TimedMerge, DeltaType, pushTimes
  <2>3. CASE TimedCutLeftOver \/ TimedCutPush \/ StampSeconds \/ TimedEndOfStream
    BY <2>3 DEF TimedCutLeftOver, TimedCutPush, StampSeconds, TimedEndOfStream,
       DeltaType, pushTimes
  <2>4. CASE Untimed \/ ReadFraction \/ TellTime
    BY <2>4 DEF Untimed, ReadFraction, TellTime, DeltaType, times, pushTimes
  <2>5. CASE UNCHANGED allVars
    BY <2>5 DEF allVars, times, pushTimes, DeltaType
  <2> QED
    BY <2>1, <2>2, <2>3, <2>4, <2>5 DEF TimeNext
<1> QED
  BY <1>1, <1>2, PTL DEF TimeSpec

Told == Heard /\ ToldFromOwnStream

LEMMA ToldStamp ==
  ASSUME DeltaType, Told, TimedCutLeftOver \/ TimedCutPush
  PROVE  Told'
<1>1. PICK s : nextTimeStamp' = s
  OBVIOUS
<1>2. /\ spoken' = spoken \union {nextTimeStamp'}
      /\ tContext' = [tContext EXCEPT !.tfsec = FractionScale * nextTimeStamp'.tfsec]
      /\ UNCHANGED <<ctxRead, told, xdelta>>
  BY DEF TimedCutLeftOver, TimedCutPush, StampContext
<1>3. Sources \subseteq Sources' /\ nextTimeStamp' \in Sources'
  BY <1>2 DEF Sources
<1>4. step' = "cut" /\ nextTimeStamp' \in spoken'
  BY <1>2 DEF TimedCutLeftOver, TimedCutPush, CutLeftOver, CutPush
<1>5. /\ tContext'.twsec = tContext.twsec
      /\ tContext'.tfsec = FractionScale * nextTimeStamp'.tfsec
      /\ tContext' = [twsec |-> tContext'.twsec, tfsec |-> tContext'.tfsec]
  BY <1>2 DEF Told, Heard
<1>6. Heard'
  BY <1>2, <1>3, <1>4, <1>5 DEF Told, Heard
<1>7. ToldFromOwnStream'
  BY <1>2, <1>3 DEF Told, ToldFromOwnStream, Sources
<1> QED
  BY <1>6, <1>7 DEF Told

LEMMA ToldTell ==
  ASSUME DeltaType, Told, TellTime
  PROVE  Told'
<1>1. PICK p \in Sources : tContext.twsec = p.twsec
  BY DEF Told, Heard
<1>2. PICK q \in Sources : ctxRead = FractionScale * q.tfsec
  BY DEF Told, Heard, TellTime
<1>3. UNCHANGED <<spoken, xdelta, tContext, torn, step, nextTimeStamp>>
  BY DEF TellTime, vars, sentTimes
<1>4. told' = CalcNextTimeStamp(Time(p.twsec, FractionScale * q.tfsec), xdelta, 0)
  BY <1>1, <1>2 DEF TellTime
<1>5. ToldFromOwnStream'
  BY <1>3, <1>4 DEF ToldFromOwnStream, Sources
<1>6. Heard'
  BY <1>3 DEF Told, Heard, TellTime, Sources
<1> QED
  BY <1>5, <1>6 DEF Told

LEMMA ToldMerge ==
  ASSUME DeltaType, Told, TimedMerge
  PROVE  Told'
<1>1. UNCHANGED <<spoken, told, tContext, torn, ctxRead, nextTimeStamp>> /\ ~torn
  BY DEF TimedMerge, contextTimes, sentTimes, Told, Heard, Merge
<1>2. xdelta' \in Int
  BY DEF TimedMerge, DeltaType
<1>3. Heard'
  BY <1>1 DEF Told, Heard, Sources
<1>4. ToldFromOwnStream'
  <2> SUFFICES ASSUME told # NoTime
               PROVE  \E p, q \in spoken \union {Time(0, 0)} :
                        told = CalcNextTimeStamp(Time(p.twsec, FractionScale * q.tfsec),
                                                 xdelta', 0)
    BY <1>1 DEF ToldFromOwnStream
  <2>1. PICK p, q \in spoken \union {Time(0, 0)} :
          told = CalcNextTimeStamp(Time(p.twsec, FractionScale * q.tfsec), xdelta, 0)
    BY DEF Told, ToldFromOwnStream
  <2>2. CalcNextTimeStamp(Time(p.twsec, FractionScale * q.tfsec), xdelta, 0)
        = CalcNextTimeStamp(Time(p.twsec, FractionScale * q.tfsec), xdelta', 0)
    BY <1>2, NoOffset DEF DeltaType
  <2> QED
    BY <2>1, <2>2
<1> QED
  BY <1>3, <1>4 DEF Told

LEMMA ToldStep ==
  ASSUME DeltaType, Told, [TimeNext]_allVars
  PROVE  Told'
<1>1. CASE TimedReceive
  BY <1>1 DEF TimedReceive, Receive, Told, Heard, ToldFromOwnStream, Sources,
     sentTimes, contextTimes
<1>2. CASE StampSeconds
  <2>1. UNCHANGED <<spoken, told, xdelta, ctxRead, nextTimeStamp>> /\ torn' = FALSE
    BY <1>2 DEF StampSeconds, sentTimes
  <2>2. nextTimeStamp \in Sources
    BY <1>2 DEF StampSeconds, Told, Heard, Sources
  <2>3. tContext' = [tContext EXCEPT !.twsec = nextTimeStamp.twsec]
    BY <1>2 DEF StampSeconds
  <2>4. /\ tContext'.twsec = nextTimeStamp.twsec /\ tContext'.tfsec = tContext.tfsec
        /\ tContext' = [twsec |-> tContext'.twsec, tfsec |-> tContext'.tfsec]
    BY <2>3 DEF Told, Heard
  <2> QED
    BY <2>1, <2>2, <2>4 DEF Told, Heard, ToldFromOwnStream, Sources
<1>3. CASE TimedEndOfStream
  <2>1. /\ tContext' = Time(0, 0) /\ told' = NoTime /\ ctxRead' = NotRead
        /\ UNCHANGED torn /\ step = "end"
    BY <1>3 DEF TimedEndOfStream, EndOfStream
  <2>2. FractionScale * 0 = 0
    BY TicksAssumption
  <2> QED
    BY <2>1, <2>2 DEF Told, Heard, ToldFromOwnStream, Sources, Time
<1>4. CASE Untimed
  <2>1. UNCHANGED times
    BY <1>4 DEF Untimed
  <2>2. torn => step' = step
    BY <1>4 DEF Untimed, MemoryManagement, Configure, SkipMerge, Told, Heard
  <2> QED
    BY <2>1, <2>2 DEF Told, Heard, ToldFromOwnStream, Sources, times, sentTimes,
       contextTimes
<1>5. CASE ReadFraction
  BY <1>5 DEF ReadFraction, Told, Heard, ToldFromOwnStream, Sources, vars, sentTimes
<1>6. CASE UNCHANGED allVars
  BY <1>6 DEF allVars, vars, times, sentTimes, contextTimes, Told, Heard,
     ToldFromOwnStream, Sources
<1> QED
  BY <1>1, <1>2, <1>3, <1>4, <1>5, <1>6, ToldStamp, ToldTell, ToldMerge DEF TimeNext

\* For every scale, xdelta and gap, and although _tContext is written and read
\* without a lock, one field after the other, periodic context packets take both
\* fields from data packets of their own stream, or from the start of time.
THEOREM TimesTold == TimeSpec => []ToldFromOwnStream
<1>1. TimeInit => Told
  <2>1. FractionScale * 0 = 0
    BY TicksAssumption
  <2> QED
    BY <2>1 DEF TimeInit, Told, Heard, ToldFromOwnStream, Sources, Time, NoTime
<1>2. Told => ToldFromOwnStream
  BY DEF Told
<1> QED
  BY <1>1, <1>2, DeltaStep, ToldStep, PTL DEF TimeSpec

-----------------------------------------------------------------------------
(* calcNextTimeStamp()                                                     *)

\* Division of any integer, as \div and % have it.
LEMMA Division ==
  ASSUME NEW a \in Int, NEW b \in Nat \ {0}
  PROVE  \E q \in Int, r \in 0 .. b - 1 :
           q = a \div b /\ r = a % b /\ q * b + r = a
<1>1. b \in Nat /\ b > 0
  OBVIOUS
<1>2. PICK q \in Int, r \in 0 .. b - 1 : q = a \div b /\ r = a % b
  OBVIOUS
<1>3. r = a - b * q
  <2>1. a % b = a - b * (a \div b)
    BY <1>1
  <2> QED
    BY <1>2, <2>1
<1>4. q * b + r = a
  BY <1>1, <1>3
<1> QED
  BY <1>2, <1>4

\* A time made of ticks tells these ticks.
LEMMA NormalTime ==
  ASSUME NEW a \in Nat
  PROVE  Normal(a) \in Times /\ Ticks(Normal(a)) = a
<1>1. PICK q \in Int, r \in 0 .. Second - 1 :
        q = a \div Second /\ r = a % Second /\ q * Second + r = a
  BY Division, TicksAssumption
<1> QED
  BY <1>1 DEF Normal, Ticks, Time, Times

\* However the whole seconds and the fractions carry, the time after n samples is
\* n deltas later, or before when n is negative.
LEMMA NextTime ==
  ASSUME NEW sec \in Int, NEW frac \in Nat, NEW delta \in Int, NEW n \in Int
  PROVE  /\ CalcNextTimeStamp(Time(sec, frac), delta, n) \in Times
         /\ Ticks(CalcNextTimeStamp(Time(sec, frac), delta, n))
            = Ticks(Time(sec, frac)) + n * delta
<1>1. PICK offset \in Int : offset = n * delta
  OBVIOUS
<1>2. PICK q \in Int, r \in 0 .. Second - 1 :
        /\ q = offset \div Second /\ r = offset % Second
        /\ q * Second + r = offset
  BY Division, TicksAssumption
<1>3. PICK carry \in Int, f \in 0 .. Second - 1 :
        /\ carry = (frac + r) \div Second /\ f = (frac + r) % Second
        /\ carry * Second + f = frac + r
  BY Division, TicksAssumption
<1>4. CalcNextTimeStamp(Time(sec, frac), delta, n) = Time(sec + q + carry, f)
  BY <1>1, <1>2, <1>3 DEF CalcNextTimeStamp, Time
<1>5. (sec + q + carry) * Second = sec * Second + q * Second + carry * Second
  BY TicksAssumption
<1>6. (sec + q + carry) * Second + f = sec * Second + frac + n * delta
  <2>1. PICK a \in Int, b \in Int, c \in Int :
          a = sec * Second /\ b = q * Second /\ c = carry * Second
    BY TicksAssumption
  <2> QED
    BY <1>1, <1>2, <1>3, <1>5, <2>1
<1> QED
  BY <1>4, <1>6 DEF Ticks, Time, Times

LEMMA NextTimeOf ==
  ASSUME NEW T \in Times, NEW delta \in Int, NEW n \in Int
  PROVE  /\ CalcNextTimeStamp(T, delta, n) \in Times
         /\ Ticks(CalcNextTimeStamp(T, delta, n)) = Ticks(T) + n * delta
<1>1. PICK sec \in Int, frac \in Nat : T = Time(sec, frac)
  BY TicksAssumption DEF Times, Time
<1>2. /\ CalcNextTimeStamp(Time(sec, frac), delta, n) \in Times
      /\ Ticks(CalcNextTimeStamp(Time(sec, frac), delta, n))
         = Ticks(Time(sec, frac)) + n * delta
  BY NextTime
<1> QED
  BY <1>1, <1>2

-----------------------------------------------------------------------------
(* TimeTypeOK                                                              *)

USE DEF callVars, sriVars, dataVars, sizeVars, pushTimes, sentTimes, contextTimes, times

\* The offsets in samples that singleService() passes.
LEMMA OffsetTypes ==
  ASSUME TypeOK
  PROVE  /\ dataIndex \div (mode + 1) \in Nat /\ NegatedLeftOver \in Int
         /\ -(leftOver \div complexMultiplier) \in Int
<1>1. /\ dataIndex \in Nat /\ leftOver \in Nat /\ mode \in {0, 1}
      /\ complexMultiplier \in {1, 2}
  BY DEF TypeOK
<1>2. PICK u \in Nat : u = (UIntRange - leftOver) % UIntRange
  <2>1. UIntRange - leftOver \in Int
    BY <1>1, UIntAssumption
  <2> QED
    BY <2>1, Division, UIntAssumption
<1>3. PICK h \in Int : h = UIntRange \div 2
  BY UIntAssumption
<1>4. ToInt(u \div (mode + 1)) \in Int
  BY <1>1, <1>2, <1>3, UIntAssumption DEF ToInt
<1> QED
  BY <1>1, <1>2, <1>4 DEF NegatedLeftOver

LEMMA ScaledFraction ==
  ASSUME NEW T \in Times
  PROVE  FractionScale * T.tfsec \in Nat
<1>1. T.tfsec \in Nat /\ FractionScale \in Nat
  BY TicksAssumption DEF Times
<1> QED
  BY <1>1

LEMMA TimeTypeInit == TimeInit => TimeTypeOK
<1> SUFFICES ASSUME TimeInit PROVE TimeTypeOK
  OBVIOUS
<1>1. Time(0, 0) \in Times /\ Time(0, 0) \in [twsec : Int, tfsec : Nat]
  BY TicksAssumption DEF Time, Times
<1>2. stamp \in [from : {"none", "push", "leftOver", "tail"}, mode : {0, 1},
                by : Nat, sure : BOOLEAN, first : Nat, time : Times]
  BY <1>1 DEF TimeInit
<1>3. described \in [by : Nat, sure : BOOLEAN, first : Nat, time : Times]
  BY <1>1 DEF TimeInit
<1>4. /\ pushDelta \in Nat /\ xdelta \in Nat /\ due \in Nat
      /\ gaps \in Nat /\ reads \in Nat
  BY TicksAssumption DEF TimeInit
<1>5. torn \in BOOLEAN /\ contiguous \in BOOLEAN
  BY Zenon DEF TimeInit
<1>6. ctxRead \in Nat \union {NotRead} /\ born \in Seq(Int)
  BY DEF TimeInit
<1> QED
  BY <1>1, <1>2, <1>3, <1>4, <1>5, <1>6 DEF TimeInit, TimeTypeOK

\* When and with what a push was taken.
LEMMA ReceiveTypes ==
  ASSUME TypeOK, TypeOK', TimeTypeOK, TimedReceive
  PROVE  TimeTypeOK'
<1>1. PICK gap \in Gaps \union {0}, d \in Deltas :
        /\ pushTime' = Normal(due + gap) /\ pushDelta' = d
        /\ born' = born \o [k \in 1 .. push'.size |->
                              due + gap + ((k - 1) \div (push'.mode + 1)) * d]
        /\ due' = due + gap + (push'.size \div (push'.mode + 1)) * d
        /\ contiguous' = \/ leftOver = 0
                         \/ (push.size > 0 \/ contiguous) /\ gap = 0 /\ d = xdelta
        /\ gaps' = IF gap = 0 THEN gaps ELSE gaps + 1
  BY DEF TimedReceive
<1>2. gap \in Nat /\ d \in Nat /\ due \in Nat /\ due + gap \in Nat
  BY TicksAssumption DEF TimeTypeOK
<1>3. push'.size \in Nat /\ push'.mode \in {0, 1}
  <2>1. push' \in Pushes
    BY DEF TimedReceive, Receive, TypeOK
  <2> QED
    BY <2>1, PushesAssumption DEF Pushes
<1>4. pushTime' \in Times
  BY <1>1, <1>2, NormalTime
<1>5. born' \in Seq(Int)
  <2>1. ASSUME NEW k \in 1 .. push'.size
        PROVE  due + gap + ((k - 1) \div (push'.mode + 1)) * d \in Int
    <3>1. PICK i \in Int : i = (k - 1) \div (push'.mode + 1)
      BY <1>3
    <3> QED
      BY <1>2, <3>1
  <2>2. [k \in 1 .. push'.size |->
           due + gap + ((k - 1) \div (push'.mode + 1)) * d]
        \in [1 .. push'.size -> Int]
    BY <2>1
  <2>3. PICK f \in [1 .. push'.size -> Int] : born' = born \o f
    BY <1>1, <2>2
  <2>4. f \in Seq(Int)
    BY <1>3
  <2> QED
    BY <2>3, <2>4 DEF TimeTypeOK
<1>6. due' \in Nat
  <2>1. PICK i \in Nat : i = push'.size \div (push'.mode + 1)
    BY <1>3
  <2>2. i * d \in Nat
    BY <1>2
  <2> QED
    BY <1>1, <1>2, <2>1, <2>2
<1>7. contiguous' \in BOOLEAN
  BY <1>1, Zenon
<1> QED
  BY <1>1, <1>2, <1>4, <1>5, <1>6, <1>7 DEF TimedReceive, TimeTypeOK

LEMMA StampTypes ==
  ASSUME TypeOK, TimeTypeOK,
         NEW from \in {"push", "leftOver", "tail"}, NEW n \in Int,
         Stamp(from, CalcNextTimeStamp(pushTime, xdelta, n))
  PROVE  /\ nextTimeStamp' \in Times
         /\ stamp' \in [from : {"none", "push", "leftOver", "tail"}, mode : {0, 1},
                        by : Nat, sure : BOOLEAN, first : Nat, time : Times]
<1>1. nextTimeStamp' \in Times
  BY NextTimeOf DEF Stamp, TimeTypeOK
<1>2. Len(out) + 1 \in Nat /\ mode \in {0, 1} /\ pushes \in Nat /\ contiguous \in BOOLEAN
  BY DEF TypeOK, TimeTypeOK
<1> QED
  BY <1>1, <1>2 DEF Stamp

LEMMA TimeTypeStep ==
  ASSUME TypeOK, TypeOK', TimeTypeOK, [TimeNext]_allVars
  PROVE  TimeTypeOK'
<1>1. CASE TimedReceive
  BY <1>1, ReceiveTypes
<1>2. CASE TimedMerge
  <2>1. CalcNextTimeStamp(pushTime, pushDelta, -(leftOver \div complexMultiplier)) \in Times
    BY OffsetTypes, NextTimeOf DEF TimeTypeOK
  <2>2. /\ Len(out) + 1 \in Nat /\ pushes \in Nat
        /\ (contiguous /\ Len(out) < received) \in BOOLEAN
    BY DEF TypeOK, TimeTypeOK
  <2>3. described' \in [by : Nat, sure : BOOLEAN, first : Nat, time : Times]
    BY <1>2, <2>1, <2>2 DEF TimedMerge, TimeTypeOK
  <2> QED
    BY <1>2, <2>3 DEF TimedMerge, TimeTypeOK
<1>3. CASE TimedCutLeftOver \/ TimedCutPush
  <2>1. PICK from \in {"push", "leftOver"}, n \in Int :
          Stamp(from, CalcNextTimeStamp(pushTime, xdelta, n))
    BY <1>3, OffsetTypes DEF TimedCutLeftOver, TimedCutPush
  <2>2. /\ nextTimeStamp' \in Times
        /\ stamp' \in [from : {"none", "push", "leftOver", "tail"}, mode : {0, 1},
                       by : Nat, sure : BOOLEAN, first : Nat, time : Times]
    BY <2>1, StampTypes
  <2>3. FractionScale * nextTimeStamp'.tfsec \in Nat
    BY <2>2, ScaledFraction
  <2>4. /\ tContext' = [tContext EXCEPT !.tfsec = FractionScale * nextTimeStamp'.tfsec]
        /\ spoken' = spoken \union {nextTimeStamp'} /\ torn' = TRUE
        /\ UNCHANGED <<ctxRead, told, reads, pushTimes, xdelta, described>>
    BY <1>3 DEF TimedCutLeftOver, TimedCutPush, StampContext
  <2>5. tContext' \in [twsec : Int, tfsec : Nat] /\ spoken' \subseteq Times
    BY <2>2, <2>3, <2>4 DEF TimeTypeOK
  <2> QED
    BY <2>2, <2>4, <2>5 DEF TimeTypeOK
<1>4. CASE StampSeconds
  BY <1>4 DEF StampSeconds, TimeTypeOK, Times
<1>5. CASE TimedEndOfStream
  <2>1. /\ nextTimeStamp' \in Times
        /\ stamp' \in [from : {"none", "push", "leftOver", "tail"}, mode : {0, 1},
                       by : Nat, sure : BOOLEAN, first : Nat, time : Times]
    <3>1. CASE dataSize > 0
      <4>1. Stamp(IF push.size > 0 THEN "push" ELSE "tail",
                  CalcNextTimeStamp(pushTime, xdelta, dataIndex \div (mode + 1)))
        BY <1>5, <3>1 DEF TimedEndOfStream
      <4> QED
        BY <4>1, OffsetTypes, StampTypes
    <3>2. CASE ~(dataSize > 0)
      BY <1>5, <3>2 DEF TimedEndOfStream, TimeTypeOK
    <3> QED
      BY <3>1, <3>2
  <2>2. /\ tContext' = Time(0, 0) /\ told' = NoTime /\ spoken' = {}
        /\ UNCHANGED <<pushTimes, torn, ctxRead, reads, xdelta, described>>
    BY <1>5 DEF TimedEndOfStream
  <2> QED
    BY <2>1, <2>2 DEF TimeTypeOK, Time
<1>6. CASE Untimed \/ UNCHANGED allVars
  BY <1>6 DEF Untimed, TimeTypeOK, allVars
<1>7. CASE ReadFraction
  BY <1>7 DEF ReadFraction, TimeTypeOK
<1>8. CASE TellTime
  <2>1. PICK sec \in Int, frac \in Nat : sec = tContext.twsec /\ frac = ctxRead
    BY <1>8 DEF TellTime, TimeTypeOK
  <2>2. told' \in Times
    <3>1. PICK delta \in Int, n \in Int :
            told' = CalcNextTimeStamp(Time(sec, frac), delta, n)
      BY <1>8, <2>1 DEF TellTime, TimeTypeOK
    <3>2. CalcNextTimeStamp(Time(sec, frac), delta, n) \in Times
      BY NextTime
    <3> QED
      BY <3>1, <3>2
  <2> QED
    BY <1>8, <2>2 DEF TellTime, TimeTypeOK
<1> QED
  BY <1>1, <1>2, <1>3, <1>4, <1>5, <1>6, <1>7, <1>8 DEF TimeNext

\* The fraction of every time that calcNextTimeStamp() puts into a packet is one,
\* for left-over samples, the torn and scaled _tContext and any xdelta.
THEOREM TimeTypes == TimeSpec => []TimeTypeOK
<1>1. TimeSpec => []TypeOK
  BY TimeRefines, PacketizerTypes, PTL
<1> QED
  BY <1>1, TimeTypeInit, TimeTypeStep, PTL DEF TimeSpec

-----------------------------------------------------------------------------
(* TimesKept and DescribedInTime                                           *)

\* The push under work, as it was received: its elements are the last of all,
\* one xdelta lies between its samples, and the SRI is already merged when its
\* packets are cut. mergeRecSRI() may be skipped only if it would change nothing.
PushBorn ==
  /\ Len(born) = received
  /\ step \in {"merge", "cut", "end"} =>
       /\ push.first + push.size = received + 1
       /\ \A k \in 1 .. push.size :
            born[push.first + k - 1]
            = Ticks(pushTime) + ((k - 1) \div (push.mode + 1)) * pushDelta
       /\ due = Ticks(pushTime) + (push.size \div (push.mode + 1)) * pushDelta
  /\ step = "merge" => \/ push.changed \/ waitingForSRI
                       \/ xdelta = pushDelta /\ mode = push.mode
  /\ step \in {"cut", "end"} => xdelta = pushDelta /\ mode = push.mode

\* What is left over is less than half of an unsigned int.
SizesBelow ==
  /\ payloadSize < UIntRange \div 2 /\ maxPayload < UIntRange \div 2
  /\ cutFor < UIntRange \div 2

\* The left-over elements were sampled one xdelta apart up to the given time.
LeftOverUntil(ticks, delta) ==
  born[Len(out) + 1] = ticks - (leftOver \div (mode + 1)) * delta

\* Between two pushes what is left over ends where the last push that was not
\* empty does; while one is cut, where that push begins if it is contiguous. A
\* push is one of whole samples.
LeftOverBorn ==
  /\ step = "idle" /\ leftOver > 0 /\ (push.size > 0 \/ contiguous) =>
       LeftOverUntil(due, xdelta)
  /\ step \in {"merge", "cut"} /\ leftOver > 0 /\ contiguous =>
       LeftOverUntil(Ticks(pushTime), pushDelta)
  /\ step \in {"merge", "cut"} => push.size % (push.mode + 1) = 0
  /\ step = "end" /\ dataSize > 0 /\ push.size > 0 =>
       push.first + dataIndex = Len(out) + 1 /\ dataIndex + dataSize = push.size

\* A time told with a packet stays right as more is received.
Stamped(s) == s.first \in 1 .. Len(born) /\ Right(s)

StampsBorn ==
  /\ stamp.from = "push" => Stamped(stamp)
  /\ stamp.from = "leftOver" /\ stamp.sure /\ stamp.mode = 0 => Stamped(stamp)
  /\ described.sure => Stamped(described)

Timed == regular => LeftOverBorn /\ StampsBorn

LEMMA Joined ==
  ASSUME NEW a \in Seq(Int), NEW b \in Seq(Int)
  PROVE  /\ Len(a \o b) = Len(a) + Len(b)
         /\ \A i \in 1 .. Len(a) : (a \o b)[i] = a[i]
         /\ \A i \in 1 .. Len(b) : (a \o b)[Len(a) + i] = b[i]
  OBVIOUS

\* What a push brings: its samples come one xdelta after the other from its time
\* on, behind those received before.
LEMMA ReceiveTimes ==
  ASSUME TypeOK, TypeOK', TimeTypeOK, PushBorn, TimedReceive
  PROVE  \E gap \in Nat :
           /\ Ticks(pushTime') = due + gap /\ pushDelta' \in Nat
           /\ push'.size \in Nat /\ push'.mode \in {0, 1}
           /\ push'.first = received + 1 /\ received' = received + push'.size
           /\ Len(born') = received'
           /\ \A i \in 1 .. received : born'[i] = born[i]
           /\ \A k \in 1 .. push'.size :
                born'[push'.first + k - 1]
                = Ticks(pushTime') + ((k - 1) \div (push'.mode + 1)) * pushDelta'
           /\ due' = Ticks(pushTime') + (push'.size \div (push'.mode + 1)) * pushDelta'
           /\ contiguous' = \/ leftOver = 0
                            \/ (push.size > 0 \/ contiguous) /\ gap = 0 /\ pushDelta' = xdelta
<1>1. PICK gap \in Gaps \union {0}, d \in Deltas :
        /\ pushTime' = Normal(due + gap) /\ pushDelta' = d
        /\ born' = born \o [k \in 1 .. push'.size |->
                              due + gap + ((k - 1) \div (push'.mode + 1)) * d]
        /\ due' = due + gap + (push'.size \div (push'.mode + 1)) * d
        /\ contiguous' = \/ leftOver = 0
                         \/ (push.size > 0 \/ contiguous) /\ gap = 0 /\ d = xdelta
  BY DEF TimedReceive
<1>2. gap \in Nat /\ d \in Nat /\ due \in Nat /\ due + gap \in Nat
  BY TicksAssumption DEF TimeTypeOK
<1>3. PICK n \in PushSizes, m \in Modes :
        /\ push'.first = received + 1 /\ push'.size = n /\ push'.mode = m
        /\ received' = received + n
  BY DEF TimedReceive, Receive
<1>4. n \in Nat /\ m \in {0, 1} /\ received \in Nat
  BY PushesAssumption DEF TypeOK
<1>5. PICK start \in Nat : start = due + gap /\ Ticks(pushTime') = start
  BY <1>1, <1>2, NormalTime
<1>6. ASSUME NEW k \in 1 .. n
      PROVE  start + ((k - 1) \div (m + 1)) * d \in Int
  <2>1. PICK i \in Int : i = (k - 1) \div (m + 1)
    BY <1>4
  <2>2. i * d \in Int
    BY <1>2
  <2> QED
    BY <2>1, <2>2
<1> DEFINE f == [k \in 1 .. n |-> start + ((k - 1) \div (m + 1)) * d]
<1>7. f \in [1 .. n -> Int]
  BY <1>6
<1>8. f \in Seq(Int) /\ Len(f) = n
  BY <1>4, <1>7
<1>9. born' = born \o f /\ born \in Seq(Int) /\ Len(born) = received
  BY <1>1, <1>3, <1>5 DEF PushBorn, TimeTypeOK
<1>10. \A k \in 1 .. n : f[k] = start + ((k - 1) \div (m + 1)) * d
  OBVIOUS
<1> HIDE DEF f
<1>11. /\ Len(born') = received'
       /\ \A i \in 1 .. received : born'[i] = born[i]
       /\ \A k \in 1 .. n : born'[received + k] = f[k]
  BY <1>3, <1>8, <1>9, Joined
<1>12. ASSUME NEW k \in 1 .. n
       PROVE  born'[push'.first + k - 1] = start + ((k - 1) \div (m + 1)) * d
  <2>1. push'.first + k - 1 = received + k
    BY <1>3, <1>4
  <2> QED
    BY <1>10, <1>11, <2>1
<1>13. due' = start + (n \div (m + 1)) * d
  BY <1>1, <1>3, <1>5
<1> QED
  BY <1>1, <1>2, <1>3, <1>4, <1>5, <1>11, <1>12, <1>13

\* A step that leaves the push and its times alone, and takes none up.
LEMMA PushBornStays ==
  ASSUME PushBorn,
         UNCHANGED <<born, received, push, pushTime, pushDelta, due, xdelta, mode>>,
         step' \in {"cut", "end"} => step \in {"cut", "end"},
         step' = "merge" => step = "merge" /\ UNCHANGED waitingForSRI
  PROVE  PushBorn'
<1>1. step' \in {"merge", "cut", "end"} => step \in {"merge", "cut", "end"}
  OBVIOUS
<1>2. Ticks(pushTime)' = Ticks(pushTime)
  BY DEF Ticks
<1> QED
  BY <1>1, <1>2 DEF PushBorn

LEMMA PushBornStep ==
  ASSUME TypeOK, TypeOK', TimeTypeOK, PushBorn, [TimeNext]_allVars
  PROVE  PushBorn'
<1>1. CASE TimedReceive
  <2>1. /\ step' = "merge" /\ UNCHANGED <<waitingForSRI, mode, xdelta>>
        /\ push'.mode # mode => push'.changed
        /\ pushDelta' # xdelta => push'.changed \/ waitingForSRI
    BY <1>1 DEF TimedReceive, Receive
  <2>2. /\ push'.size \in Nat /\ push'.first = received + 1
        /\ received' = received + push'.size /\ Len(born') = received'
        /\ \A k \in 1 .. push'.size :
             born'[push'.first + k - 1]
             = Ticks(pushTime') + ((k - 1) \div (push'.mode + 1)) * pushDelta'
        /\ due' = Ticks(pushTime') + (push'.size \div (push'.mode + 1)) * pushDelta'
    BY <1>1, ReceiveTimes
  <2>3. push'.first + push'.size = received' + 1
    <3>1. received \in Nat
      BY DEF TypeOK
    <3> QED
      BY <2>2, <3>1
  <2>4. Ticks(pushTime)' = Ticks(pushTime')
    BY DEF Ticks
  <2> QED
    BY <2>1, <2>2, <2>3, <2>4 DEF PushBorn
<1>2. CASE TimedMerge
  <2>1. /\ step = "merge" /\ step' = "cut" /\ mode' = push.mode /\ xdelta' = pushDelta
        /\ UNCHANGED <<born, received, push, pushTime, pushDelta, due>>
    BY <1>2 DEF TimedMerge, Merge
  <2>2. Ticks(pushTime)' = Ticks(pushTime)
    BY <2>1 DEF Ticks
  <2> QED
    BY <2>1, <2>2 DEF PushBorn
<1>3. CASE TimedCutLeftOver \/ TimedCutPush
  BY <1>3, PushBornStays DEF TimedCutLeftOver, TimedCutPush, CutLeftOver, CutPush
<1>4. CASE StampSeconds \/ ReadFraction \/ TellTime
  BY <1>4, PushBornStays DEF StampSeconds, ReadFraction, TellTime, vars
<1>5. CASE TimedEndOfStream
  BY <1>5, PushBornStays DEF TimedEndOfStream, EndOfStream
<1>6. CASE Untimed
  <2>1. CASE SkipMerge
    <3>1. /\ step = "merge" /\ step' = "cut" /\ ~(push.changed \/ waitingForSRI)
          /\ UNCHANGED <<born, received, push, pushTime, pushDelta, due, xdelta, mode>>
      BY <1>6, <2>1 DEF Untimed, SkipMerge
    <3>2. Ticks(pushTime)' = Ticks(pushTime)
      BY <3>1 DEF Ticks
    <3> QED
      BY <3>1, <3>2 DEF PushBorn
  <2>2. CASE MemoryManagement \/ Configure \/ DropUnready \/ Crash
    BY <1>6, <2>2, PushBornStays
    DEF Untimed, MemoryManagement, Configure, DropUnready, Crash
  <2>3. CASE SaveRemainder
    BY <1>6, <2>3, PushBornStays DEF Untimed, SaveRemainder
  <2> QED
    BY <1>6, <2>1, <2>2, <2>3 DEF Untimed
<1>7. CASE UNCHANGED allVars
  BY <1>7, PushBornStays DEF allVars, vars
<1> QED
  BY <1>1, <1>2, <1>3, <1>4, <1>5, <1>6, <1>7 DEF TimeNext

LEMMA SizesBelowStep == SizesBelow /\ [Next]_vars => SizesBelow'
<1> SUFFICES ASSUME SizesBelow, [Next]_vars PROVE SizesBelow'
  OBVIOUS
<1>1. CASE Configure
  BY <1>1, UIntAssumption DEF Configure, SizesBelow
<1>2. CASE EndOfStream
  BY <1>2, UIntAssumption DEF EndOfStream, SizesBelow
<1>3. CASE Merge
  BY <1>3, UIntAssumption DEF Merge, Allowed, SizesBelow
<1>4. CASE MemoryManagement \/ Receive \/ SkipMerge \/ DropUnready
  BY <1>4 DEF MemoryManagement, Receive, SkipMerge, DropUnready, SizesBelow
<1>5. CASE CutLeftOver \/ Crash \/ CutPush \/ SaveRemainder
  BY <1>5 DEF CutLeftOver, Crash, CutPush, SaveRemainder, SizesBelow
<1>6. CASE UNCHANGED vars
  BY <1>6 DEF vars, SizesBelow
<1> QED
  BY <1>1, <1>2, <1>3, <1>4, <1>5, <1>6 DEF Next

\* What was stamped right stays so, and is not received again.
LEMMA StampsBornStay ==
  ASSUME StampsBorn, UNCHANGED <<stamp, described>>,
         Len(born) \in Nat, Len(born') \in Nat, Len(born) <= Len(born'),
         \A i \in 1 .. Len(born) : born'[i] = born[i]
  PROVE  StampsBorn'
<1>1. ASSUME Stamped(stamp) PROVE Stamped(stamp)'
  BY <1>1 DEF Stamped, Right, Ticks
<1>2. ASSUME Stamped(described) PROVE Stamped(described)'
  BY <1>2 DEF Stamped, Right, Ticks
<1> QED
  BY <1>1, <1>2 DEF StampsBorn

LEMMA TimedReceiveKept ==
  ASSUME TypeOK, TypeOK', Kept, TimeTypeOK, PushBorn, Timed, TimedReceive, regular'
  PROVE  LeftOverBorn' /\ StampsBorn'
<1>1. /\ regular /\ step = "idle" /\ step' = "merge"
      /\ UNCHANGED <<leftOver, out, mode, stamp, described>>
  BY DEF TimedReceive, Receive
<1>2. PICK gap \in Nat :
        /\ Ticks(pushTime') = due + gap
        /\ push'.size \in Nat /\ received' = received + push'.size
        /\ Len(born') = received' /\ \A i \in 1 .. received : born'[i] = born[i]
        /\ contiguous' = \/ leftOver = 0
                         \/ (push.size > 0 \/ contiguous) /\ gap = 0 /\ pushDelta' = xdelta
  BY ReceiveTimes
<1>3. /\ Len(out) + leftOver = received /\ Len(out) \in Nat /\ leftOver \in Nat
      /\ received \in Nat /\ received' \in Nat /\ Len(born) = received /\ due \in Nat
  <2>1. Len(out) + leftOver = received /\ Len(born) = received
    BY <1>1 DEF Kept, IdleInv, PushBorn
  <2>2. Len(out) \in Nat /\ leftOver \in Nat /\ received \in Nat
    BY DEF TypeOK
  <2>3. due \in Nat
    BY DEF TimeTypeOK
  <2> QED
    BY <1>2, <2>1, <2>2, <2>3
<1>4. push'.size % (push'.mode + 1) = 0
  <2>1. PICK n \in PushSizes, m \in Modes, new \in BOOLEAN :
          push'.size = n /\ push'.mode = m /\ regular' = (regular /\ Whole(n, m, new))
    BY DEF TimedReceive, Receive
  <2> QED
    BY <2>1 DEF Whole
<1>5. LeftOverBorn'
  <2> SUFFICES ASSUME leftOver > 0, contiguous'
               PROVE  LeftOverUntil(Ticks(pushTime), pushDelta)'
    BY <1>1, <1>4 DEF LeftOverBorn
  <2>1. (push.size > 0 \/ contiguous) /\ gap = 0 /\ pushDelta' = xdelta
    <3>1. leftOver # 0
      BY <1>3
    <3> QED
      BY <1>2, <3>1, Zenon
  <2>2. LeftOverUntil(due, xdelta)
    BY <1>1, <2>1 DEF Timed, LeftOverBorn
  <2>3. born'[Len(out) + 1] = born[Len(out) + 1]
    <3>1. Len(out) + 1 \in 1 .. received
      BY <1>3
    <3> QED
      BY <1>2, <3>1
  <2>4. Ticks(pushTime') = due /\ Ticks(pushTime)' = Ticks(pushTime')
    BY <1>2, <1>3, <2>1 DEF Ticks
  <2> QED
    BY <1>1, <2>1, <2>2, <2>3, <2>4 DEF LeftOverUntil
<1>6. StampsBorn'
  BY <1>1, <1>2, <1>3, StampsBornStay DEF Timed
<1> QED
  BY <1>5, <1>6

LEMMA TimedMergeKept ==
  ASSUME TypeOK, Kept, TimeTypeOK, PushBorn, Timed, TimedMerge, regular'
  PROVE  LeftOverBorn' /\ StampsBorn'
<1>1. /\ regular /\ step = "merge" /\ step' = "cut" /\ mode' = push.mode
      /\ UNCHANGED <<leftOver, out, push, born, pushTime, pushDelta, contiguous, stamp>>
  BY DEF TimedMerge, Merge
<1>2. /\ Len(out) + leftOver + push.size = received
      /\ push.first = Len(out) + leftOver + 1
      /\ complexMultiplier = mode + 1
      /\ push.mode # mode => leftOver = 0
  BY <1>1 DEF Kept, MergeInv
<1>3. /\ push.size \in Nat /\ push.mode \in {0, 1} /\ mode \in {0, 1}
      /\ Len(out) \in Nat /\ leftOver \in Nat /\ received \in Nat
  <2>1. push \in Pushes
    BY <1>1 DEF TypeOK
  <2>2. push.size \in Nat /\ push.mode \in {0, 1}
    BY <2>1, PushesAssumption DEF Pushes
  <2>3. /\ mode \in {0, 1} /\ Len(out) \in Nat /\ leftOver \in Nat
        /\ received \in Nat
    BY DEF TypeOK
  <2> QED
    BY <2>2, <2>3
<1>4. /\ Len(born) = received
      /\ \A k \in 1 .. push.size :
           born[push.first + k - 1]
           = Ticks(pushTime) + ((k - 1) \div (push.mode + 1)) * pushDelta
  BY <1>1 DEF PushBorn
<1>5. pushTime \in Times /\ pushDelta \in Nat
  BY DEF TimeTypeOK
<1>6. PICK ticks \in Int : ticks = Ticks(pushTime)
  <2>1. pushTime.twsec \in Int /\ pushTime.tfsec \in Int /\ Second \in Int
    BY <1>5, TicksAssumption DEF Times
  <2> QED
    BY <2>1 DEF Ticks
<1>7. LeftOverBorn'
  <2> SUFFICES ASSUME leftOver > 0, contiguous
               PROVE  LeftOverUntil(Ticks(pushTime), pushDelta)'
    BY <1>1 DEF Timed, LeftOverBorn
  <2>1. LeftOverUntil(Ticks(pushTime), pushDelta)
    BY <1>1 DEF Timed, LeftOverBorn
  <2>2. mode' = mode
    BY <1>1, <1>2
  <2> QED
    BY <1>1, <2>1, <2>2 DEF LeftOverUntil, Ticks
<1>8. ASSUME described'.sure, push.new
      PROVE  /\ described'.first \in 1 .. Len(born)
             /\ Ticks(described'.time) = born[described'.first]
  <2>1. PICK i \in Int : i = leftOver \div complexMultiplier
    BY <1>2, <1>3
  <2>2. /\ contiguous /\ Len(out) < received
        /\ described'.first = Len(out) + 1
        /\ described'.time = CalcNextTimeStamp(pushTime, pushDelta, -i)
    BY <1>8, <2>1 DEF TimedMerge
  <2>3. Ticks(described'.time) = ticks + (-i) * pushDelta
    <3>1. -i \in Int
      OBVIOUS
    <3> QED
      BY <1>5, <1>6, <2>2, <3>1, NextTimeOf
  <2>4. Ticks(described'.time) = ticks - i * pushDelta
    BY <1>5, <2>3
  <2>5. born[Len(out) + 1] = ticks - i * pushDelta
    <3>1. CASE leftOver > 0
      <4>1. LeftOverUntil(Ticks(pushTime), pushDelta)
        BY <1>1, <2>2, <3>1 DEF Timed, LeftOverBorn
      <4> QED
        BY <1>2, <1>6, <2>1, <4>1 DEF LeftOverUntil
    <3>2. CASE leftOver = 0
      <4>1. i = 0 /\ push.first = Len(out) + 1 /\ push.size >= 1
        BY <1>2, <1>3, <2>1, <2>2, <3>2
      <4>2. (1 - 1) \div (push.mode + 1) = 0
        BY <1>3
      <4>3. born[push.first + 1 - 1] = ticks + 0 * pushDelta
        BY <1>3, <1>4, <1>6, <4>1, <4>2
      <4>4. push.first + 1 - 1 = Len(out) + 1
        BY <1>3, <4>1
      <4> QED
        BY <1>5, <4>1, <4>3, <4>4
    <3> QED
      BY <1>3, <3>1, <3>2
  <2> QED
    BY <1>3, <1>4, <2>2, <2>4, <2>5
<1>9. StampsBorn'
  <2>1. CASE push.new
    <3>1. Stamped(stamp)' <=> Stamped(stamp)
      BY <1>1 DEF Stamped, Right, Ticks
    <3>2. described'.sure => Stamped(described)'
      BY <1>1, <1>8, <2>1 DEF Stamped, Right, Ticks
    <3> QED
      BY <1>1, <3>1, <3>2 DEF Timed, StampsBorn
  <2>2. CASE ~push.new
    <3>1. described' = described
      BY <2>2 DEF TimedMerge
    <3> QED
      BY <1>1, <1>3, <1>4, <3>1, StampsBornStay DEF Timed
  <2> QED
    BY <2>1, <2>2
<1> QED
  BY <1>7, <1>9

\* A packet that goes out has been stamped right.
LEMMA StampKept ==
  ASSUME TimeTypeOK, StampsBorn, UNCHANGED <<born, described>>,
         NEW from \in {"push", "leftOver", "tail"}, NEW n \in Int,
         Stamp(from, CalcNextTimeStamp(pushTime, xdelta, n)),
         (from = "push" \/ (from = "leftOver" /\ contiguous /\ mode = 0)) =>
           /\ Len(out) + 1 \in 1 .. Len(born)
           /\ born[Len(out) + 1] = Ticks(pushTime) + n * xdelta
  PROVE  StampsBorn'
<1>1. Ticks(CalcNextTimeStamp(pushTime, xdelta, n)) = Ticks(pushTime) + n * xdelta
  BY NextTimeOf DEF TimeTypeOK
<1>2. /\ stamp'.from = from /\ stamp'.sure = contiguous /\ stamp'.mode = mode
      /\ stamp'.first = Len(out) + 1
      /\ Ticks(stamp'.time) = Ticks(pushTime) + n * xdelta
  BY <1>1 DEF Stamp
<1>3. (from = "push" \/ (from = "leftOver" /\ contiguous /\ mode = 0)) => Stamped(stamp)'
  BY <1>2 DEF Stamped, Right, Ticks
<1>4. described.sure => Stamped(described)'
  BY DEF StampsBorn, Stamped, Right, Ticks
<1>5. stamp'.from = "push" => Stamped(stamp)'
  BY <1>2, <1>3
<1>6. stamp'.from = "leftOver" /\ stamp'.sure /\ stamp'.mode = 0 => Stamped(stamp)'
  BY <1>2, <1>3
<1>7. described'.sure => Stamped(described)'
  BY <1>4
<1> QED
  BY <1>5, <1>6, <1>7 DEF StampsBorn

\* leftOverDataSize is negated as an unsigned int and divided before it becomes a
\* signed one: for scalar data that makes no difference.
LEMMA NegatedScalar ==
  ASSUME TypeOK, mode = 0, leftOver > 0, leftOver < UIntRange \div 2
  PROVE  NegatedLeftOver = -leftOver
<1>1. leftOver \in Nat /\ UIntRange \in Nat /\ UIntRange > 0
  BY UIntAssumption DEF TypeOK
<1>2. PICK h \in Nat : h = UIntRange \div 2 /\ UIntRange = 2 * h
  <2>1. UIntRange % 4 = 0
    BY UIntAssumption
  <2> QED
    BY <1>1, <2>1
<1>3. PICK u \in Nat : u = UIntRange - leftOver /\ u < UIntRange /\ u >= h
  <2>1. leftOver < h
    BY <1>2
  <2>2. /\ UIntRange - leftOver \in Nat /\ UIntRange - leftOver < UIntRange
        /\ UIntRange - leftOver >= h
    BY <1>1, <1>2, <2>1
  <2> QED
    BY <2>2
<1>4. u % UIntRange = u
  <2>1. u \in Nat /\ u < UIntRange
    BY <1>3
  <2> QED
    BY <1>1, <2>1
<1>5. u \div (mode + 1) = u
  <2>1. mode + 1 = 1 /\ u \div 1 = u
    BY <1>3
  <2> QED
    BY <2>1
<1>6. NegatedLeftOver = ToInt(u)
  BY <1>3, <1>4, <1>5 DEF NegatedLeftOver
<1> QED
  BY <1>1, <1>2, <1>3, <1>6 DEF ToInt

LEMMA TimedCutLeftOverKept ==
  ASSUME TypeOK, Kept, TimeTypeOK, PushBorn, SizesBelow, Timed, TimedCutLeftOver, regular'
  PROVE  LeftOverBorn' /\ StampsBorn'
<1>1. /\ regular /\ step = "cut" /\ step' = "cut" /\ leftOver > 0 /\ leftOver' = 0
      /\ leftOver <= Full /\ Ready /\ UNCHANGED <<born, described>>
      /\ Stamp("leftOver", CalcNextTimeStamp(pushTime, xdelta, NegatedLeftOver))
  BY DEF TimedCutLeftOver, CutLeftOver
<1>2. ~waitingForSRI /\ SizeKept /\ Len(out) + dataSize = received /\ dataSize \in Nat
  BY <1>1 DEF Kept, CutInv
<1>3. dataSize >= Full /\ Full >= 1 /\ Full \in Nat /\ Full <= cutFor
  BY <1>1, <1>2, ReadyFacts, FullFacts
<1>4. Len(born) = received /\ xdelta = pushDelta
  BY <1>1 DEF PushBorn
<1>5. Len(out) + 1 \in 1 .. Len(born)
  <2>1. Len(out) \in Nat
    BY DEF TypeOK
  <2> QED
    BY <1>2, <1>3, <1>4, <2>1
<1>6. PICK n \in Int : n = NegatedLeftOver
  BY OffsetTypes
<1>7. contiguous /\ mode = 0 => born[Len(out) + 1] = Ticks(pushTime) + n * xdelta
  <2> SUFFICES ASSUME contiguous, mode = 0
               PROVE  born[Len(out) + 1] = Ticks(pushTime) + n * xdelta
    OBVIOUS
  <2>1. leftOver \in Nat /\ cutFor \in Nat /\ pushDelta \in Nat
    BY DEF TypeOK, TimeTypeOK
  <2>2. leftOver < UIntRange \div 2
    <3>1. PICK h \in Int : h = UIntRange \div 2
      BY UIntAssumption
    <3>2. cutFor < h
      BY <3>1 DEF SizesBelow
    <3> QED
      BY <1>1, <1>3, <2>1, <3>1, <3>2
  <2>3. n = -leftOver
    BY <1>1, <1>6, <2>2, NegatedScalar
  <2>4. LeftOverUntil(Ticks(pushTime), pushDelta)
    BY <1>1 DEF Timed, LeftOverBorn
  <2>5. leftOver \div (mode + 1) = leftOver
    BY <2>1
  <2>6. PICK ticks \in Int : ticks = Ticks(pushTime)
    BY TicksAssumption DEF TimeTypeOK, Times, Ticks
  <2>7. born[Len(out) + 1] = ticks - leftOver * pushDelta
    BY <2>4, <2>5, <2>6 DEF LeftOverUntil
  <2>8. ticks - leftOver * pushDelta = ticks + n * pushDelta
    BY <2>1, <2>3
  <2> QED
    BY <1>4, <2>6, <2>7, <2>8
<1>8. StampsBorn'
  <2>1. Stamp("leftOver", CalcNextTimeStamp(pushTime, xdelta, n))
    BY <1>1, <1>6
  <2> QED
    BY <1>1, <1>5, <1>7, <2>1, StampKept DEF Timed
<1>9. LeftOverBorn'
  BY <1>1 DEF Timed, LeftOverBorn, TimedCutLeftOver, CutLeftOver
<1> QED
  BY <1>8, <1>9

LEMMA TimedCutPushKept ==
  ASSUME TypeOK, Kept, TimeTypeOK, PushBorn, Timed, TimedCutPush, regular'
  PROVE  LeftOverBorn' /\ StampsBorn'
<1>1. /\ regular /\ step = "cut" /\ step' = "cut" /\ leftOver = 0 /\ leftOver' = 0
      /\ Ready /\ UNCHANGED <<born, described>>
      /\ Stamp("push", CalcNextTimeStamp(pushTime, xdelta, dataIndex \div (mode + 1)))
  BY DEF TimedCutPush, CutPush
<1>2. /\ ~waitingForSRI /\ SizeKept /\ dataSize \in Nat
      /\ dataIndex + dataSize = leftOver + push.size
      /\ push.first + dataIndex = Len(out) + leftOver + 1
  BY <1>1 DEF Kept, CutInv
<1>3. dataSize >= Full /\ Full >= 1 /\ Full \in Nat
  BY <1>1, <1>2, ReadyFacts, FullFacts
<1>4. /\ dataIndex \in Nat /\ mode \in {0, 1} /\ Len(out) \in Nat
      /\ push.first \in Nat /\ push.size \in Nat
  <2>1. push \in Pushes
    BY <1>1 DEF TypeOK
  <2>2. push.first \in Nat /\ push.size \in Nat
    BY <2>1, PushesAssumption DEF Pushes
  <2> QED
    BY <2>2 DEF TypeOK
<1>5. /\ push.first + push.size = Len(born) + 1 /\ xdelta = pushDelta
      /\ mode = push.mode
      /\ \A k \in 1 .. push.size :
           born[push.first + k - 1]
           = Ticks(pushTime) + ((k - 1) \div (push.mode + 1)) * pushDelta
  BY <1>1 DEF PushBorn
<1>6. PICK k \in 1 .. push.size : k = dataIndex + 1 /\ k - 1 = dataIndex
  BY <1>1, <1>2, <1>3, <1>4
<1>7. push.first + k - 1 = Len(out) + 1
  BY <1>1, <1>2, <1>4, <1>6
<1>8. born[Len(out) + 1] = Ticks(pushTime) + (dataIndex \div (mode + 1)) * xdelta
  BY <1>5, <1>6, <1>7
<1>9. Len(out) + 1 \in 1 .. Len(born)
  <2>1. Len(born) \in Nat
    BY DEF TimeTypeOK
  <2> QED
    BY <1>1, <1>2, <1>3, <1>4, <1>5, <2>1
<1>10. StampsBorn'
  BY <1>1, <1>8, <1>9, StampKept, OffsetTypes DEF Timed
<1>11. LeftOverBorn'
  BY <1>1 DEF Timed, LeftOverBorn, TimedCutPush, CutPush
<1> QED
  BY <1>10, <1>11

\* Elements that make whole samples can be divided into samples in parts.
LEMMA SamplesOfParts ==
  ASSUME NEW a \in Nat, NEW b \in Nat, NEW c \in {1, 2}, (a + b) % c = 0, b % c = 0
  PROVE  (a + b) \div c = (a \div c) + (b \div c)
<1>1. CASE c = 1
  BY <1>1
<1>2. CASE c = 2
  BY <1>2
<1> QED
  BY <1>1, <1>2

LEMMA TimedSaveKept ==
  ASSUME TypeOK, Kept, TimeTypeOK, PushBorn, Timed, SaveRemainder, UNCHANGED times, regular'
  PROVE  LeftOverBorn' /\ StampsBorn'
<1>1. /\ regular /\ step = "cut" /\ step' = IF push.eos THEN "end" ELSE "idle"
      /\ ~Ready
      /\ UNCHANGED <<push, mode, out, dataSize, born, pushTime, pushDelta, xdelta, due,
                     contiguous, stamp, described>>
  BY DEF SaveRemainder
<1>2. /\ dataSize \in Nat /\ dataSize % (mode + 1) = 0
      /\ dataIndex + dataSize = leftOver + push.size
      /\ push.first + dataIndex = Len(out) + leftOver + 1
      /\ leftOver > 0 => push.size = 0 /\ dataIndex = 0
  BY <1>1, UnreadyFacts DEF Kept, CutInv
<1>3. /\ dataIndex \in Nat /\ mode \in {0, 1} /\ Len(out) \in Nat /\ leftOver \in Nat
      /\ push.first \in Nat /\ push.size \in Nat /\ pushDelta \in Nat
  <2>1. push \in Pushes
    BY <1>1 DEF TypeOK
  <2>2. push.first \in Nat /\ push.size \in Nat
    BY <2>1, PushesAssumption DEF Pushes
  <2>3. dataIndex \in Nat /\ mode \in {0, 1} /\ Len(out) \in Nat /\ leftOver \in Nat
    BY DEF TypeOK
  <2> QED
    BY <2>2, <2>3 DEF TimeTypeOK
<1>4. /\ push.first + push.size = Len(born) + 1 /\ xdelta = pushDelta
      /\ mode = push.mode
      /\ \A k \in 1 .. push.size :
           born[push.first + k - 1]
           = Ticks(pushTime) + ((k - 1) \div (push.mode + 1)) * pushDelta
      /\ due = Ticks(pushTime) + (push.size \div (push.mode + 1)) * pushDelta
  BY <1>1 DEF PushBorn
<1>5. PICK ticks \in Int : ticks = Ticks(pushTime)
  BY TicksAssumption DEF TimeTypeOK, Times, Ticks
<1>6. CASE dataSize > 0 /\ push.size > 0
  <2>1. /\ leftOver' = dataSize /\ leftOver = 0
        /\ dataIndex + dataSize = push.size /\ push.first + dataIndex = Len(out) + 1
    BY <1>2, <1>3, <1>6 DEF SaveRemainder
  <2>2. PICK c \in {1, 2} : c = mode + 1 /\ c = push.mode + 1
    BY <1>3, <1>4
  <2>3. push.size % c = 0
    BY <1>1, <2>2 DEF Timed, LeftOverBorn
  <2>4. PICK i \in Nat, l \in Nat : i = dataIndex \div c /\ l = dataSize \div c
    <3>1. CASE c = 1
      BY <1>2, <1>3, <3>1
    <3>2. CASE c = 2
      BY <1>2, <1>3, <3>2
    <3> QED
      BY <3>1, <3>2
  <2>5. push.size \div c = i + l
    <3>1. (dataIndex + dataSize) % c = 0 /\ dataSize % c = 0
      BY <1>2, <2>1, <2>2, <2>3
    <3>2. (dataIndex + dataSize) \div c = (dataIndex \div c) + (dataSize \div c)
      BY <1>2, <1>3, <3>1, SamplesOfParts
    <3> QED
      BY <2>1, <2>4, <3>2
  <2>6. born[Len(out) + 1] = ticks + i * pushDelta
    <3>1. PICK k \in 1 .. push.size : k = dataIndex + 1 /\ k - 1 = dataIndex
      BY <1>2, <1>3, <1>6, <2>1
    <3>2. push.first + k - 1 = Len(out) + 1
      BY <1>3, <2>1, <3>1
    <3> QED
      BY <1>4, <1>5, <2>2, <2>4, <3>1, <3>2
  <2>7. due = ticks + (i + l) * pushDelta
    BY <1>4, <1>5, <2>2, <2>5
  <2>8. born[Len(out) + 1] = due - l * pushDelta
    <3>1. (i + l) * pushDelta = i * pushDelta + l * pushDelta
      BY <1>3
    <3>2. PICK a \in Int, b \in Int : a = i * pushDelta /\ b = l * pushDelta
      BY <1>3
    <3> QED
      BY <2>6, <2>7, <3>1, <3>2
  <2>9. LeftOverUntil(due, xdelta)'
    BY <1>1, <1>4, <2>1, <2>2, <2>4, <2>8 DEF LeftOverUntil
  <2>10. step' = "end" => dataIndex' = dataIndex
    BY <1>1 DEF SaveRemainder
  <2> QED
    BY <1>1, <1>3, <1>4, <1>5, <2>1, <2>9, <2>10, StampsBornStay DEF Timed, LeftOverBorn
<1>7. CASE ~(dataSize > 0 /\ push.size > 0)
  <2>1. leftOver' = leftOver
    BY <1>7 DEF SaveRemainder
  <2>2. leftOver > 0 => push.size = 0 /\ due = ticks
    <3>1. 0 \div (push.mode + 1) = 0
      BY <1>3, <1>4
    <3>2. ticks + 0 * pushDelta = ticks
      BY <1>3
    <3> QED
      BY <1>2, <1>4, <1>5, <3>1, <3>2
  <2>3. leftOver > 0 /\ contiguous => LeftOverUntil(due, xdelta)
    BY <1>1, <1>4, <1>5, <2>2 DEF Timed, LeftOverBorn, LeftOverUntil
  <2>4. (LeftOverUntil(due, xdelta))' <=> LeftOverUntil(due, xdelta)
    BY <1>1, <2>1 DEF LeftOverUntil
  <2>5. LeftOverBorn'
    BY <1>1, <1>3, <1>7, <2>1, <2>2, <2>3, <2>4 DEF LeftOverBorn
  <2>6. StampsBorn'
    BY <1>1, <1>3, <1>4, StampsBornStay DEF Timed, TimeTypeOK
  <2> QED
    BY <2>5, <2>6
<1> QED
  BY <1>6, <1>7

LEMMA TimedEndKept ==
  ASSUME TypeOK, Kept, TimeTypeOK, PushBorn, Timed, TimedEndOfStream, regular'
  PROVE  LeftOverBorn' /\ StampsBorn'
<1>1. /\ regular /\ step = "end" /\ step' = "idle" /\ leftOver' = 0
      /\ UNCHANGED <<born, described>>
  BY DEF TimedEndOfStream, EndOfStream
<1>2. LeftOverBorn'
  BY <1>1 DEF LeftOverBorn
<1>3. /\ dataIndex \in Nat /\ mode \in {0, 1} /\ Len(out) \in Nat /\ dataSize \in Int
      /\ push.first \in Nat /\ push.size \in Nat
  <2>1. push \in Pushes
    BY <1>1 DEF TypeOK
  <2>2. push.first \in Nat /\ push.size \in Nat
    BY <2>1, PushesAssumption DEF Pushes
  <2> QED
    BY <2>2 DEF TypeOK
<1>4. /\ push.first + push.size = Len(born) + 1 /\ xdelta = pushDelta
      /\ mode = push.mode
      /\ \A k \in 1 .. push.size :
           born[push.first + k - 1]
           = Ticks(pushTime) + ((k - 1) \div (push.mode + 1)) * pushDelta
  BY <1>1 DEF PushBorn
<1>5. CASE dataSize > 0
  <2>1. PICK from \in {"push", "tail"} : from = IF push.size > 0 THEN "push" ELSE "tail"
    OBVIOUS
  <2>2. Stamp(from, CalcNextTimeStamp(pushTime, xdelta, dataIndex \div (mode + 1)))
    BY <1>5, <2>1 DEF TimedEndOfStream
  <2>3. ASSUME from = "push"
        PROVE  /\ Len(out) + 1 \in 1 .. Len(born)
               /\ born[Len(out) + 1]
                  = Ticks(pushTime) + (dataIndex \div (mode + 1)) * xdelta
    <3>1. push.size > 0
      BY <2>1, <2>3
    <3>2. push.first + dataIndex = Len(out) + 1 /\ dataIndex + dataSize = push.size
      BY <1>1, <1>5, <3>1 DEF Timed, LeftOverBorn
    <3>3. PICK k \in 1 .. push.size : k = dataIndex + 1 /\ k - 1 = dataIndex
      BY <1>3, <1>5, <3>2
    <3>4. push.first + k - 1 = Len(out) + 1 /\ Len(out) + 1 \in 1 .. Len(born)
      <4>1. Len(born) \in Nat
        BY DEF TimeTypeOK
      <4> QED
        BY <1>3, <1>4, <1>5, <3>2, <3>3, <4>1
    <3> QED
      BY <1>4, <3>3, <3>4
  <2>4. StampsBorn'
    BY <1>1, <2>1, <2>2, <2>3, StampKept, OffsetTypes DEF Timed
  <2> QED
    BY <1>2, <2>4
<1>6. CASE ~(dataSize > 0)
  <2>1. UNCHANGED stamp
    BY <1>6 DEF TimedEndOfStream
  <2>2. Len(born) \in Nat
    BY DEF TimeTypeOK
  <2>3. StampsBorn'
    BY <1>1, <2>1, <2>2, StampsBornStay DEF Timed
  <2> QED
    BY <1>2, <2>3
<1> QED
  BY <1>5, <1>6

LEMMA TimedStep ==
  ASSUME TypeOK, TypeOK', Kept, TimeTypeOK, PushBorn, SizesBelow, Timed,
         [TimeNext]_allVars
  PROVE  Timed'
<1> SUFFICES ASSUME regular' PROVE LeftOverBorn' /\ StampsBorn'
  BY DEF Timed
<1>1. CASE TimedReceive
  BY <1>1, TimedReceiveKept
<1>2. CASE TimedMerge
  BY <1>2, TimedMergeKept
<1>3. CASE TimedCutLeftOver
  BY <1>3, TimedCutLeftOverKept
<1>4. CASE TimedCutPush
  BY <1>4, TimedCutPushKept
<1>5. CASE TimedEndOfStream
  BY <1>5, TimedEndKept
<1>6. CASE Untimed /\ SaveRemainder
  BY <1>6, TimedSaveKept DEF Untimed
<1>7. Len(born) \in Nat
  BY DEF TimeTypeOK
<1>8. CASE Untimed /\ SkipMerge
  <2>1. regular /\ step = "merge" /\ step' = "cut"
    BY <1>8 DEF SkipMerge
  <2>2. UNCHANGED <<push, mode, out, leftOver, times>>
    BY <1>8 DEF Untimed, SkipMerge
  <2>3. LeftOverBorn'
    BY <2>1, <2>2 DEF Timed, LeftOverBorn, LeftOverUntil, Ticks
  <2> QED
    BY <1>7, <2>1, <2>2, <2>3, StampsBornStay DEF Timed
<1>9. CASE Untimed /\ (DropUnready \/ Crash)
  <2>1. Kept'
    BY <1>9, NoCrash
  <2>2. regular /\ step = "cut"
    BY <1>9 DEF DropUnready, Crash
  <2>3. samplesPerPacket \in Nat /\ samplesPerPacket >= 1
    BY <2>2, FullFacts DEF Kept, CutInv
  <2>4. ~DropUnready
    <3>1. DropUnready => samplesPerPacket < 1
      BY DEF DropUnready
    <3> QED
      BY <2>3, <3>1
  <2>5. step' = "crashed"
    BY <1>9, <2>4 DEF Crash
  <2> QED
    BY <2>1, <2>5 DEF Kept
<1>10. ASSUME UNCHANGED <<step, regular, push, mode, out, leftOver, dataSize, dataIndex,
                          pushTime, pushDelta, xdelta, due, born, contiguous, stamp,
                          described>>
       PROVE  LeftOverBorn' /\ StampsBorn'
  <2>1. LeftOverBorn'
    BY <1>10 DEF Timed, LeftOverBorn, LeftOverUntil, Ticks
  <2> QED
    BY <1>7, <1>10, <2>1, StampsBornStay DEF Timed
<1>11. CASE StampSeconds \/ ReadFraction \/ TellTime
  BY <1>10, <1>11 DEF StampSeconds, ReadFraction, TellTime, vars
<1>12. CASE Untimed /\ (MemoryManagement \/ Configure)
  BY <1>10, <1>12 DEF Untimed, MemoryManagement, Configure
<1>13. CASE UNCHANGED allVars
  BY <1>10, <1>13 DEF allVars, vars
<1> QED
  BY <1>1, <1>2, <1>3, <1>4, <1>5, <1>6, <1>8, <1>9, <1>11, <1>12, <1>13
  DEF TimeNext, Untimed

-----------------------------------------------------------------------------
(* The context packet and the data packet of one sample                    *)

\* The context packet is about the sample that goes out next, and came with the
\* push under work.
DescribesNext == described.by = pushes /\ described.first = Len(out) + 1

\* A context packet that has come with a push tells, until the next packet goes
\* out, the time that this packet is going to have.
Agreed ==
  regular =>
    /\ stamp.by <= pushes /\ described.by <= pushes
    /\ described.first <= Len(out) + 1
    /\ step = "merge" => stamp.by < pushes /\ described.by < pushes
    /\ SameStart /\ (stamp.from = "push" \/ (stamp.from = "leftOver" /\ stamp.mode = 0)) =>
         stamp.time = described.time
    /\ step = "cut" /\ DescribesNext =>
         /\ dataIndex = 0
         /\ described.time
            = CalcNextTimeStamp(pushTime, xdelta, -(leftOver \div (mode + 1)))
    /\ step = "end" /\ DescribesNext /\ push.size > 0 =>
         /\ dataIndex = 0
         /\ described.time = CalcNextTimeStamp(pushTime, xdelta, 0)

\* A step that stamps nothing and sends nothing.
LEMMA AgreedStays ==
  ASSUME Agreed,
         UNCHANGED <<regular, step, push, mode, pushes, out, leftOver, dataIndex,
                     pushTime, xdelta, stamp, described>>
  PROVE  Agreed'
  BY DEF Agreed, DescribesNext, SameStart

LEMMA AgreedReceive ==
  ASSUME TypeOK, TimeTypeOK, Agreed, TimedReceive, regular'
  PROVE  Agreed'
<1>1. /\ regular /\ step' = "merge" /\ pushes' = pushes + 1
      /\ UNCHANGED <<out, stamp, described>>
  BY DEF TimedReceive, Receive
<1>2. pushes \in Nat /\ stamp.by \in Nat /\ described.by \in Nat
  BY DEF TypeOK, TimeTypeOK
<1>3. stamp.by < pushes + 1 /\ described.by < pushes + 1
  BY <1>1, <1>2 DEF Agreed
<1> QED
  BY <1>1, <1>2, <1>3 DEF Agreed, SameStart

LEMMA AgreedMerge ==
  ASSUME TypeOK, Kept, TimeTypeOK, Agreed, TimedMerge, regular'
  PROVE  Agreed'
<1>1. /\ regular /\ step = "merge" /\ step' = "cut" /\ mode' = push.mode
      /\ xdelta' = pushDelta
      /\ UNCHANGED <<push, out, pushes, leftOver, dataIndex, pushTime, stamp>>
  BY DEF TimedMerge, Merge
<1>2. /\ dataIndex = 0 /\ complexMultiplier = mode + 1
      /\ push.mode # mode => leftOver = 0
  BY <1>1 DEF Kept, MergeInv
<1>3. stamp.by < pushes /\ described.by < pushes /\ pushes \in Nat /\ Len(out) \in Nat
  BY <1>1 DEF Agreed, TypeOK
<1>4. stamp.by \in Nat /\ described.by \in Nat
  BY DEF TimeTypeOK
<1>5. CASE push.new
  <2>1. leftOver \div complexMultiplier = leftOver \div (push.mode + 1)
    <3>1. CASE push.mode = mode
      BY <1>2, <3>1
    <3>2. CASE push.mode # mode
      <4>1. push.mode \in {0, 1} /\ mode \in {0, 1}
        BY <1>1, PushesAssumption DEF TypeOK, Pushes
      <4>2. 0 \div (mode + 1) = 0 /\ 0 \div (push.mode + 1) = 0
        BY <4>1
      <4> QED
        BY <1>2, <3>2, <4>2
    <3> QED
      BY <3>1, <3>2
  <2>2. /\ described'.by = pushes /\ described'.first = Len(out) + 1
        /\ described'.time = CalcNextTimeStamp(pushTime, pushDelta,
                                               -(leftOver \div (push.mode + 1)))
    BY <1>5, <2>1 DEF TimedMerge
  <2>3. ~SameStart'
    BY <1>1, <1>3, <1>4, <2>2 DEF SameStart
  <2> QED
    BY <1>1, <1>2, <1>3, <1>4, <2>2, <2>3 DEF Agreed
<1>6. CASE ~push.new
  <2>1. described' = described
    BY <1>6 DEF TimedMerge
  <2>2. ~DescribesNext'
    BY <1>1, <1>3, <1>4, <2>1 DEF DescribesNext
  <2> QED
    BY <1>1, <2>1, <2>2 DEF Agreed, SameStart
<1> QED
  BY <1>5, <1>6

\* A full packet moves the end of what was sent by at least one element.
LEMMA SentByCut ==
  ASSUME TypeOK, TypeOK', Kept, Kept', regular, CutLeftOver \/ CutPush
  PROVE  Len(out) \in Nat /\ Len(out') \in Nat /\ Len(out) < Len(out')
<1>1. /\ step = "cut" /\ step' = "cut" /\ regular' /\ received' = received
      /\ Ready /\ dataSize' = dataSize - Full
  BY DEF CutLeftOver, CutPush
<1>2. /\ ~waitingForSRI /\ SizeKept /\ dataSize \in Nat /\ Len(out) + dataSize = received
      /\ Len(out') + dataSize' = received /\ dataSize' \in Nat
  BY <1>1 DEF Kept, CutInv
<1>3. Full \in Nat /\ Full >= 1
  BY <1>2, FullFacts
<1>4. Len(out) \in Nat /\ Len(out') \in Nat
  <2>1. out \in Seq(Nat) /\ out' \in Seq(Nat)
    BY DEF TypeOK
  <2> QED
    BY <2>1
<1> QED
  BY <1>1, <1>2, <1>3, <1>4

\* What no samples before or after a time is.
LEMMA NoSamples ==
  ASSUME mode \in {0, 1}
  PROVE  0 \div (mode + 1) = 0 /\ -(0 \div (mode + 1)) = 0
<1>1. PICK none \in Int : none = 0 \div (mode + 1) /\ none = 0
  <2>1. 0 \div (mode + 1) = 0
    OBVIOUS
  <2> QED
    BY <2>1
<1>2. -none = none
  BY <1>1
<1> QED
  BY <1>1, <1>2

LEMMA AgreedCut ==
  ASSUME TypeOK, TypeOK', Kept, Kept', TimeTypeOK, SizesBelow, Agreed,
         TimedCutLeftOver \/ TimedCutPush, regular
  PROVE  Agreed'
<1>1. /\ step = "cut" /\ step' = "cut"
      /\ UNCHANGED <<push, pushes, pushTime, xdelta, mode, described>>
  BY DEF TimedCutLeftOver, TimedCutPush, CutLeftOver, CutPush
<1>2. Len(out) \in Nat /\ Len(out') \in Nat /\ Len(out) < Len(out')
  BY SentByCut DEF TimedCutLeftOver, TimedCutPush
<1>3. described.first \in Nat /\ described.first <= Len(out) + 1
  BY DEF Agreed, TimeTypeOK
<1>4. ~DescribesNext'
  BY <1>1, <1>2, <1>3 DEF DescribesNext
<1>5. stamp'.by = pushes /\ stamp'.first = Len(out) + 1 /\ stamp'.mode = mode
  BY DEF TimedCutLeftOver, TimedCutPush, Stamp
<1>6. stamp'.by <= pushes' /\ described'.by <= pushes' /\ described'.first <= Len(out') + 1
  <2>1. pushes \in Nat /\ described.by <= pushes
    BY DEF TypeOK, Agreed
  <2> QED
    BY <1>1, <1>2, <1>3, <1>5, <2>1
<1>7. ASSUME SameStart', stamp'.from = "push" \/ (stamp'.from = "leftOver" /\ stamp'.mode = 0)
      PROVE  stamp'.time = described'.time
  <2>1. DescribesNext
    BY <1>1, <1>5, <1>7 DEF SameStart, DescribesNext
  <2>2. /\ dataIndex = 0
        /\ described.time = CalcNextTimeStamp(pushTime, xdelta, -(leftOver \div (mode + 1)))
    BY <1>1, <2>1 DEF Agreed
  <2>3. leftOver \in Nat /\ mode \in {0, 1}
    BY DEF TypeOK
  <2>4. CASE TimedCutLeftOver
    <3>1. /\ leftOver > 0 /\ stamp'.from = "leftOver"
          /\ stamp'.time = CalcNextTimeStamp(pushTime, xdelta, NegatedLeftOver)
      BY <2>4 DEF TimedCutLeftOver, CutLeftOver, Stamp
    <3>2. mode = 0
      BY <1>5, <1>7, <3>1
    <3>3. leftOver < UIntRange \div 2
      <4>1. SizeKept /\ ~waitingForSRI
        BY <1>1 DEF Kept, CutInv
      <4>2. leftOver <= Full /\ Full <= cutFor /\ Full \in Nat /\ cutFor \in Nat
        BY <4>1, FullFacts DEF TypeOK
      <4>3. PICK h \in Int : h = UIntRange \div 2
        BY UIntAssumption
      <4>4. cutFor < h
        BY <4>3 DEF SizesBelow
      <4> QED
        BY <2>3, <4>2, <4>3, <4>4
    <3>4. NegatedLeftOver = -leftOver
      BY <3>1, <3>2, <3>3, NegatedScalar
    <3>5. leftOver \div (mode + 1) = leftOver
      BY <2>3, <3>2
    <3> QED
      BY <1>1, <2>2, <3>1, <3>4, <3>5
  <2>5. CASE TimedCutPush
    <3>1. /\ leftOver = 0
          /\ stamp'.time = CalcNextTimeStamp(pushTime, xdelta, dataIndex \div (mode + 1))
      BY <2>5 DEF TimedCutPush, CutPush, Stamp
    <3>2. 0 \div (mode + 1) = 0 /\ -(0 \div (mode + 1)) = 0
      BY <2>3, NoSamples
    <3> QED
      BY <1>1, <2>2, <3>1, <3>2
  <2> QED
    BY <2>4, <2>5
<1> QED
  BY <1>1, <1>4, <1>6, <1>7 DEF Agreed

LEMMA AgreedSave ==
  ASSUME TypeOK, Kept, Agreed, SaveRemainder, UNCHANGED times, regular
  PROVE  Agreed'
<1>1. /\ step = "cut" /\ ~Ready /\ step' \in {"end", "idle"}
      /\ step' = "end" => dataIndex' = dataIndex
      /\ UNCHANGED <<regular, push, mode, out, pushes, pushTime, xdelta, stamp, described>>
  BY DEF SaveRemainder
<1>2. leftOver \in Nat /\ mode \in {0, 1} /\ push.size \in Nat
  BY <1>1, PushesAssumption DEF TypeOK, Pushes
<1>3. push.size > 0 => leftOver = 0
  BY <1>1, <1>2, UnreadyFacts
<1>4. ASSUME DescribesNext, push.size > 0
      PROVE  dataIndex = 0 /\ described.time = CalcNextTimeStamp(pushTime, xdelta, 0)
  <2>1. -(0 \div (mode + 1)) = 0
    BY <1>2, NoSamples
  <2> QED
    BY <1>1, <1>3, <1>4, <2>1 DEF Agreed
<1> QED
  BY <1>1, <1>4 DEF Agreed, DescribesNext, SameStart

LEMMA AgreedEnd ==
  ASSUME TypeOK, TypeOK', Kept, Kept', TimeTypeOK, Agreed, TimedEndOfStream, regular
  PROVE  Agreed'
<1>1. /\ step = "end" /\ step' = "idle" /\ leftOver' = 0 /\ regular'
      /\ UNCHANGED <<received, push, pushes, pushTime, xdelta, mode, described>>
  BY DEF TimedEndOfStream, EndOfStream
<1>2. Len(out) \in Nat /\ Len(out') \in Nat /\ Len(out) <= Len(out')
  <2>1. Len(out) + leftOver = received /\ Len(out') + leftOver' = received
    BY <1>1 DEF Kept, EndInv, IdleInv
  <2> QED
    BY <1>1, <2>1 DEF TypeOK
<1>3. described'.by <= pushes' /\ described'.first <= Len(out') + 1
  BY <1>1, <1>2 DEF Agreed, TimeTypeOK
<1>4. CASE dataSize > 0
  <2>1. /\ stamp'.by = pushes /\ stamp'.first = Len(out) + 1
        /\ stamp'.from = IF push.size > 0 THEN "push" ELSE "tail"
        /\ stamp'.time = CalcNextTimeStamp(pushTime, xdelta, dataIndex \div (mode + 1))
    BY <1>4 DEF TimedEndOfStream, Stamp
  <2>2. stamp'.by <= pushes'
    BY <1>1, <2>1 DEF TypeOK
  <2>3. ASSUME SameStart', push.size > 0
        PROVE  stamp'.time = described'.time
    <3>1. DescribesNext
      BY <1>1, <2>1, <2>3 DEF SameStart, DescribesNext
    <3>2. dataIndex = 0 /\ described.time = CalcNextTimeStamp(pushTime, xdelta, 0)
      BY <1>1, <2>3, <3>1 DEF Agreed
    <3>3. 0 \div (mode + 1) = 0
      BY NoSamples DEF TypeOK
    <3> QED
      BY <1>1, <2>1, <3>2, <3>3
  <2>4. stamp'.from = "push" \/ stamp'.from = "leftOver" => push.size > 0
    BY <2>1
  <2> QED
    BY <1>1, <1>3, <2>2, <2>3, <2>4 DEF Agreed
<1>5. CASE ~(dataSize > 0)
  <2>1. UNCHANGED stamp
    BY <1>5 DEF TimedEndOfStream
  <2> QED
    BY <1>1, <1>3, <2>1 DEF Agreed, SameStart
<1> QED
  BY <1>4, <1>5

LEMMA AgreedStep ==
  ASSUME TypeOK, TypeOK', Kept, Kept', TimeTypeOK, SizesBelow, Agreed, [TimeNext]_allVars
  PROVE  Agreed'
<1> SUFFICES ASSUME regular' PROVE Agreed'
  BY DEF Agreed
<1>1. CASE TimedReceive
  BY <1>1, AgreedReceive
<1>2. CASE TimedMerge
  BY <1>2, AgreedMerge
<1>3. CASE TimedCutLeftOver \/ TimedCutPush
  BY <1>3, AgreedCut DEF TimedCutLeftOver, TimedCutPush, CutLeftOver, CutPush
<1>4. CASE TimedEndOfStream
  BY <1>4, AgreedEnd DEF TimedEndOfStream, EndOfStream
<1>5. CASE Untimed /\ SaveRemainder
  BY <1>5, AgreedSave DEF Untimed, SaveRemainder
<1>6. CASE Untimed /\ SkipMerge
  <2>1. /\ regular /\ step = "merge" /\ step' = "cut"
        /\ UNCHANGED <<out, pushes, stamp, described>>
    BY <1>6 DEF Untimed, SkipMerge
  <2>2. described.by < pushes /\ described.by \in Nat /\ pushes \in Nat
    BY <2>1 DEF Agreed, TimeTypeOK, TypeOK
  <2>3. ~DescribesNext'
    BY <2>1, <2>2 DEF DescribesNext
  <2> QED
    BY <2>1, <2>3 DEF Agreed, SameStart
<1>7. CASE Untimed /\ (DropUnready \/ Crash)
  <2>1. regular /\ step = "cut" /\ ~waitingForSRI /\ SizeKept
    BY <1>7 DEF DropUnready, Crash, Kept, CutInv
  <2>2. samplesPerPacket \in Nat /\ samplesPerPacket >= 1
    BY <2>1, FullFacts
  <2>3. step' # "crashed"
    BY DEF Kept
  <2>4. ~Crash
    BY <2>3 DEF Crash
  <2>5. DropUnready => samplesPerPacket < 1
    BY DEF DropUnready
  <2> QED
    BY <1>7, <2>2, <2>4, <2>5
<1>8. CASE Untimed /\ (MemoryManagement \/ Configure)
  BY <1>8, AgreedStays DEF Untimed, MemoryManagement, Configure
<1>9. CASE StampSeconds \/ ReadFraction \/ TellTime
  BY <1>9, AgreedStays DEF StampSeconds, ReadFraction, TellTime, vars
<1>10. CASE UNCHANGED allVars
  BY <1>10, AgreedStays DEF allVars, vars
<1> QED
  BY <1>1, <1>2, <1>3, <1>4, <1>5, <1>6, <1>7, <1>8, <1>9, <1>10 DEF TimeNext, Untimed

LEMMA TimedInvariant == TimeSpec => [](Timed /\ Agreed)
<1>1. TimeInit => PushBorn /\ SizesBelow /\ Timed /\ Agreed
  <2> SUFFICES ASSUME TimeInit PROVE PushBorn /\ SizesBelow /\ Timed /\ Agreed
    OBVIOUS
  <2>1. PushBorn
    BY DEF TimeInit, Init, PushBorn
  <2>2. SizesBelow
    <3>1. 0 < UIntRange \div 2
      BY UIntAssumption
    <3> QED
      BY <3>1, UIntAssumption DEF TimeInit, Init, SizesBelow
  <2>3. Timed
    BY DEF TimeInit, Init, Timed, LeftOverBorn, StampsBorn
  <2>4. Agreed
    BY DEF TimeInit, Init, Agreed
  <2> QED
    BY <2>1, <2>2, <2>3, <2>4
<1>2. TimeSpec => [](TypeOK /\ Kept)
  BY TimeRefines, KeptInvariant, PTL
<1> QED
  BY <1>1, <1>2, TimeTypes, TimeStep, PushBornStep, SizesBelowStep, TimedStep, AgreedStep,
     PTL
  DEF TimeSpec

\* As long as every push is Whole and Fits the time in every data packet is that
\* of its first sample: for every payload size, xdelta and gap between pushes,
\* packets that start with left-over scalar data included.
THEOREM StampsRight == TimeSpec => []TimesKept
<1>1. Timed => TimesKept
  BY DEF Timed, StampsBorn, Stamped, TimesKept
<1> QED
  BY <1>1, TimedInvariant, PTL

\* As long as every push is Whole and Fits, for every payload size, xdelta, gap and
\* mode: the time in the context packet of an SRI is that of the first sample it
\* describes, provided that no gap and no change of xdelta lies between a left-over
\* sample and the push; with either it is still the time in the data packet that
\* starts with that sample and goes out with the same push, unless this has
\* left-over complex samples or is the rest sent by an empty push.
THEOREM SRIInTime == TimeSpec => []DescribedInTime
<1>1. Timed /\ Agreed => DescribedInTime
  BY DEF Timed, Agreed, StampsBorn, Stamped, DescribedInTime
<1> QED
  BY <1>1, TimedInvariant, PTL
=============================================================================
