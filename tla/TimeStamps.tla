------------------------------ MODULE TimeStamps ------------------------------
(***************************************************************************)
(* The times that packets are stamped with: calcNextTimeStamp()            *)
(* (cpp/SinkVITA49.h) as singleService() calls it for each packet that     *)
(* Packetizer cuts, and _tContext, through which the context thread learns *)
(* of them without a lock.                                                 *)
(*                                                                         *)
(* A time is a BULKIO::PrecisionUTCTime: whole seconds and a fraction, here *)
(* in ticks (the code: picoseconds). Every action of Packetizer is         *)
(* conjoined with what it does to the times. The context thread runs while *)
(* a stream is announced.                                                  *)
(***************************************************************************)
EXTENDS Packetizer

CONSTANTS
  Second,        \* ticks in a second
  FractionScale, \* what _tContext.tfsec is too large by: 1e12 / 10e9
  UIntRange,     \* 2^32, the values of an unsigned int
  Start,         \* ticks: when the first sample was taken
  Deltas,        \* ticks: what xdelta may be
  Gaps,          \* ticks: how far the time of a push may be from that of the
                 \* sample after the last one
  MaxGaps,       \* bound: pushes with such a gap
  MaxTold        \* bound: periodic context packets

ASSUME TicksAssumption ==
  /\ Second \in Nat \ {0} /\ FractionScale \in Nat /\ Start \in Nat
  /\ Deltas \subseteq Nat \ {0} /\ Gaps \subseteq Nat \ {0} /\ MaxGaps \in Nat
  /\ MaxTold \in Nat
ASSUME UIntAssumption ==
  /\ UIntRange \in Nat \ {0} /\ UIntRange % 4 = 0
  /\ \A size \in Payloads \union {DefaultPayload} : size < UIntRange \div 2

VARIABLES
  pushTime,      \* T of the push under work
  pushDelta,     \* xdelta of its SRI
  xdelta,        \* currSRI.xdelta
  nextTimeStamp,
  tContext,      \* _tContext
  torn,          \* _tContext has the new fraction and the old seconds
  ctxRead,       \* the fraction the context thread has read, or NotRead
  told,          \* the time in the stream's last periodic context packet
  stamp,         \* of the last data packet: where it starts, in which mode, the
                 \* push it went out with, its first element and time, and contiguous
  described,     \* of the SRI's context packet: the push it came with, the first
                 \* element it is about and its time, and that this was there and
                 \* contiguous
  born,          \* history: when each element received was sampled, in ticks
  due,           \* history: when the sample after the last one will be
  contiguous,    \* history: the push goes on where what is left over ends
  spoken,        \* history: the times of the stream's data packets
  gaps, reads    \* for the bounds

pushTimes == <<pushTime, pushDelta, born, due, contiguous, gaps>>
sentTimes == <<nextTimeStamp, stamp>>
contextTimes == <<tContext, torn, ctxRead, told, spoken, reads>>
times == <<pushTimes, sentTimes, contextTimes, xdelta, described>>
allVars == <<vars, times>>

Time(sec, frac) == [twsec |-> sec, tfsec |-> frac]
Ticks(time) == time.twsec * Second + time.tfsec
Normal(ticks) == Time(ticks \div Second, ticks % Second)
NotRead == -1
NoTime == Time(0, -1)

\* Faulty variant: the carry of the two fractions is forgotten.
CalcNextTimeStampUncarried(T, delta, n) ==
  LET offset == n * delta
  IN  Time(T.twsec + (offset \div Second), T.tfsec + (offset % Second))

\* calcNextTimeStamp(T, delta, n): floor() makes the fraction of the offset
\* positive, so that at most the carry of two fractions is left to adjust.
CalcNextTimeStamp(T, delta, n) ==
  LET offset == n * delta
      frac   == T.tfsec + (offset % Second)
  IN  Time(T.twsec + (offset \div Second) + (frac \div Second), frac % Second)

\* An unsigned int assigned to an int.
ToInt(u) == IF u >= UIntRange \div 2 THEN u - UIntRange ELSE u

\* The offset of the left-over samples as the data packets get it: the unsigned
\* leftOverDataSize is negated before it is divided.
NegatedLeftOver == ToInt(((UIntRange - leftOver) % UIntRange) \div (mode + 1))

TimeInit ==
  /\ Init
  /\ pushTime = Time(0, 0) /\ pushDelta = Second /\ xdelta = Second
  /\ nextTimeStamp = Time(0, 0) /\ tContext = Time(0, 0) /\ torn = FALSE
  /\ ctxRead = NotRead /\ told = NoTime
  /\ stamp = [from |-> "none", mode |-> 0, by |-> 0, sure |-> TRUE, first |-> 0,
              time |-> Time(0, 0)]
  /\ described = [by |-> 0, sure |-> FALSE, first |-> 0, time |-> Time(0, 0)]
  /\ born = <<>> /\ due = Start /\ contiguous = TRUE /\ spoken = {}
  /\ gaps = 0 /\ reads = 0

-----------------------------------------------------------------------------
(* The service thread                                                      *)

\* The time of a push is that of its first sample; another xdelta makes its SRI
\* another one.
TimedReceive ==
  /\ Receive
  /\ \E gap \in Gaps \union {0}, d \in Deltas :
       LET start == due + gap
           n     == push'.size
           c     == push'.mode + 1
       IN  /\ gap # 0 => gaps < MaxGaps
           /\ d # xdelta => push'.new /\ (push'.changed \/ waitingForSRI)
           /\ pushTime' = Normal(start) /\ pushDelta' = d
           /\ born' = born \o [k \in 1 .. n |-> start + ((k - 1) \div c) * d]
           /\ due' = start + (n \div c) * d
           /\ contiguous' = \/ leftOver = 0
                            \/ (push.size > 0 \/ contiguous) /\ gap = 0 /\ d = xdelta
           /\ gaps' = IF gap = 0 THEN gaps ELSE gaps + 1
  /\ UNCHANGED <<sentTimes, contextTimes, xdelta, described>>

\* Faulty variant: the context packet is made before mergeRecSRI() takes xdelta over.
TimedMergeTooLate ==
  /\ Merge
  /\ xdelta' = pushDelta
  /\ described' =
       IF push.new
       THEN [by    |-> pushes,
             sure  |-> contiguous /\ Len(out) < received,
             first |-> Len(out) + 1,
             time  |-> CalcNextTimeStamp(pushTime, xdelta,
                                         -(leftOver \div complexMultiplier))]
       ELSE described
  /\ UNCHANGED <<pushTimes, sentTimes, contextTimes>>

\* The SRI's context packet has the time of the first sample not sent yet.
TimedMerge ==
  /\ Merge
  /\ xdelta' = pushDelta
  /\ described' =
       IF push.new
       THEN [by    |-> pushes,
             sure  |-> contiguous /\ Len(out) < received,
             first |-> Len(out) + 1,
             time  |-> CalcNextTimeStamp(pushTime, pushDelta,
                                         -(leftOver \div complexMultiplier))]
       ELSE described
  /\ UNCHANGED <<pushTimes, sentTimes, contextTimes>>

\* A packet has been stamped; the fraction of _tContext is set first.
Stamp(from, time) ==
  /\ nextTimeStamp' = time
  /\ stamp' = [from |-> from, mode |-> mode, by |-> pushes, sure |-> contiguous,
               first |-> Len(out) + 1, time |-> time]

StampContext ==
  /\ tContext' = [tContext EXCEPT !.tfsec = FractionScale * nextTimeStamp'.tfsec]
  /\ spoken' = spoken \union {nextTimeStamp'}
  /\ torn' = TRUE
  /\ UNCHANGED <<ctxRead, told, reads>>

\* Faulty variant: a packet with left-over data has the time of the push.
TimedCutLeftOverLate ==
  /\ ~torn /\ CutLeftOver
  /\ Stamp("leftOver", CalcNextTimeStamp(pushTime, xdelta, dataIndex \div (mode + 1)))
  /\ StampContext
  /\ UNCHANGED <<pushTimes, xdelta, described>>

TimedCutLeftOver ==
  /\ ~torn /\ CutLeftOver
  /\ Stamp("leftOver", CalcNextTimeStamp(pushTime, xdelta, NegatedLeftOver))
  /\ StampContext
  /\ UNCHANGED <<pushTimes, xdelta, described>>

TimedCutPush ==
  /\ ~torn /\ CutPush
  /\ Stamp("push", CalcNextTimeStamp(pushTime, xdelta, dataIndex \div (mode + 1)))
  /\ StampContext
  /\ UNCHANGED <<pushTimes, xdelta, described>>

StampSeconds ==
  /\ torn
  /\ tContext' = [tContext EXCEPT !.twsec = nextTimeStamp.twsec]
  /\ torn' = FALSE
  /\ UNCHANGED <<vars, pushTimes, sentTimes, ctxRead, told, spoken, reads, xdelta,
                 described>>

\* Faulty variant: _tContext outlives the stream.
TimedEndOfStreamKeeping ==
  /\ ctxRead = NotRead /\ EndOfStream
  /\ IF dataSize > 0
     THEN Stamp(IF push.size > 0 THEN "push" ELSE "tail",
                CalcNextTimeStamp(pushTime, xdelta, dataIndex \div (mode + 1)))
     ELSE UNCHANGED <<nextTimeStamp, stamp>>
  /\ told' = NoTime /\ spoken' = {}
  /\ UNCHANGED <<pushTimes, tContext, torn, ctxRead, reads, xdelta, described>>

\* The rest of a stream is stamped as part of the push that ended it. The
\* context thread is joined before initialize_values().
TimedEndOfStream ==
  /\ ctxRead = NotRead /\ EndOfStream
  /\ IF dataSize > 0
     THEN Stamp(IF push.size > 0 THEN "push" ELSE "tail",
                CalcNextTimeStamp(pushTime, xdelta, dataIndex \div (mode + 1)))
     ELSE UNCHANGED <<nextTimeStamp, stamp>>
  /\ tContext' = Time(0, 0) /\ told' = NoTime /\ spoken' = {}
  /\ UNCHANGED <<pushTimes, torn, ctxRead, reads, xdelta, described>>

\* What the remaining actions of Packetizer leave alone.
Untimed ==
  /\ \/ MemoryManagement \/ Configure \/ SkipMerge
     \/ ~torn /\ (DropUnready \/ Crash \/ SaveRemainder)
  /\ UNCHANGED times

-----------------------------------------------------------------------------
(* The context thread: timerThread() copies _tContext, one field after the *)
(* other                                                                   *)

ReadFraction ==
  /\ ctxRead = NotRead /\ ~waitingForSRI
  /\ reads < MaxTold /\ reads' = reads + 1
  /\ ctxRead' = tContext.tfsec
  /\ UNCHANGED <<vars, pushTimes, sentTimes, tContext, torn, told, spoken,
                 xdelta, described>>

TellTime ==
  /\ ctxRead # NotRead
  /\ told' = CalcNextTimeStamp(Time(tContext.twsec, ctxRead), xdelta, 0)
  /\ ctxRead' = NotRead
  /\ UNCHANGED <<vars, pushTimes, sentTimes, tContext, torn, spoken, reads,
                 xdelta, described>>

TimeNext ==
  \/ TimedReceive \/ TimedMerge \/ TimedCutLeftOver \/ TimedCutPush \/ StampSeconds
  \/ TimedEndOfStream \/ Untimed \/ ReadFraction \/ TellTime

TimeSpec == TimeInit /\ [][TimeNext]_allVars

-----------------------------------------------------------------------------
(* Properties                                                              *)

Times == [twsec : Int, tfsec : 0 .. Second - 1]

\* Every variable has its type; the fraction of every time that goes into a
\* packet is less than a second, that of _tContext need not be.
TimeTypeOK ==
  /\ pushTime \in Times /\ nextTimeStamp \in Times /\ spoken \subseteq Times
  /\ told \in Times \union {NoTime} /\ tContext \in [twsec : Int, tfsec : Nat]
  /\ stamp \in [from : {"none", "push", "leftOver", "tail"}, mode : {0, 1},
                by : Nat, sure : BOOLEAN, first : Nat, time : Times]
  /\ described \in [by : Nat, sure : BOOLEAN, first : Nat, time : Times]
  /\ pushDelta \in Nat /\ xdelta \in Nat /\ due \in Nat
  /\ gaps \in Nat /\ reads \in Nat
  /\ torn \in BOOLEAN /\ contiguous \in BOOLEAN
  /\ ctxRead \in Nat \union {NotRead} /\ born \in Seq(Int)

\* stamp tells when its first sample was taken.
Right(s) == Ticks(s.time) = born[s.first]

\* As long as every push is Whole and Fits, every data packet carries the time its
\* first sample was taken, across pushes, changes of xdelta and gaps: one that
\* starts with left-over data if it is scalar and nothing came between that and
\* the push; and the rest of a stream unless an empty push ended it, whose time it
\* has.
TimesKept ==
  regular =>
    /\ stamp.from = "push" => Right(stamp)
    /\ stamp.from = "leftOver" /\ stamp.sure /\ stamp.mode = 0 => Right(stamp)

\* The last data packet and the SRI's context packet came with the same push and
\* start at the same sample.
SameStart == stamp.by = described.by /\ stamp.first = described.first

\* As long as every push is Whole and Fits (so that nothing is left over when the
\* mode changes), the context packet of an SRI carries
\*  - the time its first sample was taken, which may be a left-over one, provided
\*    that no gap and no other xdelta came between that and the push: both are
\*    reckoned back from the push with its xdelta, so with either the time is not
\*    the sample's, in the context packet (cpp/SinkVITA49.cpp:1149) as in the data
\*    packet (1178);
\*  - and, gap or no gap, the time that the data packet with that sample carries
\*    if it goes out with the push: left-over complex samples excepted, whose data
\*    packet cpp/SinkVITA49.cpp:1178 puts elsewhere, and a rest that an empty push
\*    sends.
DescribedInTime ==
  regular =>
    /\ described.sure => Right(described)
    /\ SameStart /\ (stamp.from = "push" \/ (stamp.from = "leftOver" /\ stamp.mode = 0)) =>
         stamp.time = described.time

\* A periodic context packet has its time from the packets of its own stream,
\* the second of one and FractionScale times the fraction of another, or from
\* the start of the time scale as long as there are none.
ToldFromOwnStream ==
  told # NoTime =>
    \E p, q \in spoken \union {Time(0, 0)} :
      told = CalcNextTimeStamp(Time(p.twsec, FractionScale * q.tfsec), xdelta, 0)

\* "Adjust for any negative offset remainder" (cpp/SinkVITA49.h:208): the offset
\* of left-over samples reaches calcNextTimeStamp() as a negative one, so that
\* the packet carries the time of the first of them.
FirstSampleTime ==
  regular /\ stamp.from = "leftOver" /\ stamp.sure => Right(stamp)
=============================================================================
