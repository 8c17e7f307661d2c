--------------------------- MODULE PacketizerProofs ---------------------------
(***************************************************************************)
(* Proofs about Packetizer that hold for every payload size and change of  *)
(* it, every set of push sizes and either mode.                            *)
(***************************************************************************)
EXTENDS Packetizer, TLAPS

\* What is in order: the elements sent, the left-over ones behind them, and the
\* lengths of the packets.
DataKept ==
  /\ \A i \in 1 .. Len(out) : out[i] = i
  /\ \A k \in 1 .. leftOver : k <= Len(spareBuffer) /\ spareBuffer[k] = Len(out) + k
  /\ \A i \in 1 .. Len(lengths) : lengths[i].size <= lengths[i].payload

\* A packet fits the payload it was measured for and spareBuffer, and what is
\* left over is no longer.
SizeKept ==
  /\ waitingForSRI => leftOver = 0
  /\ ~waitingForSRI => Full <= cutFor /\ Full \in 1 .. allocated /\ leftOver <= Full

\* vita49_payload_size is what packets may have, however the listener and
\* initialize_values() take turns at it.
SizeAllowed == payloadSize = Allowed

IdleInv ==
  step = "idle" =>
    /\ dataIndex = 0
    /\ Len(out) + leftOver = received
    /\ leftOver % (mode + 1) = 0

MergeInv ==
  step = "merge" =>
    /\ dataIndex = 0
    /\ Len(out) + leftOver + push.size = received
    /\ push.first = Len(out) + leftOver + 1
    /\ complexMultiplier = mode + 1
    /\ push.mode # mode => push.new
    /\ push.new \/ waitingForSRI => push.changed /\ push.new
    /\ dataSize = leftOver + push.size
    /\ leftOver % (mode + 1) = 0 /\ push.size % (push.mode + 1) = 0
    /\ push.mode # mode => leftOver = 0

CutInv ==
  step = "cut" =>
    /\ ~waitingForSRI
    /\ dataSize \in Nat /\ dataSize % (mode + 1) = 0
    /\ Len(out) + dataSize = received
    /\ dataIndex + dataSize = leftOver + push.size
    /\ push.first + dataIndex = Len(out) + leftOver + 1
    /\ leftOver > 0 => /\ dataIndex = 0 /\ complexMultiplier = mode + 1
                       /\ push.size = 0 \/ leftOver + push.size >= Full
    /\ complexMultiplier # mode + 1 => PacketsOf(dataSize, Full)

EndInv ==
  step = "end" =>
    /\ ~waitingForSRI
    /\ dataSize = leftOver
    /\ Len(out) + leftOver = received

Kept ==
  regular => /\ step # "crashed"
             /\ DataKept /\ SizeKept /\ IdleInv /\ MergeInv /\ CutInv /\ EndInv

USE DEF callVars, sriVars, dataVars, sizeVars

-----------------------------------------------------------------------------
(* Arithmetic                                                              *)

\* Cutting one packet off a whole number of packets leaves a whole number.
LEMMA PacketsLeft ==
  ASSUME NEW d \in Nat, d >= 1, NEW n \in Nat, PacketsOf(n, d), n > 0
  PROVE  n >= d /\ PacketsOf(n - d, d)
<1>1. PICK k \in 0 .. n : n = k * d
  BY DEF PacketsOf
<1>2. k # 0
  BY <1>1
<1>3. n - d = (k - 1) * d /\ n >= d
  BY <1>1, <1>2
<1>4. k - 1 \in 0 .. n - d
  <2>1. (k - 1) * d >= k - 1
    BY <1>2
  <2> QED
    BY <2>1, <1>2, <1>3
<1> QED
  BY <1>3, <1>4 DEF PacketsOf

-----------------------------------------------------------------------------
(* Data                                                                    *)

LEMMA ReadFacts ==
  ASSUME push \in Pushes, NEW i \in Nat, NEW n \in Nat
  PROVE  /\ Read(i, n) \in Seq(Nat) /\ Len(Read(i, n)) = n
         /\ \A k \in 1 .. n :
              i + k <= push.size => Read(i, n)[k] = push.first + i + k - 1
<1>1. push.first \in Nat /\ push.size \in Nat
  BY PushesAssumption DEF Pushes
<1>2. \A k \in 1 .. n : push.first + i + k - 1 \in Nat
  BY <1>1
<1> QED
  BY <1>1, <1>2 DEF Read, Junk

LEMMA SpareFacts ==
  ASSUME spareBuffer \in Seq(Nat), NEW n \in Nat
  PROVE  /\ Spare(n) \in Seq(Nat) /\ Len(Spare(n)) = n
         /\ \A k \in 1 .. n : k <= Len(spareBuffer) => Spare(n)[k] = spareBuffer[k]
  BY DEF Spare, Junk

LEMMA ConcatRight ==
  ASSUME NEW a \in Seq(Nat), NEW b \in Seq(Nat), NEW k \in 1 .. Len(b)
  PROVE  (a \o b)[Len(a) + k] = b[k]
  OBVIOUS

\* A packet that goes on where the elements sent end keeps them in order.
LEMMA SendFacts ==
  ASSUME TypeOK, NEW p \in Seq(Nat), Send(p)
  PROVE  /\ out' \in Seq(Nat) /\ lengths' \in Seq([size : Nat, payload : Nat])
         /\ Len(out') = Len(out) + Len(p)
         /\ DataKept /\ Len(p) <= cutFor
            /\ (\A k \in 1 .. Len(p) : p[k] = Len(out) + k) =>
              /\ \A i \in 1 .. Len(out') : out'[i] = i
              /\ \A i \in 1 .. Len(lengths') : lengths'[i].size <= lengths'[i].payload
<1> DEFINE l == [size |-> Len(p), payload |-> cutFor]
<1>1. /\ out \in Seq(Nat) /\ lengths \in Seq([size : Nat, payload : Nat])
      /\ Len(p) \in Nat /\ l \in [size : Nat, payload : Nat]
  BY DEF TypeOK
<1>2. out' = out \o p /\ lengths' = Append(lengths, l)
  BY DEF Send
<1>3. /\ out' \in Seq(Nat) /\ lengths' \in Seq([size : Nat, payload : Nat])
      /\ Len(out') = Len(out) + Len(p)
  BY <1>1, <1>2
<1>4. ASSUME DataKept, Len(p) <= cutFor, \A k \in 1 .. Len(p) : p[k] = Len(out) + k
      PROVE  /\ \A i \in 1 .. Len(out') : out'[i] = i
             /\ \A i \in 1 .. Len(lengths') : lengths'[i].size <= lengths'[i].payload
  <2>1. ASSUME NEW i \in 1 .. Len(out') PROVE out'[i] = i
    <3>1. CASE i <= Len(out)
      BY <1>1, <1>2, <1>4, <3>1 DEF DataKept
    <3>2. CASE i > Len(out)
      <4>1. i - Len(out) \in 1 .. Len(p)
        BY <1>1, <1>3, <3>2
      <4>2. out'[i] = p[i - Len(out)]
        BY <1>1, <1>2, <1>3, <3>2, <4>1
      <4> QED
        BY <1>1, <1>4, <4>1, <4>2
    <3> QED
      BY <1>1, <3>1, <3>2
  <2>2. l.size <= l.payload
    BY <1>4
  <2>3. ASSUME NEW i \in 1 .. Len(lengths') PROVE lengths'[i].size <= lengths'[i].payload
    <3> HIDE DEF l
    <3>1. CASE i <= Len(lengths)
      BY <1>1, <1>2, <1>4, <3>1 DEF DataKept
    <3>2. CASE i > Len(lengths)
      BY <1>1, <1>2, <2>2, <3>2
    <3> QED
      BY <1>1, <3>1, <3>2
  <2> QED
    BY <2>1, <2>3
<1> QED
  BY <1>3, <1>4

-----------------------------------------------------------------------------
(* Types                                                                   *)

LEMMA InitType == Init => TypeOK
<1> SUFFICES ASSUME Init PROVE TypeOK
  OBVIOUS
<1>1. waitingForSRI \in BOOLEAN /\ regular \in BOOLEAN
  BY Zenon DEF Init
<1> QED
  BY <1>1, PayloadAssumption DEF Init, TypeOK

LEMMA TypeStep == TypeOK /\ [Next]_vars => TypeOK'
<1> SUFFICES ASSUME TypeOK, [Next]_vars PROVE TypeOK'
  OBVIOUS
<1>1. CASE Receive
  <2>1. PICK n \in PushSizes, m \in Modes, changed, new, eos \in BOOLEAN :
          /\ push' = [first |-> received + 1, size |-> n, mode |-> m,
                      changed |-> changed, new |-> new, eos |-> eos]
          /\ received' = received + n
          /\ complexMultiplier' = mode + 1
          /\ dataSize' = (n \div (mode + 1) + leftOver \div (mode + 1)) * (mode + 1)
    BY <1>1 DEF Receive
  <2>2. n \in Nat /\ received + 1 \in Nat
    BY PushesAssumption DEF TypeOK
  <2>3. push' \in Pushes
    BY <2>1, <2>2 DEF Pushes
  <2>4. dataSize' \in Int /\ complexMultiplier' \in {1, 2}
    <3>1. CASE mode = 0
      BY <2>1, <2>2, <3>1 DEF TypeOK
    <3>2. CASE mode = 1
      BY <2>1, <2>2, <3>2 DEF TypeOK
    <3> QED
      BY <3>1, <3>2 DEF TypeOK
  <2>5. regular' \in BOOLEAN
    BY <1>1, Zenon DEF Receive
  <2> QED
    BY <1>1, <2>1, <2>2, <2>3, <2>4, <2>5 DEF Receive, TypeOK
<1>2. CASE Merge
  <2>1. waitingForSRI' \in BOOLEAN
    BY <1>2, Zenon DEF Merge
  <2>2. push \in Pushes /\ push.mode \in {0, 1}
    BY <1>2, PushesAssumption DEF Merge, TypeOK, Pushes
  <2>3. payloadSize \div (push.mode + 1) \in Nat /\ payloadSize \in Nat
    BY <2>2 DEF TypeOK
  <2>4. samplesPerPacket' \in Nat /\ cutFor' \in Nat
    BY <1>2, <2>3, PayloadAssumption DEF Merge, Allowed, TypeOK
  <2>5. regular' \in BOOLEAN
    BY <1>2, Zenon DEF Merge
  <2> QED
    BY <1>2, <2>1, <2>2, <2>4, <2>5 DEF Merge, TypeOK
<1>3. CASE SkipMerge
  <2>1. regular' \in BOOLEAN
    BY <1>3, Zenon DEF SkipMerge
  <2> QED
    BY <1>3, <2>1 DEF SkipMerge, TypeOK
<1>4. CASE DropUnready
  BY <1>4 DEF DropUnready, TypeOK
<1>5. CASE CutLeftOver
  <2> DEFINE p == Spare(leftOver) \o Read(0, Full - leftOver)
  <2>1. Full \in Nat /\ Full - leftOver \in Nat
    <3>1. CASE mode = 0
      BY <1>5, <3>1 DEF CutLeftOver, TypeOK, Full
    <3>2. CASE mode = 1
      BY <1>5, <3>2 DEF CutLeftOver, TypeOK, Full
    <3> QED
      BY <3>1, <3>2 DEF TypeOK
  <2>2. Spare(leftOver) \in Seq(Nat)
    BY SpareFacts DEF TypeOK
  <2>3. Read(0, Full - leftOver) \in Seq(Nat)
    BY <1>5, <2>1, ReadFacts DEF TypeOK, CutLeftOver
  <2>4. p \in Seq(Nat)
    BY <2>2, <2>3
  <2>5. Send(p) /\ spareBuffer' = p
    BY <1>5 DEF CutLeftOver
  <2>6. out' \in Seq(Nat) /\ lengths' \in Seq([size : Nat, payload : Nat])
    BY <2>4, <2>5, SendFacts
  <2>7. dataIndex' \in Nat /\ dataSize' \in Int
    BY <1>5, <2>1 DEF CutLeftOver, TypeOK
  <2> QED
    BY <1>5, <2>4, <2>5, <2>6, <2>7 DEF CutLeftOver, TypeOK
<1>6. CASE Crash
  BY <1>6 DEF Crash, TypeOK
<1>7. CASE CutPush
  <2>1. Full \in Nat
    BY SMT DEF TypeOK, Full
  <2>2. Read(dataIndex, Full) \in Seq(Nat)
    BY <1>7, <2>1, ReadFacts DEF TypeOK, CutPush
  <2>3. out' \in Seq(Nat) /\ lengths' \in Seq([size : Nat, payload : Nat])
    BY <1>7, <2>2, SendFacts DEF CutPush
  <2> QED
    BY <1>7, <2>1, <2>3 DEF CutPush, TypeOK
<1>8. CASE SaveRemainder
  <2>1. CASE dataSize > 0 /\ push.size > 0
    <3>1. dataSize \in Nat
      BY <2>1 DEF TypeOK
    <3>2. Read(dataIndex, dataSize) \in Seq(Nat)
      BY <1>8, <3>1, ReadFacts DEF TypeOK, SaveRemainder
    <3> QED
      BY <1>8, <2>1, <3>1, <3>2 DEF SaveRemainder, TypeOK
  <2>2. CASE ~(dataSize > 0 /\ push.size > 0)
    BY <1>8, <2>2 DEF SaveRemainder, TypeOK
  <2> QED
    BY <2>1, <2>2
<1>9. CASE EndOfStream
  <2>1. waitingForSRI' \in BOOLEAN
    BY <1>9, Zenon DEF EndOfStream
  <2>2. out' \in Seq(Nat) /\ lengths' \in Seq([size : Nat, payload : Nat])
    <3>1. CASE dataSize > 0
      <4>1. dataSize \in Nat
        BY <3>1 DEF TypeOK
      <4>2. Spare(dataSize) \in Seq(Nat)
        BY <4>1, SpareFacts DEF TypeOK
      <4> QED
        BY <1>9, <3>1, <4>2, SendFacts DEF EndOfStream
    <3>2. CASE ~(dataSize > 0)
      BY <1>9, <3>2 DEF EndOfStream, TypeOK
    <3> QED
      BY <3>1, <3>2
  <2> QED
    BY <1>9, <2>1, <2>2, PayloadAssumption DEF EndOfStream, TypeOK
<1>10. CASE UNCHANGED vars
  BY <1>10 DEF vars, TypeOK
<1>11. CASE MemoryManagement
  BY <1>11, PayloadAssumption DEF MemoryManagement, TypeOK
<1>12. CASE Configure
  <2>1. /\ payloadSize' = maxPayload' /\ maxPayload' \in Payloads /\ overridden' = FALSE
        /\ edits' = edits + 1
    BY <1>12 DEF Configure
  <2>3. payloadSize' \in Nat /\ maxPayload' \in Nat /\ edits' \in Nat
    BY <2>1, PayloadAssumption DEF TypeOK
  <2>2. UNCHANGED <<step, callVars, sriVars, dataVars, allocated, regular>>
    BY <1>12 DEF Configure
  <2> QED
    BY <2>1, <2>2, <2>3 DEF TypeOK
<1> QED
  BY <1>1, <1>2, <1>3, <1>4, <1>5, <1>6, <1>7, <1>8, <1>9, <1>10, <1>11, <1>12 DEF Next

-----------------------------------------------------------------------------
(* Order and completeness                                                  *)

LEMMA FullFacts ==
  ASSUME TypeOK, ~waitingForSRI, SizeKept
  PROVE  /\ Full = samplesPerPacket * (mode + 1) /\ Full \in Nat /\ Full >= 1
         /\ Full <= cutFor /\ Full <= allocated /\ Full % (mode + 1) = 0
         /\ leftOver <= Full /\ samplesPerPacket \in Nat
         /\ samplesPerPacket >= 1 /\ samplesPerPacket <= Full
<1>1. mode \in {0, 1} /\ samplesPerPacket \in Nat /\ allocated \in Nat
  BY DEF TypeOK
<1>2. Full >= 1 /\ Full <= cutFor /\ Full <= allocated /\ leftOver <= Full
  BY <1>1 DEF SizeKept
<1>3. CASE mode = 0
  BY <1>1, <1>2, <1>3 DEF Full
<1>4. CASE mode = 1
  BY <1>1, <1>2, <1>4 DEF Full
<1> QED
  BY <1>1, <1>3, <1>4

LEMMA ReceiveKept == TypeOK /\ Kept /\ Receive => Kept'
<1> SUFFICES ASSUME TypeOK, Kept, Receive, regular' PROVE Kept'
  BY DEF Kept
<1>1. PICK n \in PushSizes, m \in Modes, changed, new, eos \in BOOLEAN :
        /\ waitingForSRI \/ new => changed
        /\ m # mode => new
        /\ push' = [first |-> received + 1, size |-> n, mode |-> m,
                    changed |-> changed, new |-> new, eos |-> eos]
        /\ received' = received + n
        /\ regular' = (regular /\ Whole(n, m, new))
        /\ complexMultiplier' = mode + 1
        /\ dataSize' = (n \div (mode + 1) + leftOver \div (mode + 1)) * (mode + 1)
  BY DEF Receive
<1>2. regular /\ Whole(n, m, new)
  BY <1>1
<1>3. n \in Nat /\ m \in {0, 1} /\ mode \in {0, 1} /\ leftOver \in Nat
  BY PushesAssumption DEF TypeOK
<1>4. /\ dataIndex = 0 /\ Len(out) + leftOver = received
      /\ leftOver % (mode + 1) = 0
  BY <1>2 DEF Kept, IdleInv, Receive
<1>5. n % (m + 1) = 0 /\ (m # mode => n % 2 = 0)
  BY <1>2 DEF Whole
<1>6. dataSize' = leftOver + n
  <2>1. CASE mode = 0
    BY <1>1, <1>3, <2>1
  <2>2. CASE mode = 1
    BY <1>1, <1>3, <1>4, <1>5, <2>2
  <2> QED
    BY <1>3, <2>1, <2>2
<1>7. MergeInv'
  <2>1. /\ push'.size = n /\ push'.mode = m /\ push'.new = new
        /\ push'.changed = changed /\ push'.first = received + 1
    BY <1>1
  <2>2. UNCHANGED <<dataIndex, mode, leftOver, out, waitingForSRI,
                    samplesPerPacket, Full>>
    BY DEF Receive, Full
  <2>3. Len(out) \in Nat
    BY DEF TypeOK
  <2> QED
    BY <1>1, <1>2, <1>3, <1>4, <1>5, <1>6, <2>1, <2>2, <2>3 DEF MergeInv, Whole
<1>8. step' = "merge" /\ DataKept' /\ SizeKept'
  BY <1>2 DEF Receive, Kept, DataKept, SizeKept, Full
<1> QED
  BY <1>7, <1>8 DEF Kept, IdleInv, CutInv, EndInv

LEMMA MergeKept == TypeOK /\ SizeAllowed /\ Kept /\ (Merge \/ SkipMerge) => Kept'
<1> SUFFICES ASSUME TypeOK, SizeAllowed, Kept, Merge \/ SkipMerge, regular' PROVE Kept'
  BY DEF Kept
<1>1. /\ MergeInv /\ DataKept /\ SizeKept /\ step = "merge" /\ regular
      /\ push \in Pushes /\ push.mode \in {0, 1} /\ push.size \in Nat
      /\ push.first \in Nat
  BY PushesAssumption DEF Kept, TypeOK, Pushes, Merge, SkipMerge
<1>2. /\ mode \in {0, 1} /\ leftOver \in Nat /\ Len(out) \in Nat
      /\ payloadSize \in Nat /\ samplesPerPacket \in Nat
  BY DEF TypeOK
<1>3. /\ step' = "cut" /\ ~waitingForSRI' /\ mode' = push.mode
      /\ Fits(Full') /\ Full' <= cutFor'
  <2>1. CASE Merge
    <3>1. step' = "cut" /\ ~waitingForSRI' /\ mode' = push.mode /\ Fits(Full')
      BY <2>1 DEF Merge, Full
    <3>2. CASE push.new
      <4>1. samplesPerPacket' = payloadSize \div (push.mode + 1) /\ cutFor' = payloadSize
        BY <2>1, <3>2 DEF Merge, SizeAllowed
      <4>2. CASE push.mode = 0
        BY <1>2, <3>1, <4>1, <4>2 DEF Full
      <4>3. CASE push.mode = 1
        BY <1>2, <3>1, <4>1, <4>3 DEF Full
      <4> QED
        BY <1>1, <3>1, <4>2, <4>3
    <3>3. CASE ~push.new
      <4>1. UNCHANGED <<samplesPerPacket, cutFor>> /\ mode' = mode /\ ~waitingForSRI
        BY <1>1, <2>1, <3>1, <3>3 DEF Merge, MergeInv
      <4> QED
        BY <1>1, <3>1, <4>1 DEF Full, SizeKept
    <3> QED
      BY <3>2, <3>3
  <2>2. CASE SkipMerge
    <3>1. UNCHANGED <<samplesPerPacket, cutFor, mode>> /\ ~waitingForSRI /\ ~push.changed
      BY <2>2 DEF SkipMerge
    <3>2. push.mode = mode
      BY <1>1, <3>1 DEF MergeInv
    <3> QED
      BY <1>1, <2>2, <3>1, <3>2 DEF SkipMerge, Full, SizeKept
  <2> QED
    BY <2>1, <2>2
<1>4. UNCHANGED <<push, dataSize, dataIndex, received, complexMultiplier, leftOver,
                  spareBuffer, out, lengths, allocated>>
  BY DEF Merge, SkipMerge
<1>5. /\ Full' \in 1 .. allocated /\ Full' \in Nat
      /\ leftOver > 0 => leftOver <= Full' /\ (push.size = 0 \/ leftOver + push.size >= Full')
      /\ push.mode # mode => PacketsOf(push.size, Full')
  BY <1>3 DEF Fits, TypeOK
<1>6. leftOver <= Full'
  BY <1>2, <1>5
<1>7. DataKept' /\ SizeKept'
  BY <1>1, <1>3, <1>4, <1>5, <1>6 DEF DataKept, SizeKept
<1>8. dataSize \in Nat /\ dataSize % (push.mode + 1) = 0
  <2>1. CASE push.mode = 0
    BY <1>1, <1>2, <2>1 DEF MergeInv
  <2>2. CASE push.mode = 1
    <3>1. push.size % 2 = 0 /\ dataSize = leftOver + push.size
      BY <1>1, <2>2 DEF MergeInv
    <3>2. leftOver % 2 = 0
      BY <1>1, <1>2, <2>2 DEF MergeInv
    <3> QED
      BY <1>1, <1>2, <2>2, <3>1, <3>2
  <2> QED
    BY <1>1, <2>1, <2>2
<1>9. CutInv'
  <2>1. push.mode # mode => leftOver = 0 /\ PacketsOf(dataSize, Full')
    BY <1>1, <1>2, <1>5 DEF MergeInv
  <2>2. PacketsOf(dataSize, Full') => PacketsOf(dataSize, Full)'
    BY <1>4 DEF PacketsOf
  <2>3. complexMultiplier # push.mode + 1 => push.mode # mode
    BY <1>1, <1>2 DEF MergeInv
  <2>4. leftOver > 0 => dataIndex = 0 /\ complexMultiplier = push.mode + 1
    BY <1>1, <1>2 DEF MergeInv
  <2>5. /\ Len(out) + dataSize = received /\ dataIndex + dataSize = leftOver + push.size
        /\ push.first + dataIndex = Len(out) + leftOver + 1
    <3>1. /\ dataIndex = 0 /\ dataSize = leftOver + push.size
          /\ Len(out) + leftOver + push.size = received
          /\ push.first = Len(out) + leftOver + 1
      BY <1>1 DEF MergeInv
    <3> QED
      BY <1>1, <1>2, <3>1
  <2> QED
    BY <1>2, <1>3, <1>4, <1>5, <1>8, <2>1, <2>2, <2>3, <2>4, <2>5 DEF CutInv
<1> QED
  BY <1>3, <1>7, <1>9 DEF Kept, IdleInv, MergeInv, EndInv

\* While there is data for a packet there is a whole one.
LEMMA ReadyFacts ==
  ASSUME TypeOK, Kept, regular, step = "cut", Ready
  PROVE  dataSize >= Full
<1>1. CutInv /\ SizeKept /\ ~waitingForSRI /\ dataSize \in Nat
  BY DEF Kept, CutInv
<1>2. mode \in {0, 1} /\ complexMultiplier \in {1, 2}
  BY DEF TypeOK
<1>3. samplesPerPacket \in Nat /\ samplesPerPacket >= 1
  BY <1>1, FullFacts
<1>4. CASE complexMultiplier = mode + 1
  BY <1>1, <1>4 DEF Ready, Full
<1>5. CASE complexMultiplier # mode + 1
  <2>1. PacketsOf(dataSize, Full) /\ dataSize > 0
    <3>1. samplesPerPacket * complexMultiplier >= 1
      BY <1>2, <1>3
    <3> QED
      BY <1>1, <1>2, <1>3, <1>5, <3>1 DEF CutInv, Ready
  <2> QED
    BY <1>1, <1>2, <2>1, PacketsLeft, FullFacts
<1> QED
  BY <1>4, <1>5

\* What is left when there is none is no longer than one.
LEMMA UnreadyFacts ==
  ASSUME TypeOK, Kept, regular, step = "cut", ~Ready
  PROVE  /\ dataSize <= Full
         /\ leftOver > 0 => push.size = 0
<1>1. CutInv /\ SizeKept /\ ~waitingForSRI /\ dataSize \in Nat
  BY DEF Kept, CutInv
<1>2. mode \in {0, 1} /\ complexMultiplier \in {1, 2} /\ leftOver \in Nat
  BY DEF TypeOK
<1>3. push.size \in Nat
  BY PushesAssumption DEF TypeOK, Pushes
<1>4. Full \in Nat /\ samplesPerPacket \in Nat /\ Full = samplesPerPacket * (mode + 1)
  BY <1>1, FullFacts DEF Full
<1>5. CASE complexMultiplier = mode + 1
  <2>1. dataSize < Full
    BY <1>1, <1>2, <1>4, <1>5 DEF Ready
  <2> QED
    BY <1>1, <1>2, <1>3, <1>4, <2>1 DEF CutInv
<1>6. CASE complexMultiplier # mode + 1
  <2>1. PacketsOf(dataSize, Full) /\ leftOver = 0
    BY <1>1, <1>2, <1>6 DEF CutInv
  <2>2. dataSize > Full => PacketsOf(dataSize - Full, Full) /\ dataSize - Full >= Full
    <3>1. Full >= 1
      BY <1>1, FullFacts
    <3>2. dataSize > Full => PacketsOf(dataSize - Full, Full)
      BY <1>1, <1>2, <1>4, <2>1, <3>1, PacketsLeft
    <3> QED
      BY <1>1, <1>2, <1>4, <3>1, <3>2, PacketsLeft
  <2>3. dataSize < 2 * Full
    <3>1. CASE mode = 0
      BY <1>1, <1>2, <1>4, <1>6, <3>1 DEF Ready
    <3>2. CASE mode = 1
      BY <1>1, <1>2, <1>4, <1>6, <3>2 DEF Ready
    <3> QED
      BY <1>2, <3>1, <3>2
  <2> QED
    BY <1>1, <1>4, <2>1, <2>2, <2>3
<1> QED
  BY <1>5, <1>6

LEMMA CutLeftOverKept == TypeOK /\ Kept /\ CutLeftOver => Kept'
<1> SUFFICES ASSUME TypeOK, Kept, CutLeftOver, regular PROVE Kept'
  BY DEF Kept, CutLeftOver
<1>1. /\ CutInv /\ SizeKept /\ DataKept /\ step = "cut" /\ ~waitingForSRI
      /\ dataSize \in Nat /\ leftOver \in Nat /\ leftOver > 0 /\ dataIndex = 0
      /\ Len(out) \in Nat /\ mode \in {0, 1} /\ push \in Pushes
      /\ push.size \in Nat /\ push.first \in Nat
  <2>1. step = "cut" /\ leftOver > 0
    BY DEF CutLeftOver
  <2>2. CutInv /\ SizeKept /\ DataKept /\ ~waitingForSRI /\ dataSize \in Nat
        /\ dataIndex = 0
    BY <2>1 DEF Kept, CutInv
  <2>3. leftOver \in Nat /\ Len(out) \in Nat /\ mode \in {0, 1} /\ push \in Pushes
    BY <2>1 DEF TypeOK
  <2>4. push.size \in Nat /\ push.first \in Nat
    BY <2>3, PushesAssumption DEF Pushes
  <2> QED
    BY <2>1, <2>2, <2>3, <2>4
<1>2. /\ Full \in Nat /\ Full >= 1 /\ Full <= cutFor /\ leftOver <= Full
      /\ Full % (mode + 1) = 0 /\ dataSize >= Full
  BY <1>1, FullFacts, ReadyFacts DEF CutLeftOver
<1>3. Full - leftOver <= push.size
  <2>1. dataSize = leftOver + push.size
    BY <1>1 DEF CutInv
  <2> QED
    BY <1>1, <1>2, <2>1
<1> DEFINE n == Full - leftOver
           p == Spare(leftOver) \o Read(0, n)
<1>4. n \in Nat
  BY <1>1, <1>2
<1>5. /\ Spare(leftOver) \in Seq(Nat) /\ Len(Spare(leftOver)) = leftOver
      /\ \A k \in 1 .. leftOver : Spare(leftOver)[k] = Len(out) + k
  BY <1>1, SpareFacts DEF DataKept, TypeOK
<1>6. /\ Read(0, n) \in Seq(Nat) /\ Len(Read(0, n)) = n
      /\ \A k \in 1 .. n : Read(0, n)[k] = push.first + k - 1
  <2>1. /\ Read(0, n) \in Seq(Nat) /\ Len(Read(0, n)) = n
        /\ \A k \in 1 .. n :
             0 + k <= push.size => Read(0, n)[k] = push.first + 0 + k - 1
    BY <1>1, <1>4, ReadFacts
  <2>2. \A k \in 1 .. n : 0 + k <= push.size /\ push.first + 0 + k - 1 = push.first + k - 1
    BY <1>1, <1>3, <1>4
  <2> QED
    BY <2>1, <2>2
<1>7. p \in Seq(Nat) /\ Len(p) = Full
  BY <1>1, <1>2, <1>5, <1>6
<1>8. ASSUME NEW k \in 1 .. Len(p) PROVE p[k] = Len(out) + k
  <2>1. CASE k <= leftOver
    BY <1>1, <1>5, <1>6, <1>7, <2>1
  <2>2. CASE k > leftOver
    <3>1. k - leftOver \in 1 .. n /\ p[k] = Read(0, n)[k - leftOver]
      <4>1. k \in Nat /\ k <= leftOver + n
        BY <1>1, <1>2, <1>7
      <4>2. k - leftOver \in 1 .. n
        BY <1>1, <1>4, <2>2, <4>1
      <4> HIDE DEF n
      <4>3. p[k] = Read(0, n)[k - leftOver]
        <5>1. leftOver + (k - leftOver) = k
          BY <1>1, <4>1
        <5>2. p[leftOver + (k - leftOver)] = Read(0, n)[k - leftOver]
          BY <1>5, <1>6, <4>2, ConcatRight
        <5> QED
          BY <5>1, <5>2
      <4> QED
        BY <4>2, <4>3
    <3>2. push.first = Len(out) + leftOver + 1
      BY <1>1 DEF CutInv
    <3> QED
      BY <1>1, <1>6, <3>1, <3>2
  <2> QED
    BY <1>1, <1>7, <2>1, <2>2
<1>9. /\ Len(out') = Len(out) + Full
      /\ \A i \in 1 .. Len(out') : out'[i] = i
      /\ \A i \in 1 .. Len(lengths') : lengths'[i].size <= lengths'[i].payload
  <2>1. Send(p)
    BY DEF CutLeftOver
  <2> HIDE DEF p
  <2> QED
    BY <1>1, <1>2, <1>7, <1>8, <2>1, SendFacts
<1>10. /\ dataIndex' = Full - leftOver /\ dataSize' = dataSize - Full
       /\ leftOver' = 0 /\ step' = "cut" /\ ~waitingForSRI'
       /\ UNCHANGED <<push, complexMultiplier, received, regular, mode, cutFor,
                      allocated, waitingForSRI, samplesPerPacket, Full>>
  <2>1. UNCHANGED <<step, push, complexMultiplier, received, regular, mode, cutFor,
                    allocated, waitingForSRI, samplesPerPacket>>
    BY DEF CutLeftOver
  <2>2. Full' = Full
    BY <2>1 DEF Full
  <2>3. dataIndex' = 0 + Full - leftOver /\ dataSize' = dataSize - Full /\ leftOver' = 0
    BY <1>1 DEF CutLeftOver
  <2> QED
    BY <1>1, <1>2, <2>1, <2>2, <2>3
<1>11. dataSize' % (mode + 1) = 0
  <2>1. dataSize % (mode + 1) = 0
    BY <1>1 DEF CutInv
  <2>2. CASE mode = 0
    BY <1>1, <1>2, <1>10, <2>2
  <2>3. CASE mode = 1
    BY <1>1, <1>2, <1>10, <2>1, <2>3
  <2> QED
    BY <1>1, <2>2, <2>3
<1>12. CutInv'
  <2>1. /\ Len(out) + dataSize = received
        /\ dataSize = leftOver + push.size
        /\ push.first = Len(out) + leftOver + 1
        /\ complexMultiplier = mode + 1
    BY <1>1 DEF CutInv
  <2>2. received \in Nat
    BY DEF TypeOK
  <2>3. dataSize' \in Nat /\ Len(out') + dataSize' = received
    BY SMTT(30), <1>1, <1>2, <1>9, <1>10, <2>1
  <2>4. /\ dataIndex' + dataSize' = push.size
        /\ push.first + dataIndex' = Len(out') + 1
    BY SMTT(30), <1>1, <1>2, <1>9, <1>10, <2>1
  <2> QED
    BY <1>1, <1>10, <1>11, <2>1, <2>3, <2>4 DEF CutInv
<1>13. DataKept' /\ SizeKept'
  BY <1>1, <1>2, <1>9, <1>10 DEF DataKept, SizeKept
<1> QED
  BY <1>10, <1>12, <1>13 DEF Kept, IdleInv, MergeInv, EndInv

LEMMA CutPushKept == TypeOK /\ Kept /\ CutPush => Kept'
<1> SUFFICES ASSUME TypeOK, Kept, CutPush, regular PROVE Kept'
  BY DEF Kept, CutPush
<1>1. /\ CutInv /\ SizeKept /\ DataKept /\ step = "cut" /\ ~waitingForSRI
      /\ dataSize \in Nat /\ leftOver = 0 /\ dataIndex \in Nat
      /\ Len(out) \in Nat /\ mode \in {0, 1} /\ push \in Pushes
      /\ complexMultiplier \in {1, 2}
      /\ push.size \in Nat /\ push.first \in Nat
  <2>1. step = "cut" /\ leftOver = 0
    BY DEF CutPush
  <2>2. CutInv /\ SizeKept /\ DataKept /\ ~waitingForSRI /\ dataSize \in Nat
    BY <2>1 DEF Kept, CutInv
  <2>3. /\ dataIndex \in Nat /\ Len(out) \in Nat /\ mode \in {0, 1}
        /\ complexMultiplier \in {1, 2} /\ push \in Pushes
    BY <2>1 DEF TypeOK
  <2>4. push.size \in Nat /\ push.first \in Nat
    BY <2>3, PushesAssumption DEF Pushes
  <2> QED
    BY <2>1, <2>2, <2>3, <2>4
<1>2. /\ Full \in Nat /\ Full >= 1 /\ Full <= cutFor
      /\ Full % (mode + 1) = 0 /\ dataSize >= Full
  BY <1>1, FullFacts, ReadyFacts DEF CutPush
<1>3. /\ Len(out) + dataSize = received
      /\ dataIndex + dataSize = push.size
      /\ push.first + dataIndex = Len(out) + 1
      /\ dataSize % (mode + 1) = 0
      /\ complexMultiplier # mode + 1 => PacketsOf(dataSize, Full)
  BY <1>1 DEF CutInv
<1> DEFINE p == Read(dataIndex, Full)
<1>4. p \in Seq(Nat) /\ Len(p) = Full
  BY <1>1, <1>2, ReadFacts
<1>5. \A k \in 1 .. Len(p) : p[k] = Len(out) + k
  <2>1. \A k \in 1 .. Full :
          dataIndex + k <= push.size => p[k] = push.first + dataIndex + k - 1
    BY <1>1, <1>2, ReadFacts
  <2>2. \A k \in 1 .. Full : /\ dataIndex + k <= push.size
                             /\ push.first + dataIndex + k - 1 = Len(out) + k
    BY SMTT(30), <1>1, <1>2, <1>3
  <2> QED
    BY <1>4, <2>1, <2>2
<1>6. /\ Len(out') = Len(out) + Full
      /\ \A i \in 1 .. Len(out') : out'[i] = i
      /\ \A i \in 1 .. Len(lengths') : lengths'[i].size <= lengths'[i].payload
  <2>1. Send(p)
    BY DEF CutPush
  <2> HIDE DEF p
  <2> QED
    BY <1>1, <1>2, <1>4, <1>5, <2>1, SendFacts
<1>7. /\ dataIndex' = dataIndex + Full /\ dataSize' = dataSize - Full
      /\ leftOver' = 0 /\ step' = "cut" /\ ~waitingForSRI'
      /\ UNCHANGED <<push, complexMultiplier, received, regular, mode, cutFor,
                      allocated, waitingForSRI, samplesPerPacket, Full>>
  <2>1. UNCHANGED <<step, push, complexMultiplier, received, regular, mode, cutFor,
                    allocated, waitingForSRI, samplesPerPacket, leftOver>>
    BY DEF CutPush
  <2>2. Full' = Full
    BY <2>1 DEF Full
  <2> QED
    BY <1>1, <2>1, <2>2 DEF CutPush
<1>8. dataSize' % (mode + 1) = 0
  <2>1. CASE mode = 0
    BY <1>1, <1>2, <1>7, <2>1
  <2>2. CASE mode = 1
    BY <1>1, <1>2, <1>3, <1>7, <2>2
  <2> QED
    BY <1>1, <2>1, <2>2
<1>9. complexMultiplier # mode + 1 => PacketsOf(dataSize, Full)'
  <2> SUFFICES ASSUME complexMultiplier # mode + 1 PROVE PacketsOf(dataSize, Full)'
    OBVIOUS
  <2>1. PacketsOf(dataSize - Full, Full)
    BY <1>1, <1>2, <1>3, FullFacts, PacketsLeft
  <2> QED
    BY <1>7, <2>1 DEF PacketsOf
<1>10. CutInv'
  <2>1. dataSize' \in Nat /\ Len(out') + dataSize' = received
    BY <1>1, <1>2, <1>3, <1>6, <1>7
  <2>2. /\ dataIndex' + dataSize' = push.size
        /\ push.first + dataIndex' = Len(out') + 1
    <3>1. /\ dataIndex' = dataIndex + Full /\ dataSize' = dataSize - Full
          /\ Len(out') = Len(out) + Full
      BY <1>6, <1>7
    <3>2. /\ dataIndex + dataSize = push.size
          /\ push.first + dataIndex = Len(out) + 1
      BY <1>3
    <3> QED
      BY <1>1, <1>2, <3>1, <3>2
  <2> QED
    BY <1>1, <1>7, <1>8, <1>9, <2>1, <2>2 DEF CutInv
<1>11. DataKept' /\ SizeKept'
  BY <1>1, <1>2, <1>6, <1>7 DEF DataKept, SizeKept
<1> QED
  BY <1>7, <1>10, <1>11 DEF Kept, IdleInv, MergeInv, EndInv

LEMMA SaveRemainderKept == TypeOK /\ Kept /\ SaveRemainder => Kept'
<1> SUFFICES ASSUME TypeOK, Kept, SaveRemainder, regular PROVE Kept'
  BY DEF Kept, SaveRemainder
<1>1. /\ CutInv /\ SizeKept /\ DataKept /\ step = "cut" /\ ~waitingForSRI
      /\ dataSize \in Nat /\ leftOver \in Nat /\ dataIndex \in Nat
      /\ Len(out) \in Nat /\ mode \in {0, 1} /\ push \in Pushes
      /\ push.size \in Nat /\ push.first \in Nat
  <2>1. step = "cut"
    BY DEF SaveRemainder
  <2>2. CutInv /\ SizeKept /\ DataKept /\ ~waitingForSRI /\ dataSize \in Nat
    BY <2>1 DEF Kept, CutInv
  <2>3. /\ leftOver \in Nat /\ dataIndex \in Nat /\ Len(out) \in Nat
        /\ mode \in {0, 1} /\ push \in Pushes
    BY <2>1 DEF TypeOK
  <2>4. push.size \in Nat /\ push.first \in Nat
    BY <2>3, PushesAssumption DEF Pushes
  <2> QED
    BY <2>1, <2>2, <2>3, <2>4
<1>2. dataSize <= Full /\ (leftOver > 0 => push.size = 0)
  BY <1>1, UnreadyFacts DEF SaveRemainder
<1>3. /\ Len(out) + dataSize = received
      /\ dataIndex + dataSize = leftOver + push.size
      /\ push.first + dataIndex = Len(out) + leftOver + 1
      /\ leftOver > 0 => dataIndex = 0
      /\ dataSize % (mode + 1) = 0
  BY <1>1 DEF CutInv
<1>4. UNCHANGED <<received, regular, mode, waitingForSRI, samplesPerPacket, Full,
                  cutFor, allocated, out, lengths, dataSize>>
  BY DEF SaveRemainder, Full
<1>5. leftOver' = dataSize /\ DataKept'
  <2>1. CASE dataSize > 0 /\ push.size > 0
    <3>1. leftOver = 0
      BY <1>1, <1>2, <2>1
    <3>2. spareBuffer' = Read(dataIndex, dataSize) /\ leftOver' = dataSize
      BY <2>1 DEF SaveRemainder
    <3>3. /\ Len(Read(dataIndex, dataSize)) = dataSize
          /\ \A k \in 1 .. dataSize :
               dataIndex + k <= push.size =>
                 Read(dataIndex, dataSize)[k] = push.first + dataIndex + k - 1
      BY <1>1, ReadFacts
    <3>4. \A k \in 1 .. dataSize :
            /\ dataIndex + k <= push.size
            /\ push.first + dataIndex + k - 1 = Len(out) + k
      BY <1>1, <1>3, <3>1
    <3>5. \A k \in 1 .. leftOver' :
            k <= Len(spareBuffer') /\ spareBuffer'[k] = Len(out) + k
      BY <1>1, <3>2, <3>3, <3>4
    <3> QED
      BY <1>1, <1>4, <3>2, <3>5 DEF DataKept
  <2>2. CASE ~(dataSize > 0 /\ push.size > 0)
    <3>1. UNCHANGED <<spareBuffer, leftOver>>
      BY <2>2 DEF SaveRemainder
    <3>2. leftOver = dataSize
      <4>1. CASE leftOver > 0
        BY <1>1, <1>2, <1>3, <4>1
      <4>2. CASE leftOver = 0
        BY <1>1, <1>3, <2>2, <4>2
      <4> QED
        BY <1>1, <4>1, <4>2
    <3> QED
      BY <1>1, <1>4, <3>1, <3>2 DEF DataKept
  <2> QED
    BY <2>1, <2>2
<1>6. SizeKept'
  BY <1>1, <1>2, <1>4, <1>5 DEF SizeKept
<1>7. CASE push.eos
  BY <1>1, <1>3, <1>4, <1>5, <1>6, <1>7
  DEF SaveRemainder, Kept, IdleInv, MergeInv, CutInv, EndInv
<1>8. CASE ~push.eos
  <2>1. step' = "idle" /\ dataIndex' = 0
    BY <1>8 DEF SaveRemainder
  <2> QED
    BY <1>1, <1>3, <1>4, <1>5, <1>6, <2>1 DEF Kept, IdleInv, MergeInv, CutInv, EndInv
<1> QED
  BY <1>7, <1>8

LEMMA EndOfStreamKept == TypeOK /\ Kept /\ EndOfStream => Kept'
<1> SUFFICES ASSUME TypeOK, Kept, EndOfStream, regular PROVE Kept'
  BY DEF Kept, EndOfStream
<1>1. /\ EndInv /\ SizeKept /\ DataKept /\ step = "end" /\ ~waitingForSRI
      /\ dataSize = leftOver /\ leftOver \in Nat /\ Len(out) \in Nat
      /\ Len(out) + leftOver = received /\ mode \in {0, 1}
  BY DEF EndOfStream, Kept, EndInv, TypeOK
<1>2. /\ leftOver' = 0 /\ step' = "idle" /\ dataIndex' = 0 /\ waitingForSRI'
      /\ UNCHANGED <<received, mode>>
  BY DEF EndOfStream
<1>3. /\ Len(out') = received
      /\ \A i \in 1 .. Len(out') : out'[i] = i
      /\ \A i \in 1 .. Len(lengths') : lengths'[i].size <= lengths'[i].payload
  <2>1. CASE dataSize > 0
    <3> DEFINE p == Spare(dataSize)
    <3>1. /\ p \in Seq(Nat) /\ Len(p) = leftOver
          /\ \A k \in 1 .. Len(p) : p[k] = Len(out) + k
      BY <1>1, SpareFacts DEF DataKept, TypeOK
    <3>2. leftOver <= cutFor
      <4>1. Full \in Nat /\ Full <= cutFor /\ leftOver <= Full /\ cutFor \in Nat
        BY <1>1, FullFacts DEF TypeOK
      <4> QED
        BY <1>1, <4>1
    <3>3. Send(p)
      BY <2>1 DEF EndOfStream
    <3> HIDE DEF p
    <3> QED
      BY <1>1, <3>1, <3>2, <3>3, SendFacts
  <2>2. CASE ~(dataSize > 0)
    BY <1>1, <2>2 DEF EndOfStream, DataKept
  <2> QED
    BY <2>1, <2>2
<1>4. DataKept' /\ SizeKept'
  BY <1>2, <1>3 DEF DataKept, SizeKept
<1>5. IdleInv'
  <2>1. received \in Nat /\ 0 % (mode + 1) = 0
    BY <1>1 DEF TypeOK
  <2> QED
    BY <1>2, <1>3, <2>1 DEF IdleInv
<1> QED
  BY <1>2, <1>4, <1>5 DEF Kept, MergeInv, CutInv, EndInv

\* No push is dropped and memcpy() stays inside spareBuffer.
LEMMA NoCrash == TypeOK /\ Kept /\ (DropUnready \/ Crash) => Kept'
<1> SUFFICES ASSUME TypeOK, Kept, DropUnready \/ Crash, regular PROVE FALSE
  BY DEF DropUnready, Crash, Kept
<1>1. step = "cut" /\ SizeKept /\ ~waitingForSRI /\ dataSize \in Nat
  BY DEF DropUnready, Crash, Kept, CutInv
<1>2. /\ samplesPerPacket \in Nat /\ samplesPerPacket >= 1 /\ leftOver <= Full
      /\ Full \in Nat /\ leftOver \in Nat /\ allocated \in Nat /\ Full <= allocated
  BY <1>1, FullFacts DEF TypeOK
<1>3. CASE DropUnready
  <2>1. samplesPerPacket < 1
    BY <1>3 DEF DropUnready
  <2> QED
    BY <1>2, <2>1
<1>4. CASE Crash
  <2>1. ~(leftOver > Full \/ Full > allocated)
    BY <1>2
  <2>2. ~Ready /\ dataSize > allocated
    BY <1>4, <2>1 DEF Crash
  <2>3. dataSize <= Full
    BY <1>1, <2>2, UnreadyFacts
  <2> QED
    BY <1>1, <1>2, <2>2, <2>3
<1> QED
  BY <1>3, <1>4

\* spareBuffer is allocated while no stream is under way, and the payload size
\* counts only when packets are measured.
LEMMA SizesKept == TypeOK /\ Kept /\ (MemoryManagement \/ Configure) => Kept'
<1> SUFFICES ASSUME TypeOK, Kept, MemoryManagement \/ Configure, regular PROVE Kept'
  BY DEF Kept, MemoryManagement, Configure
<1>1. /\ DataKept /\ SizeKept /\ IdleInv /\ MergeInv /\ CutInv /\ EndInv
      /\ step # "crashed"
  BY DEF Kept
<1>2. UNCHANGED <<step, callVars, sriVars, dataVars, regular, Full>>
  BY DEF MemoryManagement, Configure, Full
<1>3. SizeKept'
  <2>1. CASE MemoryManagement
    <3>1. waitingForSRI
      BY <1>1, <2>1 DEF SizeKept, MemoryManagement
    <3> QED
      BY <1>1, <1>2, <3>1 DEF SizeKept
  <2>2. CASE Configure
    BY <1>1, <1>2, <2>2 DEF SizeKept, Configure
  <2> QED
    BY <2>1, <2>2
<1> QED
  BY <1>1, <1>2, <1>3
  DEF Kept, DataKept, IdleInv, MergeInv, CutInv, EndInv, PacketsOf

LEMMA SizeAllowedStep == SizeAllowed /\ [Next]_vars => SizeAllowed'
  BY DEF SizeAllowed, Allowed, Next, MemoryManagement, Configure, Receive, Merge, SkipMerge,
     DropUnready, CutLeftOver, Crash, CutPush, SaveRemainder, EndOfStream, vars

LEMMA KeptInvariant == Spec => [](TypeOK /\ Kept)
<1>1. Init => SizeAllowed /\ Kept
  BY DEF Init, SizeAllowed, Allowed, Kept, DataKept, SizeKept, IdleInv, MergeInv, CutInv, EndInv
<1>2. TypeOK /\ SizeAllowed /\ Kept /\ [Next]_vars => Kept'
  <2> SUFFICES ASSUME TypeOK, SizeAllowed, Kept, [Next]_vars PROVE Kept'
    OBVIOUS
  <2>1. CASE DropUnready \/ Crash
    BY <2>1, NoCrash
  <2>2. CASE UNCHANGED vars
    BY <2>2 DEF vars, Kept, DataKept, SizeKept, IdleInv, MergeInv, CutInv, EndInv,
             Full, PacketsOf
  <2> QED
    BY <2>1, <2>2, SizesKept, ReceiveKept, MergeKept, CutLeftOverKept, CutPushKept,
       SaveRemainderKept, EndOfStreamKept DEF Next
<1> QED
  BY <1>1, <1>2, InitType, TypeStep, SizeAllowedStep, PTL DEF Spec

\* Every variable keeps its type, for any sequence of pushes.
THEOREM PacketizerTypes == Spec => []TypeOK
  BY KeptInvariant, PTL

\* As long as every push is Whole and Fits the elements are sent in the order they came.
THEOREM OrderKept == Spec => []DataInOrder
<1>1. Kept => DataInOrder
  BY DEF Kept, DataKept, DataInOrder
<1> QED
  BY <1>1, KeptInvariant, PTL

\* As long as every push is Whole and Fits no element is lost, none stays behind
\* at the end of a stream, and memcpy() stays inside spareBuffer.
THEOREM AllSent == Spec => []NothingLost
<1>1. Kept => NothingLost
  BY DEF Kept, SizeKept, IdleInv, NothingLost
<1> QED
  BY <1>1, KeptInvariant, PTL

\* As long as every push is Whole and Fits no packet, for any payload sizes and
\* however they are set between and within streams, exceeds the max_payload_size
\* its stream was measured with, or the default of initialize_values() where that
\* has come in between.
THEOREM PacketsFit == Spec => []PayloadRespected
<1>1. Kept => PayloadRespected
  BY DEF Kept, DataKept, PayloadRespected
<1> QED
  BY <1>1, KeptInvariant, PTL
=============================================================================
