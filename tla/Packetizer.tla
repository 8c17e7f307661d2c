------------------------------ MODULE Packetizer ------------------------------
(***************************************************************************)
(* How singleService() and createPayload() (cpp/SinkVITA49.cpp) cut the    *)
(* pushes of an input port into VRT data packets: as many samples per      *)
(* packet as fit, the rest kept in spareBuffer for the next push, and what *)
(* is still there at the end of a stream sent as a short packet.           *)
(*                                                                         *)
(* Sizes are counted in scalar elements (the code counts bytes, all of     *)
(* them multiples of the element size of the port). An element is named by *)
(* its place in all the data received; Junk is what memcpy() and setData() *)
(* find where no push put anything. Only the service thread runs this code *)
(* and owns this state, while curr_attach.attach holds; the listener of    *)
(* advanced_configuration changes the payload size at any time.            *)
(***************************************************************************)
EXTENDS Integers, Sequences

CONSTANTS
  DefaultPayload, \* the 1428 bytes of initialize_values(), in elements
  Payloads,       \* what max_payload_size may be set to, in elements
  Headroom,       \* the 28 bytes more that spareBuffer gets, in elements
  PushSizes,      \* sizes of a push
  Modes,          \* modes of a stream's SRI: 0 scalar, 1 complex
  MaxElements,    \* bound: elements received
  MaxPushes,      \* bound: pushes, the empty ones included
  MaxEdits        \* bound: changes of max_payload_size

ASSUME PayloadAssumption ==
  DefaultPayload \in Nat /\ Payloads \subseteq Nat /\ Headroom \in Nat \ {0}
ASSUME PushesAssumption ==
  /\ PushSizes \subseteq Nat /\ Modes \subseteq {0, 1}
  /\ MaxElements \in Nat /\ MaxPushes \in Nat /\ MaxEdits \in Nat

VARIABLES
  step,              \* "idle", "merge", "cut", "end", or "crashed"
  push,              \* the dataTransfer under work
  mode,              \* currSRI.mode
  waitingForSRI,
  samplesPerPacket,
  complexMultiplier, \* 1 + the mode when the push was taken
  dataSize,          \* dataSizeInBytes
  dataIndex,
  leftOver,          \* leftOverDataSize
  spareBuffer,
  allocated,         \* its size, 0 while createMem holds
  payloadSize,       \* vita49_payload_size
  maxPayload,        \* the property advanced_configuration.max_payload_size
  pushes, edits,     \* for the bounds
  received,          \* elements received so far
  out,               \* every element sent, in order
  lengths,           \* of every packet sent its length and cutFor
  overridden,        \* history: initialize_values() ran after that was last set
  cutFor,            \* history: what was Allowed when samplesPerPacket was made
  regular            \* history: every push so far was Whole and Fits

callVars == <<push, complexMultiplier, received, pushes, dataSize, dataIndex>>
sriVars  == <<mode, waitingForSRI, samplesPerPacket, cutFor>>
dataVars == <<leftOver, spareBuffer, out, lengths>>
sizeVars == <<allocated, payloadSize, maxPayload, overridden, edits>>
vars     == <<step, callVars, sriVars, dataVars, sizeVars, regular>>

Junk == 0

\* new: compareSRI() finds the push's SRI different from currSRI.
Pushes == [first : Nat, size : PushSizes, mode : Modes, changed : BOOLEAN,
           new : BOOLEAN, eos : BOOLEAN]
NoPush == [size |-> 0, mode |-> 0]

\* Elements of one full packet, and when the loop cuts one.
Full  == samplesPerPacket * (mode + 1)
Ready == dataSize >= samplesPerPacket * complexMultiplier

\* n elements from place i of the push on, and the first n of spareBuffer.
Read(i, n) ==
  [k \in 1 .. n |-> IF i + k <= push.size THEN push.first + i + k - 1 ELSE Junk]
Spare(n) ==
  [k \in 1 .. n |-> IF k <= Len(spareBuffer) THEN spareBuffer[k] ELSE Junk]

\* n elements fill a whole number of packets of the given size.
PacketsOf(n, size) == \E k \in 0 .. n : n = k * size

\* The pushes the code cuts without loss: a stream's first SRI is new to
\* currSRI, a sample is not split between pushes, and nothing is left over when
\* the mode changes,
Whole(n, m, new) ==
  /\ waitingForSRI => new
  /\ n % (m + 1) = 0
  /\ m # mode => leftOver = 0 /\ n % 2 = 0

\* and for packets of the given size: spareBuffer has room for one, what is left
\* over and the push make one, and a push that changes the mode fills them.
Fits(size) ==
  /\ size \in 1 .. allocated
  /\ leftOver > 0 => leftOver <= size /\ (push.size = 0 \/ leftOver + push.size >= size)
  /\ push.mode # mode => PacketsOf(push.size, size)

\* The payload a packet may have: what was asked for with the property, or the
\* default of initialize_values() where that has overridden it.
Allowed == IF overridden THEN DefaultPayload ELSE maxPayload

Send(packet) ==
  /\ out' = out \o packet
  /\ lengths' = Append(lengths, [size |-> Len(packet), payload |-> cutFor])

\* Until the property is set nobody reads it.
Init ==
  /\ step = "idle" /\ push = NoPush
  /\ mode = 0 /\ waitingForSRI = TRUE /\ samplesPerPacket = 0
  /\ complexMultiplier = 1 /\ dataSize = 0 /\ dataIndex = 0
  /\ leftOver = 0 /\ spareBuffer = <<>>
  /\ allocated = 0 /\ payloadSize = DefaultPayload /\ cutFor = 0
  /\ maxPayload = DefaultPayload /\ overridden = TRUE
  /\ pushes = 0 /\ edits = 0
  /\ received = 0 /\ out = <<>> /\ lengths = <<>> /\ regular = TRUE

\* memoryManagement(), in the first pass of serviceFunction() only.
MemoryManagement ==
  /\ step = "idle" /\ allocated = 0
  /\ allocated' = payloadSize + Headroom
  /\ UNCHANGED <<step, callVars, sriVars, dataVars, payloadSize, maxPayload, overridden,
                 edits, regular>>

\* advanced_configurationChanged(), in the control thread.
Configure ==
  /\ edits < MaxEdits /\ edits' = edits + 1
  /\ maxPayload' \in Payloads /\ overridden' = FALSE
  /\ payloadSize' = maxPayload'
  /\ UNCHANGED <<step, callVars, sriVars, dataVars, allocated, regular>>

\* getPacket() and the processing parameters, from the SRI not yet merged. An
\* SRI that changed since the stream's last push is flagged by the port (while
\* waitingForSRI holds the flag makes no difference, and new none without it);
\* one equal to currSRI has its mode, and setDefaultSRI() makes one equal to none.
Receive ==
  /\ step = "idle" /\ allocated > 0
  /\ \E n \in PushSizes, m \in Modes, changed, new, eos \in BOOLEAN :
       /\ received + n <= MaxElements /\ pushes < MaxPushes
       /\ waitingForSRI \/ new => changed
       /\ m # mode \/ received = 0 => new
       /\ push' = [first |-> received + 1, size |-> n, mode |-> m,
                   changed |-> changed, new |-> new, eos |-> eos]
       /\ received' = received + n
       /\ regular' = (regular /\ Whole(n, m, new))
       /\ LET c == mode + 1
          IN  /\ complexMultiplier' = c
              /\ dataSize' = (n \div c + leftOver \div c) * c
  /\ step' = "merge" /\ pushes' = pushes + 1
  /\ UNCHANGED <<dataIndex, sriVars, dataVars, sizeVars>>

\* Faulty variant: samples per packet are rounded up.
MergeRoundingUp ==
  /\ step = "merge" /\ (push.changed \/ waitingForSRI)
  /\ mode' = push.mode
  /\ IF push.new
     THEN /\ samplesPerPacket' = (payloadSize + push.mode) \div (push.mode + 1)
          /\ cutFor' = Allowed
     ELSE UNCHANGED <<samplesPerPacket, cutFor>>
  /\ regular' = (regular /\ Fits(samplesPerPacket' * (push.mode + 1)))
  /\ waitingForSRI' = FALSE
  /\ step' = "cut"
  /\ UNCHANGED <<callVars, dataVars, sizeVars>>

\* mergeRecSRI(), and createPayload() when the SRI is new.
Merge ==
  /\ step = "merge" /\ (push.changed \/ waitingForSRI)
  /\ mode' = push.mode
  /\ IF push.new
     THEN samplesPerPacket' = payloadSize \div (push.mode + 1) /\ cutFor' = Allowed
     ELSE UNCHANGED <<samplesPerPacket, cutFor>>
  /\ regular' = (regular /\ Fits(samplesPerPacket' * (push.mode + 1)))
  /\ waitingForSRI' = FALSE
  /\ step' = "cut"
  /\ UNCHANGED <<callVars, dataVars, sizeVars>>

SkipMerge ==
  /\ step = "merge" /\ ~(push.changed \/ waitingForSRI)
  /\ regular' = (regular /\ Fits(Full))
  /\ step' = "cut"
  /\ UNCHANGED <<callVars, sriVars, dataVars, sizeVars>>

DropUnready ==
  /\ step = "cut" /\ samplesPerPacket < 1
  /\ step' = "idle"
  /\ UNCHANGED <<callVars, sriVars, dataVars, sizeVars, regular>>

\* Faulty variant: the push goes on where a packet of its own would have ended.
CutLeftOverSkipping ==
  /\ step = "cut" /\ samplesPerPacket >= 1 /\ Ready /\ leftOver > 0
  /\ leftOver <= Full
  /\ Send(Spare(leftOver) \o Read(0, Full - leftOver))
  /\ spareBuffer' = Spare(leftOver) \o Read(0, Full - leftOver)
  /\ dataIndex' = dataIndex + Full
  /\ dataSize' = dataSize - Full
  /\ leftOver' = 0
  /\ UNCHANGED <<step, push, complexMultiplier, received, pushes, sriVars, sizeVars, regular>>

\* A packet of what was left over and the first elements of the push.
CutLeftOver ==
  /\ step = "cut" /\ samplesPerPacket >= 1 /\ Ready /\ leftOver > 0
  /\ leftOver <= Full
  /\ Send(Spare(leftOver) \o Read(0, Full - leftOver))
  /\ spareBuffer' = Spare(leftOver) \o Read(0, Full - leftOver)
  /\ dataIndex' = dataIndex + Full - leftOver
  /\ dataSize' = dataSize - Full
  /\ leftOver' = 0
  /\ UNCHANGED <<step, push, complexMultiplier, received, pushes, sriVars, sizeVars, regular>>

\* More is left over than fits, and memcpy() is called with a negative length;
\* or memcpy() writes past the end of spareBuffer, which may also go unnoticed.
Crash ==
  /\ step = "cut" /\ samplesPerPacket >= 1
  /\ \/ Ready /\ leftOver > 0 /\ (leftOver > Full \/ Full > allocated)
     \/ ~Ready /\ push.size > 0 /\ dataSize > allocated
  /\ step' = "crashed"
  /\ UNCHANGED <<callVars, sriVars, dataVars, sizeVars, regular>>

CutPush ==
  /\ step = "cut" /\ samplesPerPacket >= 1 /\ Ready /\ leftOver = 0
  /\ Send(Read(dataIndex, Full))
  /\ dataIndex' = dataIndex + Full
  /\ dataSize' = dataSize - Full
  /\ UNCHANGED <<step, push, complexMultiplier, received, pushes, sriVars, leftOver, spareBuffer, sizeVars,
                 regular>>

\* Faulty variant: a remainder is saved although there is none.
SaveAnything ==
  /\ step = "cut" /\ samplesPerPacket >= 1 /\ ~Ready
  /\ IF push.size > 0
     THEN spareBuffer' = Read(dataIndex, dataSize) /\ leftOver' = dataSize
     ELSE UNCHANGED <<spareBuffer, leftOver>>
  /\ step' = IF push.eos THEN "end" ELSE "idle"
  /\ dataIndex' = IF push.eos THEN dataIndex ELSE 0
  /\ UNCHANGED <<push, complexMultiplier, received, pushes, dataSize, sriVars, out, lengths, sizeVars,
                 regular>>

\* The remainder of a push that is not empty goes to the start of spareBuffer.
SaveRemainder ==
  /\ step = "cut" /\ samplesPerPacket >= 1 /\ ~Ready
  /\ IF dataSize > 0 /\ push.size > 0
     THEN spareBuffer' = Read(dataIndex, dataSize) /\ leftOver' = dataSize
     ELSE UNCHANGED <<spareBuffer, leftOver>>
  /\ step' = IF push.eos THEN "end" ELSE "idle"
  /\ dataIndex' = IF push.eos THEN dataIndex ELSE 0
  /\ UNCHANGED <<push, complexMultiplier, received, pushes, dataSize, sriVars, out, lengths, sizeVars,
                 regular>>

\* Faulty variant: the stream is torn down before the rest is sent.
EndUnsent ==
  /\ step = "end"
  /\ leftOver' = 0 /\ samplesPerPacket' = 0 /\ waitingForSRI' = TRUE
  /\ dataIndex' = 0
  /\ step' = "idle"
  /\ payloadSize' = DefaultPayload /\ overridden' = TRUE
  /\ UNCHANGED <<push, complexMultiplier, received, pushes, dataSize, mode, cutFor, spareBuffer, out,
                 lengths, allocated, maxPayload, edits, regular>>

\* What is left is sent, then tearDownOutputStream() and initialize_values().
EndOfStream ==
  /\ step = "end"
  /\ IF dataSize > 0 THEN Send(Spare(dataSize)) ELSE UNCHANGED <<out, lengths>>
  /\ leftOver' = 0 /\ samplesPerPacket' = 0 /\ waitingForSRI' = TRUE
  /\ dataIndex' = 0
  /\ step' = "idle"
  /\ payloadSize' = DefaultPayload /\ overridden' = TRUE
  /\ UNCHANGED <<push, complexMultiplier, received, pushes, dataSize, mode, cutFor, spareBuffer,
                 allocated, maxPayload, edits, regular>>

Next ==
  \/ MemoryManagement \/ Configure
  \/ Receive \/ Merge \/ SkipMerge \/ DropUnready
  \/ CutLeftOver \/ Crash \/ CutPush \/ SaveRemainder \/ EndOfStream

Spec == Init /\ [][Next]_vars

-----------------------------------------------------------------------------
(* What must hold                                                          *)

\* Every variable has its type.
TypeOK ==
  /\ step \in {"idle", "merge", "cut", "end", "crashed"}
  /\ push \in Pushes \union {NoPush} /\ (step # "idle" => push \in Pushes)
  /\ mode \in {0, 1} /\ waitingForSRI \in BOOLEAN /\ samplesPerPacket \in Nat
  /\ complexMultiplier \in {1, 2} /\ dataSize \in Int /\ dataIndex \in Nat
  /\ leftOver \in Nat /\ spareBuffer \in Seq(Nat)
  /\ allocated \in Nat /\ payloadSize \in Nat /\ cutFor \in Nat
  /\ maxPayload \in Nat /\ overridden \in BOOLEAN
  /\ pushes \in Nat /\ edits \in Nat
  /\ received \in Nat /\ out \in Seq(Nat)
  /\ lengths \in Seq([size : Nat, payload : Nat]) /\ regular \in BOOLEAN

\* As long as every push is one the code can cut (Whole and Fits), across left-over
\* data, changes of mode and of the payload size, and ends of streams the receiver
\* gets the elements in the order they came in, and nothing that is not data.
DataInOrder == regular => \A i \in 1 .. Len(out) : out[i] = i

\* As long as every push is Whole and Fits memcpy() stays inside spareBuffer;
\* between two pushes every element received has been sent or is left over, and
\* between two streams every one has been sent.
NothingLost ==
  regular => /\ step # "crashed"
             /\ step = "idle" => Len(out) + leftOver = received
             /\ step = "idle" /\ waitingForSRI => leftOver = 0

\* As long as every push is Whole and Fits no packet, the one at the end of a
\* stream included, exceeds the max_payload_size that held when the packets of its
\* stream were last measured, or, where initialize_values() has overridden that
\* since it was set, its 1428 bytes: of which more than max_payload_size come
\* through when that is less (cpp/SinkVITA49.cpp:205, SinkVITA49.prf.xml:180).
PayloadRespected ==
  regular => \A i \in 1 .. Len(lengths) : lengths[i].size <= lengths[i].payload

\* "self.assertEqual(list(m1),dataIn[:len(m1)])" (tests/test_SinkVITA49.py:353):
\* what is received is what was pushed, whatever the sizes of the pushes.
ReceivedIsPushed == \A i \in 1 .. Len(out) : out[i] = i
=============================================================================
