---------------------------- MODULE StreamSession ----------------------------
(***************************************************************************)
(* What the receiver of dataVITA49_out may rely on, whatever the threads   *)
(* behind the port do: streams come one after the other, each is attached, *)
(* described by a pushed SRI, and only then followed by VRT packets, all   *)
(* of them its own. After a stream is removed its last context packets may *)
(* still come, some of them with the identifier already cleared, but none  *)
(* comes once the next stream is attached.                                 *)
(***************************************************************************)
EXTENDS Sequences

CONSTANTS Streams, NoStream

VARIABLES
  stream,  \* the stream attached or being removed
  phase,   \* "closed", "open", "announced" or "closing"
  out      \* the VRT packets handed to the transmitter so far

vars == <<stream, phase, out>>

Init == stream = NoStream /\ phase = "closed" /\ out = <<>>

Attach ==
  /\ phase = "closed"
  /\ stream' \in Streams
  /\ phase' = "open"
  /\ UNCHANGED out

OwnContext(p) == p.kind = "context" /\ p.id = stream /\ p.of.stream = stream
LateContext(p) == p.kind = "context" /\ p.id = NoStream /\ p.of.stream = stream
OwnData(p) == p.kind = "data" /\ p.id = stream /\ p.of.stream = stream

\* The packet a step appends, when it appends one.
Newest == out'[Len(out')]
Emitted == out' # <<>> /\ out' = Append(out, Newest)

\* The SRI is pushed, and the stream's first context packet when threads run.
Announce ==
  /\ phase = "open"
  /\ phase' = "announced"
  /\ \/ UNCHANGED out
     \/ Emitted /\ OwnContext(Newest)
  /\ UNCHANGED stream

Emit ==
  /\ phase = "announced"
  /\ Emitted
  /\ OwnData(Newest) \/ OwnContext(Newest)
  /\ UNCHANGED <<stream, phase>>

Remove ==
  /\ phase = "announced"
  /\ phase' = "closing"
  /\ UNCHANGED <<stream, out>>

EmitLate ==
  /\ phase = "closing"
  /\ Emitted
  /\ OwnContext(Newest) \/ LateContext(Newest)
  /\ UNCHANGED <<stream, phase>>

Close ==
  /\ phase = "closing"
  /\ phase' = "closed"
  /\ stream' = NoStream
  /\ UNCHANGED out

Next == Attach \/ Announce \/ Emit \/ Remove \/ EmitLate \/ Close

Spec == Init /\ [][Next]_vars
=============================================================================
