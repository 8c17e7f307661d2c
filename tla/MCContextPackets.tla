--------------------------- MODULE MCContextPackets ---------------------------
(* Instances of ContextPackets for TLC. *)
EXTENDS ContextPackets

MCText == STRING

SomeSRI(stream, mode, keywords) ==
  [stream |-> stream, mode |-> mode, keywords |-> keywords]

\* What this component announced itself, as a component upstream may pass on.
Own == <<Keyword("dataRef", "little"), Keyword("BULKIO_SRI_PRIORITY", "yes")>>

RF(value) == Keyword("COL_RF", value)
BW(value) == Keyword("COL_BW", value)

\* Complex SRIs of two streams, one that says what currSRI says by then, and
\* scalar ones: two whose keywords have the same values under other ids, and one
\* that changes a value and has another that is no double.
MCSRIs ==
  {SomeSRI("a", 1, <<RF("f")>>),
   SomeSRI("b", 1, <<BW("f")>>),
   SomeSRI("a", 0, Own \o <<RF("f")>>),
   SomeSRI("a", 0, Own \o <<BW("f")>>),
   SomeSRI("a", 0, <<RF("g"), BW("text")>>)}

\* createIFContextPacket() reads both into value_d.
MCRegister == [id \in {"COL_RF", "COL_BW"} |-> "value_d"]
MCMistyped == {BW("text")}

Config(payload, endian, prio) ==
  [payload |-> payload, endian |-> endian, priority |-> prio]

MCConfigurations == {Config(65535, "big", "no"), Config(2, "native", "yes")}

MCEncapsulations == {{"vrl", "crc"}}
MCDataSettings ==
  {[enable |-> TRUE, fields |-> Fields], [enable |-> FALSE, fields |-> {}]}
=============================================================================
