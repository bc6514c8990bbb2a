------------------------------ MODULE SlcanPort ------------------------------
(***************************************************************************)
(* LineBuffer and SlcanCodec together: the bytes of one host are cut into  *)
(* lines, a transmit line is parsed and goes to the bus, and another       *)
(* bridge on the same bus, which receives what this one sends, prints the  *)
(* frame to its host.  Both ports are open and no frame is lost: that part *)
(* of the story is CanBridge.                                              *)
(***************************************************************************)
EXTENDS LineBuffer, SlcanCodec

CONSTANTS
  Streams,   \* what the host may send between two CRs, or the beginning of
  Filler,    \* the character that continues a stream that has ended
  Clock      \* the timestamps considered, NoStamp for a port without Z1

ASSUME StreamsAssumption ==
  /\ \A s \in Streams : s \in Seq(Int)
  /\ Filler \in Int
  /\ Clock \subseteq Stamps

VARIABLES
  stream,    \* what the host sends in this segment, chosen with its first byte
  last,      \* (history) the line just dispatched
  heard      \* what the other host reads for it; <<>> is nothing

pvars == <<vars, stream, last, heard>>

PortInit == Init /\ stream = <<>> /\ last = <<>> /\ heard = <<>>

Quiet == last' = <<>> /\ heard' = <<>>

\* A stream goes on for at most one character behind its end.
PortRead(bytes) ==
  /\ Read(bytes)
  /\ seg > 0 /\ Head(bytes) = "char" => seg <= Len(stream)
  /\ UNCHANGED stream /\ Quiet

PortCharacter ==
  /\ Character
  /\ stream' \in IF seg = 0 THEN Streams ELSE {stream}
  /\ Quiet

PortLineFeed == LineFeed /\ UNCHANGED stream /\ Quiet

\* dispatch of a transmit line: what it puts on the bus is received by the other
\* bridge, whose port formats it with timestamp ts.  (from_esp gives back the fields
\* that to_esp took; the bus carries identifier, kind, length code and data.)
Relayed(l, ts) == IF TxOk(l) /\ EspOk(TxFrame(l)) THEN FormatFrame(TxFrame(l), ts) ELSE <<>>

CharAt(i) == IF i \in DOMAIN stream THEN stream[i] ELSE Filler

PortCarriageReturn(ts) ==
  /\ CarriageReturn
  /\ last' = [i \in DOMAIN act' |-> CharAt(act'[i])]
  /\ heard' = Relayed(last', ts)
  /\ stream' = <<>>

PortNext ==
  \/ \E n \in 1..ReadCap : \E bytes \in [1..n -> Bytes] : PortRead(bytes)
  \/ PortCharacter
  \/ PortLineFeed
  \/ \E ts \in Clock : PortCarriageReturn(ts)

PortSpec == PortInit /\ [][PortNext]_pvars

-----------------------------------------------------------------------------
\* A line of the protocol table whose identifier is in range arrives at the other
\* host digit by digit, in capitals, whatever the reads cut it into, with the
\* timestamp behind it; digits in lower case mean the same.
Delivered ==
  WellFormed(last) /\ InRange(last)
    => \E ts \in Clock : heard = Capitals(last) \o StampText(ts) \o <<CR>>

\* Nothing else arrives than what begins with such a line: no part of an overlong
\* line, of a bad identifier or of a bad length code reaches the bus changed.
NothingElse ==
  heard # <<>>
    => \E n \in 1..Len(last) :
         LET l == SubSeq(last, 1, n) IN
         /\ WellFormed(l) /\ InRange(l)
         /\ \E ts \in Clock : heard = Capitals(l) \o StampText(ts) \o <<CR>>

\* run_port formats into a buffer of MAX_FRAME_ASCII bytes and would panic if a
\* frame with its timestamp did not fit.
OutFits == Len(heard) <= MAX_FRAME_ASCII
=============================================================================
