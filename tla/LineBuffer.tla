----------------------------- MODULE LineBuffer -----------------------------
(***************************************************************************)
(* How run_port (transport.rs) cuts the byte stream of a host into lines:  *)
(* reads of any size, a line buffer that outlives the reads, CR as the end *)
(* of a line, LF ignored, and a BEL when a line does not fit.  CanBridge   *)
(* takes the lines from here on.                                           *)
(*                                                                         *)
(* A byte is its class; a byte of a line is known by its number within the *)
(* segment, the bytes other than LF since the last CR.                     *)
(***************************************************************************)
EXTENDS Integers, FiniteSets, Sequences

CONSTANTS
  LineCap,   \* size of the line buffer (64)
  ReadCap,   \* size of the read buffer (64)
  MaxSeg     \* bound: bytes of a segment

ASSUME CapAssumption == LineCap \in Nat \ {0} /\ ReadCap \in Nat /\ MaxSeg \in Nat

Bytes == {"char", "CR", "LF"}

VARIABLES
  rxbuf,     \* bytes of the current read still to be looked at
  line,      \* the bytes in the line buffer
  act,       \* what the last byte led to: the line dispatched, <<"bell">> or nothing
  seg,       \* (history) bytes of the current segment
  bells      \* (history) BELs sent for the current segment

vars == <<rxbuf, line, act, seg, bells>>

Init == rxbuf = <<>> /\ line = <<>> /\ act = <<>> /\ seg = 0 /\ bells = 0

\* conn.read returns.
Read(bytes) ==
  /\ rxbuf = <<>>
  /\ seg + Cardinality({i \in DOMAIN bytes : bytes[i] = "char"}) <= MaxSeg
  /\ rxbuf' = bytes
  /\ act' = <<>>
  /\ UNCHANGED <<line, seg, bells>>

AtByte(b) == rxbuf # <<>> /\ Head(rxbuf) = b /\ rxbuf' = Tail(rxbuf)

\* An empty line is skipped, any other dispatched.
CarriageReturn ==
  /\ AtByte("CR")
  /\ act' = line
  /\ line' = <<>>
  /\ seg' = 0 /\ bells' = 0

LineFeed ==
  /\ AtByte("LF")
  /\ act' = <<>>
  /\ UNCHANGED <<line, seg, bells>>

\* Bug: the byte that does not fit starts the next line.
OverflowKeepsByte == line' = <<seg + 1>>

\* Bug: the test for room is off by one.
HasRoomPlusOne == Len(line) <= LineCap

HasRoom == Len(line) < LineCap

\* The buffer is full: it is emptied and the byte is dropped with it.
Overflow == line' = <<>>

Character ==
  /\ AtByte("char")
  /\ seg' = seg + 1
  /\ IF HasRoom
     THEN line' = Append(line, seg + 1) /\ act' = <<>> /\ UNCHANGED bells
     ELSE Overflow /\ act' = <<"bell">> /\ bells' = bells + 1

Next ==
  \/ \E n \in 1..ReadCap : \E bytes \in [1..n -> Bytes] : Read(bytes)
  \/ CarriageReturn \/ LineFeed \/ Character

Spec == Init /\ [][Next]_vars

-----------------------------------------------------------------------------
\* The variables have the types of run_port's buffers and of the histories.
TypeOK ==
  /\ rxbuf \in Seq(Bytes)
  /\ line \in Seq(Nat)
  /\ seg \in Nat /\ bells \in Nat

\* However the stream is cut into reads, a segment of n bytes costs one BEL for
\* every LineCap + 1 of them, and what is left over is the line.
Framing == Len(line) <= LineCap /\ seg = bells * (LineCap + 1) + Len(line)

\* The line buffer holds the latest bytes of the segment, in order and without a
\* gap: no byte of an earlier segment or of an overlong part survives in it.
LineIsTail == \A i \in 1..Len(line) : line[i] = seg - Len(line) + i

\* Each CR hands dispatch exactly those bytes: a line that fits arrives whole, and of
\* an overlong line the rest behind the last BEL arrives as a line of its own.
LeftOver == seg % (LineCap + 1)
DispatchExact ==
  [][ rxbuf # <<>> /\ Head(rxbuf) = "CR"
        => act' = [i \in 1..LeftOver |-> seg - LeftOver + i] ]_vars
=============================================================================
