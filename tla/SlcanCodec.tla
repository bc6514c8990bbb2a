----------------------------- MODULE SlcanCodec -----------------------------
(***************************************************************************)
(* The SLCAN codec of slcan.rs as operators: parse_tx, which reads a       *)
(* transmit line, and format_frame, which writes a received frame, with    *)
(* the range check of can.rs:to_esp between the two.                       *)
(*                                                                         *)
(* A character is its ASCII code.  A u32 identifier is the pair of its     *)
(* 16-bit halves.  The data of a frame are its meaningful bytes: `dlc` of  *)
(* them, none in a remote frame.                                           *)
(***************************************************************************)
EXTENDS Integers, Sequences

CR == 13
Ch_t == 116
Ch_T == 84
Ch_r == 114
Ch_R == 82

DIGITS == 48..57
UPPER  == 65..70
LOWER  == 97..102

\* nibble(c) is Some.
IsHex(c) == c \in DIGITS \cup UPPER \cup LOWER

\* Bug: the offset of the lower-case digits is forgotten.
NibbleLower(c) == CASE c \in DIGITS -> c - 48
                    [] c \in LOWER  -> c - 97
                    [] OTHER        -> c - 65 + 10

Nibble(c) == CASE c \in DIGITS -> c - 48
               [] c \in LOWER  -> c - 97 + 10
               [] OTHER        -> c - 65 + 10

HexDigit(v) == LET n == v % 16 IN IF n < 10 THEN 48 + n ELSE 65 + (n - 10)

\* Four nibbles as a 16-bit word, and the four digits of a word.
Word(a, b, c, d) == 4096 * a + 256 * b + 16 * c + d
Digits(w) == <<HexDigit(w \div 4096), HexDigit(w \div 256), HexDigit(w \div 16),
               HexDigit(w)>>

Frames ==
  {f \in [ext : BOOLEAN, rtr : BOOLEAN, id : (0..65535) \X (0..65535), dlc : 0..8,
          data : Seq(0..255)] :
     /\ ~f.ext => f.id[1] = 0 /\ f.id[2] < 4096
     /\ Len(f.data) = IF f.rtr THEN 0 ELSE f.dlc}

-----------------------------------------------------------------------------
(* parse_tx *)

Kinds == {Ch_t, Ch_T, Ch_r, Ch_R}
IsExt(line) == line[1] \in {Ch_T, Ch_R}
IsRtr(line) == line[1] \in {Ch_r, Ch_R}

\* Where the dlc digit is, what it says, and where the last byte that is read is.
DlcAt(line) == IF IsExt(line) THEN 10 ELSE 5
Dlc(line) == Nibble(line[DlcAt(line)])
DataLen(line) == IF IsRtr(line) THEN 0 ELSE Dlc(line)
End(line) == DlcAt(line) + 2 * DataLen(line)

\* parse_tx(line) is Some: what follows the data is not looked at.
TxOk(line) ==
  /\ line # <<>> /\ line[1] \in Kinds
  /\ Len(line) >= DlcAt(line)
  /\ \A i \in 2..DlcAt(line) : IsHex(line[i])
  /\ Dlc(line) <= 8
  /\ Len(line) >= End(line)
  /\ \A i \in 2..End(line) : IsHex(line[i])

\* parse_hex on the three or eight digits of the identifier.
ParseId(line) ==
  LET n(i) == Nibble(line[i]) IN
  IF IsExt(line)
  THEN <<Word(n(2), n(3), n(4), n(5)), Word(n(6), n(7), n(8), n(9))>>
  ELSE <<0, Word(0, n(2), n(3), n(4))>>

DataByte(line, k) ==
  16 * Nibble(line[DlcAt(line) + 2 * k - 1]) + Nibble(line[DlcAt(line) + 2 * k])

\* The frame in that case.
TxFrame(line) ==
  [ext |-> IsExt(line), rtr |-> IsRtr(line), id |-> ParseId(line), dlc |-> Dlc(line),
   data |-> [k \in 1..DataLen(line) |-> DataByte(line, k)]]

\* Bug: the test admits the first identifier that does not fit.
EspOkPlusOne(f) == IF f.ext THEN f.id[1] <= 8192 ELSE f.id[2] <= 2048

\* can.rs:to_esp: the identifier fits 11 or 29 bits.
EspOk(f) == IF f.ext THEN f.id[1] <= 8191 ELSE f.id[2] <= 2047

-----------------------------------------------------------------------------
(* format_frame *)

\* Bug: the length of the comment, which is one short of the longest frame.
MaxFrameAsciiExact == 30

\* The size of the buffer that run_port formats into.
MAX_FRAME_ASCII == 32

\* The millisecond timestamp of now_ms, or none.
NoStamp == -1
Stamps == 0..59999 \cup {NoStamp}

Kind(f) == IF f.ext THEN (IF f.rtr THEN Ch_R ELSE Ch_T)
           ELSE (IF f.rtr THEN Ch_r ELSE Ch_t)
IdText(f) == IF f.ext THEN Digits(f.id[1]) \o Digits(f.id[2])
             ELSE Tail(Digits(f.id[2]))
DataText(f) ==
  [i \in 1..2 * Len(f.data) |->
     IF i % 2 = 1 THEN HexDigit(f.data[(i + 1) \div 2] \div 16)
     ELSE HexDigit(f.data[i \div 2])]
StampText(ts) == IF ts = NoStamp THEN <<>> ELSE Digits(ts)

Body(f) == <<Kind(f)>> \o IdText(f) \o <<HexDigit(f.dlc)>> \o DataText(f)
FormatFrame(f, ts) == Body(f) \o StampText(ts) \o <<CR>>

-----------------------------------------------------------------------------
(* The protocol table of the README, as a reference. *)

\* A line as the table writes it: the letter, the digits, and nothing else.
WellFormed(line) ==
  /\ line # <<>> /\ line[1] \in Kinds
  /\ \A i \in 2..Len(line) : IsHex(line[i])
  /\ LET at == IF line[1] \in {Ch_T, Ch_R} THEN 10 ELSE 5 IN
       /\ Len(line) >= at
       /\ line[at] \in 48..56
       /\ Len(line) = at + (IF line[1] \in {Ch_r, Ch_R} THEN 0 ELSE 2 * (line[at] - 48))

\* 11 bits for three digits, 29 bits for eight.
InRange(line) == line[2] <= IF line[1] \in {Ch_T, Ch_R} THEN 49 ELSE 55

\* The line with its digits in capitals.
Capital(c) == IF c \in LOWER THEN c - 32 ELSE c
Capitals(line) == [i \in 1..Len(line) |-> IF i = 1 THEN line[1] ELSE Capital(line[i])]
=============================================================================
