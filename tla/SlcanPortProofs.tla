--------------------------- MODULE SlcanPortProofs ---------------------------
(***************************************************************************)
(* What a host sends is what the other host reads, and it fits the buffer  *)
(* it is formatted into, for every line, timestamp and buffer size.        *)
(***************************************************************************)
EXTENDS SlcanPort, LineBufferProofs, SequenceTheorems, TLAPS

\* What a concatenation of two texts consists of.
LEMMA Join ==
  ASSUME NEW s \in Seq(Int), NEW t \in Seq(Int)
  PROVE  /\ s \o t \in Seq(Int) /\ Len(s \o t) = Len(s) + Len(t)
         /\ \A i \in 1..Len(s) : (s \o t)[i] = s[i]
         /\ \A i \in 1..Len(t) : (s \o t)[Len(s) + i] = t[i]
<1>1. s \o t \in Seq(Int)
  OBVIOUS
<1>2. Len(s \o t) = Len(s) + Len(t)
  OBVIOUS
<1>3. ASSUME NEW i \in 1..Len(s) PROVE (s \o t)[i] = s[i]
  OBVIOUS
<1>4. ASSUME NEW i \in 1..Len(t) PROVE (s \o t)[Len(s) + i] = t[i]
  OBVIOUS
<1>5. QED
  BY <1>1, <1>2, <1>3, <1>4

\* nibble reads what hex_digit writes, in capitals.
LEMMA HexNibble ==
  ASSUME NEW c \in Int, IsHex(c)
  PROVE  Nibble(c) \in 0..15 /\ HexDigit(Nibble(c)) = Capital(c)
<1>1. CASE c \in DIGITS
  BY <1>1 DEF Nibble, HexDigit, Capital, DIGITS, LOWER
<1>2. CASE c \in LOWER
  BY <1>2 DEF Nibble, HexDigit, Capital, DIGITS, LOWER
<1>3. CASE c \in UPPER
  BY <1>3 DEF Nibble, HexDigit, Capital, DIGITS, LOWER, UPPER
<1>4. QED
  BY <1>1, <1>2, <1>3 DEF IsHex

\* The bounds that parse_tx and to_esp put on a digit, as bounds on its character.
LEMMA NibbleBounds ==
  ASSUME NEW c \in Int, IsHex(c)
  PROVE  /\ Nibble(c) <= 1 <=> c <= 49
         /\ Nibble(c) <= 7 <=> c <= 55
         /\ Nibble(c) <= 8 <=> c \in 48..56
         /\ c \in 48..56 => Nibble(c) = c - 48
<1>1. CASE c \in DIGITS
  BY <1>1 DEF Nibble, DIGITS, LOWER
<1>2. CASE c \in LOWER
  BY <1>2 DEF Nibble, DIGITS, LOWER
<1>3. CASE c \in UPPER
  BY <1>3 DEF Nibble, DIGITS, LOWER, UPPER
<1>4. QED
  BY <1>1, <1>2, <1>3 DEF IsHex

\* hex_digit depends on the low four bits only.
LEMMA LowNibble ==
  ASSUME NEW h \in Int, NEW l \in 0..15
  PROVE  HexDigit(16 * h + l) = HexDigit(l)
<1>1. (16 * h + l) % 16 = l % 16
  OBVIOUS
<1>2. QED
  BY <1>1 DEF HexDigit

\* hex_digit writes a character.
LEMMA HexDigitType ==
  ASSUME NEW v \in Int
  PROVE  HexDigit(v) \in Int
<1>1. v % 16 \in 0..15
  OBVIOUS
<1>2. QED
  BY <1>1 DEF HexDigit

\* Text t consists of four characters, and of eight.
Four(t, a, b, c, d) ==
  /\ t \in Seq(Int) /\ Len(t) = 4
  /\ t[1] = a /\ t[2] = b /\ t[3] = c /\ t[4] = d

Eight(t, a, b, c, d, e, f, g, h) ==
  /\ t \in Seq(Int) /\ Len(t) = 8
  /\ t[1] = a /\ t[2] = b /\ t[3] = c /\ t[4] = d
  /\ t[5] = e /\ t[6] = f /\ t[7] = g /\ t[8] = h

\* The digits of a word are those it was read from.
LEMMA WordDigits ==
  ASSUME NEW a \in 0..15, NEW b \in 0..15, NEW c \in 0..15, NEW d \in 0..15
  PROVE  Four(Digits(Word(a, b, c, d)), HexDigit(a), HexDigit(b), HexDigit(c), HexDigit(d))
<1> DEFINE w == Word(a, b, c, d)
<1>1. w \div 4096 = a /\ w \div 256 = 16 * a + b
  BY DEF Word
<1>2. w \div 16 = 16 * (16 * a + b) + c /\ w = 16 * (16 * (16 * a + b) + c) + d
  BY DEF Word
<1>3. HexDigit(16 * a + b) = HexDigit(b)
  BY LowNibble
<1>4. HexDigit(16 * (16 * a + b) + c) = HexDigit(c)
  <2>1. 16 * a + b \in Int
    OBVIOUS
  <2>2. QED
    BY <2>1, LowNibble
<1>5. HexDigit(16 * (16 * (16 * a + b) + c) + d) = HexDigit(d)
  <2>1. 16 * (16 * a + b) + c \in Int
    OBVIOUS
  <2>2. QED
    BY <2>1, LowNibble
<1>6. Digits(w) = <<HexDigit(a), HexDigit(b), HexDigit(c), HexDigit(d)>>
  BY <1>1, <1>2, <1>3, <1>4, <1>5 DEF Digits
<1>7. /\ HexDigit(a) \in Int /\ HexDigit(b) \in Int
      /\ HexDigit(c) \in Int /\ HexDigit(d) \in Int
  BY HexDigitType
<1>8. QED
  BY <1>6, <1>7 DEF Four

\* Four digits that are read and written come back in capitals.
LEMMA WordText ==
  ASSUME NEW p \in Int, NEW q \in Int, NEW r \in Int, NEW s \in Int,
         IsHex(p), IsHex(q), IsHex(r), IsHex(s)
  PROVE  Four(Digits(Word(Nibble(p), Nibble(q), Nibble(r), Nibble(s))),
              Capital(p), Capital(q), Capital(r), Capital(s))
<1>1. /\ Nibble(p) \in 0..15 /\ HexDigit(Nibble(p)) = Capital(p)
      /\ Nibble(q) \in 0..15 /\ HexDigit(Nibble(q)) = Capital(q)
      /\ Nibble(r) \in 0..15 /\ HexDigit(Nibble(r)) = Capital(r)
      /\ Nibble(s) \in 0..15 /\ HexDigit(Nibble(s)) = Capital(s)
  BY HexNibble
<1>2. QED
  BY <1>1, WordDigits

\* Two of them in a row, and the last three of them.
LEMMA EightText ==
  ASSUME NEW s, NEW t, NEW a, NEW b, NEW c, NEW d, NEW e, NEW f, NEW g, NEW h,
         Four(s, a, b, c, d), Four(t, e, f, g, h)
  PROVE  Eight(s \o t, a, b, c, d, e, f, g, h)
<1>1. s \in Seq(Int) /\ t \in Seq(Int) /\ Len(s) = 4 /\ Len(t) = 4
  BY DEF Four
<1>2. PICK u \in Seq(Int) : u = s \o t
  BY <1>1, Join
<1>3. Len(u) = 8 /\ \A i \in 1..4 : u[i] = s[i]
  <2>1. /\ Len(s \o t) = Len(s) + Len(t)
        /\ \A i \in 1..Len(s) : (s \o t)[i] = s[i]
    BY <1>1, Join
  <2>2. /\ Len(u) = Len(s) + Len(t)
        /\ \A i \in 1..Len(s) : u[i] = s[i]
    BY <2>1, <1>2, Zenon
  <2>3. QED
    BY <1>1, <2>2
<1>4. \A i \in 1..4 : u[4 + i] = t[i]
  <2>1. \A i \in 1..Len(t) : (s \o t)[Len(s) + i] = t[i]
    BY <1>1, Join
  <2>2. \A i \in 1..Len(t) : u[Len(s) + i] = t[i]
    BY <2>1, <1>2, Zenon
  <2>3. QED
    BY <1>1, <2>2
<1>5. u[4 + 1] = t[1] /\ u[4 + 2] = t[2] /\ u[4 + 3] = t[3] /\ u[4 + 4] = t[4]
  BY <1>4
<1>6. u[1] = s[1] /\ u[2] = s[2] /\ u[3] = s[3] /\ u[4] = s[4]
  BY <1>3
<1>7. Eight(u, a, b, c, d, e, f, g, h)
  BY <1>3, <1>5, <1>6 DEF Four, Eight
<1>8. QED
  BY <1>2, <1>7, Zenon

LEMMA ThreeText ==
  ASSUME NEW s, NEW a, NEW b, NEW c, NEW d, Four(s, a, b, c, d)
  PROVE  /\ Tail(s) \in Seq(Int) /\ Len(Tail(s)) = 3
         /\ Tail(s)[1] = b /\ Tail(s)[2] = c /\ Tail(s)[3] = d
<1>1. s \in Seq(Int) /\ s # <<>> /\ Len(s) = 4
  BY DEF Four
<1>2. PICK u \in Seq(Int) : u = Tail(s)
  BY <1>1, HeadTailProperties
<1>3. Len(u) = 3
  BY <1>1, <1>2, HeadTailProperties
<1>4. \A i \in 1..3 : u[i] = s[i + 1]
  <2>1. \A i \in 1..Len(Tail(s)) : Tail(s)[i] = s[i + 1]
    BY <1>1, HeadTailProperties
  <2>2. \A i \in 1..Len(u) : u[i] = s[i + 1]
    BY <2>1, <1>2, Zenon
  <2>3. QED
    BY <1>3, <2>2
<1>5. u[1] = s[1 + 1] /\ u[2] = s[2 + 1] /\ u[3] = s[3 + 1]
  BY <1>4
<1>6. /\ u \in Seq(Int) /\ Len(u) = 3
      /\ u[1] = b /\ u[2] = c /\ u[3] = d
  BY <1>3, <1>5 DEF Four
<1>7. QED
  BY <1>2, <1>6, Zenon

\* What parse_tx has established of a line it accepts.
LEMMA Accepted ==
  ASSUME NEW l \in Seq(Int), TxOk(l)
  PROVE  /\ DlcAt(l) \in {5, 10} /\ Dlc(l) \in 0..8 /\ DataLen(l) \in 0..8
         /\ End(l) = DlcAt(l) + 2 * DataLen(l) /\ End(l) \in 5..26 /\ End(l) <= Len(l)
         /\ \A i \in 2..End(l) : l[i] \in Int /\ IsHex(l[i])
         /\ l[1] \in Kinds /\ l[1] \in Int
<1>1. DlcAt(l) \in {5, 10}
  BY DEF DlcAt
<1>2. Len(l) \in Nat /\ Len(l) >= DlcAt(l) /\ l[1] \in Kinds /\ Dlc(l) <= 8
  BY DEF TxOk
<1>3. \A i \in 1..Len(l) : l[i] \in Int
  OBVIOUS
<1>4. IsHex(l[DlcAt(l)]) /\ l[DlcAt(l)] \in Int
  BY <1>1, <1>2, <1>3 DEF TxOk
<1>5. Dlc(l) \in 0..8
  <2>1. Nibble(l[DlcAt(l)]) \in 0..15
    BY <1>4, HexNibble
  <2>2. QED
    BY <1>2, <2>1 DEF Dlc
<1>6. DataLen(l) \in 0..8
  BY <1>5 DEF DataLen
<1>7. End(l) = DlcAt(l) + 2 * DataLen(l) /\ End(l) \in 5..26
  <2>1. PICK m \in {5, 10}, n \in 0..8 : m = DlcAt(l) /\ n = DataLen(l)
    BY <1>1, <1>6, Zenon
  <2>2. m + 2 * n \in 5..26
    OBVIOUS
  <2>3. QED
    BY <2>1, <2>2 DEF End
<1>8. End(l) <= Len(l) /\ \A i \in 2..End(l) : IsHex(l[i])
  BY DEF TxOk
<1>9. ASSUME NEW i \in 2..End(l) PROVE l[i] \in Int
  <2>1. End(l) \in Int /\ Len(l) \in Int /\ End(l) <= Len(l)
    BY <1>2, <1>7, <1>8
  <2>2. i \in 1..Len(l)
    BY <2>1
  <2>3. QED
    BY <1>3, <2>2
<1>10. 1 \in 1..Len(l)
  BY <1>2, <1>1
<1>11. QED
  BY <1>1, <1>2, <1>3, <1>5, <1>6, <1>7, <1>8, <1>9, <1>10

\* The identifier comes back digit by digit.
LEMMA IdentifierText ==
  ASSUME NEW l \in Seq(Int), TxOk(l)
  PROVE  /\ IdText(TxFrame(l)) \in Seq(Int)
         /\ Len(IdText(TxFrame(l))) = DlcAt(l) - 2
         /\ \A i \in 1..DlcAt(l) - 2 : IdText(TxFrame(l))[i] = Capital(l[i + 1])
<1> DEFINE n(i) == Nibble(l[i])
           text == IdText(TxFrame(l))
<1>1. ASSUME NEW i \in 2..DlcAt(l) PROVE l[i] \in Int /\ IsHex(l[i])
  <2>1. i \in 2..End(l)
    BY Accepted
  <2>2. QED
    BY <2>1, Accepted
<1>2. CASE IsExt(l)
  <2>1. DlcAt(l) = 10
    BY <1>2 DEF DlcAt
  <2>2. /\ l[2] \in Int /\ IsHex(l[2]) /\ l[3] \in Int /\ IsHex(l[3])
        /\ l[4] \in Int /\ IsHex(l[4]) /\ l[5] \in Int /\ IsHex(l[5])
    BY <1>1, <2>1
  <2>3. /\ l[6] \in Int /\ IsHex(l[6]) /\ l[7] \in Int /\ IsHex(l[7])
        /\ l[8] \in Int /\ IsHex(l[8]) /\ l[9] \in Int /\ IsHex(l[9])
    BY <1>1, <2>1
  <2>4. PICK hi, lo : /\ hi = Digits(Word(n(2), n(3), n(4), n(5)))
                      /\ lo = Digits(Word(n(6), n(7), n(8), n(9)))
    OBVIOUS
  <2>5. Four(hi, Capital(l[2]), Capital(l[3]), Capital(l[4]), Capital(l[5]))
    BY <2>2, <2>4, WordText
  <2>6. Four(lo, Capital(l[6]), Capital(l[7]), Capital(l[8]), Capital(l[9]))
    BY <2>3, <2>4, WordText
  <2>7. text = hi \o lo
    BY <1>2, <2>4 DEF IdText, TxFrame, ParseId
  <2> HIDE DEF text
  <2>8. Eight(text, Capital(l[2]), Capital(l[3]), Capital(l[4]), Capital(l[5]),
                    Capital(l[6]), Capital(l[7]), Capital(l[8]), Capital(l[9]))
    BY <2>5, <2>6, <2>7, EightText
  <2>9. ASSUME NEW i \in 1..8 PROVE text[i] = Capital(l[i + 1])
    <3>1. CASE i \in {1, 2, 3, 4}
      <4>1. /\ text[1] = Capital(l[1 + 1]) /\ text[2] = Capital(l[2 + 1])
            /\ text[3] = Capital(l[3 + 1]) /\ text[4] = Capital(l[4 + 1])
        BY <2>8 DEF Eight
      <4>2. QED
        BY <3>1, <4>1, Zenon
    <3>2. CASE i \in {5, 6, 7, 8}
      <4>1. /\ text[5] = Capital(l[5 + 1]) /\ text[6] = Capital(l[6 + 1])
            /\ text[7] = Capital(l[7 + 1]) /\ text[8] = Capital(l[8 + 1])
        BY <2>8 DEF Eight
      <4>2. QED
        BY <3>2, <4>1, Zenon
    <3>3. QED
      BY <3>1, <3>2
  <2>10. text \in Seq(Int) /\ Len(text) = 8
    BY <2>8 DEF Eight
  <2>11. QED
    BY <2>1, <2>9, <2>10 DEF text
<1>3. CASE ~IsExt(l)
  <2>1. DlcAt(l) = 5
    BY <1>3 DEF DlcAt
  <2>2. /\ l[2] \in Int /\ IsHex(l[2]) /\ l[3] \in Int /\ IsHex(l[3])
        /\ l[4] \in Int /\ IsHex(l[4])
    BY <1>1, <2>1
  <2>3. 48 \in Int /\ IsHex(48) /\ Nibble(48) = 0
    BY DEF IsHex, Nibble, DIGITS, UPPER, LOWER
  <2>4. PICK lo : lo = Digits(Word(Nibble(48), n(2), n(3), n(4)))
    OBVIOUS
  <2>5. Four(lo, Capital(48), Capital(l[2]), Capital(l[3]), Capital(l[4]))
    BY <2>2, <2>3, <2>4, WordText
  <2>6. text = Tail(lo)
    BY <1>3, <2>3, <2>4 DEF IdText, TxFrame, ParseId
  <2>7. /\ text \in Seq(Int) /\ Len(text) = 3
        /\ text[1] = Capital(l[2]) /\ text[2] = Capital(l[3]) /\ text[3] = Capital(l[4])
    <3> HIDE DEF text
    <3>1. QED
      BY <2>5, <2>6, ThreeText
  <2> HIDE DEF text
  <2>8. ASSUME NEW i \in 1..3 PROVE text[i] = Capital(l[i + 1])
    <3>1. i \in {1, 2, 3}
      OBVIOUS
    <3>2. QED
      BY <2>7, <3>1
  <2>9. QED
    BY <2>1, <2>7, <2>8 DEF text
<1>4. QED
  BY <1>2, <1>3

\* So do the data.
LEMMA DataTextBack ==
  ASSUME NEW l \in Seq(Int), TxOk(l)
  PROVE  /\ DataText(TxFrame(l)) \in Seq(Int)
         /\ Len(DataText(TxFrame(l))) = 2 * DataLen(l)
         /\ \A i \in 1..2 * DataLen(l) :
              DataText(TxFrame(l))[i] = Capital(l[DlcAt(l) + i])
<1> DEFINE f == TxFrame(l)
           d == DataText(f)
           at == DlcAt(l)
<1>1. /\ DataLen(l) \in Nat /\ at \in Nat /\ at > 1
      /\ \A i \in 2..at + 2 * DataLen(l) : l[i] \in Int /\ IsHex(l[i])
  BY Accepted
<1>2. /\ f.data = [k \in 1..DataLen(l) |-> DataByte(l, k)]
      /\ Len(f.data) = DataLen(l)
  BY <1>1 DEF TxFrame
<1>3. d = [i \in 1..2 * DataLen(l) |->
             IF i % 2 = 1 THEN HexDigit(f.data[(i + 1) \div 2] \div 16)
             ELSE HexDigit(f.data[i \div 2])]
  BY <1>2 DEF DataText
<1>4. ASSUME NEW k \in 1..DataLen(l)
      PROVE  /\ HexDigit(DataByte(l, k) \div 16) = Capital(l[at + 2 * k - 1])
             /\ HexDigit(DataByte(l, k)) = Capital(l[at + 2 * k])
  <2> DEFINE h == Nibble(l[at + 2 * k - 1])
             w == Nibble(l[at + 2 * k])
  <2>1. at + 2 * k - 1 \in 2..at + 2 * DataLen(l) /\ at + 2 * k \in 2..at + 2 * DataLen(l)
    BY <1>1
  <2>2. /\ h \in 0..15 /\ HexDigit(h) = Capital(l[at + 2 * k - 1])
        /\ w \in 0..15 /\ HexDigit(w) = Capital(l[at + 2 * k])
    BY <1>1, <2>1, HexNibble
  <2>3. DataByte(l, k) = 16 * h + w
    BY DEF DataByte
  <2>4. (16 * h + w) \div 16 = h
    <3> HIDE DEF h, w
    <3>1. QED
      BY <2>2
  <2>5. HexDigit(16 * h + w) = HexDigit(w)
    <3> HIDE DEF h, w
    <3>1. h \in Int
      BY <2>2
    <3>2. QED
      BY <2>2, <3>1, LowNibble
  <2>6. QED
    BY <2>2, <2>3, <2>4, <2>5
<1>5. ASSUME NEW i \in 1..2 * DataLen(l)
      PROVE  d[i] = Capital(l[at + i])
  <2>1. CASE i % 2 = 1
    <3>1. PICK k \in 1..DataLen(l) : i = 2 * k - 1 /\ (i + 1) \div 2 = k
      <4>1. i \in Int /\ i = 2 * ((i + 1) \div 2) - 1 /\ (i + 1) \div 2 \in Int
        BY <2>1
      <4>2. (i + 1) \div 2 \in 1..DataLen(l)
        BY <1>1, <4>1
      <4>3. QED
        BY <4>1, <4>2
    <3>2. d[i] = HexDigit(DataByte(l, k) \div 16)
      BY <1>2, <1>3, <2>1, <3>1
    <3>3. QED
      BY <1>1, <1>4, <3>1, <3>2
  <2>2. CASE i % 2 # 1
    <3>1. PICK k \in 1..DataLen(l) : i = 2 * k /\ i \div 2 = k
      <4>1. i \div 2 \in 1..DataLen(l) /\ i = 2 * (i \div 2)
        BY <1>1, <2>2
      <4>2. QED
        BY <4>1
    <3>2. d[i] = HexDigit(DataByte(l, k))
      BY <1>2, <1>3, <2>2, <3>1
    <3>3. QED
      BY <1>1, <1>4, <3>1, <3>2
  <2>3. QED
    BY <2>1, <2>2
<1>6. \A i \in 1..2 * DataLen(l) : d[i] \in Int
  <2> SUFFICES ASSUME NEW i \in 1..2 * DataLen(l) PROVE d[i] \in Int
    OBVIOUS
  <2>1. at + i \in 2..at + 2 * DataLen(l)
    BY <1>1
  <2>2. QED
    BY <1>1, <1>5, <2>1 DEF Capital, LOWER
<1>7. d \in Seq(Int) /\ Len(d) = 2 * DataLen(l)
  <2>1. 2 * DataLen(l) \in Nat
    BY <1>1
  <2>2. d \in [1..2 * DataLen(l) -> Int]
    BY <1>3, <1>6
  <2>3. ASSUME NEW m \in Nat, NEW e \in [1..m -> Int]
        PROVE  e \in Seq(Int) /\ Len(e) = m
    BY <2>3
  <2> HIDE DEF d
  <2>4. QED
    BY <2>1, <2>2, <2>3
<1>8. QED
  BY <1>5, <1>7

\* Text u is character k, text x, character d and text y in a row.
InARow(u, k, x, d, y) ==
  /\ u \in Seq(Int) /\ Len(u) = Len(x) + 2 + Len(y)
  /\ u[1] = k /\ \A i \in 1..Len(x) : u[1 + i] = x[i]
  /\ u[Len(x) + 2] = d /\ \A i \in 1..Len(y) : u[Len(x) + 2 + i] = y[i]

LEMMA Assembled ==
  ASSUME NEW k \in Int, NEW x \in Seq(Int), NEW d \in Int, NEW y \in Seq(Int)
  PROVE  InARow(<<k>> \o x \o <<d>> \o y, k, x, d, y)
<1>1. PICK m \in Seq(Int) : m = <<k>> /\ Len(m) = 1 /\ m[1] = k
  <2>1. <<k>> \in Seq(Int) /\ Len(<<k>>) = 1 /\ <<k>>[1] = k
    OBVIOUS
  <2>2. QED
    BY <2>1, Zenon
<1>2. PICK n \in Seq(Int) : n = <<d>> /\ Len(n) = 1 /\ n[1] = d
  <2>1. <<d>> \in Seq(Int) /\ Len(<<d>>) = 1 /\ <<d>>[1] = d
    OBVIOUS
  <2>2. QED
    BY <2>1, Zenon
<1>3. PICK v \in Seq(Int) : v = m \o x
  BY Join, Zenon
<1>4. PICK w \in Seq(Int) : w = v \o n
  BY Join, Zenon
<1>5. PICK u \in Seq(Int) : u = w \o y
  BY Join, Zenon
<1>6. /\ Len(v) = Len(m) + Len(x)
      /\ \A i \in 1..Len(m) : v[i] = m[i]
      /\ \A i \in 1..Len(x) : v[Len(m) + i] = x[i]
  BY <1>3, Join
<1>7. /\ Len(w) = Len(v) + Len(n)
      /\ \A i \in 1..Len(v) : w[i] = v[i]
      /\ \A i \in 1..Len(n) : w[Len(v) + i] = n[i]
  BY <1>4, Join
<1>8. /\ Len(u) = Len(w) + Len(y)
      /\ \A i \in 1..Len(w) : u[i] = w[i]
      /\ \A i \in 1..Len(y) : u[Len(w) + i] = y[i]
  BY <1>5, Join
<1>9. Len(v) = Len(x) + 1 /\ Len(w) = Len(x) + 2 /\ Len(u) = Len(x) + 2 + Len(y)
  BY <1>1, <1>2, <1>6, <1>7, <1>8
<1>10. u[1] = k
  <2>1. 1 \in 1..Len(m) /\ 1 \in 1..Len(v) /\ 1 \in 1..Len(w)
    BY <1>1, <1>9
  <2>2. v[1] = m[1]
    BY <1>6, <2>1, Zenon
  <2>3. w[1] = v[1]
    BY <1>7, <2>1, Zenon
  <2>4. u[1] = w[1]
    BY <1>8, <2>1, Zenon
  <2>5. QED
    BY <1>1, <2>2, <2>3, <2>4, Zenon
<1>11. ASSUME NEW i \in 1..Len(x) PROVE u[1 + i] = x[i]
  <2>1. v[1 + i] = x[i]
    BY <1>1, <1>6
  <2>2. 1 + i \in 1..Len(v) /\ 1 + i \in 1..Len(w)
    BY <1>9
  <2>3. w[1 + i] = v[1 + i]
    BY <1>7, <2>2, Zenon
  <2>4. u[1 + i] = w[1 + i]
    BY <1>8, <2>2, Zenon
  <2>5. QED
    BY <2>1, <2>3, <2>4, Zenon
<1>12. u[Len(x) + 2] = d
  <2>1. w[Len(v) + 1] = n[1]
    BY <1>2, <1>7
  <2>2. Len(v) + 1 = Len(x) + 2 /\ Len(x) + 2 \in 1..Len(w)
    BY <1>9
  <2>3. u[Len(x) + 2] = w[Len(x) + 2]
    BY <1>8, <2>2, Zenon
  <2>4. QED
    BY <1>2, <2>1, <2>2, <2>3, Zenon
<1>13. ASSUME NEW i \in 1..Len(y) PROVE u[Len(x) + 2 + i] = y[i]
  BY <1>8, <1>9
<1>14. InARow(u, k, x, d, y)
  BY <1>9, <1>10, <1>11, <1>12, <1>13 DEF InARow
<1>15. QED
  BY <1>1, <1>2, <1>3, <1>4, <1>5, <1>14, Zenon

\* What format_frame writes before the timestamp is what parse_tx has read.
LEMMA BodyBack ==
  ASSUME NEW l \in Seq(Int), TxOk(l)
  PROVE  /\ Body(TxFrame(l)) \in Seq(Int) /\ Len(Body(TxFrame(l))) = End(l)
         /\ Body(TxFrame(l))[1] = l[1]
         /\ \A i \in 2..End(l) : Body(TxFrame(l))[i] = Capital(l[i])
<1> DEFINE f == TxFrame(l)
           at == DlcAt(l)
<1>1. PICK x \in Seq(Int) : /\ x = IdText(f) /\ Len(x) = at - 2
                            /\ \A i \in 1..at - 2 : x[i] = Capital(l[i + 1])
  BY IdentifierText, Zenon
<1>2. PICK y \in Seq(Int) : /\ y = DataText(f) /\ Len(y) = 2 * DataLen(l)
                            /\ \A i \in 1..2 * DataLen(l) : y[i] = Capital(l[at + i])
  BY DataTextBack, Zenon
<1>3. /\ at \in {5, 10} /\ DataLen(l) \in 0..8 /\ End(l) = at + 2 * DataLen(l)
      /\ l[at] \in Int /\ IsHex(l[at]) /\ l[1] \in Int /\ l[1] \in Kinds
  <2>1. at \in {5, 10} /\ DataLen(l) \in 0..8 /\ End(l) = at + 2 * DataLen(l)
    BY Accepted
  <2>2. at \in 2..End(l)
    BY <2>1
  <2>3. QED
    BY <2>1, <2>2, Accepted
<1>4. Kind(f) = l[1]
  <2>1. (f.ext <=> l[1] \in {Ch_T, Ch_R}) /\ (f.rtr <=> l[1] \in {Ch_r, Ch_R})
    BY DEF TxFrame, IsExt, IsRtr
  <2>2. l[1] \in {Ch_t, Ch_T, Ch_r, Ch_R}
    BY <1>3 DEF Kinds
  <2> HIDE DEF f
  <2>3. QED
    BY <2>1, <2>2 DEF Kind, Ch_t, Ch_T, Ch_r, Ch_R
<1>5. HexDigit(f.dlc) = Capital(l[at])
  BY <1>3, HexNibble DEF TxFrame, Dlc
<1>6. PICK d \in Int : d = Capital(l[at])
  BY <1>3 DEF Capital, LOWER
<1>7. PICK u : u = Body(f)
  OBVIOUS
<1> HIDE DEF f, at
<1>8. InARow(u, l[1], x, d, y)
  <2>1. Body(f) = <<l[1]>> \o x \o <<d>> \o y
    BY <1>1, <1>2, <1>4, <1>5, <1>6, Zenon DEF Body
  <2>2. QED
    BY <1>3, <1>7, <2>1, Assembled
<1>9. u \in Seq(Int) /\ Len(u) = at + 2 * DataLen(l) /\ u[1] = l[1]
  BY <1>1, <1>2, <1>3, <1>8 DEF InARow
<1>10. ASSUME NEW i \in 2..at + 2 * DataLen(l) PROVE u[i] = Capital(l[i])
  <2>1. CASE i < at
    <3>1. PICK j \in 1..at - 2 : i = 1 + j /\ i = j + 1
      BY <1>3, <2>1
    <3>2. x[j] = Capital(l[j + 1])
      BY <1>1
    <3>3. u[1 + j] = x[j]
      BY <1>1, <1>8 DEF InARow
    <3>4. QED
      BY <3>1, <3>2, <3>3
  <2>2. CASE i = at
    <3>1. Len(x) + 2 = at
      BY <1>1, <1>3
    <3>2. QED
      BY <1>6, <1>8, <2>2, <3>1 DEF InARow
  <2>3. CASE i > at
    <3>1. PICK j \in 1..2 * DataLen(l) : i = at + j
      <4>1. PICK n \in Nat, m \in Nat : n = 2 * DataLen(l) /\ m = at
        <5>1. 2 * DataLen(l) \in Nat
          <6>1. DataLen(l) \in 0..8
            BY <1>3
          <6>2. QED
            BY <6>1
        <5>2. at \in Nat
          BY <1>3
        <5>3. QED
          BY <5>1, <5>2, Zenon
      <4>2. i \in 2..m + n /\ i > m
        BY <2>3, <4>1
      <4>3. i - m \in 1..n /\ i = m + (i - m)
        BY <4>2
      <4>4. QED
        BY <4>1, <4>3
    <3>2. Len(x) + 2 + j = i
      BY <1>1, <1>3, <3>1
    <3>3. y[j] = Capital(l[at + j])
      BY <1>2
    <3>4. u[Len(x) + 2 + j] = y[j]
      BY <1>2, <1>8 DEF InARow
    <3>5. QED
      BY <3>1, <3>2, <3>3, <3>4
  <2>4. i \in Int /\ at \in Int
    BY <1>3
  <2>5. QED
    BY <2>1, <2>2, <2>3, <2>4
<1>11. QED
  BY <1>3, <1>7, <1>9, <1>10 DEF f

\* The same for any text that is the accepted part of the line.
LEMMA AcceptedBack ==
  ASSUME NEW l \in Seq(Int), TxOk(l), NEW p \in Seq(Int), Len(p) = End(l),
         \A i \in 1..End(l) : p[i] = l[i]
  PROVE  Body(TxFrame(l)) = Capitals(p)
<1>1. End(l) \in 5..26
  BY Accepted
<1>2. PICK u \in Seq(Int) : /\ u = Body(TxFrame(l)) /\ Len(u) = End(l) /\ u[1] = l[1]
                            /\ \A i \in 2..End(l) : u[i] = Capital(l[i])
  BY BodyBack, Zenon
<1>3. u = [i \in 1..End(l) |-> u[i]]
  BY <1>2
<1>4. ASSUME NEW i \in 1..End(l) PROVE u[i] = IF i = 1 THEN p[1] ELSE Capital(p[i])
  <2>1. CASE i = 1
    BY <1>1, <1>2, <2>1
  <2>2. CASE i # 1
    <3>1. i \in 2..End(l)
      BY <1>1, <2>2
    <3>2. u[i] = Capital(l[i]) /\ p[i] = l[i]
      BY <1>2, <3>1
    <3>3. QED
      BY <2>2, <3>2
  <2>3. QED
    BY <2>1, <2>2
<1>5. Capitals(p) = [i \in 1..End(l) |-> IF i = 1 THEN p[1] ELSE Capital(p[i])]
  BY DEF Capitals
<1>6. QED
  BY <1>2, <1>3, <1>4, <1>5, Zenon

\* A line of the protocol table whose identifier is in range is sent, all of it.
LEMMA TableSent ==
  ASSUME NEW l \in Seq(Int), WellFormed(l), InRange(l)
  PROVE  TxOk(l) /\ EspOk(TxFrame(l)) /\ End(l) = Len(l)
<1>1. /\ l # <<>> /\ l[1] \in Kinds /\ Len(l) \in Nat
      /\ \A i \in 2..Len(l) : l[i] \in Int /\ IsHex(l[i])
  BY DEF WellFormed
<1>2. /\ Len(l) >= DlcAt(l) /\ l[DlcAt(l)] \in 48..56 /\ DlcAt(l) \in {5, 10}
      /\ Len(l) = DlcAt(l) + (IF IsRtr(l) THEN 0 ELSE 2 * (l[DlcAt(l)] - 48))
  BY DEF WellFormed, DlcAt, IsExt, IsRtr
<1>3. Dlc(l) = l[DlcAt(l)] - 48 /\ Dlc(l) \in 0..8
  <2>1. PICK c \in 48..56 : c = l[DlcAt(l)]
    BY <1>2, Zenon
  <2>2. c \in Int /\ IsHex(c)
    BY DEF IsHex, DIGITS, UPPER, LOWER
  <2>3. Nibble(c) = c - 48
    BY <2>2, NibbleBounds
  <2>4. QED
    BY <2>1, <2>3 DEF Dlc
<1>4. End(l) = Len(l)
  BY <1>2, <1>3 DEF End, DataLen
<1>5. TxOk(l)
  <2>1. \A i \in 2..DlcAt(l) : IsHex(l[i])
    <3>1. ASSUME NEW i \in 2..DlcAt(l) PROVE i \in 2..Len(l)
      BY <1>1, <1>2
    <3>2. QED
      BY <1>1, <3>1
  <2>2. QED
    <3>1. Dlc(l) <= 8
      BY <1>3
    <3>2. Len(l) >= End(l) /\ \A i \in 2..End(l) : IsHex(l[i])
      BY <1>1, <1>4
    <3>3. QED
      BY <1>1, <1>2, <2>1, <3>1, <3>2 DEF TxOk
<1>6. ASSUME NEW i \in 2..5 PROVE l[i] \in Int /\ IsHex(l[i]) /\ Nibble(l[i]) \in 0..15
  <2>1. i \in 2..Len(l)
    BY <1>1, <1>2
  <2>2. QED
    BY <1>1, <2>1, HexNibble
<1>7. PICK a \in 0..15, b \in 0..15, c \in 0..15, d \in 0..15 :
        a = Nibble(l[2]) /\ b = Nibble(l[3]) /\ c = Nibble(l[4]) /\ d = Nibble(l[5])
  <2>1. 2 \in 2..5 /\ 3 \in 2..5 /\ 4 \in 2..5 /\ 5 \in 2..5
    OBVIOUS
  <2>2. QED
    BY <1>6, <2>1, Zenon
<1>8. EspOk(TxFrame(l))
  <2>1. TxFrame(l).ext = IsExt(l) /\ TxFrame(l).id = ParseId(l)
    BY DEF TxFrame
  <2>2. CASE IsExt(l)
    <3>1. ParseId(l)[1] = Word(a, b, c, d)
      BY <1>7, <2>2 DEF ParseId
    <3>2. l[2] <= 49
      BY <2>2 DEF InRange, IsExt
    <3>3. a <= 1
      BY <1>6, <1>7, <3>2, NibbleBounds
    <3>4. Word(a, b, c, d) <= 8191
      BY <3>3 DEF Word
    <3>5. QED
      BY <2>1, <2>2, <3>1, <3>4 DEF EspOk
  <2>3. CASE ~IsExt(l)
    <3>1. ParseId(l)[2] = Word(0, a, b, c)
      BY <1>7, <2>3 DEF ParseId
    <3>2. l[2] <= 55
      BY <2>3 DEF InRange, IsExt
    <3>3. a <= 7
      BY <1>6, <1>7, <3>2, NibbleBounds
    <3>4. Word(0, a, b, c) <= 2047
      BY <3>3 DEF Word
    <3>5. QED
      BY <2>1, <2>3, <3>1, <3>4 DEF EspOk
  <2>4. QED
    BY <2>2, <2>3
<1>9. QED
  BY <1>4, <1>5, <1>8

\* What is sent is the beginning of a line of the table with an identifier in range.
LEMMA SentTable ==
  ASSUME NEW l \in Seq(Int), TxOk(l), EspOk(TxFrame(l)),
         NEW p \in Seq(Int), Len(p) = End(l), \A i \in 1..End(l) : p[i] = l[i]
  PROVE  WellFormed(p) /\ InRange(p)
<1>1. /\ DlcAt(l) \in {5, 10} /\ Dlc(l) \in 0..8 /\ End(l) \in 5..26
      /\ End(l) = DlcAt(l) + 2 * DataLen(l) /\ DataLen(l) \in 0..8
      /\ \A i \in 2..End(l) : l[i] \in Int /\ IsHex(l[i])
      /\ l[1] \in Kinds
  BY Accepted
<1>2. p[1] = l[1] /\ p[2] = l[2] /\ \A i \in 2..End(l) : p[i] \in Int /\ IsHex(p[i])
  <2>1. 1 \in 1..End(l) /\ 2 \in 1..End(l) /\ \A i \in 2..End(l) : i \in 1..End(l)
    <3>1. PICK n \in 5..26 : n = End(l)
      BY <1>1, Zenon
    <3>2. 1 \in 1..n /\ 2 \in 1..n /\ \A i \in 2..n : i \in 1..n
      OBVIOUS
    <3>3. QED
      BY <3>1, <3>2, Zenon
  <2>2. QED
    BY <1>1, <2>1, Zenon
<1>3. DlcAt(l) \in 2..End(l)
  <2>1. PICK n \in 0..8, m \in {5, 10} : n = DataLen(l) /\ m = DlcAt(l)
    BY <1>1, Zenon
  <2>2. m \in 2..m + 2 * n
    OBVIOUS
  <2>3. QED
    BY <1>1, <2>1, <2>2
<1>4. p[DlcAt(l)] = l[DlcAt(l)] /\ l[DlcAt(l)] \in 48..56 /\ Dlc(l) = l[DlcAt(l)] - 48
  <2>1. l[DlcAt(l)] \in Int /\ IsHex(l[DlcAt(l)]) /\ Nibble(l[DlcAt(l)]) \in 0..8
    BY <1>1, <1>3 DEF Dlc
  <2>2. PICK c \in Int : c = l[DlcAt(l)] /\ IsHex(c) /\ Nibble(c) \in 0..8
    BY <2>1, Zenon
  <2>3. c \in 48..56 /\ Nibble(c) = c - 48
    <3>1. Nibble(c) <= 8
      BY <2>2
    <3>2. QED
      BY <2>2, <3>1, NibbleBounds
  <2>4. DlcAt(l) \in 1..End(l)
    BY <1>3
  <2>5. QED
    BY <2>2, <2>3, <2>4 DEF Dlc
<1>5. WellFormed(p)
  <2>1. p # <<>> /\ p[1] \in Kinds /\ \A i \in 2..Len(p) : IsHex(p[i])
    BY <1>1, <1>2
  <2>2. DlcAt(l) = IF p[1] \in {Ch_T, Ch_R} THEN 10 ELSE 5
    BY <1>2 DEF DlcAt, IsExt
  <2>3. DataLen(l) = IF p[1] \in {Ch_r, Ch_R} THEN 0 ELSE Dlc(l)
    BY <1>2 DEF DataLen, IsRtr
  <2>4. Len(p) = DlcAt(l) + (IF p[1] \in {Ch_r, Ch_R} THEN 0 ELSE 2 * (p[DlcAt(l)] - 48))
    BY <1>1, <1>4, <2>3
  <2>5. Len(p) >= DlcAt(l)
    BY <1>3
  <2>6. QED
    BY <1>4, <2>1, <2>2, <2>4, <2>5 DEF WellFormed
<1>6. PICK a \in 0..15, b \in 0..15, c \in 0..15, d \in 0..15 :
        a = Nibble(l[2]) /\ b = Nibble(l[3]) /\ c = Nibble(l[4]) /\ d = Nibble(l[5])
  <2>1. 2 \in 2..End(l) /\ 3 \in 2..End(l) /\ 4 \in 2..End(l) /\ 5 \in 2..End(l)
    <3>1. PICK n \in 5..26 : n = End(l)
      BY <1>1, Zenon
    <3>2. 2 \in 2..n /\ 3 \in 2..n /\ 4 \in 2..n /\ 5 \in 2..n
      OBVIOUS
    <3>3. QED
      BY <3>1, <3>2, Zenon
  <2>2. QED
    BY <1>1, <2>1, HexNibble, Zenon
<1>7. InRange(p)
  <2>1. TxFrame(l).ext = IsExt(l) /\ TxFrame(l).id = ParseId(l)
    BY DEF TxFrame
  <2>2. l[2] \in Int /\ IsHex(l[2])
    BY <1>1
  <2>3. CASE IsExt(l)
    <3>1. Word(a, b, c, d) <= 8191
      BY <1>6, <2>1, <2>3 DEF EspOk, ParseId
    <3>2. a <= 1
      BY <3>1 DEF Word
    <3>3. l[2] <= 49
      BY <1>6, <2>2, <3>2, NibbleBounds
    <3>4. QED
      BY <1>2, <2>3, <3>3 DEF InRange, IsExt
  <2>4. CASE ~IsExt(l)
    <3>1. Word(0, a, b, c) <= 2047
      BY <1>6, <2>1, <2>4 DEF EspOk, ParseId
    <3>2. a <= 7
      BY <3>1 DEF Word
    <3>3. l[2] <= 55
      BY <1>6, <2>2, <3>2, NibbleBounds
    <3>4. QED
      BY <1>2, <2>4, <3>3 DEF InRange, IsExt
  <2>5. QED
    BY <2>3, <2>4
<1>8. QED
  BY <1>5, <1>7

\* Four digits are written of any value.
LEMMA DigitsType ==
  ASSUME NEW w \in Int
  PROVE  Digits(w) \in Seq(Int) /\ Len(Digits(w)) = 4
<1>1. PICK a \in Int, b \in Int, c \in Int : a = w \div 4096 /\ b = w \div 256 /\ c = w \div 16
  OBVIOUS
<1>2. HexDigit(a) \in Int /\ HexDigit(b) \in Int /\ HexDigit(c) \in Int /\ HexDigit(w) \in Int
  BY HexDigitType
<1>3. Digits(w) = <<HexDigit(a), HexDigit(b), HexDigit(c), HexDigit(w)>>
  BY <1>1 DEF Digits
<1>4. QED
  BY <1>2, <1>3

\* The longest text of a frame: 26 characters, four of the timestamp and the CR.
LEMMA Longest ==
  ASSUME NEW l \in Seq(Int), TxOk(l), NEW ts \in Stamps
  PROVE  Len(FormatFrame(TxFrame(l), ts)) <= 31
<1>1. PICK b \in Seq(Int) : b = Body(TxFrame(l)) /\ Len(b) <= 26
  <2>1. /\ Body(TxFrame(l)) \in Seq(Int) /\ Len(Body(TxFrame(l))) = End(l)
    BY BodyBack
  <2>2. PICK n \in 5..26 : n = End(l)
    BY Accepted, Zenon
  <2>3. n <= 26
    OBVIOUS
  <2>4. QED
    BY <2>1, <2>2, <2>3, Zenon
<1>2. PICK t \in Seq(Int) : t = StampText(ts) /\ Len(t) <= 4
  <2>1. CASE ts = NoStamp
    <3>1. <<>> \in Seq(Int) /\ Len(<<>>) <= 4
      OBVIOUS
    <3>2. StampText(ts) = <<>>
      BY <2>1 DEF StampText
    <3>3. QED
      BY <3>1, <3>2, Zenon
  <2>2. CASE ts # NoStamp
    <3>1. ts \in Int
      BY DEF Stamps, NoStamp
    <3>2. Digits(ts) \in Seq(Int) /\ Len(Digits(ts)) = 4
      BY <3>1, DigitsType
    <3>3. StampText(ts) = Digits(ts)
      BY <2>2 DEF StampText
    <3>4. 4 <= 4
      OBVIOUS
    <3>5. QED
      BY <3>2, <3>3, <3>4, Zenon
  <2>3. QED
    BY <2>1, <2>2
<1>3. PICK v \in Seq(Int) : v = b \o t
  BY Join, Zenon
<1>4. Len(v) <= 30
  BY <1>1, <1>2, <1>3, Join
<1>5. PICK c \in Seq(Int) : c = <<CR>> /\ Len(c) = 1
  <2>1. <<CR>> \in Seq(Int) /\ Len(<<CR>>) = 1
    BY DEF CR
  <2>2. QED
    BY <2>1, Zenon
<1>6. Len(v \o c) <= 31
  BY <1>4, <1>5, Join
<1>7. QED
  BY <1>1, <1>2, <1>3, <1>5, <1>6, Zenon DEF FormatFrame

\* What a host reads, and the types that it rests on.
PortInv ==
  /\ Inv
  /\ stream \in Seq(Int) /\ last \in Seq(Int)
  /\ \/ last = <<>> /\ heard = <<>>
     \/ \E ts \in Clock : heard = Relayed(last, ts)

LEMMA PortInitInv == PortInit => PortInv
BY InitInv DEF PortInit, PortInv

LEMMA PortStep == PortInv /\ [PortNext]_pvars => PortInv'
<1> SUFFICES ASSUME PortInv, [PortNext]_pvars PROVE PortInv'
  OBVIOUS
<1>1. Inv'
  <2>1. [Next]_vars
    BY DEF PortNext, PortRead, PortCharacter, PortLineFeed, PortCarriageReturn, Next, pvars
  <2>2. QED
    BY <2>1, InvStep DEF PortInv
<1>2. ASSUME Quiet, stream' \in Seq(Int) PROVE PortInv'
  BY <1>1, <1>2 DEF PortInv, Quiet
<1>3. ASSUME NEW n \in 1..ReadCap, NEW bytes \in [1..n -> Bytes], PortRead(bytes)
      PROVE  PortInv'
  BY <1>2, <1>3 DEF PortRead, PortInv
<1>4. CASE PortCharacter
  <2>1. stream' \in Streams \/ stream' = stream
    BY <1>4 DEF PortCharacter
  <2>2. stream' \in Seq(Int)
    BY <2>1, StreamsAssumption DEF PortInv
  <2>3. QED
    BY <1>2, <1>4, <2>2 DEF PortCharacter
<1>5. CASE PortLineFeed
  BY <1>2, <1>5 DEF PortLineFeed, PortInv
<1>6. ASSUME NEW ts \in Clock, PortCarriageReturn(ts) PROVE PortInv'
  <2>1. line \in Seq(Nat) /\ act' = line
    BY <1>6 DEF PortCarriageReturn, CarriageReturn, PortInv, Inv, TypeOK
  <2>2. ASSUME NEW i PROVE CharAt(i) \in Int
    BY StreamsAssumption DEF CharAt, PortInv
  <2>3. last' = [i \in 1..Len(line) |-> CharAt(line[i])]
    BY <1>6, <2>1 DEF PortCarriageReturn
  <2>4. last' \in Seq(Int)
    <3>1. Len(line) \in Nat
      BY <2>1
    <3>2. last' \in [1..Len(line) -> Int]
      BY <2>2, <2>3, Zenon
    <3>3. QED
      BY <3>1, <3>2
  <2>5. stream' = <<>> /\ heard' = Relayed(last', ts)
    BY <1>6 DEF PortCarriageReturn
  <2>6. QED
    BY <1>1, <2>4, <2>5 DEF PortInv
<1>7. CASE UNCHANGED pvars
  BY <1>1, <1>7 DEF pvars, PortInv
<1>8. QED
  BY <1>3, <1>4, <1>5, <1>6, <1>7 DEF PortNext

LEMMA PortAlways == PortSpec => []PortInv
<1>1. QED
  BY PortInitInv, PortStep, PTL DEF PortSpec

\* The port cuts its stream into lines as LineBuffer does, whatever the lines are.
THEOREM PortImplements == PortSpec => Spec
<1>1. PortInit => Init
  BY DEF PortInit
<1>2. [PortNext]_pvars => [Next]_vars
  BY DEF PortNext, PortRead, PortCharacter, PortLineFeed, PortCarriageReturn, Next, pvars
<1>3. QED
  BY <1>1, <1>2, PTL DEF PortSpec, Spec

\* The buffer of run_port holds every frame that another host can have sent, with its
\* timestamp.
THEOREM PortOutFits == PortSpec => []OutFits
<1>1. PortInv => OutFits
  <2> SUFFICES ASSUME PortInv PROVE OutFits
    OBVIOUS
  <2>1. Len(<<>>) <= MAX_FRAME_ASCII
    BY DEF MAX_FRAME_ASCII
  <2>2. CASE heard = <<>>
    BY <2>1, <2>2 DEF OutFits
  <2>3. CASE heard # <<>>
    <3>1. PICK ts \in Clock : heard = Relayed(last, ts)
      BY <2>3 DEF PortInv
    <3>2. TxOk(last) /\ heard = FormatFrame(TxFrame(last), ts)
      BY <2>3, <3>1 DEF Relayed
    <3>3. last \in Seq(Int) /\ ts \in Stamps
      BY StreamsAssumption DEF PortInv
    <3>4. Len(FormatFrame(TxFrame(last), ts)) <= 31
      BY <3>2, <3>3, Longest
    <3>5. Len(heard) <= 31
      BY <3>2, <3>4, Zenon
    <3>6. QED
      BY <3>5 DEF OutFits, MAX_FRAME_ASCII
  <2>4. QED
    BY <2>2, <2>3
<1>2. QED
  BY <1>1, PortAlways, PTL

\* A line of the protocol table arrives as it was sent, its digits in capitals: for
\* every line, timestamp and way of cutting the stream into reads.
THEOREM PortDelivers == PortSpec => []Delivered
<1>1. PortInv => Delivered
  <2> SUFFICES ASSUME PortInv, WellFormed(last), InRange(last)
               PROVE  \E ts \in Clock : heard = Capitals(last) \o StampText(ts) \o <<CR>>
    BY DEF Delivered
  <2>1. last \in Seq(Int) /\ last # <<>>
    BY DEF PortInv, WellFormed
  <2>2. PICK ts \in Clock : heard = Relayed(last, ts)
    BY <2>1 DEF PortInv
  <2>3. TxOk(last) /\ EspOk(TxFrame(last)) /\ End(last) = Len(last)
    BY <2>1, TableSent
  <2>4. heard = Body(TxFrame(last)) \o StampText(ts) \o <<CR>>
    BY <2>2, <2>3, Zenon DEF Relayed, FormatFrame
  <2>5. Body(TxFrame(last)) = Capitals(last)
    BY <2>1, <2>3, AcceptedBack
  <2>6. QED
    BY <2>4, <2>5, Zenon
<1>2. QED
  BY <1>1, PortAlways, PTL

\* Nothing but the beginning of such a line arrives.
THEOREM PortNothingElse == PortSpec => []NothingElse
<1>1. PortInv => NothingElse
  <2> SUFFICES ASSUME PortInv, heard # <<>>
               PROVE  \E n \in 1..Len(last) :
                        LET l == SubSeq(last, 1, n) IN
                        /\ WellFormed(l) /\ InRange(l)
                        /\ \E ts \in Clock : heard = Capitals(l) \o StampText(ts) \o <<CR>>
    BY DEF NothingElse
  <2>1. PICK ts \in Clock : heard = Relayed(last, ts)
    BY DEF PortInv
  <2>2. /\ TxOk(last) /\ EspOk(TxFrame(last))
        /\ heard = Body(TxFrame(last)) \o StampText(ts) \o <<CR>>
    BY <2>1, Zenon DEF Relayed, FormatFrame
  <2>3. last \in Seq(Int)
    BY DEF PortInv
  <2>4. End(last) \in 5..26 /\ End(last) <= Len(last)
    BY <2>2, <2>3, Accepted
  <2>5. PICK n \in 1..Len(last) : n = End(last) /\ n \in Int
    <3>1. Len(last) \in Nat
      BY <2>3
    <3>2. PICK m \in 5..26 : m = End(last) /\ m <= Len(last)
      BY <2>4, Zenon
    <3>3. m \in 1..Len(last) /\ m \in Int
      BY <3>1, <3>2
    <3>4. QED
      BY <3>2, <3>3, Zenon
  <2>6. PICK l \in Seq(Int) : /\ l = SubSeq(last, 1, n) /\ Len(l) = n
                              /\ \A i \in 1..n : l[i] = last[i]
    <3>1. \A i \in 1..n : last[i] \in Int
      BY <2>3, <2>5
    <3>2. /\ SubSeq(last, 1, n) \in Seq(Int)
          /\ Len(SubSeq(last, 1, n)) = (IF 1 <= n THEN n - 1 + 1 ELSE 0)
          /\ \A i \in 1..n - 1 + 1 : SubSeq(last, 1, n)[i] = last[1 + i - 1]
      BY <2>5, <3>1, SubSeqProperties
    <3>3. 1 <= n /\ n - 1 + 1 = n /\ \A i \in 1..n : 1 + i - 1 = i
      BY <2>5
    <3>4. QED
      BY <3>2, <3>3, Zenon
  <2>7. WellFormed(l) /\ InRange(l)
    BY <2>2, <2>3, <2>5, <2>6, SentTable
  <2>8. Body(TxFrame(last)) = Capitals(l)
    BY <2>2, <2>3, <2>5, <2>6, AcceptedBack
  <2>9. QED
    BY <2>2, <2>6, <2>7, <2>8, Zenon
<1>2. QED
  BY <1>1, PortAlways, PTL
=============================================================================
