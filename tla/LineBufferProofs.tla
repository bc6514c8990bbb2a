-------------------------- MODULE LineBufferProofs --------------------------
(***************************************************************************)
(* The line assembly of run_port, for every size of the two buffers.       *)
(***************************************************************************)
EXTENDS LineBuffer, TLAPS

Inv == TypeOK /\ Framing /\ LineIsTail

\* run_port starts with an empty line.
LEMMA InitInv == Init => Inv
<1> SUFFICES ASSUME Init PROVE Inv
  OBVIOUS
<1>1. Len(<<>>) = 0
  OBVIOUS
<1>2. LineCap \in Nat
  BY CapAssumption
<1>3. QED
  BY <1>1, <1>2 DEF Init, Inv, TypeOK, Framing, LineIsTail

\* Every read and every byte keeps the invariant.
LEMMA InvStep == Inv /\ [Next]_vars => Inv'
<1> SUFFICES ASSUME Inv, [Next]_vars PROVE Inv'
  OBVIOUS
<1> USE DEF Inv
<1>0. LineCap \in Nat /\ LineCap + 1 \in Nat /\ Len(line) \in Nat
  BY CapAssumption DEF TypeOK
<1>1. ASSUME NEW n \in 1..ReadCap, NEW bytes \in [1..n -> Bytes], Read(bytes)
      PROVE  Inv'
  <2>1. bytes \in Seq(Bytes)
    BY CapAssumption
  <2>2. TypeOK'
    BY <1>1, <2>1 DEF Read, TypeOK
  <2>3. QED
    BY <1>1, <2>2 DEF Read, Framing, LineIsTail
<1>2. ASSUME NEW b \in Bytes, AtByte(b) PROVE rxbuf' \in Seq(Bytes)
  BY <1>2 DEF AtByte, TypeOK
<1>3. CASE CarriageReturn
  <2>1. rxbuf' \in Seq(Bytes)
    BY <1>2, <1>3 DEF CarriageReturn, Bytes
  <2>2. QED
    BY <1>0, <1>3, <2>1 DEF CarriageReturn, TypeOK, Framing, LineIsTail
<1>4. CASE LineFeed
  <2>1. rxbuf' \in Seq(Bytes)
    BY <1>2, <1>4 DEF LineFeed, Bytes
  <2>2. QED
    BY <1>4, <2>1 DEF LineFeed, TypeOK, Framing, LineIsTail
<1>5. CASE Character
  <2>0. rxbuf' \in Seq(Bytes) /\ seg' = seg + 1 /\ seg \in Nat /\ bells \in Nat
    BY <1>2, <1>5 DEF Character, Bytes, TypeOK
  <2>1. CASE HasRoom
    <3>1. line' = Append(line, seg + 1) /\ bells' = bells
      BY <1>5, <2>1 DEF Character
    <3>2. /\ line' \in Seq(Nat) /\ Len(line') = Len(line) + 1
          /\ line'[Len(line) + 1] = seg + 1
          /\ \A i \in 1..Len(line) : line'[i] = line[i]
      BY <2>0, <3>1 DEF TypeOK
    <3>3. TypeOK'
      BY <2>0, <3>1, <3>2 DEF TypeOK
    <3>4. Framing'
      <4> DEFINE full == bells * (LineCap + 1)
      <4>1. full \in Int /\ seg = full + Len(line) /\ full' = full
        BY <1>0, <2>0, <3>1 DEF Framing
      <4>2. seg' = full' + Len(line')
        BY <1>0, <2>0, <3>2, <4>1
      <4>3. Len(line') <= LineCap
        BY <1>0, <2>1, <3>2 DEF HasRoom
      <4>4. QED
        BY <4>2, <4>3 DEF Framing
    <3>5. ASSUME NEW i \in 1..Len(line') PROVE line'[i] = seg' - Len(line') + i
      <4>1. CASE i = Len(line) + 1
        BY <1>0, <2>0, <3>2, <4>1
      <4>2. CASE i \in 1..Len(line)
        <5>1. line'[i] = line[i] /\ line[i] = seg - Len(line) + i
          BY <3>2, <4>2 DEF LineIsTail
        <5>2. QED
          BY <1>0, <2>0, <3>2, <5>1
      <4>3. QED
        BY <1>0, <3>2, <4>1, <4>2
    <3>6. QED
      BY <3>3, <3>4, <3>5 DEF LineIsTail
  <2>2. CASE ~HasRoom
    <3>1. line' = <<>> /\ bells' = bells + 1
      BY <1>5, <2>2 DEF Character, Overflow
    <3>2. Len(line') = 0 /\ Len(line) = LineCap
      BY <1>0, <2>2, <3>1 DEF HasRoom, Framing
    <3>3. TypeOK'
      BY <2>0, <3>1 DEF TypeOK
    <3>4. (bells + 1) * (LineCap + 1) = bells * (LineCap + 1) + (LineCap + 1)
      BY <1>0, <2>0
    <3>5. Framing'
      <4> DEFINE full == bells * (LineCap + 1)
      <4>1. full \in Int /\ seg = full + LineCap
        BY <1>0, <2>0, <3>2 DEF Framing
      <4>2. seg' = full + (LineCap + 1)
        BY <1>0, <2>0, <4>1
      <4>3. seg' = bells' * (LineCap + 1) + Len(line')
        BY <1>0, <2>0, <3>1, <3>2, <3>4, <4>1, <4>2
      <4>4. QED
        BY <1>0, <3>2, <4>3 DEF Framing
    <3>6. LineIsTail'
      BY <3>2 DEF LineIsTail
    <3>7. QED
      BY <3>3, <3>5, <3>6
  <2>3. QED
    BY <2>1, <2>2
<1>6. CASE UNCHANGED vars
  BY <1>6 DEF vars, TypeOK, Framing, LineIsTail
<1>7. QED
  BY <1>1, <1>3, <1>4, <1>5, <1>6 DEF Next

\* Whatever the sizes of the buffers and the cuts between reads, the BELs and the line
\* are those of the segment.
THEOREM LineFraming == Spec => [](Framing /\ LineIsTail)
<1>1. Inv => Framing /\ LineIsTail
  BY DEF Inv
<1>2. QED
  BY InitInv, InvStep, <1>1, PTL DEF Spec

\* Division with remainder is unique.
LEMMA Remainder ==
  ASSUME NEW m \in Nat \ {0}, NEW r \in 0..(m - 1), NEW q \in Nat,
         NEW n \in Nat, n = q * m + r
  PROVE  n % m = r
<1>1. n % m \in 0..(m - 1)
  OBVIOUS
<1>2. n \div m \in Int /\ n = (n \div m) * m + (n % m)
  OBVIOUS
<1>3. ASSUME NEW a \in Int, NEW b \in 0..(m - 1), n = a * m + b
      PROVE  b = r
  <2>1. (a - q) * m = r - b
    BY <1>3, SMTT(20)
  <2>2. CASE a - q >= 1
    <3>1. (a - q) * m >= m
      BY <2>2, SMTT(20)
    <3>2. QED
      BY <2>1, <3>1
  <2>3. CASE a - q <= -1
    <3>1. (a - q) * m <= -m
      BY <2>3, SMTT(20)
    <3>2. QED
      BY <2>1, <3>1
  <2>4. CASE a = q
    BY <1>3, <2>4
  <2>5. QED
    BY <2>2, <2>3, <2>4
<1>4. QED
  BY <1>1, <1>2, <1>3

\* A CR hands dispatch exactly the bytes that Framing leaves over.
THEOREM LineDispatch == Spec => DispatchExact
<1> DEFINE AtCR == rxbuf # <<>> /\ Head(rxbuf) = "CR"
           Exact == act' = [i \in 1..LeftOver |-> seg - LeftOver + i]
<1>1. ASSUME Inv, [Next]_vars, AtCR PROVE [Exact]_vars
  <2>1. CASE CarriageReturn
    <3>1. LeftOver = Len(line)
      <4>1. /\ LineCap + 1 \in Nat \ {0} /\ bells \in Nat /\ seg \in Nat
            /\ Len(line) \in 0..((LineCap + 1) - 1)
            /\ seg = bells * (LineCap + 1) + Len(line)
        BY <1>1, CapAssumption DEF Inv, TypeOK, Framing
      <4>2. QED
        BY <4>1, Remainder DEF LeftOver
    <3>2. line = [i \in 1..Len(line) |-> line[i]]
      BY <1>1 DEF Inv, TypeOK
    <3>3. line = [i \in 1..Len(line) |-> seg - Len(line) + i]
      BY <1>1, <3>2 DEF Inv, LineIsTail
    <3>4. QED
      BY <2>1, <3>1, <3>3 DEF CarriageReturn
  <2>2. CASE UNCHANGED vars
    BY <2>2
  <2>3. QED
    BY <1>1, <2>1, <2>2 DEF Next, Read, LineFeed, Character, AtByte
<1>2. Inv /\ [Next]_vars => [AtCR => Exact]_vars
  BY <1>1
<1>3. Spec => []Inv
  BY InitInv, InvStep, PTL DEF Spec
<1>4. QED
  BY <1>2, <1>3, PTL DEF Spec, DispatchExact
=============================================================================
