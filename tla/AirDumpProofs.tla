--------------------------- MODULE AirDumpProofs ---------------------------
(***************************************************************************)
(* Proofs about AirDump, for every set of readings, queue size and bound:  *)
(* types, the conservation of the byte stream, the pairing of the bytes    *)
(* that main.py lists, and, when the sensor stays in the range of a byte,  *)
(* what each of them means.                                                *)
(***************************************************************************)
EXTENDS AirDump, StreamLemmas, Uint8CastProofs

-----------------------------------------------------------------------------
(* Bytes, the byte stream of a sequence of frames.                         *)

\* dados is two bytes: n frames are 2n bytes.
LEMMA BytesType ==
    ASSUME NEW S, NEW fs \in Seq(S \X S)
    PROVE  /\ Bytes(fs) \in Seq(S)
           /\ Len(Bytes(fs)) = 2 * Len(fs)
<1>1. \A k \in 1..2 * Len(fs) : /\ (k + 1) \div 2 \in 1..Len(fs)
                                /\ 2 - (k % 2) \in 1..2
  OBVIOUS
<1>2. \A j \in 1..Len(fs) : fs[j] \in S \X S
  OBVIOUS
<1>3. \A k \in 1..2 * Len(fs) : fs[(k + 1) \div 2][2 - (k % 2)] \in S
  <2> TAKE k \in 1..2 * Len(fs)
  <2>1. fs[(k + 1) \div 2] \in S \X S
    BY <1>1, <1>2
  <2>2. 2 - (k % 2) = 1 \/ 2 - (k % 2) = 2
    BY <1>1
  <2> QED
    BY <2>1, <2>2
<1>4. Bytes(fs) \in [1..2 * Len(fs) -> S]
  BY <1>3 DEF Bytes
<1> QED
  BY <1>4

\* Sending the frames of s and then those of t sends the bytes of s and then
\* those of t (SerialBT.write after SerialBT.write).
LEMMA BytesConcat ==
    ASSUME NEW S, NEW s \in Seq(S \X S), NEW t \in Seq(S \X S)
    PROVE  Bytes(s \o t) = Bytes(s) \o Bytes(t)
<1> DEFINE m == Len(s)
           n == Len(t)
           p == Bytes(s)
           q == Bytes(t)
<1>1. m \in Nat /\ n \in Nat
  BY LenProperties
<1>2. /\ s \o t \in Seq(S \X S)
      /\ Len(s \o t) = m + n
      /\ \A k \in 1..m + n : (s \o t)[k] = IF k <= m THEN s[k] ELSE t[k - m]
  BY ConcatProperties
<1>3. /\ p \in Seq(S) /\ Len(p) = 2 * m
      /\ q \in Seq(S) /\ Len(q) = 2 * n
      /\ Bytes(s \o t) \in Seq(S) /\ Len(Bytes(s \o t)) = 2 * (m + n)
  BY BytesType, <1>2
<1>4. /\ \A k \in 1..2 * m : p[k] = s[(k + 1) \div 2][2 - (k % 2)]
      /\ \A k \in 1..2 * n : q[k] = t[(k + 1) \div 2][2 - (k % 2)]
      /\ \A k \in 1..2 * (m + n) :
            Bytes(s \o t)[k] = (s \o t)[(k + 1) \div 2][2 - (k % 2)]
  BY <1>2 DEF Bytes
<1> HIDE DEF m, n, p, q
<1>5. /\ p \o q \in Seq(S)
      /\ Len(p \o q) = 2 * m + 2 * n
      /\ \A k \in 1..2 * m + 2 * n :
            (p \o q)[k] = IF k <= 2 * m THEN p[k] ELSE q[k - 2 * m]
  <2>1. /\ p \o q \in Seq(S)
        /\ Len(p \o q) = Len(p) + Len(q)
        /\ \A k \in 1..Len(p) + Len(q) :
              (p \o q)[k] = IF k <= Len(p) THEN p[k] ELSE q[k - Len(p)]
    BY <1>3, ConcatProperties
  <2> QED
    BY <1>3, <2>1
<1>6. ASSUME NEW k \in 1..2 * m + 2 * n
      PROVE  Bytes(s \o t)[k] = (p \o q)[k]
  <2> DEFINE h == (k + 1) \div 2
  <2>1. k \in Int /\ h \in 1..m + n /\ k \in 1..2 * (m + n)
    BY <1>1
  <2>2. Bytes(s \o t)[k] = (IF h <= m THEN s[h] ELSE t[h - m])[2 - (k % 2)]
    BY <1>2, <1>4, <2>1
  <2>3. CASE k <= 2 * m
    <3>1. h <= m
      BY <1>1, <2>3
    <3> QED
      BY <1>1, <1>4, <1>5, <2>1, <2>2, <2>3, <3>1
  <2>4. CASE k > 2 * m
    <3>1. ~(h <= m)
      BY <1>1, <2>4
    <3>2. /\ k - 2 * m \in 1..2 * n
          /\ (k - 2 * m + 1) \div 2 = h - m
          /\ (k - 2 * m) % 2 = k % 2
      BY <1>1, <2>4
    <3>3. q[k - 2 * m] = t[h - m][2 - (k % 2)]
      BY <1>4, <3>2
    <3>4. (p \o q)[k] = q[k - 2 * m]
      BY <1>1, <1>5, <2>4
    <3> QED
      BY <2>2, <3>1, <3>3, <3>4
  <2>5. k <= 2 * m \/ k > 2 * m
    BY <1>1, <2>1
  <2> QED
    BY <2>3, <2>4, <2>5
<1>7. 2 * (m + n) = 2 * m + 2 * n
  BY <1>1
<1>8. Bytes(s \o t) = p \o q
  BY <1>3, <1>5, <1>6, <1>7, SeqEqual
<1> QED
  BY <1>8 DEF p, q

\* Nothing sent is no byte sent.
LEMMA BytesEmpty == Bytes(<<>>) = <<>>
  BY DEF Bytes

\* One more write appends its two bytes.
LEMMA BytesAppend ==
    ASSUME NEW S, NEW s \in Seq(S \X S), NEW d \in S \X S
    PROVE  Bytes(Append(s, d)) = Bytes(s) \o Bytes(<<d>>)
<1>1. Append(s, d) = s \o <<d>> /\ <<d>> \in Seq(S \X S)
  BY AppendIsConcat
<1> QED
  BY <1>1, BytesConcat

\* Odd bytes of the stream are first bytes of frames, even ones second.
LEMMA BytesParity ==
    ASSUME NEW H, NEW T, NEW fs \in Seq(H \X T), NEW k \in 1..2 * Len(fs)
    PROVE  Bytes(fs)[k] \in IF k % 2 = 1 THEN H ELSE T
<1>1. (k + 1) \div 2 \in 1..Len(fs)
  OBVIOUS
<1>2. fs[(k + 1) \div 2] \in H \X T
  BY <1>1
<1>3. Bytes(fs)[k] = fs[(k + 1) \div 2][2 - (k % 2)]
  BY DEF Bytes
<1>4. k % 2 = 1 \/ k % 2 = 0
  OBVIOUS
<1> QED
  BY <1>2, <1>3, <1>4

-----------------------------------------------------------------------------
(* Types.                                                                  *)

\* What loop() hands to SerialBT.write is a pair of bytes.
LEMMA DadosAreBytes ==
    ASSUME FwTypeOK
    PROVE  Dados \subseteq Byte \X Byte
<1>1. humidade \in Int \cup {NaN} /\ temperatura \in Int \cup {NaN}
  BY ReadingAssumption DEF FwTypeOK
<1>2. /\ Uint8Outcomes(humidade) \subseteq Byte
      /\ Uint8Outcomes(temperatura) \subseteq Byte
  BY <1>1, CastIsByte
<1> QED
  BY <1>2 DEF Dados

\* The result of a recv of one byte is that byte.
LEMMA OneByteReceived ==
    ASSUME wire \in Seq(Byte), NEW data \in Received(wire, NoteSize), data # <<>>
    PROVE  /\ wire # <<>>
           /\ Len(data) = 1
           /\ Head(data) = wire[1]
           /\ wire[1] \in Byte
<1>1. wire # <<>>
  BY DEF Received
<1>2. Len(wire) \in Nat \ {0}
  BY <1>1, EmptySeq
<1>3. data = SubSeq(wire, 1, 1)
  <2>1. PICK n \in 1..1 : data = SubSeq(wire, 1, n)
    BY <1>1 DEF Received, NoteSize
  <2> QED
    BY <2>1
<1>4. Len(SubSeq(wire, 1, 1)) = 1 /\ SubSeq(wire, 1, 1)[1] = wire[1]
  BY <1>2
<1>5. Head(SubSeq(wire, 1, 1)) = wire[1]
  BY <1>4
<1> QED
  BY <1>1, <1>2, <1>3, <1>4, <1>5, ElementOfSeq

-----------------------------------------------------------------------------
(* Types.                                                                  *)

LEMMA InitType == Init => TypeOK
<1> SUFFICES ASSUME Init PROVE TypeOK
  OBVIOUS
<1>1. FwTypeOK
  BY DEF Init, FwInit, FwTypeOK, FwPoints
<1>2. RfcommTypeOK
  BY DEF Init, RfcommTypeOK
<1>3. ObjTypeOK /\ outcome \in Outcomes
  BY DEF Init, NewObject, ObjTypeOK, Outcomes, DialledPort
<1>4. /\ txq \in Seq(Byte \X Byte) /\ frames \in Seq(Byte \X Byte)
      /\ wire \in Seq(Byte) /\ listaa \in Seq(Byte)
  BY DEF Init, BtInit
<1> QED
  BY <1>1, <1>2, <1>3, <1>4 DEF Init, TypeOK

\* What a step of the sketch leaves of its own types.
LEMMA DeviceStepType ==
    ASSUME TypeOK, DeviceStep
    PROVE  TypeOK'
<1> USE DEF TypeOK, hostVars, mainVars, objVars, rfcommVars, btVars, Outcomes,
        RfcommTypeOK, ObjTypeOK
<1>1. CASE DeviceSetup
  BY <1>1, SppAssumption DEF DeviceSetup, Setup, FwTypeOK, FwPoints
<1>2. CASE DeviceRead
  BY <1>2 DEF DeviceRead, ReadHumidity, ReadTemperature, FwTypeOK, FwPoints
<1>3. CASE DeviceFails
  BY <1>3 DEF DeviceFails, FalhaNaLeitura, FwTypeOK, FwPoints
<1>4. CASE DeviceSends
  <2>1. PICK dados \in Dados : EnviarDadosBluetooth(dados) /\ Write(dados)
    BY <1>4 DEF DeviceSends
  <2>2. dados \in Byte \X Byte
    BY <2>1, DadosAreBytes
  <2>3. /\ txq' \in Seq(Byte \X Byte)
        /\ frames' \in Seq(Byte \X Byte)
        /\ wire' = wire
    <3>1. CASE Taken(dados)
      <4>1. /\ Append(txq, dados) \in Seq(Byte \X Byte)
            /\ Append(frames, dados) \in Seq(Byte \X Byte)
        BY <2>2, AppendProperties
      <4> QED
        BY <3>1, <4>1 DEF Taken
    <3>2. CASE Dropped
      BY <3>2 DEF Dropped
    <3> QED
      BY <2>1, <3>1, <3>2 DEF Write
  <2> QED
    BY <1>4, <2>1, <2>3 DEF DeviceSends, EnviarDadosBluetooth, FwTypeOK, FwPoints
<1>5. CASE DeviceRests
  BY <1>5 DEF DeviceRests, DelayEnds, FwTypeOK, FwPoints
<1> QED
  BY <1>1, <1>2, <1>3, <1>4, <1>5 DEF DeviceStep

\* ... and a step of main.py of its.
LEMMA MainStepType ==
    ASSUME TypeOK, MainStep
    PROVE  TypeOK'
<1> USE DEF TypeOK, mainVars, objVars, rfcommVars, btVars, fwVars, FwTypeOK,
        Outcomes, RfcommTypeOK, ObjTypeOK, Ends
<1>1. CASE MainConnects
  BY <1>1 DEF MainConnects, CallConnect
<1>2. CASE MainDials
  <2>1. wire' \in Seq(Byte)
    BY <1>2 DEF MainDials, OpenStream
  <2> QED
    BY <1>2, <2>1 DEF MainDials, OpenStream, Dial, Establish, Accepts
<1>3. CASE MainConnected
  BY <1>3 DEF MainConnected, SetFlag
<1>4. CASE MainRefused
  <2>1. ObjTypeOK' /\ outcome' \in Outcomes
    <3>1. Caught(connected)
      BY <1>4 DEF MainRefused, DialFails
    <3>2. CASE call = "connect" /\ Ends("addressNotFound")
      BY <3>1, <3>2 DEF Caught
    <3>3. CASE call = "tryFindPort" /\ probe' = probe + 1
      <4>1. probe' \in Nat
        BY <3>3
      <4>2. /\ dialled' = FALSE /\ connected' = connected
            /\ port' = port /\ call' = call /\ outcome' = outcome
        BY <3>1, <3>3 DEF Caught
      <4> QED
        BY <4>1, <4>2
    <3> QED
      BY <3>1, <3>2, <3>3 DEF Caught
  <2> QED
    BY <1>4, <2>1 DEF MainRefused, DialFails, Caught
<1>5. CASE ReceiveNote
  <2>1. PICK data \in Received(wire, NoteSize) :
          /\ data # <<>>
          /\ listaa' = Append(listaa, Head(data))
          /\ wire' = SubSeq(wire, Len(data) + 1, Len(wire))
    BY <1>5 DEF ReceiveNote
  <2>2. /\ wire # <<>> /\ Len(data) = 1 /\ Head(data) = wire[1]
        /\ wire[1] \in Byte
    BY <2>1, OneByteReceived
  <2>3. listaa' \in Seq(Byte)
    BY <2>1, <2>2, AppendProperties
  <2>4. wire' \in Seq(Byte)
    <3>1. wire' = SubSeq(wire, 2, Len(wire))
      BY <2>1, <2>2
    <3> QED
      BY <2>2, <3>1, HeadTailProperties, TailIsSubSeq
  <2> QED
    BY <1>5, <2>3, <2>4 DEF ReceiveNote
<1>6. CASE ReceiveFails
  BY <1>6 DEF ReceiveFails
<1> QED
  BY <1>1, <1>2, <1>3, <1>4, <1>5, <1>6 DEF MainStep

\* Some first bytes of a byte stream are a byte stream.
LEMMA CutWireType ==
    ASSUME wire \in Seq(Byte), CutWire
    PROVE  wire' \in Seq(Byte)
<1>1. PICK n \in 0..Len(wire) : wire' = SubSeq(wire, 1, n)
  BY DEF CutWire
<1> QED
  BY <1>1

\* Every step keeps the types.
LEMMA NextType ==
    ASSUME TypeOK, [Next]_vars
    PROVE  TypeOK'
<1> USE DEF TypeOK, hostVars, mainVars, objVars, rfcommVars, btVars, fwVars,
        Outcomes, RfcommTypeOK, ObjTypeOK
<1>1. CASE DeviceStep
  BY <1>1, DeviceStepType
<1>2. CASE DeviceRestart
  <2>1. wire' \in Seq(Byte)
    BY <1>2, CutWireType DEF DeviceRestart, StackRestart
  <2>2. txq' \in Seq(Byte \X Byte)
    BY <1>2 DEF DeviceRestart, StackRestart
  <2> QED
    BY <1>2, <2>1, <2>2 DEF DeviceRestart, StackRestart, FwRestart, FwTypeOK, FwPoints
<1>3. CASE MainStep
  BY <1>3, MainStepType
<1>4. CASE MainKilled
  <2>1. wire' \in Seq(Byte)
    BY <1>4 DEF MainKilled
  <2> QED
    BY <1>4, <2>1 DEF MainKilled, Ends, FwTypeOK
<1>5. CASE MainStarts
  <2>1. /\ wire' \in Seq(Byte) /\ listaa' \in Seq(Byte)
        /\ frames' \in Seq(Byte \X Byte)
    BY <1>5 DEF MainStarts
  <2> QED
    BY <1>5, <2>1 DEF MainStarts, FwTypeOK, DialledPort
<1>6. CASE StackSends
  <2>1. wire' \in Seq(Byte)
    BY <1>6, BytesType, ConcatProperties DEF StackSends, Transmit
  <2>2. txq' \in Seq(Byte \X Byte)
    BY <1>6 DEF StackSends, Transmit
  <2> QED
    BY <1>6, <2>1, <2>2 DEF StackSends, Transmit, FwTypeOK
<1>7. CASE LinkLost
  <2>1. wire' \in Seq(Byte)
    BY <1>7, CutWireType DEF LinkLost, LoseLink
  <2> QED
    BY <1>7, <2>1 DEF LinkLost, LoseLink, HangUp, FwTypeOK
<1>8. CASE UNCHANGED vars
  BY <1>8 DEF vars, FwTypeOK
<1> QED
  BY <1>1, <1>2, <1>3, <1>4, <1>5, <1>6, <1>7, <1>8 DEF Next

\* The whole state keeps its types: in particular nothing but bytes is ever
\* queued, on its way or listed, whatever the sensor gives.
THEOREM TypeCorrect == Spec => []TypeOK
<1>1. TypeOK /\ [Next]_vars => TypeOK'
  BY NextType
<1> QED
  BY InitType, <1>1, PTL DEF Spec

-----------------------------------------------------------------------------
(* The byte stream.                                                        *)

\* The inductive invariant: bytes are conserved, and an object whose socket
\* was never connected belongs to a main.py that has neither listed nor been
\* sent anything (so that a new connection may start its history afresh).
Streams == /\ Conserved
           /\ sock = "fresh" => listaa = <<>> /\ wire = <<>>

\* While the link is up the equation alone has to be shown.
LEMMA WholeIsPrefix ==
    ASSUME NEW S, NEW l \in Seq(S), NEW w \in Seq(S), NEW q \in Seq(S),
           NEW f, l \o w \o q = f
    PROVE  IsPrefix(l \o w, f)
<1> DEFINE lw == l \o w
<1>1. lw \in Seq(S)
  BY ConcatProperties
<1>2. lw \o q = f
  OBVIOUS
<1> HIDE DEF lw
<1>3. IsPrefix(lw, lw \o q)
  BY <1>1, PrefixOfConcat
<1> QED
  BY <1>2, <1>3 DEF lw

\* The streams are byte sequences, and so are the frames as bytes.
LEMMA StreamTypes ==
    ASSUME TypeOK
    PROVE  /\ listaa \in Seq(Byte) /\ wire \in Seq(Byte)
           /\ listaa \o wire \in Seq(Byte)
           /\ Bytes(txq) \in Seq(Byte) /\ Bytes(frames) \in Seq(Byte)
  BY BytesType, ConcatProperties DEF TypeOK

\* Losing a tail of what is on its way keeps the invariant when the link is
\* lost with it.
LEMMA StreamsCut ==
    ASSUME TypeOK, Streams, CutWire, sock' = "lost", UNCHANGED <<listaa, frames>>
    PROVE  Streams'
<1>1. PICK n \in 0..Len(wire) : wire' = SubSeq(wire, 1, n)
  BY DEF CutWire
<1>2. IsPrefix(listaa \o wire, Bytes(frames))
  BY DEF Streams, Conserved
<1>3. IsPrefix(listaa \o SubSeq(wire, 1, n), Bytes(frames))
  BY <1>2, StreamTypes, PrefixOfCut
<1> QED
  BY <1>1, <1>3 DEF Streams, Conserved, Bytes

\* SerialBT.write: both sides of the equation grow by the same two bytes.
LEMMA StreamsWrite ==
    ASSUME TypeOK, Streams, NEW dados \in Byte \X Byte, Taken(dados),
           UNCHANGED <<sock, listaa>>
    PROVE  Streams'
<1> DEFINE lw == listaa \o wire
           d == Bytes(<<dados>>)
<1>1. lw \in Seq(Byte) /\ d \in Seq(Byte) /\ Bytes(txq) \in Seq(Byte)
  <2>1. <<dados>> \in Seq(Byte \X Byte)
    OBVIOUS
  <2> QED
    BY <2>1, StreamTypes, BytesType
<1>2. Bytes(txq') = Bytes(txq) \o d
  BY BytesAppend DEF Taken, TypeOK
<1>3. CASE sock = "open"
  <2>1. Bytes(frames') = Bytes(frames) \o d
    BY <1>3, BytesAppend DEF Taken, TypeOK
  <2>2. lw \o Bytes(txq) = Bytes(frames)
    BY <1>3 DEF Streams, Conserved
  <2> HIDE DEF lw, d
  <2>3. lw \o (Bytes(txq) \o d) = (lw \o Bytes(txq)) \o d
    BY <1>1, ConcatAssociative
  <2>4. lw \o Bytes(txq') = Bytes(frames')
    BY <1>2, <2>1, <2>2, <2>3
  <2>5. IsPrefix(lw, lw \o Bytes(txq'))
    <3>1. Bytes(txq') \in Seq(Byte)
      BY <1>1, <1>2, ConcatProperties
    <3> QED
      BY <1>1, <3>1, PrefixOfConcat
  <2>6. lw = listaa' \o wire'
    BY DEF lw, Taken
  <2> QED
    BY <1>3, <2>4, <2>5, <2>6 DEF Streams, Conserved, Bytes
<1>4. CASE sock # "open"
  BY <1>4 DEF Streams, Conserved, Taken, Bytes
<1> QED
  BY <1>3, <1>4

\* The queue is sent: what was queued is on its way.
LEMMA StreamsTransmit ==
    ASSUME TypeOK, Streams, Transmit, UNCHANGED listaa
    PROVE  Streams'
<1>1. CASE sock = "open"
  <2>1. listaa \o wire \o Bytes(txq) = Bytes(frames)
    BY <1>1 DEF Streams, Conserved
  <2>2. wire' = wire \o Bytes(txq) /\ txq' = <<>> /\ frames' = frames
    BY <1>1 DEF Transmit
  <2>3. listaa' \o wire' = Bytes(frames')
    <3>1. listaa \o (wire \o Bytes(txq)) = listaa \o wire \o Bytes(txq)
      BY StreamTypes, ConcatAssociative
    <3> QED
      BY <2>1, <2>2, <3>1
  <2>4. Bytes(frames) \in Seq(Byte)
    BY StreamTypes
  <2>5. Bytes(frames) \o <<>> = Bytes(frames)
    BY <2>4, ConcatEmptySeq
  <2>6. IsPrefix(Bytes(frames), Bytes(frames))
    BY <2>4, PrefixByElements, LenProperties
  <2> QED
    BY <1>1, <2>2, <2>3, <2>5, <2>6, BytesEmpty
       DEF Streams, Conserved, Transmit, rfcommVars, Bytes
<1>2. CASE sock # "open"
  BY <1>2 DEF Streams, Conserved, Transmit, rfcommVars, Bytes
<1> QED
  BY <1>1, <1>2

\* A connection opens: its history is what the stack still queues.
LEMMA StreamsOpen ==
    ASSUME TypeOK, Streams, MainDials
    PROVE  Streams'
<1>1. /\ listaa' = <<>> /\ wire' = <<>> /\ txq' = txq /\ frames' = txq
      /\ sock' = "open"
  BY DEF MainDials, OpenStream, Dial, Establish, Accepts, mainVars, Streams
<1>2. Bytes(txq) \in Seq(Byte)
  BY StreamTypes
<1>3. <<>> \o Bytes(txq) = Bytes(txq) /\ <<>> \o <<>> = <<>>
  BY <1>2, ConcatEmptySeq
<1>4. IsPrefix(<<>>, Bytes(txq))
  <2>1. <<>> \o Bytes(txq) = Bytes(txq) /\ <<>> \in Seq(Byte)
    BY <1>3
  <2> QED
    BY <1>2, <2>1, PrefixOfConcat
<1> QED
  BY <1>1, <1>3, <1>4 DEF Streams, Conserved, Bytes

\* main.py lists a byte: it moves from what is on its way to the list.
LEMMA StreamsReceive ==
    ASSUME TypeOK, Streams, ReceiveNote
    PROVE  Streams'
<1>1. PICK data \in Received(wire, NoteSize) :
        /\ data # <<>>
        /\ listaa' = Append(listaa, Head(data))
        /\ wire' = SubSeq(wire, Len(data) + 1, Len(wire))
  BY DEF ReceiveNote
<1>2. wire # <<>> /\ Len(data) = 1 /\ Head(data) = wire[1]
  BY <1>1, OneByteReceived DEF TypeOK
<1>3. listaa' \o wire' = listaa \o wire
  <2>1. wire' = SubSeq(wire, 2, Len(wire)) /\ listaa' = Append(listaa, wire[1])
    BY <1>1, <1>2
  <2>2. listaa \in Seq(Byte) /\ wire \in Seq(Byte)
    BY DEF TypeOK
  <2> QED
    BY <1>2, <2>1, <2>2, MoveHead
<1>4. sock # "fresh"
  BY <1>2 DEF Streams
<1> QED
  BY <1>3, <1>4 DEF Streams, Conserved, ReceiveNote, rfcommVars, Bytes

\* Every step keeps the streams.
LEMMA NextStreams ==
    ASSUME TypeOK, Streams, [Next]_vars
    PROVE  Streams'
<1> USE DEF mainVars, objVars, rfcommVars, btVars, fwVars, hostVars
<1>1. ASSUME UNCHANGED <<sock, listaa, wire, txq, frames>>
      PROVE  Streams'
  BY <1>1 DEF Streams, Conserved, Bytes
<1>2. CASE DeviceStep
  <2>1. CASE DeviceSends
    <3>1. PICK dados \in Dados : Write(dados)
      BY <2>1 DEF DeviceSends
    <3>2. dados \in Byte \X Byte
      BY DadosAreBytes DEF TypeOK
    <3> QED
      BY <1>1, <2>1, <3>1, <3>2, StreamsWrite DEF DeviceSends, Write, Dropped
  <2>2. CASE DeviceSetup \/ DeviceRead \/ DeviceFails \/ DeviceRests
    BY <1>1, <2>2 DEF DeviceSetup, DeviceRead, DeviceFails, DeviceRests
  <2> QED
    BY <1>2, <2>1, <2>2 DEF DeviceStep
<1>3. CASE DeviceRestart
  <2>1. CASE sock = "open"
    BY <1>3, <2>1, StreamsCut DEF DeviceRestart, StackRestart
  <2>2. CASE sock # "open"
    BY <1>3, <2>2 DEF DeviceRestart, StackRestart, Streams, Conserved, Bytes
  <2> QED
    BY <2>1, <2>2
<1>4. CASE MainStep
  <2>1. CASE MainDials
    BY <2>1, StreamsOpen
  <2>2. CASE ReceiveNote
    BY <2>2, StreamsReceive
  <2>3. CASE MainConnects \/ MainConnected \/ MainRefused \/ ReceiveFails
    BY <1>1, <2>3 DEF MainConnects, CallConnect, MainConnected, SetFlag, MainRefused,
       DialFails, Caught, ReceiveFails
  <2> QED
    BY <1>4, <2>1, <2>2, <2>3 DEF MainStep
<1>5. CASE MainKilled
  <2>1. /\ wire' = <<>> /\ listaa' = listaa /\ frames' = frames
        /\ sock' # "open" /\ (sock' = "fresh" => sock = "fresh")
    BY <1>5 DEF MainKilled
  <2>2. IsPrefix(listaa \o <<>>, Bytes(frames))
    <3>1. /\ listaa \in Seq(Byte) /\ wire \in Seq(Byte)
          /\ Bytes(frames) \in Seq(Byte)
          /\ IsPrefix(listaa \o wire, Bytes(frames))
      BY StreamTypes DEF Streams, Conserved
    <3>2. 0 \in 0..Len(wire) /\ SubSeq(wire, 1, 0) = <<>>
      BY <3>1, LenProperties, SubSeqEmpty
    <3>3. IsPrefix(listaa \o SubSeq(wire, 1, 0), Bytes(frames))
      BY <3>1, <3>2, PrefixOfCut
    <3> QED
      BY <3>2, <3>3
  <2> QED
    BY <2>1, <2>2 DEF Streams, Conserved, Bytes
<1>6. CASE MainStarts
  BY <1>6, EmptyStream, BytesEmpty DEF MainStarts, Streams, Conserved, Bytes
<1>7. CASE StackSends
  BY <1>7, StreamsTransmit DEF StackSends
<1>8. CASE LinkLost
  BY <1>8, StreamsCut DEF LinkLost, LoseLink, HangUp
<1>9. CASE UNCHANGED vars
  BY <1>1, <1>9 DEF vars
<1> QED
  BY <1>2, <1>3, <1>4, <1>5, <1>6, <1>7, <1>8, <1>9 DEF Next

LEMMA InitStreams == Init => Streams
<1> SUFFICES ASSUME Init PROVE Streams
  OBVIOUS
<1>1. listaa = <<>> /\ wire = <<>> /\ frames = <<>> /\ sock = "fresh"
  BY DEF Init, BtInit
<1> QED
  BY <1>1, EmptyStream, BytesEmpty DEF Streams, Conserved

LEMMA StreamsCorrect == Spec => [](TypeOK /\ Streams)
<1>1. Init => TypeOK /\ Streams
  BY InitType, InitStreams
<1>2. TypeOK /\ Streams /\ [Next]_vars => (TypeOK /\ Streams)'
  BY NextType, NextStreams
<1> QED
  BY <1>1, <1>2, PTL DEF Spec

\* main.py's list, what is on its way and what is queued are together the
\* bytes that loop() sent over the connection, in order; after a loss the
\* list is still the beginning of them.
THEOREM BytesConserved == Spec => []Conserved
<1>1. TypeOK /\ Streams => Conserved
  BY DEF Streams
<1> QED
  BY <1>1, StreamsCorrect, PTL

\* While the link is up, when nothing is left to read the list of main.py
\* holds whole frames.
LEMMA WholeFrames ==
    ASSUME TypeOK, Streams
    PROVE  HalfFrameOnlyAfterLoss
<1> SUFFICES ASSUME wire = <<>>, Len(listaa) % 2 = 1, sock # "lost" PROVE FALSE
  BY DEF HalfFrameOnlyAfterLoss
<1>1. CASE sock = "fresh"
  BY <1>1 DEF Streams
<1>2. CASE sock = "open"
  <2>1. listaa \o <<>> \o Bytes(txq) = Bytes(frames) /\ listaa \o <<>> = listaa
    BY <1>2, StreamTypes, ConcatEmptySeq DEF Streams, Conserved
  <2>2. Len(Bytes(frames)) = Len(listaa) + Len(Bytes(txq))
    BY <2>1, StreamTypes, ConcatProperties
  <2>3. /\ Len(Bytes(frames)) = 2 * Len(frames)
        /\ Len(Bytes(txq)) = 2 * Len(txq)
    BY BytesType DEF TypeOK
  <2>4. Len(frames) \in Nat /\ Len(txq) \in Nat /\ Len(listaa) \in Nat
    BY LenProperties DEF TypeOK
  <2> QED
    BY <2>2, <2>3, <2>4
<1> QED
  BY <1>1, <1>2 DEF TypeOK, RfcommTypeOK

\* A humidity without its temperature ends the list for good only when the
\* link was lost: no other step takes the list out of pairs.
THEOREM FramesArriveWhole == Spec => []HalfFrameOnlyAfterLoss
<1>1. TypeOK /\ Streams => HalfFrameOnlyAfterLoss
  BY WholeFrames
<1> QED
  BY <1>1, StreamsCorrect, PTL

-----------------------------------------------------------------------------
(* What the bytes mean.                                                    *)

\* A frame that carries the integer parts of two readings of the sensor.
Reading == IntegerParts(Humidities) \X IntegerParts(Temperatures)

\* Every reading of the sensor lies between -0.9 and 255.9.
InRange == \A x \in Humidities \cup Temperatures : Representable(x)

\* Only such frames are queued or were sent.
Sound == txq \in Seq(Reading) /\ frames \in Seq(Reading)

\* loop() sends such a frame: the guard has ruled out NaN, and the cast of
\* the others is their integer part.
LEMMA DadosAreReadings ==
    ASSUME InRange, FwTypeOK, ~ReadFailed
    PROVE  Dados \subseteq Reading
<1>1. humidade \in Humidities /\ temperatura \in Temperatures
  BY DEF FwTypeOK, ReadFailed
<1>2. /\ Uint8Outcomes(humidade) = {Trunc(humidade)}
      /\ Uint8Outcomes(temperatura) = {Trunc(temperatura)}
  BY <1>1, CastExact DEF InRange
<1> QED
  BY <1>1, <1>2 DEF Dados, Reading, IntegerParts

\* Every step keeps the frames sound.
LEMMA NextSound ==
    ASSUME InRange, TypeOK, Sound, [Next]_vars
    PROVE  Sound'
<1> USE DEF Sound, mainVars, objVars, rfcommVars, btVars, fwVars, hostVars
<1>1. ASSUME UNCHANGED <<txq, frames>>
      PROVE  Sound'
  BY <1>1
<1>2. CASE DeviceStep
  <2>1. CASE DeviceSends
    <3>1. PICK dados \in Dados : EnviarDadosBluetooth(dados) /\ Write(dados)
      BY <2>1 DEF DeviceSends
    <3>2. dados \in Reading
      BY <3>1, DadosAreReadings DEF EnviarDadosBluetooth, TypeOK
    <3>3. CASE Taken(dados)
      <4>1. Append(txq, dados) \in Seq(Reading) /\ Append(frames, dados) \in Seq(Reading)
        BY <3>2, AppendProperties
      <4> QED
        BY <3>3, <4>1 DEF Taken
    <3> QED
      BY <1>1, <3>1, <3>3 DEF Write, Dropped
  <2>2. CASE DeviceSetup \/ DeviceRead \/ DeviceFails \/ DeviceRests
    BY <1>1, <2>2 DEF DeviceSetup, DeviceRead, DeviceFails, DeviceRests
  <2> QED
    BY <1>2, <2>1, <2>2 DEF DeviceStep
<1>3. CASE DeviceRestart
  BY <1>3 DEF DeviceRestart, StackRestart
<1>4. CASE MainStep
  <2>1. CASE MainDials
    BY <2>1 DEF MainDials, OpenStream
  <2>2. CASE MainConnects \/ MainConnected \/ MainRefused \/ ReceiveNote \/ ReceiveFails
    BY <1>1, <2>2 DEF MainConnects, MainConnected, MainRefused, ReceiveNote, ReceiveFails
  <2> QED
    BY <1>4, <2>1, <2>2 DEF MainStep
<1>5. CASE MainKilled
  BY <1>5 DEF MainKilled
<1>6. CASE MainStarts
  BY <1>6 DEF MainStarts
<1>7. CASE StackSends
  BY <1>7 DEF StackSends, Transmit
<1>8. CASE LinkLost
  BY <1>8 DEF LinkLost, LoseLink
<1>9. CASE UNCHANGED vars
  BY <1>9 DEF vars
<1> QED
  BY <1>2, <1>3, <1>4, <1>5, <1>6, <1>7, <1>8, <1>9 DEF Next

\* The list begins with the bytes of sound frames, so its odd entries are
\* humidities and its even ones temperatures.
LEMMA SoundList ==
    ASSUME TypeOK, Streams, Sound
    PROVE  ListedReadings
<1>1. /\ listaa \in Seq(Byte) /\ wire \in Seq(Byte)
      /\ listaa \o wire \in Seq(Byte) /\ Bytes(frames) \in Seq(Byte)
  BY StreamTypes
<1>2. /\ Len(listaa \o wire) <= Len(Bytes(frames))
      /\ \A k \in 1..Len(listaa \o wire) : (listaa \o wire)[k] = Bytes(frames)[k]
  <2> DEFINE lw == listaa \o wire
  <2>1. lw \in Seq(Byte) /\ IsPrefix(lw, Bytes(frames))
    BY <1>1 DEF Streams, Conserved
  <2> HIDE DEF lw
  <2>2. Len(lw) <= Len(Bytes(frames)) /\ \A k \in 1..Len(lw) : lw[k] = Bytes(frames)[k]
    BY <1>1, <2>1, PrefixByElements
  <2> QED
    BY <2>2 DEF lw
<1>3. /\ Len(listaa) \in Nat /\ Len(wire) \in Nat
      /\ DOMAIN listaa = 1..Len(listaa)
  BY <1>1, LenProperties
<1>4. /\ Len(listaa \o wire) = Len(listaa) + Len(wire)
      /\ \A k \in 1..Len(listaa) : (listaa \o wire)[k] = listaa[k]
  BY <1>1, <1>3, ConcatProperties
<1>5. Len(Bytes(frames)) = 2 * Len(frames)
  BY BytesType DEF TypeOK
<1>6. Len(frames) \in Nat
  BY LenProperties DEF TypeOK
<1>7. ASSUME NEW k \in DOMAIN listaa
      PROVE  listaa[k] \in IntegerParts(IF k % 2 = 1 THEN Humidities ELSE Temperatures)
  <2>1. k \in 1..Len(listaa) /\ k \in 1..Len(listaa \o wire) /\ k \in 1..2 * Len(frames)
    BY <1>2, <1>3, <1>4, <1>5, <1>6
  <2>2. listaa[k] = Bytes(frames)[k]
    BY <1>2, <1>4, <2>1
  <2>3. Bytes(frames)[k] \in IF k % 2 = 1 THEN IntegerParts(Humidities)
                                           ELSE IntegerParts(Temperatures)
    BY <2>1, BytesParity DEF Sound, Reading
  <2> QED
    BY <2>2, <2>3
<1> QED
  BY <1>7 DEF ListedReadings

\* With a sensor whose readings fit a byte, every byte listed is the integer
\* part of a reading of the right kind: no failed read, no lost pairing and
\* no restart of the board makes main.py list anything else.
THEOREM ListIsReadings ==
    ASSUME InRange
    PROVE  Spec => []ListedReadings
<1>1. Init => Sound
  BY DEF Init, BtInit, Sound
<1>2. TypeOK /\ Sound /\ [Next]_vars => Sound'
  BY NextSound
<1>3. TypeOK /\ Streams /\ Sound => ListedReadings
  BY SoundList
<1> QED
  BY <1>1, <1>2, <1>3, StreamsCorrect, PTL DEF Spec
=============================================================================
