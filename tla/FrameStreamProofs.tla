-------------------------- MODULE FrameStreamProofs --------------------------
(***************************************************************************)
(* AirDump implements the abstract stream, for every set of readings and   *)
(* every queue: each step is a step of FrameStream or leaves it as it is.  *)
(***************************************************************************)
EXTENDS AirDumpProofs

\* A k-th byte in the abstract stream is one in the byte sequence.
LEMMA ByteOfBytes ==
    ASSUME NEW fs \in Seq(Byte \X Byte), NEW k \in 1..2 * Len(fs)
    PROVE  Bytes(fs)[k] = Promise!ByteOf(fs, k)
  BY DEF Bytes, Promise!ByteOf

\* The byte that arrives first is the one after those listed.
LEMMA NextByte ==
    ASSUME TypeOK, Conserved, wire # <<>>
    PROVE  /\ Len(listaa) < 2 * Len(frames)
           /\ wire[1] = Promise!ByteOf(frames, Len(listaa) + 1)
<1> DEFINE lw == listaa \o wire
           b == Bytes(frames)
           n == Len(listaa)
<1>1. /\ listaa \in Seq(Byte) /\ wire \in Seq(Byte) /\ frames \in Seq(Byte \X Byte)
      /\ lw \in Seq(Byte) /\ b \in Seq(Byte)
  BY StreamTypes DEF TypeOK
<1>2. Len(wire) \in Nat \ {0} /\ n \in Nat /\ Len(lw) = n + Len(wire)
  BY <1>1, EmptySeq, ConcatProperties, LenProperties
<1>3. lw[n + 1] = wire[1]
  BY <1>1, <1>2, ConcatProperties
<1>4. Len(b) = 2 * Len(frames)
  BY <1>1, BytesType
<1>5. IsPrefix(lw, b)
  BY DEF Conserved
<1> HIDE DEF lw, b
<1>6. Len(lw) <= Len(b) /\ \A k \in 1..Len(lw) : lw[k] = b[k]
  BY <1>1, <1>5, PrefixByElements
<1>7. n + 1 \in 1..Len(lw) /\ n + 1 \in 1..2 * Len(frames)
  <2>1. Len(frames) \in Nat
    BY <1>1
  <2> QED
    BY <1>2, <1>4, <1>6, <2>1
<1>8. b[n + 1] = Promise!ByteOf(frames, n + 1)
  BY <1>1, <1>7, ByteOfBytes DEF b
<1>9. wire[1] = b[n + 1]
  BY <1>3, <1>6, <1>7
<1>10. n < 2 * Len(frames)
  <2>1. Len(frames) \in Nat
    BY <1>1
  <2> QED
    BY <1>2, <1>7, <2>1
<1> QED
  BY <1>8, <1>9, <1>10

\* The initial state of the system is one of the stream.
LEMMA InitImplements == Init => Promise!StreamInit
  BY DEF Init, BtInit, Promise!StreamInit

\* A write that the stack takes while the host is connected sends a frame;
\* any other leaves the stream alone.
LEMMA WriteImplements ==
    ASSUME TypeOK, NEW dados \in Byte \X Byte, Write(dados), UNCHANGED <<sock, listaa>>
    PROVE  Promise!Send \/ UNCHANGED Promise!streamVars
<1>1. CASE Taken(dados) /\ sock = "open"
  <2>1. frames \in Seq(Byte \X Byte) /\ frames' = Append(frames, dados)
    BY <1>1 DEF TypeOK, Taken
  <2>2. /\ frames' \in Seq(Byte \X Byte)
        /\ Len(frames') = Len(frames) + 1
        /\ \A i \in 1..Len(frames) : frames'[i] = frames[i]
    BY <2>1, AppendProperties
  <2> QED
    BY <1>1, <2>2 DEF Promise!Send, Promise!Frame, Byte
<1>2. CASE ~(Taken(dados) /\ sock = "open")
  BY <1>2 DEF Write, Taken, Dropped, btVars, Promise!streamVars
<1> QED
  BY <1>1, <1>2

\* main.py lists the next byte of the stream.
LEMMA ReceiveImplements ==
    ASSUME TypeOK, Streams, ReceiveNote
    PROVE  Promise!List
<1>1. PICK data \in Received(wire, NoteSize) :
        /\ data # <<>>
        /\ listaa' = Append(listaa, Head(data))
  BY DEF ReceiveNote
<1>2. wire # <<>> /\ Head(data) = wire[1]
  BY <1>1, OneByteReceived DEF TypeOK
<1>3. /\ Len(listaa) < 2 * Len(frames)
      /\ wire[1] = Promise!ByteOf(frames, Len(listaa) + 1)
  BY <1>2, NextByte DEF Streams
<1>4. listaa' = Append(listaa, Promise!ByteOf(frames, Len(listaa) + 1))
  BY <1>1, <1>2, <1>3
<1>5. sock # "fresh" /\ UNCHANGED <<sock, frames>>
  BY <1>2 DEF Streams, ReceiveNote, rfcommVars
<1> QED
  BY <1>3, <1>4, <1>5 DEF Promise!List

\* Every step of the system is a step of the stream or a stutter.
LEMMA StepImplements ==
    ASSUME TypeOK, Streams, [Next]_vars
    PROVE  [Promise!StreamNext]_(Promise!streamVars)
<1> USE DEF mainVars, objVars, rfcommVars, btVars, fwVars, hostVars
<1>1. ASSUME UNCHANGED <<sock, listaa, frames>>
      PROVE  UNCHANGED Promise!streamVars
  BY <1>1 DEF Promise!streamVars
<1>2. ASSUME sock = "open", sock' = "lost", UNCHANGED <<listaa, frames>>
      PROVE  Promise!Lose
  BY <1>2 DEF Promise!Lose
<1>3. CASE DeviceStep
  <2>1. CASE DeviceSends
    <3>1. PICK dados \in Dados : Write(dados)
      BY <2>1 DEF DeviceSends
    <3>2. dados \in Byte \X Byte
      BY DadosAreBytes DEF TypeOK
    <3> QED
      BY <2>1, <3>1, <3>2, WriteImplements DEF DeviceSends, Promise!StreamNext
  <2>2. CASE DeviceSetup \/ DeviceRead \/ DeviceFails \/ DeviceRests
    BY <1>1, <2>2 DEF DeviceSetup, DeviceRead, DeviceFails, DeviceRests
  <2> QED
    BY <1>3, <2>1, <2>2 DEF DeviceStep
<1>4. CASE DeviceRestart
  BY <1>1, <1>2, <1>4 DEF DeviceRestart, StackRestart, Promise!StreamNext
<1>5. CASE MainStep
  <2>1. CASE MainDials
    <3>1. sock = "fresh" /\ sock' = "open" /\ UNCHANGED listaa /\ frames' = txq
      BY <2>1 DEF MainDials, OpenStream, Dial, Establish, Accepts
    <3>2. txq \in Seq(Byte \X Byte)
      BY DEF TypeOK
    <3> QED
      BY <3>1, <3>2 DEF Promise!Open, Promise!Frame, Byte, Promise!StreamNext
  <2>2. CASE ReceiveNote
    BY <2>2, ReceiveImplements DEF Promise!StreamNext
  <2>3. CASE MainConnects \/ MainConnected \/ MainRefused \/ ReceiveFails
    BY <1>1, <2>3 DEF MainConnects, CallConnect, MainConnected, SetFlag, MainRefused,
       DialFails, Caught, ReceiveFails
  <2> QED
    BY <1>5, <2>1, <2>2, <2>3 DEF MainStep
<1>6. CASE MainKilled
  BY <1>1, <1>2, <1>6 DEF MainKilled, Promise!StreamNext
<1>7. CASE MainStarts
  BY <1>7 DEF MainStarts, Promise!Renew, Promise!StreamNext
<1>8. CASE StackSends
  BY <1>1, <1>8 DEF StackSends, Transmit
<1>9. CASE LinkLost
  BY <1>2, <1>9 DEF LinkLost, LoseLink, HangUp, Promise!StreamNext
<1>10. CASE UNCHANGED vars
  BY <1>1, <1>10 DEF vars
<1> QED
  BY <1>3, <1>4, <1>5, <1>6, <1>7, <1>8, <1>9, <1>10 DEF Next

\* The system implements the abstract stream (safety): whatever fails, what
\* main.py lists over one connection is the bytes of whole frames, each once
\* and in order.
THEOREM StreamImplemented == Spec => ImplementsStream
<1>1. TypeOK /\ Streams /\ [Next]_vars => [Promise!StreamNext]_(Promise!streamVars)
  BY StepImplements
<1> QED
  BY <1>1, InitImplements, StreamsCorrect, PTL
     DEF Spec, ImplementsStream, Promise!StreamSpec
=============================================================================
