------------------------------ MODULE SSLProofs -----------------------------
(***************************************************************************)
(* Whatever the sizes of the buffers, of the records and of the pieces in  *)
(* which TCP takes and gives them, the registers of the engine stay within *)
(* its buffers and the bytes that write() has left behind have room.       *)
(* There is one lemma for each operation of SSLEngine.                     *)
(***************************************************************************)
EXTENDS SSLClient, SequenceTheorems, TLAPS

USE EngineAssumption, ClientAssumption

\* An engine whose registers are in place.
Good(e) == e \in Engine /\ (Closed(e) \/ InRegisters(e)) /\ OutRegisters(e)

\* The body of a record is being received; and f, which came of e, is not
\* receiving any other body than e.
Body(e)     == ~Closed(e) /\ 5 <= e.ixa /\ 0 < e.ixc
Keeps(f, e) == Body(f) => Body(e) /\ f.ixa = e.ixa /\ f.ixc = e.ixc

\* f has the same room to send in as e.
SameRoom(f, e) ==
    f.oxa = e.oxa /\ f.oxb = e.oxb /\ f.oxc = e.oxc /\ f.app = e.app /\ f.iomode = e.iomode

\* What the operations on the output buffer leave of the input buffer.
SameIn(f, e) ==
    /\ f.iomode = e.iomode /\ f.ixa = e.ixa /\ f.ixb = e.ixb /\ f.ixc = e.ixc
    /\ f.plain = e.plain /\ f.tin = e.tin

-----------------------------------------------------------------------------
(* Types.                                                                  *)

LEMMA EngineFields ==
    ASSUME NEW e \in Engine
    PROVE  /\ e.iomode \in {"INOUT", "FAILED"}
           /\ e.ixa \in Nat /\ e.ixb \in Nat /\ e.ixc \in Nat
           /\ e.tin \in InType /\ e.plain \in Seq(Cell)
           /\ e.oxa \in Nat /\ e.oxb \in Nat /\ e.oxc \in Nat
           /\ e.tout \in OutType /\ e.obuf \in [0 .. OLen - 1 -> Cell]
           /\ e.sealed \in [type : OutType, data : Seq(Cell)]
           /\ e.app \in {0, 1} /\ e.hs \in {"main", "refuse", "close", "notified"}
BY DEF Engine

-----------------------------------------------------------------------------
(* The input buffer.                                                       *)

LEMMA MakeReadyInGood ==
    ASSUME NEW e \in Engine, OutRegisters(e)
    PROVE  Good(MakeReadyIn(e)) /\ ~Body(MakeReadyIn(e)) /\ SameRoom(MakeReadyIn(e), e)
<1>1. MakeReadyIn(e) \in Engine
  BY Zenon, 0 \in Nat, 5 \in Nat DEF Engine, MakeReadyIn
<1>2. /\ MakeReadyIn(e).ixa = 0 /\ MakeReadyIn(e).ixb = 0 /\ MakeReadyIn(e).ixc = 5
      /\ SameRoom(MakeReadyIn(e), e)
  BY DEF Engine, MakeReadyIn, SameRoom
<1>3. QED  BY <1>1, <1>2 DEF Good, InRegisters, OutRegisters, Body, SameRoom

LEMMA RecvPldAckGood ==
    ASSUME NEW e, Good(e), NEW n \in Nat, n <= RecvPldLen(e)
    PROVE  /\ Good(RecvPldAck(e, n)) /\ SameRoom(RecvPldAck(e, n), e)
           /\ ~Body(RecvPldAck(e, n))
<1> DEFINE f == [e EXCEPT !.ixa = @ + n, !.plain = SubSeq(@, n + 1, Len(@))]
<1>1. e \in Engine /\ OutRegisters(e)
  BY DEF Good
<1>2. /\ e.ixa \in Nat /\ e.ixb \in Nat /\ e.ixc \in Nat /\ e.plain \in Seq(Cell)
      /\ e.iomode \in {"INOUT", "FAILED"}
  BY <1>1, EngineFields
<1>3. SubSeq(e.plain, n + 1, Len(e.plain)) \in Seq(Cell) /\ e.ixa + n \in Nat
  BY <1>2
<1>4. /\ f \in Engine /\ f.ixa = e.ixa + n /\ f.ixb = e.ixb /\ f.ixc = e.ixc
      /\ f.plain = SubSeq(e.plain, n + 1, Len(e.plain)) /\ SameRoom(f, e)
  <2>1. f \in Engine
    BY Zenon, <1>1, <1>3 DEF Engine
  <2>2. QED  BY <1>1, <2>1 DEF Engine, SameRoom
<1>5. RecvPldAck(e, n) = IF f.ixa = f.ixb THEN MakeReadyIn(f) ELSE f
  BY DEF RecvPldAck
<1> HIDE DEF f
<1>6. OutRegisters(f)
  BY <1>1, <1>4 DEF OutRegisters, SameRoom
<1>7. CASE f.ixa = f.ixb
  BY <1>4, <1>5, <1>6, <1>7, MakeReadyInGood DEF SameRoom
<1>8. CASE f.ixa # f.ixb
  <2>1. CASE Closed(e)
    BY <1>4, <1>5, <1>6, <1>8, <2>1 DEF Closed, Good, SameRoom, Body
  <2>2. CASE ~Closed(e)
    <3>1. n <= e.ixb - e.ixa /\ e.ixa # e.ixb /\ InRegisters(e)
      BY <1>2, <1>4, <1>8, <2>2 DEF RecvPldLen, Good
    <3>2. /\ e.ixc = 0 /\ 5 <= e.ixa /\ e.ixa < e.ixb /\ e.ixb <= ILen
          /\ Len(e.plain) = e.ixb - e.ixa
      BY <3>1 DEF InRegisters
    <3>3. Len(f.plain) = e.ixb - e.ixa - n
      <4>1. n + 1 <= Len(e.plain) + 1 /\ n + 1 \in 1 .. Len(e.plain) + 1
        BY <1>2, <3>1, <3>2
      <4>2. Len(SubSeq(e.plain, n + 1, Len(e.plain))) = Len(e.plain) - (n + 1) + 1
        BY <1>2, <4>1, SubSeqProperties
      <4>3. QED  BY <1>2, <1>4, <3>2, <4>2
    <3>4. f.ixc = 0 /\ 5 <= f.ixa /\ f.ixa < f.ixb /\ f.ixb <= ILen /\ Len(f.plain) = f.ixb - f.ixa
      <4>1. f.ixc = 0 /\ f.ixb <= ILen /\ f.ixb = e.ixb
        BY <1>4, <3>2
      <4>2. 5 <= f.ixa /\ f.ixa < f.ixb
        BY <1>2, <1>4, <1>8, <3>1, <3>2, <4>1
      <4>3. Len(f.plain) = f.ixb - f.ixa
        BY <1>2, <1>4, <3>3, <4>1
      <4>4. QED  BY <4>1, <4>2, <4>3
    <3>5. InRegisters(f) /\ ~Body(f)
      BY <3>4 DEF InRegisters, Body
    <3>6. QED  BY <1>4, <1>5, <1>6, <1>8, <3>5 DEF Good
  <2>3. QED  BY <2>1, <2>2
<1>9. QED  BY <1>7, <1>8

LEMMA FailGood ==
    ASSUME NEW e, Good(e), NEW err \in {"OK", "ERROR"}
    PROVE  Good(Fail(e, err)) /\ Closed(Fail(e, err)) /\ ~Body(Fail(e, err))
BY DEF Good, Fail, Closed, Engine, OutRegisters, Body

-----------------------------------------------------------------------------
(* The output buffer.                                                      *)

LEMMA SameInGood ==
    ASSUME NEW e, Good(e), NEW f \in Engine, SameIn(f, e), OutRegisters(f)
    PROVE  Good(f) /\ Keeps(f, e)
BY DEF Good, SameIn, Closed, InRegisters, Keeps, Body

LEMMA MakeReadyOutGood ==
    ASSUME NEW e \in Engine
    PROVE  /\ MakeReadyOut(e) \in Engine /\ OutRegisters(MakeReadyOut(e))
           /\ SameIn(MakeReadyOut(e), e)
<1> DEFINE a == 5 + Nonce
           b == Least(OLen - 5 - Tag, a + MaxFrag)
           f == MakeReadyOut(e)
<1>1. a \in Nat /\ b \in Nat /\ a < b /\ b <= OLen - 5 - Tag /\ a = 5 + Nonce
  BY DEF Least
<1>2. f = [e EXCEPT !.oxa = a, !.oxb = b, !.oxc = a]
  BY DEF MakeReadyOut
<1> HIDE DEF a, b, f
<1>3. f \in Engine
  BY Zenon, <1>1, <1>2 DEF Engine
<1>4. f.oxa = a /\ f.oxb = b /\ f.oxc = a /\ SameIn(f, e)
  BY <1>2 DEF Engine, SameIn
<1>5. OutRegisters(f)
  BY <1>1, <1>4 DEF OutRegisters
<1>6. QED  BY <1>3, <1>4, <1>5 DEF f

LEMMA WrittenCells ==
    ASSUME NEW buf \in [0 .. OLen - 1 -> Cell], NEW from \in Nat, NEW s \in Seq(Cell)
    PROVE  Written(buf, from, s) \in [0 .. OLen - 1 -> Cell]
<1> SUFFICES ASSUME NEW i \in 0 .. OLen - 1, from <= i, i < from + Len(s)
             PROVE  s[i - from + 1] \in Cell
  BY DEF Written
<1>1. i - from + 1 \in 1 .. Len(s)
  OBVIOUS
<1>2. QED  BY <1>1

LEMMA OthersCells ==
    ASSUME NEW n \in Nat
    PROVE  Others(n) \in Seq(Cell) /\ Len(Others(n)) = n
BY DEF Others, Cell

LEMMA CellsCells ==
    ASSUME NEW buf \in [0 .. OLen - 1 -> Cell], NEW from \in Nat, NEW to \in Nat,
           from <= to, to <= OLen
    PROVE  Cells(buf, from, to) \in Seq(Cell)
<1>1. \A k \in 1 .. (to - from) : from + k - 1 \in 0 .. OLen - 1
  OBVIOUS
<1>2. Cells(buf, from, to) \in [1 .. (to - from) -> Cell]
  BY <1>1 DEF Cells
<1>3. to - from \in Nat
  OBVIOUS
<1>4. QED  BY <1>2, <1>3

LEMMA EncryptGood ==
    ASSUME NEW e \in Engine, e.oxc = 5 + Nonce, e.oxc < e.oxa, e.oxa <= OLen - 5 - Tag
    PROVE  /\ Encrypt(e) \in Engine /\ OutRegisters(Encrypt(e)) /\ SameIn(Encrypt(e), e)
           /\ HasRecToSend(Encrypt(e))
<1> DEFINE start == e.oxc - Nonce - 5
           len   == 5 + Nonce + (e.oxa - e.oxc) + Tag
           buf   == Written(e.obuf, start, Others(len))
           seal  == [type |-> e.tout, data |-> Cells(e.obuf, e.oxc, e.oxa)]
<1>1. start = 0 /\ len \in Nat /\ len > 0 /\ len <= OLen - 5 /\ 0 \in Nat
  BY EngineFields
<1>2. buf \in [0 .. OLen - 1 -> Cell]
  <2>1. Others(len) \in Seq(Cell)
    BY <1>1, OthersCells
  <2>2. QED  BY <1>1, <2>1, EngineFields, WrittenCells
<1>3. seal \in [type : OutType, data : Seq(Cell)]
  <2>1. Cells(e.obuf, e.oxc, e.oxa) \in Seq(Cell)
    <3>1. e.oxc \in Nat /\ e.oxa \in Nat /\ e.obuf \in [0 .. OLen - 1 -> Cell]
      BY EngineFields
    <3>2. e.oxc <= e.oxa /\ e.oxa <= OLen
      BY <3>1
    <3>3. QED  BY <3>1, <3>2, CellsCells
  <2>2. QED  BY <2>1, EngineFields
<1> DEFINE f == Encrypt(e)
<1>4. f = [e EXCEPT !.oxa = start, !.oxb = start, !.oxc = start + len, !.obuf = buf, !.sealed = seal]
  BY DEF Encrypt
<1> HIDE DEF start, len, buf, seal, f
<1>5. f \in Engine
  <2>1. start \in Nat /\ start + len \in Nat
    BY <1>1
  <2>2. QED  BY Zenon, <2>1, <1>2, <1>3, <1>4 DEF Engine
<1>6. f.oxa = 0 /\ f.oxb = 0 /\ f.oxc = len /\ SameIn(f, e)
  <2>1. f.oxa = start /\ f.oxb = start /\ f.oxc = start + len /\ SameIn(f, e)
    BY <1>4 DEF Engine, SameIn
  <2>2. QED  BY <1>1, <2>1
<1>7. OutRegisters(f) /\ HasRecToSend(f)
  BY <1>1, <1>6 DEF OutRegisters, HasRecToSend
<1>8. QED  BY <1>5, <1>6, <1>7 DEF f

LEMMA SendPldFlushGood ==
    ASSUME NEW e, Good(e)
    PROVE  Good(SendPldFlush(e)) /\ SameIn(SendPldFlush(e), e)
<1>1. CASE e.oxa = e.oxb \/ e.oxa = e.oxc
  BY <1>1 DEF SendPldFlush, SameIn
<1>2. CASE e.oxa # e.oxb /\ e.oxa # e.oxc
  <2>1. e \in Engine /\ OutRegisters(e) /\ e.oxa \in Nat /\ e.oxb \in Nat /\ e.oxc \in Nat
    BY EngineFields DEF Good
  <2>2. e.oxc = 5 + Nonce /\ e.oxc < e.oxa /\ e.oxa <= OLen - 5 - Tag
    BY <1>2, <2>1 DEF OutRegisters
  <2>3. QED  BY <1>2, <2>1, <2>2, EncryptGood, SameInGood DEF SendPldFlush
<1>3. QED  BY <1>1, <1>2

LEMMA SendPldAckGood ==
    ASSUME NEW e, Good(e), NEW n \in Nat \ {0}, n <= SendPldLen(e)
    PROVE  Good(SendPldAck(e, n)) /\ SameIn(SendPldAck(e, n), e)
<1> DEFINE f == [e EXCEPT !.oxa = @ + n]
           g == [f EXCEPT !.oxb = f.oxa + 1]
<1>1. /\ e \in Engine /\ e.oxa \in Nat /\ e.oxb \in Nat /\ e.oxc \in Nat
      /\ OutRegisters(e) /\ ~Closed(e) /\ n <= e.oxb - e.oxa
  BY EngineFields DEF Good, SendPldLen
<1>2. e.oxc = 5 + Nonce /\ e.oxc <= e.oxa /\ e.oxa < e.oxb /\ e.oxb <= OLen - 5 - Tag
  BY <1>1 DEF OutRegisters
<1>3. f \in Engine
  <2>1. e.oxa + n \in Nat
    BY <1>1
  <2>2. QED  BY Zenon, <1>1, <2>1 DEF Engine
<1>4. f.oxa = e.oxa + n /\ f.oxb = e.oxb /\ f.oxc = e.oxc /\ SameIn(f, e)
  BY <1>1 DEF Engine, SameIn
<1>5. SendPldAck(e, n) = IF f.oxa >= f.oxb THEN SendPldFlush(g) ELSE f
  BY DEF SendPldAck
<1>6. g \in Engine /\ g.oxa = f.oxa /\ g.oxb = f.oxa + 1 /\ g.oxc = f.oxc /\ SameIn(g, e)
  <2> HIDE DEF f
  <2>1. f.oxa + 1 \in Nat
    BY <1>1, <1>4
  <2>2. g \in Engine
    BY Zenon, <1>3, <2>1 DEF Engine
  <2>3. QED  BY <1>3, <1>4, <2>2 DEF Engine, SameIn
<1> HIDE DEF f, g
<1>7. CASE f.oxa >= f.oxb
  <2>1. g.oxc = 5 + Nonce /\ g.oxc < g.oxa /\ g.oxa <= OLen - 5 - Tag /\ g.oxa # g.oxb
    BY <1>1, <1>2, <1>4, <1>6, <1>7
  <2>2. SendPldAck(e, n) = Encrypt(g)
    BY <1>1, <1>2, <1>4, <1>5, <1>6, <1>7, <2>1 DEF SendPldFlush
  <2>3. SameIn(Encrypt(g), e) /\ Encrypt(g) \in Engine /\ OutRegisters(Encrypt(g))
    BY <1>6, <2>1, EncryptGood DEF SameIn
  <2>4. QED  BY <2>2, <2>3, SameInGood
<1>8. CASE ~(f.oxa >= f.oxb)
  <2>1. OutRegisters(f)
    BY <1>1, <1>2, <1>4, <1>8 DEF OutRegisters
  <2>2. QED  BY <1>3, <1>4, <1>5, <1>8, <2>1, SameInGood
<1>9. QED  BY <1>7, <1>8

LEMMA SendRecBytesGood ==
    ASSUME NEW e, Good(e), NEW n \in Nat \ {0}, n <= SendRecLen(e)
    PROVE  Good(SendRecBytes(e, n)) /\ SameIn(SendRecBytes(e, n), e)
<1> DEFINE f == [e EXCEPT !.oxa = @ + n, !.oxb = e.oxa + n]
           g == [f EXCEPT !.sealed = NoRecord]
<1>1. /\ e \in Engine /\ e.oxa \in Nat /\ e.oxb \in Nat /\ e.oxc \in Nat
      /\ OutRegisters(e) /\ e.oxa < e.oxc /\ n <= e.oxc - e.oxa
  BY EngineFields DEF Good, SendRecLen
<1>2. e.oxc <= OLen - 5
  BY <1>1 DEF OutRegisters
<1>3. f \in Engine
  <2>1. e.oxa + n \in Nat
    BY <1>1
  <2>2. QED  BY Zenon, <1>1, <2>1 DEF Engine
<1>4. f.oxa = e.oxa + n /\ f.oxb = e.oxa + n /\ f.oxc = e.oxc /\ SameIn(f, e)
  BY <1>1 DEF Engine, SameIn
<1>5. SendRecBytes(e, n) = IF f.oxa = f.oxc THEN MakeReadyOut(g) ELSE f
  BY DEF SendRecBytes
<1>6. g \in Engine /\ SameIn(g, e)
  <2> HIDE DEF f
  <2>1. NoRecord \in [type : OutType, data : Seq(Cell)]
    BY DEF NoRecord, OutType
  <2>2. g \in Engine
    BY Zenon, <1>3, <2>1 DEF Engine
  <2>3. QED  BY <1>3, <1>4, <2>2 DEF Engine, SameIn
<1> HIDE DEF f, g
<1>7. CASE f.oxa = f.oxc
  <2>1. MakeReadyOut(g) \in Engine /\ OutRegisters(MakeReadyOut(g)) /\ SameIn(MakeReadyOut(g), e)
    BY <1>6, MakeReadyOutGood DEF SameIn
  <2>2. QED  BY <1>5, <1>7, <2>1, SameInGood
<1>8. CASE f.oxa # f.oxc
  <2>1. OutRegisters(f)
    BY <1>1, <1>2, <1>4, <1>8 DEF OutRegisters
  <2>2. QED  BY <1>3, <1>4, <1>5, <1>8, <2>1, SameInGood
<1>9. QED  BY <1>7, <1>8

-----------------------------------------------------------------------------
(* The handshake processor.                                                *)

LEMMA FlushRecordGood ==
    ASSUME NEW e, Good(e)
    PROVE  Good(FlushRecord(e)) /\ SameIn(FlushRecord(e), e)
BY SendPldFlushGood DEF FlushRecord, SameIn

LEMMA SendWarningGood ==
    ASSUME NEW e, Good(e), CanOutput(e), NEW alert \in OutType
    PROVE  Good(SendWarning(e, alert)) /\ SameIn(SendWarning(e, alert), e)
<1> DEFINE buf == Written(e.obuf, e.oxa, Others(2))
           f   == [e EXCEPT !.tout = alert, !.oxa = @ + 2, !.obuf = buf]
<1>1. /\ e \in Engine /\ e.oxa \in Nat /\ e.oxb \in Nat /\ e.oxc \in Nat
      /\ OutRegisters(e) /\ e.oxa # e.oxb /\ e.oxa = e.oxc
      /\ e.obuf \in [0 .. OLen - 1 -> Cell]
  BY EngineFields DEF Good, CanOutput, SendPldLen, HasPldToSend
<1>2. e.oxc = 5 + Nonce /\ e.oxa + 2 <= OLen - 5 - Tag
  BY <1>1 DEF OutRegisters
<1>3. buf \in [0 .. OLen - 1 -> Cell]
  <2>1. Others(2) \in Seq(Cell)
    BY OthersCells
  <2>2. QED  BY <1>1, <2>1, WrittenCells
<1>4. SendWarning(e, alert) = Encrypt(f)
  BY DEF SendWarning
<1> HIDE DEF buf
<1>5. f \in Engine
  <2>1. e.oxa + 2 \in Nat
    BY <1>1
  <2>2. QED  BY Zenon, <1>1, <1>3, <2>1 DEF Engine
<1>6. f.oxa = e.oxa + 2 /\ f.oxc = e.oxc /\ SameIn(f, e)
  BY <1>1 DEF Engine, SameIn
<1> HIDE DEF f
<1>7. f.oxc = 5 + Nonce /\ f.oxc < f.oxa /\ f.oxa <= OLen - 5 - Tag
  BY <1>1, <1>2, <1>6
<1>8. Encrypt(f) \in Engine /\ OutRegisters(Encrypt(f)) /\ SameIn(Encrypt(f), e)
  BY <1>5, <1>6, <1>7, EncryptGood DEF SameIn
<1>9. QED  BY <1>4, <1>8, SameInGood

LEMMA ConsumedGood ==
    ASSUME NEW e, Good(e), HasInput(e)
    PROVE  Good(Consumed(e)) /\ ~Body(Consumed(e))
<1>1. RecvPldLen(e) \in Nat /\ RecvPldLen(e) > 0
  BY EngineFields DEF HasInput, RecvPldLen, Good
<1>2. QED  BY <1>1, RecvPldAckGood DEF Consumed

\* What the processor writes into the context besides the registers.
LEMMA StateGood ==
    ASSUME NEW e, Good(e), NEW h \in {"main", "refuse", "close", "notified"},
           NEW a \in {0, 1}, NEW o \in OutType
    PROVE  /\ Good([e EXCEPT !.app = a, !.hs = h])
           /\ SameIn([e EXCEPT !.app = a, !.hs = h], e)
           /\ Good([e EXCEPT !.app = a, !.hs = h, !.shut = TRUE])
           /\ SameIn([e EXCEPT !.app = a, !.hs = h, !.shut = TRUE], e)
           /\ Good([e EXCEPT !.app = a, !.tout = o, !.hs = h])
           /\ SameIn([e EXCEPT !.app = a, !.tout = o, !.hs = h], e)
           /\ Good([e EXCEPT !.hs = h]) /\ SameIn([e EXCEPT !.hs = h], e)
<1>1. e \in Engine /\ OutRegisters(e)
  BY DEF Good
<1>2. ASSUME NEW f \in Engine, SameIn(f, e), f.oxa = e.oxa, f.oxb = e.oxb, f.oxc = e.oxc
      PROVE  Good(f)
  BY <1>1, <1>2, SameInGood DEF OutRegisters
<1> DEFINE f == [e EXCEPT !.app = a, !.hs = h]
           g == [e EXCEPT !.app = a, !.hs = h, !.shut = TRUE]
           k == [e EXCEPT !.app = a, !.tout = o, !.hs = h]
           l == [e EXCEPT !.hs = h]
<1>3. f \in Engine /\ g \in Engine /\ k \in Engine /\ l \in Engine
  BY Zenon, <1>1 DEF Engine
<1>4. f.oxa = e.oxa /\ f.oxb = e.oxb /\ f.oxc = e.oxc /\ SameIn(f, e)
  BY <1>1 DEF Engine, SameIn
<1>5. g.oxa = e.oxa /\ g.oxb = e.oxb /\ g.oxc = e.oxc /\ SameIn(g, e)
  BY <1>1 DEF Engine, SameIn
<1>6. k.oxa = e.oxa /\ k.oxb = e.oxb /\ k.oxc = e.oxc /\ SameIn(k, e)
  BY <1>1 DEF Engine, SameIn
<1>7. l.oxa = e.oxa /\ l.oxb = e.oxb /\ l.oxc = e.oxc /\ SameIn(l, e)
  BY <1>1 DEF Engine, SameIn
<1> HIDE DEF f, g, k, l
<1>8. Good(f) /\ Good(g) /\ Good(k) /\ Good(l)
  BY <1>2, <1>3, <1>4, <1>5, <1>6, <1>7
<1>9. QED  BY <1>4, <1>5, <1>6, <1>7, <1>8 DEF f, g, k, l

LEMMA SameInKeeps ==
    ASSUME NEW e, NEW f, SameIn(f, e)
    PROVE  Keeps(f, e) /\ (~Body(e) => ~Body(f))
BY DEF SameIn, Keeps, Body, Closed

LEMMA HsInputGood ==
    ASSUME NEW e, Good(e)
    PROVE  Good(HsInput(e)) /\ Keeps(HsInput(e), e)
<1> DEFINE c == Consumed(e)
           f == FlushRecord(c)
<1>1. Keeps(e, e)
  BY DEF Keeps
<1>2. CASE ~HasInput(e)
  BY <1>1, <1>2 DEF HsInput
<1>3. CASE HasInput(e)
  <2>1. Good(c) /\ ~Body(c) /\ Good(f) /\ ~Body(f)
    BY <1>3, ConsumedGood, FlushRecordGood, SameInKeeps
  <2>2. Good(Closes(e)) /\ ~Body(Closes(e))
    BY <2>1, StateGood, SameInKeeps DEF Closes, OutType
  <2>3. LET r == [FlushRecord(Consumed(e)) EXCEPT !.app = 0, !.hs = "refuse"]
        IN  Good(r) /\ ~Body(r)
    BY <2>1, StateGood, SameInKeeps DEF OutType
  <2>4. Good(Fail(e, "ERROR")) /\ ~Body(Fail(e, "ERROR"))
    BY FailGood
  <2>5. Good(HsInput(e)) /\ (HsInput(e) = e \/ ~Body(HsInput(e)))
    BY <1>3, <2>1, <2>2, <2>3, <2>4 DEF HsInput
  <2>6. QED  BY <1>1, <2>5 DEF Keeps
<1>4. QED  BY <1>2, <1>3

LEMMA HsOutputGood ==
    ASSUME NEW e, Good(e)
    PROVE  Good(HsOutput(e)) /\ Keeps(HsOutput(e), e)
<1>1. CASE Closed(e) \/ ~CanOutput(e) \/ e.hs = "main"
  BY <1>1 DEF HsOutput, Keeps
<1>2. CASE ~(Closed(e) \/ ~CanOutput(e) \/ e.hs = "main") /\ e.hs = "refuse"
  <2>1. Good(SendWarning(e, "refuse")) /\ SameIn(SendWarning(e, "refuse"), e)
    BY <1>2, SendWarningGood DEF OutType
  <2>2. /\ Good([SendWarning(e, "refuse") EXCEPT !.app = 1, !.tout = "app", !.hs = "main"])
        /\ SameIn([SendWarning(e, "refuse") EXCEPT !.app = 1, !.tout = "app", !.hs = "main"],
                  SendWarning(e, "refuse"))
    BY <2>1, StateGood DEF OutType
  <2>3. Good(HsOutput(e)) /\ SameIn(HsOutput(e), e)
    BY <1>2, <2>1, <2>2 DEF HsOutput, SameIn
  <2>4. QED  BY <2>3, SameInKeeps
<1>3. CASE ~(Closed(e) \/ ~CanOutput(e) \/ e.hs = "main") /\ e.hs = "close"
  <2>1. Good(SendWarning(e, "close")) /\ SameIn(SendWarning(e, "close"), e)
    BY <1>3, SendWarningGood DEF OutType
  <2>2. /\ Good([SendWarning(e, "close") EXCEPT !.hs = "notified"])
        /\ SameIn([SendWarning(e, "close") EXCEPT !.hs = "notified"], SendWarning(e, "close"))
    BY <2>1, StateGood DEF OutType
  <2>3. Good(HsOutput(e)) /\ SameIn(HsOutput(e), e)
    BY <1>3, <2>1, <2>2 DEF HsOutput, SameIn
  <2>4. QED  BY <2>3, SameInKeeps
<1>4. CASE ~(Closed(e) \/ ~CanOutput(e) \/ e.hs = "main") /\ e.hs \notin {"refuse", "close"}
  BY <1>4, FailGood DEF HsOutput, Keeps
<1>5. QED  BY <1>1, <1>2, <1>3, <1>4

LEMMA JumpHandshakeGood ==
    ASSUME NEW e, Good(e)
    PROVE  Good(JumpHandshake(e)) /\ Keeps(JumpHandshake(e), e)
BY HsInputGood, HsOutputGood DEF JumpHandshake, Keeps

-----------------------------------------------------------------------------
(* What the caller of the engine does.                                     *)

\* The record whose header has been read is r, or r is none that can be kept.
BodyOf(e, r) == Body(e) /\ r.type # "forged" => e.ixa + e.ixc = 5 + RecLen(r)

Record == [type : InType, data : Seq(Cell)]

LEMMA RecvRecBytesGood ==
    ASSUME NEW e, Good(e), NEW r \in Record, BodyOf(e, r),
           NEW n \in Nat \ {0}, n <= RecvRecLen(e)
    PROVE  /\ Good(RecvRecBytes(e, r, n)) /\ BodyOf(RecvRecBytes(e, r, n), r)
           /\ 5 <= e.ixa /\ n = e.ixc => ~Body(RecvRecBytes(e, r, n))
<1> DEFINE f == [e EXCEPT !.ixa = @ + n, !.ixb = e.ixa + n, !.ixc = @ - n]
<1>1. /\ e \in Engine /\ e.ixa \in Nat /\ e.ixb \in Nat /\ e.ixc \in Nat /\ ~Closed(e)
      /\ InRegisters(e) /\ OutRegisters(e) /\ e.ixa = e.ixb /\ n <= e.ixc /\ n <= ILen - e.ixa
  BY EngineFields DEF Good, RecvRecLen, Least
<1>2. \/ e.ixa < 5 /\ e.ixc = 5 - e.ixa
      \/ 5 <= e.ixa /\ 0 < e.ixc /\ e.ixa + e.ixc <= ILen
  BY <1>1 DEF InRegisters
<1>3. f \in Engine
  <2>1. e.ixa + n \in Nat /\ e.ixc - n \in Nat
    BY <1>1
  <2>2. QED  BY Zenon, <1>1, <2>1 DEF Engine
<1>4. /\ f.ixa = e.ixa + n /\ f.ixb = e.ixa + n /\ f.ixc = e.ixc - n /\ SameRoom(f, e)
      /\ f.obuf = e.obuf
  BY <1>1 DEF Engine, SameRoom
<1>5. ~Closed(f) /\ OutRegisters(f)
  BY <1>1, <1>4 DEF Closed, OutRegisters, SameRoom
<1>6. /\ RecLen(r) \in Nat /\ RecLen(r) > 0 /\ Len(r.data) \in Nat /\ r.data \in Seq(Cell)
      /\ 5 + Nonce \in Nat /\ 5 + Nonce + Len(r.data) \in Nat
  BY DEF RecLen, Record
<1>7. RecvRecBytes(e, r, n) = IF f.ixa < 5 THEN f
                              ELSE IF f.ixa = 5 THEN RecvHeader(f, r)
                              ELSE IF f.ixc # 0 THEN f
                              ELSE Decrypt(f, r)
  BY DEF RecvRecBytes
<1> HIDE DEF f
<1>8. CASE f.ixa < 5
  <2>1. InRegisters(f) /\ ~Body(f) /\ e.ixa < 5
    BY <1>1, <1>2, <1>4, <1>8 DEF InRegisters, Body
  <2>2. QED  BY <1>1, <1>3, <1>5, <1>7, <1>8, <2>1 DEF Good, BodyOf
<1>9. CASE f.ixa = 5
  <2> DEFINE g == [f EXCEPT !.tin = r.type, !.ixa = 5, !.ixb = 5, !.ixc = RecLen(r)]
  <2>1. e.ixa < 5
    BY <1>1, <1>4, <1>9
  <2>2. CASE RecLen(r) > ILen - 5
    <3>1. RecvRecBytes(e, r, n) = Fail(f, "ERROR")
      BY <1>7, <1>9, <2>2 DEF RecvHeader
    <3>2. Fail(f, "ERROR") = [f EXCEPT !.iomode = "FAILED", !.err = "ERROR"]
      BY <1>5 DEF Fail
    <3>3. Fail(f, "ERROR") \in Engine
      BY Zenon, <1>3, <3>2 DEF Engine
    <3>4. Closed(Fail(f, "ERROR")) /\ OutRegisters(Fail(f, "ERROR"))
      BY <1>3, <1>5, <3>2 DEF Engine, Closed, OutRegisters
    <3>5. QED  BY <2>1, <3>1, <3>3, <3>4, <1>1 DEF Good, BodyOf, Body
  <2>3. CASE RecLen(r) <= ILen - 5
    <3>1. RecvRecBytes(e, r, n) = g
      BY <1>6, <1>7, <1>9, <2>3 DEF RecvHeader
    <3>2. g \in Engine
      <4>1. r.type \in InType /\ 5 \in Nat
        BY DEF Record
      <4>2. QED  BY Zenon, <1>3, <1>6, <4>1 DEF Engine
    <3>3. g.ixa = 5 /\ g.ixb = 5 /\ g.ixc = RecLen(r) /\ SameRoom(g, f)
      BY <1>3 DEF Engine, SameRoom
    <3> HIDE DEF g
    <3>4. InRegisters(g) /\ OutRegisters(g) /\ BodyOf(g, r)
      BY <1>5, <1>6, <2>3, <3>3 DEF InRegisters, OutRegisters, SameRoom, BodyOf
    <3>5. QED  BY <1>1, <2>1, <3>1, <3>2, <3>4 DEF Good
  <2>4. QED  BY <1>6, <2>2, <2>3
<1>10. CASE f.ixa > 5
  <2>1. /\ 5 <= e.ixa /\ 0 < e.ixc /\ e.ixa + e.ixc <= ILen
        /\ r.type # "forged" => e.ixa + e.ixc = 5 + RecLen(r)
    BY <1>1, <1>2, <1>4, <1>10 DEF BodyOf, Body
  <2>2. CASE f.ixc # 0
    <3>1. InRegisters(f) /\ BodyOf(f, r) /\ n # e.ixc
      BY <1>1, <1>4, <1>6, <2>1, <2>2 DEF InRegisters, BodyOf
    <3>2. QED  BY <1>1, <1>3, <1>4, <1>5, <1>7, <1>10, <2>2, <3>1 DEF Good
  <2>3. CASE f.ixc = 0
    <3>1. RecvRecBytes(e, r, n) = Decrypt(f, r)
      BY <1>1, <1>4, <1>7, <1>10, <2>3
    <3>2. CASE r.type = "forged"
      <4>1. Fail(f, "ERROR") = [f EXCEPT !.iomode = "FAILED", !.err = "ERROR"]
        BY <1>5 DEF Fail
      <4>2. Fail(f, "ERROR") \in Engine
        BY Zenon, <1>3, <4>1 DEF Engine
      <4>3. Closed(Fail(f, "ERROR")) /\ OutRegisters(Fail(f, "ERROR"))
        BY <1>3, <1>5, <4>1 DEF Engine, Closed, OutRegisters
      <4>4. QED  BY <3>1, <3>2, <4>2, <4>3 DEF Decrypt, Good, BodyOf, Body
    <3>3. CASE r.type # "forged" /\ r.data = <<>>
      BY <1>3, <1>5, <3>1, <3>3, MakeReadyInGood DEF Decrypt, BodyOf
    <3>4. CASE r.type # "forged" /\ r.data # <<>>
      <4> DEFINE g == [f EXCEPT !.ixa = 5 + Nonce, !.ixb = 5 + Nonce + Len(r.data),
                                !.plain = r.data]
      <4>1. RecvRecBytes(e, r, n) = g
        BY <3>1, <3>4 DEF Decrypt
      <4>2. g \in Engine
        BY Zenon, <1>3, <1>6 DEF Engine
      <4>3. /\ g.ixa = 5 + Nonce /\ g.ixb = 5 + Nonce + Len(r.data) /\ g.plain = r.data
            /\ g.ixc = 0 /\ SameRoom(g, f)
        BY <1>3, <2>3 DEF Engine, SameRoom
      <4> HIDE DEF g
      <4>4. Len(r.data) > 0
        BY <1>6, <3>4, EmptySeq
      <4>5. RecLen(r) <= ILen - 5 /\ RecLen(r) = Nonce + Len(r.data) + Tag
        BY <1>1, <1>6, <2>1, <3>4 DEF RecLen
      <4>6. InRegisters(g) /\ OutRegisters(g) /\ ~Body(g)
        <5>1. 5 <= g.ixa
          BY <4>3
        <5> DEFINE d == Len(r.data)
        <5>2. /\ d \in Nat /\ d > 0 /\ Nonce + d + Tag <= ILen - 5
              /\ g.ixa = 5 + Nonce /\ g.ixb = 5 + Nonce + d
          BY <1>6, <4>3, <4>4, <4>5
        <5> HIDE DEF d
        <5>3. g.ixa < g.ixb
          BY <5>2
        <5>4. g.ixb <= ILen
          BY <5>2
        <5>5. Len(g.plain) = g.ixb - g.ixa
          BY <1>6, <4>3
        <5>6. InRegisters(g)
          BY <4>3, <5>1, <5>3, <5>4, <5>5 DEF InRegisters
        <5>7. OutRegisters(g)
          BY <1>5, <4>3 DEF OutRegisters, SameRoom
        <5>8. ~Body(g)
          BY <4>3 DEF Body
        <5>9. QED  BY <5>6, <5>7, <5>8
      <4>7. QED  BY <4>1, <4>2, <4>6 DEF Good, BodyOf
    <3>5. QED  BY <3>2, <3>3, <3>4
  <2>4. QED  BY <2>2, <2>3
<1>11. QED  BY <1>1, <1>4, <1>8, <1>9, <1>10

LEMMA RecvRecAckGood ==
    ASSUME NEW e, Good(e), NEW r \in Record, BodyOf(e, r),
           NEW n \in Nat \ {0}, n <= RecvRecLen(e)
    PROVE  /\ Good(RecvRecAck(e, r, n)) /\ BodyOf(RecvRecAck(e, r, n), r)
           /\ 5 <= e.ixa /\ n = e.ixc => ~Body(RecvRecAck(e, r, n))
<1> DEFINE f == RecvRecBytes(e, r, n)
           g == RecvRecAck(e, r, n)
<1>1. Good(f) /\ BodyOf(f, r) /\ (5 <= e.ixa /\ n = e.ixc => ~Body(f))
  BY RecvRecBytesGood
<1>2. Good(JumpHandshake(f)) /\ Keeps(JumpHandshake(f), f)
  BY <1>1, JumpHandshakeGood
<1>3. Good(Fail(f, "ERROR")) /\ ~Body(Fail(f, "ERROR"))
  BY <1>1, FailGood
<1>4. g = f \/ g = JumpHandshake(f) \/ g = Fail(f, "ERROR")
  BY DEF RecvRecAck
<1> HIDE DEF f, g
<1>5. Good(g) /\ Keeps(g, f)
  BY <1>1, <1>2, <1>3, <1>4 DEF Keeps
<1>6. QED  BY <1>1, <1>5 DEF Keeps, BodyOf, f, g

LEMMA SendRecAckGood ==
    ASSUME NEW e, Good(e), NEW n \in Nat \ {0}, n <= SendRecLen(e)
    PROVE  Good(SendRecAck(e, n)) /\ Keeps(SendRecAck(e, n), e)
<1> DEFINE f == SendRecBytes(e, n)
<1>1. Good(f) /\ Keeps(f, e)
  BY SendRecBytesGood, SameInKeeps
<1>2. Good(JumpHandshake(f)) /\ Keeps(JumpHandshake(f), f)
  BY <1>1, JumpHandshakeGood
<1>3. SendRecAck(e, n) = f \/ SendRecAck(e, n) = JumpHandshake(f)
  BY DEF SendRecAck
<1>4. QED  BY <1>1, <1>2, <1>3 DEF Keeps

LEMMA FlushGood ==
    ASSUME NEW e, Good(e)
    PROVE  Good(Flush(e)) /\ Keeps(Flush(e), e)
BY SendPldFlushGood, SameInKeeps DEF Flush, Keeps

LEMMA ReadyGood == Good(Ready) /\ ~Body(Ready)
<1> DEFINE z == [iomode |-> "INOUT", err |-> "OK", ixa |-> 0, ixb |-> 0, ixc |-> 0,
                 tin |-> "app", plain |-> <<>>, oxa |-> 0, oxb |-> 0, oxc |-> 0,
                 tout |-> "app", obuf |-> [i \in 0 .. OLen - 1 |-> 0], sealed |-> NoRecord,
                 app |-> 1, shut |-> FALSE, hs |-> "main"]
           m == MakeReadyIn(z)
<1>1. z \in Engine
  <2>1. /\ [i \in 0 .. OLen - 1 |-> 0] \in [0 .. OLen - 1 -> Cell]
        /\ <<>> \in Seq(Cell) /\ NoRecord \in [type : OutType, data : Seq(Cell)]
        /\ 0 \in Nat /\ "app" \in InType /\ "app" \in OutType
    BY DEF Cell, NoRecord, OutType, InType
  <2>2. QED  BY Zenon, <2>1 DEF Engine
<1> HIDE DEF z
<1>2. m \in Engine
  BY Zenon, <1>1, 0 \in Nat, 5 \in Nat DEF Engine, MakeReadyIn
<1>3. m.ixa = 0 /\ m.ixb = 0 /\ m.ixc = 5
  BY <1>1 DEF Engine, MakeReadyIn
<1>4. Ready = MakeReadyOut(m)
  BY DEF Ready, z
<1> HIDE DEF m
<1>5. Ready \in Engine /\ OutRegisters(Ready) /\ SameIn(Ready, m)
  BY <1>2, <1>4, MakeReadyOutGood
<1>6. InRegisters(Ready) /\ ~Body(Ready)
  BY <1>3, <1>5 DEF SameIn, InRegisters, Body
<1>7. QED  BY <1>5, <1>6 DEF Good

-----------------------------------------------------------------------------
(* The client.                                                             *)

\* An operation is under way only while the connection is open.
CalledWhileOpen == op # "idle" => open

\* The body that the engine is receiving is that of the first record, unless
\* bytes have been dropped.
ReceivesHead ==
    open /\ ~gap /\ Body(eng) => inbox # <<>> /\ BodyOf(eng, Head(inbox))

\* No record behind a gap passes its check.
SpoiltBehindGap == gap => \A k \in DOMAIN inbox : inbox[k].type = "forged"

\* A step keeps what the peer has sent, or drops some and spoils the rest.
KeepsOrSpoils ==
    \/ inbox' = inbox /\ gap' = gap
    \/ gap' = TRUE /\ \A k \in DOMAIN inbox' : inbox'[k].type = "forged"

\* A session has its socket for itself; on one that has carried nothing yet
\* no byte is pending.
HasItsSocket == (open => sock = "used") /\ (sock = "fresh" => writeIdx = 0)

\* TypeOK without the engine.
Typed ==
    /\ open \in BOOLEAN /\ writeError \in BOOLEAN
    /\ sock \in {"down", "fresh", "used"} /\ gap \in BOOLEAN
    /\ op \in Calls /\ left \in Nat /\ writeIdx \in Nat
    /\ inbox \in Seq(Record) /\ records \in 0 .. MaxRecords
    /\ given \in Nat /\ put \in Nat /\ sent \in Seq(Cell) /\ notified \in BOOLEAN
    /\ got \in Seq(Cell)

ClientInv ==
    /\ Good(eng) /\ Typed /\ PendingHasRoom /\ CalledWhileOpen
    /\ ReceivesHead /\ SpoiltBehindGap /\ HasItsSocket

LEMMA TypeOKIsTyped == TypeOK <=> Good(eng) /\ Typed
BY DEF TypeOK, Good, Typed, Record

\* A closed engine has nothing pending, and takes nothing.
LEMMA PendingNotClosed ==
    ASSUME ClientInv, open, writeIdx > 0
    PROVE  ~Closed(eng) /\ SendRecLen(eng) = 0 /\ SendAppLen(eng) > writeIdx
BY DEF ClientInv, PendingHasRoom, SendAppLen, SendPldLen, Typed

\* What every step that ends the connection comes to.
LEMMA StoppedInv ==
    ASSUME ClientInv, Stopped, op' = "idle", left' \in Nat, writeError' \in BOOLEAN
    PROVE  ClientInv'
<1>1. Good(eng') /\ ~Body(eng')
  BY ReadyGood DEF Stopped
<1>2. Typed'
  <2>1. inbox' \in Seq(Record) /\ open' = FALSE /\ sock' = "down" /\ gap' = FALSE
    BY DEF Stopped, TcpCloses
  <2>2. /\ writeIdx' = writeIdx /\ records' = records /\ given' = given /\ put' = put
        /\ sent' = sent /\ notified' = notified /\ got' = got
    BY DEF Stopped, peerVars, histVars
  <2>3. QED  BY <2>1, <2>2 DEF ClientInv, Typed, Calls
<1>3. PendingHasRoom' /\ CalledWhileOpen' /\ ReceivesHead' /\ SpoiltBehindGap' /\ HasItsSocket'
  BY DEF Stopped, TcpCloses, PendingHasRoom, CalledWhileOpen, ReceivesHead, SpoiltBehindGap,
     HasItsSocket
<1>4. QED  BY <1>1, <1>2, <1>3 DEF ClientInv, Good, Closed, InRegisters, OutRegisters

\* ... and every step of the engine while nothing is pending.
LEMMA EngineInv ==
    ASSUME ClientInv, Typed', Good(eng'), Keeps(eng', eng), writeIdx = 0, writeIdx' = 0,
           open' = open, op' = "idle" \/ op' = op, sock' = sock, KeepsOrSpoils
    PROVE  ClientInv'
<1>1. PendingHasRoom' /\ CalledWhileOpen' /\ HasItsSocket'
  BY DEF ClientInv, PendingHasRoom, CalledWhileOpen, HasItsSocket
<1>2. ReceivesHead' /\ SpoiltBehindGap'
  BY DEF ClientInv, ReceivesHead, BodyOf, SpoiltBehindGap, KeepsOrSpoils, Keeps, Body, Closed
<1>3. QED  BY <1>1, <1>2 DEF ClientInv, Good, Closed, InRegisters, OutRegisters

\* What a flush of the TCP client leaves.
LEMMA FlushLeaves ==
    ASSUME inbox \in Seq(Record), gap \in BOOLEAN, TcpFlushes
    PROVE  inbox' \in Seq(Record) /\ gap' \in BOOLEAN /\ KeepsOrSpoils
<1>1. CASE inbox' = inbox /\ gap' = gap
  BY <1>1 DEF KeepsOrSpoils
<1>2. ASSUME NEW k \in 0 .. Len(inbox), gap' = TRUE,
             inbox' = Spoilt(SubSeq(inbox, k + 1, Len(inbox)))
      PROVE  inbox' \in Seq(Record) /\ \A j \in DOMAIN inbox' : inbox'[j].type = "forged"
  <2> DEFINE q == SubSeq(inbox, k + 1, Len(inbox))
  <2>1. q \in Seq(Record)
    <3>1. k + 1 \in Nat /\ Len(inbox) \in Nat /\ k + 1 >= 1
      OBVIOUS
    <3>2. \A i \in (k + 1) .. Len(inbox) : inbox[i] \in Record
      <4>1. \A i \in (k + 1) .. Len(inbox) : i \in 1 .. Len(inbox)
        OBVIOUS
      <4>2. QED  BY <4>1
    <3>3. QED  BY <3>1, <3>2, SubSeqProperties
  <2>2. inbox' = [j \in DOMAIN q |-> [q[j] EXCEPT !.type = "forged"]]
    BY <1>2 DEF Spoilt
  <2> HIDE DEF q
  <2>3. \A j \in DOMAIN q : /\ [q[j] EXCEPT !.type = "forged"] \in Record
                            /\ [q[j] EXCEPT !.type = "forged"].type = "forged"
    <3>1. \A j \in DOMAIN q : q[j] \in Record
      BY <2>1
    <3>2. QED  BY <3>1 DEF Record, InType
  <2>4. Len(q) \in Nat /\ DOMAIN q = 1 .. Len(q)
    BY <2>1
  <2> DEFINE F(j) == [q[j] EXCEPT !.type = "forged"]
  <2>5. inbox' = [j \in 1 .. Len(q) |-> F(j)] /\ \A j \in 1 .. Len(q) : F(j) \in Record
    BY <2>2, <2>3, <2>4
  <2>6. \A j \in 1 .. Len(q) : F(j).type = "forged"
    BY <2>3, <2>4
  <2> HIDE DEF F
  <2>7. inbox' \in Seq(Record) /\ DOMAIN inbox' = 1 .. Len(q)
    BY <2>4, <2>5
  <2>8. QED  BY <2>5, <2>6, <2>7
<1>3. QED  BY <1>1, <1>2 DEF TcpFlushes, KeepsOrSpoils

LEMMA InitInv == Init => ClientInv
<1> SUFFICES ASSUME Init PROVE ClientInv
  OBVIOUS
<1>1. Good(eng) /\ ~Body(eng)
  BY ReadyGood DEF Init
<1>2. Typed
  <2>1. /\ inbox \in Seq(Record) /\ sent \in Seq(Cell) /\ got \in Seq(Cell)
        /\ records \in 0 .. MaxRecords
    BY DEF Init
  <2>2. open \in BOOLEAN /\ writeError \in BOOLEAN /\ notified \in BOOLEAN /\ gap \in BOOLEAN
    BY Zenon DEF Init
  <2>3. left \in Nat /\ writeIdx \in Nat /\ given \in Nat /\ put \in Nat
    BY DEF Init
  <2>4. QED  BY <2>1, <2>2, <2>3 DEF Init, Typed, Calls
<1>3. QED
  BY <1>1, <1>2
  DEF Init, ClientInv, PendingHasRoom, CalledWhileOpen, ReceivesHead, SpoiltBehindGap, HasItsSocket

LEMMA CallerInv ==
    ASSUME ClientInv, Caller
    PROVE  ClientInv'
<1>1. CASE Connect
  <2>1. Good(eng') /\ ~Body(eng')
    BY <1>1, ReadyGood DEF Connect
  <2>2. writeIdx' = 0 /\ op' = "idle"
    BY <1>1 DEF Connect, ConnectsTcp, Up, callVars, ClientInv, Typed, HasItsSocket
  <2>3. Typed'
    <3>1. /\ inbox' \in Seq(Record) /\ sent' \in Seq(Cell) /\ got' \in Seq(Cell)
          /\ records' \in 0 .. MaxRecords
      BY <1>1 DEF Connect
    <3>2. /\ open' \in BOOLEAN /\ writeError' \in BOOLEAN /\ notified' \in BOOLEAN
          /\ gap' \in BOOLEAN
      BY <1>1, Zenon DEF Connect
    <3>3. given' \in Nat /\ put' \in Nat /\ sock' = "used" /\ left' = left /\ op' = op
      BY <1>1 DEF Connect, callVars
    <3>4. QED  BY <2>2, <3>1, <3>2, <3>3 DEF ClientInv, Typed
  <2>4. SpoiltBehindGap' /\ HasItsSocket'
    BY <1>1 DEF Connect, SpoiltBehindGap, HasItsSocket
  <2>5. QED
    BY <2>1, <2>2, <2>3, <2>4 DEF ClientInv, PendingHasRoom, CalledWhileOpen, ReceivesHead,
       Good, Closed, InRegisters, OutRegisters, Body
<1>2. CASE ConnectFails
  <2>1. /\ eng' = eng /\ open' = open /\ writeIdx' = writeIdx /\ UNCHANGED tcpVars
        /\ op' = op
    BY <1>2 DEF ConnectFails, callVars
  <2>2. Typed'
    BY <1>2 DEF ConnectFails, tcpVars, callVars, peerVars, histVars, ClientInv, Typed
  <2>3. QED
    BY <2>1, <2>2 DEF tcpVars, ClientInv, PendingHasRoom, CalledWhileOpen, ReceivesHead,
       SpoiltBehindGap, HasItsSocket, Good, Closed, InRegisters, OutRegisters, Body
<1>3. ASSUME NEW o \in Calls, NEW n \in Nat, Begins(o, n), open
      PROVE  ClientInv'
  <2>1. eng' = eng /\ open' = open /\ writeIdx' = writeIdx /\ UNCHANGED tcpVars
    BY <1>3 DEF Begins, connVars
  <2>2. Typed'
    BY <1>3 DEF Begins, connVars, tcpVars, peerVars, histVars, ClientInv, Typed
  <2>3. QED
    BY <1>3, <2>1, <2>2 DEF tcpVars, ClientInv, PendingHasRoom, CalledWhileOpen, ReceivesHead,
       SpoiltBehindGap, HasItsSocket, Good, Closed, InRegisters, OutRegisters, Body
<1>4. CASE Available
  BY <1>3, <1>4 DEF Available, SoftConnected, Calls
<1>5. CASE AvailableForWrite
  BY <1>3, <1>5 DEF AvailableForWrite, Calls
<1>6. CASE FlushCall
  BY <1>3, <1>6 DEF FlushCall, Calls
<1>7. ASSUME NEW n \in Sizes, Read(n)
      PROVE  ClientInv'
  BY <1>3, <1>7 DEF Read, SoftConnected, Calls
<1>8. ASSUME NEW n \in Sizes, Write(n)
      PROVE  ClientInv'
  BY <1>3, <1>8 DEF Write, SoftConnected, Calls
<1>9. CASE Stop
  <2>1. CASE ~Closed(eng) /\ writeIdx > 0
    <3>1. Good(eng) /\ RecvAppLen(eng) \in Nat /\ RecvAppLen(eng) <= RecvPldLen(eng)
      <4>1. /\ Good(eng) /\ eng.ixa \in Nat /\ eng.ixb \in Nat
            /\ Closed(eng) \/ eng.ixa <= eng.ixb
        BY EngineFields DEF ClientInv, Good, InRegisters
      <4>2. QED  BY <4>1 DEF RecvAppLen, RecvPldLen
    <3>2. Good(eng') /\ SameRoom(eng', eng) /\ Keeps(eng', eng)
      BY <1>9, <2>1, <3>1, RecvPldAckGood DEF Stop, SameRoom, Keeps
    <3>3. /\ open /\ open' = open /\ writeIdx' = writeIdx /\ UNCHANGED tcpVars /\ op' = "stop"
          /\ Typed'
      BY <1>9, <2>1 DEF Stop, tcpVars, peerVars, histVars, ClientInv, Typed, Calls
    <3>4. SendRecLen(eng') = 0 /\ SendAppLen(eng') > writeIdx
      BY <1>9, <2>1, <3>2, PendingNotClosed
      DEF Stop, SameRoom, SendRecLen, SendAppLen, SendPldLen, Closed
    <3>5. /\ PendingHasRoom' /\ CalledWhileOpen' /\ ReceivesHead'
          /\ SpoiltBehindGap' /\ HasItsSocket'
      BY <3>2, <3>3, <3>4
      DEF tcpVars, ClientInv, PendingHasRoom, CalledWhileOpen, ReceivesHead, BodyOf,
          SpoiltBehindGap, HasItsSocket, Keeps, Body, Closed, SendRecLen, SendAppLen, SendPldLen
    <3>6. QED
      BY <3>2, <3>3, <3>5 DEF ClientInv, Good, Closed, InRegisters, OutRegisters
  <2>2. CASE ~(~Closed(eng) /\ writeIdx > 0)
    BY <1>9, <2>2, StoppedInv DEF Stop, callVars, ClientInv, Typed
  <2>3. QED  BY <2>1, <2>2
<1>10. CASE HandshakeFails
  <2>1. Good(eng') /\ ~Body(eng')
    BY <1>10, ReadyGood DEF HandshakeFails
  <2>2. writeIdx' \in Nat /\ HasItsSocket'
    BY <1>10 DEF HandshakeFails, ConnectsTcp, Up, ClientInv, Typed, HasItsSocket
  <2>3. /\ open' = FALSE /\ inbox' = <<>> /\ gap' = FALSE /\ op' = "idle" /\ left' = left
        /\ writeError' \in BOOLEAN /\ sock' \in {"down", "fresh", "used"}
        /\ records' = records /\ given' = given /\ put' = put /\ sent' = sent
        /\ notified' = notified /\ got' = got
    BY <1>10 DEF HandshakeFails, callVars, peerVars, histVars, ClientInv, Typed
  <2>4. Typed'
    <3>1. inbox' \in Seq(Record)
      BY <2>3
    <3>2. QED  BY <2>2, <2>3, <3>1 DEF ClientInv, Typed, Calls
  <2>5. QED
    BY <2>1, <2>2, <2>3, <2>4 DEF ClientInv, PendingHasRoom, CalledWhileOpen, ReceivesHead,
       SpoiltBehindGap, Good, Closed, InRegisters, OutRegisters, Body
<1>11. QED
  BY <1>1, <1>2, <1>4, <1>5, <1>6, <1>7, <1>8, <1>9, <1>10 DEF Caller

\* While mUpdateEngine returns nothing is pending.
LEMMA UpdatedNothingPending ==
    ASSUME ClientInv, Updated
    PROVE  open /\ writeIdx = 0
<1>1. op # "idle" /\ open /\ writeIdx \in Nat
  BY DEF ClientInv, CalledWhileOpen, Updated, Typed
<1>2. QED  BY <1>1, PendingNotClosed DEF Updated

LEMMA UpdateInv ==
    ASSUME ClientInv, Update
    PROVE  ClientInv'
<1>0. Good(eng) /\ Typed /\ Keeps(eng, eng)
  BY DEF ClientInv, Keeps
<1>1. CASE AvailableEnds
  <2>1. writeIdx = 0
    BY <1>1, UpdatedNothingPending DEF AvailableEnds
  <2>2. Good(eng') /\ Keeps(eng', eng)
    BY <1>0, <1>1, FlushGood DEF AvailableEnds, AvailableFlushes
  <2>3. /\ Typed' /\ op' = "idle" /\ writeIdx' = writeIdx /\ open' = open /\ sock' = sock
        /\ inbox' = inbox /\ gap' = gap
    BY <1>0, <1>1 DEF AvailableEnds, Returns, tcpVars, peerVars, histVars, Typed, Calls
  <2>4. QED  BY <2>1, <2>2, <2>3, EngineInv DEF KeepsOrSpoils
<1>2. CASE ReadEnds
  <2> DEFINE n == Least(left, RecvAppLen(eng))
  <2>1. writeIdx = 0
    BY <1>2, UpdatedNothingPending DEF ReadEnds
  <2>2. RecvAppLen(eng) = RecvPldLen(eng) /\ RecvAppLen(eng) \in Nat
    BY <1>0, <1>2, EngineFields DEF ReadEnds, RecvAppLen, RecvPldLen, Good
  <2>3. n \in Nat /\ n <= RecvPldLen(eng)
    BY <1>0, <2>2 DEF Typed, Least
  <2>4. /\ got' = got \o SubSeq(eng.plain, 1, n) /\ eng' = RecvPldAck(eng, n)
        /\ op' = "idle" /\ left' = 0 /\ writeIdx' = writeIdx /\ open' = open
        /\ writeError' = writeError /\ sock' = sock /\ inbox' = inbox
        /\ gap' = gap /\ records' = records /\ given' = given /\ put' = put /\ sent' = sent
        /\ notified' = notified
    BY <1>2 DEF ReadEnds, Returns, tcpVars, peerVars
  <2> HIDE DEF n
  <2>5. Good(eng') /\ Keeps(eng', eng)
    BY <1>0, <2>3, <2>4, RecvPldAckGood DEF Keeps
  <2>6. got' \in Seq(Cell)
    <3>1. eng.plain \in Seq(Cell) /\ eng.ixa \in Nat /\ eng.ixb \in Nat
      BY <1>0, EngineFields DEF Good
    <3>2. Len(eng.plain) = RecvPldLen(eng)
      <4>1. ~Closed(eng) /\ InRegisters(eng) /\ eng.ixb - eng.ixa > 0
        BY <1>0, <1>2, <2>2, <3>1 DEF ReadEnds, RecvPldLen, Good
      <4>2. QED  BY <3>1, <4>1 DEF InRegisters, RecvPldLen
    <3>3. \A i \in 1 .. n : eng.plain[i] \in Cell
      BY <2>2, <2>3, <3>1, <3>2
    <3>4. SubSeq(eng.plain, 1, n) \in Seq(Cell)
      BY <2>3, <3>3, SubSeqProperties
    <3>5. QED  BY <1>0, <2>4, <3>4 DEF Typed
  <2>7. Typed'
    BY <1>0, <2>4, <2>6 DEF Typed, Calls
  <2>8. QED  BY <2>1, <2>4, <2>5, <2>7, EngineInv DEF KeepsOrSpoils
<1>3. CASE UntilClosed
  <2>1. CASE op = "stop"
    BY <1>0, <1>3, <2>1, StoppedInv DEF UntilClosed, Returns, Typed
  <2>2. CASE op # "stop"
    <3>1. /\ writeIdx = 0 /\ eng' = eng /\ op' = "idle" /\ writeIdx' = writeIdx
          /\ open' = open /\ sock' = sock /\ inbox' = inbox /\ gap' = gap
      BY <1>3, <2>2, UpdatedNothingPending DEF UntilClosed, Returns, tcpVars
    <3>2. Typed'
      BY <1>0, <1>3, <2>2 DEF UntilClosed, Returns, tcpVars, peerVars, histVars, Typed, Calls
    <3>3. Good(eng') /\ Keeps(eng', eng)
      BY <1>0, <3>1
    <3>4. QED  BY <3>1, <3>2, <3>3, EngineInv DEF KeepsOrSpoils
  <2>3. QED  BY <2>1, <2>2
<1>4. CASE UntilReceived
  <2>1. CASE op = "stop"
    BY <1>0, <1>4, <2>1, StoppedInv DEF UntilReceived, Returns, Typed
  <2>2. CASE op # "stop"
    <3>1. /\ writeIdx = 0 /\ eng' = eng /\ op' = "idle" /\ writeIdx' = writeIdx
          /\ open' = open /\ sock' = sock /\ inbox' = inbox /\ gap' = gap
      BY <1>4, <2>2, UpdatedNothingPending DEF UntilReceived, Returns, tcpVars
    <3>2. Typed'
      BY <1>0, <1>4, <2>2 DEF UntilReceived, Returns, tcpVars, peerVars, histVars, Typed, Calls
    <3>3. Good(eng') /\ Keeps(eng', eng)
      BY <1>0, <3>1
    <3>4. QED  BY <3>1, <3>2, <3>3, EngineInv DEF KeepsOrSpoils
  <2>3. QED  BY <2>1, <2>2
<1>5. ASSUME Updated, Returns, UNCHANGED <<connVars, tcpVars, peerVars, histVars>>
      PROVE  ClientInv'
  <2>1. /\ writeIdx = 0 /\ eng' = eng /\ op' = "idle" /\ writeIdx' = writeIdx
        /\ open' = open /\ sock' = sock /\ inbox' = inbox /\ gap' = gap
    BY <1>5, UpdatedNothingPending DEF Returns, connVars, tcpVars
  <2>2. Typed'
    BY <1>0, <1>5 DEF Returns, connVars, tcpVars, peerVars, histVars, Typed, Calls
  <2>3. Good(eng') /\ Keeps(eng', eng)
    BY <1>0, <2>1
  <2>4. QED  BY <2>1, <2>2, <2>3, EngineInv DEF KeepsOrSpoils
<1>6. CASE UntilRoom
  BY <1>5, <1>6 DEF UntilRoom
<1>7. CASE WriteEnds
  BY <1>5, <1>7 DEF WriteEnds
<1>8. CASE Copies
  <2> DEFINE room == SendAppLen(eng)
             n    == Least(left, room)
             buf  == Written(eng.obuf, eng.oxa, Numbers(put, n))
             e    == [eng EXCEPT !.obuf = buf]
  <2>1. open /\ writeIdx = 0
    BY <1>8, UpdatedNothingPending DEF Copies
  <2>2. /\ eng \in Engine /\ eng.oxa \in Nat /\ eng.oxb \in Nat
        /\ eng.obuf \in [0 .. OLen - 1 -> Cell] /\ eng.iomode \in {"INOUT", "FAILED"}
    BY <1>0, EngineFields DEF Good
  <2>3. room > 0 /\ room = SendPldLen(eng) /\ room \in Int
    BY <1>8, <2>2 DEF Copies, SendAppLen, SendPldLen
  <2>4. n \in Nat \ {0} /\ n <= room /\ n <= left
    <3>1. left \in Nat /\ left > 0
      BY <1>0, <1>8 DEF Copies, Typed
    <3> HIDE DEF room
    <3>2. QED  BY <2>3, <3>1 DEF Least
  <2>5. /\ put' = put + n
        /\ IF n = room
           THEN eng' = SendPldAck(e, n) /\ left' = left - n /\ writeIdx' = writeIdx /\ op' = op
           ELSE eng' = e /\ writeIdx' = n /\ op' = "idle" /\ left' = 0
        /\ open' = open /\ writeError' = writeError /\ sock' = sock /\ inbox' = inbox
        /\ gap' = gap /\ records' = records /\ given' = given /\ sent' = sent
        /\ notified' = notified /\ got' = got
    BY <1>8 DEF Copies, Returns, tcpVars, peerVars
  <2>6. buf \in [0 .. OLen - 1 -> Cell]
    <3>1. Numbers(put, n) \in Seq(Cell)
      <4>1. put \in Nat /\ n \in Nat
        BY <1>0, <2>4 DEF Typed
      <4> HIDE DEF n
      <4>2. QED  BY <4>1 DEF Numbers, Cell
    <3>2. QED  BY <2>2, <3>1, WrittenCells
  <2> HIDE DEF buf, n, room
  <2>7. e \in Engine
    BY Zenon, <2>2, <2>6 DEF Engine
  <2>8. SameRoom(e, eng) /\ SameIn(e, eng)
    BY <2>2 DEF Engine, SameRoom, SameIn
  <2> HIDE DEF e
  <2>9. Good(e) /\ Keeps(e, eng) /\ SendPldLen(e) = room /\ SendAppLen(e) = room
    <3>1. OutRegisters(e)
      BY <1>0, <2>8 DEF Good, OutRegisters, SameRoom
    <3>2. SendPldLen(e) = SendPldLen(eng) /\ SendAppLen(e) = SendAppLen(eng)
      BY <2>8 DEF SameRoom, SendPldLen, SendAppLen, Closed
    <3>3. QED  BY <1>0, <2>3, <2>7, <2>8, <3>1, <3>2, SameInGood DEF room
  <2>10. CASE n = room
    <3>1. Good(eng') /\ Keeps(eng', eng)
      BY <2>4, <2>5, <2>9, <2>10, SendPldAckGood, SameInKeeps DEF Keeps
    <3>2. Typed'
      BY <1>0, <2>4, <2>5, <2>10 DEF Typed
    <3>3. QED  BY <2>1, <2>5, <2>10, <3>1, <3>2, EngineInv DEF KeepsOrSpoils
  <2>11. CASE n # room
    <3>1. Good(eng') /\ Keeps(eng', eng) /\ writeIdx' = n /\ op' = "idle"
      BY <2>5, <2>9, <2>11
    <3>2. Typed'
      BY <1>0, <2>4, <2>5, <2>11 DEF Typed, Calls
    <3>3. SendAppLen(eng') > n
      BY <2>3, <2>4, <2>5, <2>9, <2>11
    <3>4. SendRecLen(eng') = 0
      <4>1. SendRecLen(eng) = 0
        BY <1>8, <2>2, <2>3 DEF Copies, Updated, SendAppLen, SendPldLen, room
      <4>2. QED  BY <2>5, <2>8, <2>11, <4>1 DEF SameRoom, SendRecLen, Closed
    <3>5. /\ PendingHasRoom' /\ CalledWhileOpen' /\ ReceivesHead'
          /\ SpoiltBehindGap' /\ HasItsSocket'
      BY <2>1, <2>5, <3>1, <3>3, <3>4
      DEF ClientInv, PendingHasRoom, CalledWhileOpen, ReceivesHead, BodyOf, SpoiltBehindGap,
          HasItsSocket, Keeps, Body, Closed, SendRecLen, SendAppLen, SendPldLen
    <3>6. QED
      BY <3>1, <3>2, <3>5 DEF ClientInv, Good, Closed, InRegisters, OutRegisters
  <2>12. QED  BY <2>10, <2>11
<1>9. CASE UntilFlushes
  <2>1. writeIdx = 0
    BY <1>9, UpdatedNothingPending DEF UntilFlushes
  <2>2. Good(eng') /\ Keeps(eng', eng)
    BY <1>0, <1>9, FlushGood DEF UntilFlushes
  <2>3. /\ Typed' /\ op' = op /\ writeIdx' = writeIdx /\ open' = open /\ sock' = sock
        /\ inbox' = inbox /\ gap' = gap
    BY <1>0, <1>9 DEF UntilFlushes, tcpVars, callVars, peerVars, histVars, Typed
  <2>4. QED  BY <2>1, <2>2, <2>3, EngineInv DEF KeepsOrSpoils
<1>10. CASE HandsOver
  <2>1. /\ writeIdx \in Nat \ {0} /\ writeIdx <= SendPldLen(eng)
    BY <1>0, <1>10 DEF HandsOver, Typed, SendAppLen
  <2>2. Good(eng') /\ Keeps(eng', eng)
    BY <1>0, <1>10, <2>1, SendPldAckGood, SameInKeeps DEF HandsOver
  <2>3. /\ Typed' /\ op' = op /\ writeIdx' = 0 /\ open' = open /\ sock' = sock
        /\ inbox' = inbox /\ gap' = gap
    BY <1>0, <1>10 DEF HandsOver, IndexReset, tcpVars, callVars, peerVars, histVars, Typed
  <2>4. PendingHasRoom' /\ CalledWhileOpen' /\ HasItsSocket'
    BY <2>3 DEF ClientInv, PendingHasRoom, CalledWhileOpen, HasItsSocket
  <2>5. ReceivesHead' /\ SpoiltBehindGap'
    BY <2>2, <2>3 DEF ClientInv, ReceivesHead, BodyOf, SpoiltBehindGap, Keeps, Body, Closed
  <2>6. QED
    BY <2>2, <2>3, <2>4, <2>5 DEF ClientInv, Good, Closed, InRegisters, OutRegisters
<1>11. ASSUME NEW n \in 1 .. SendRecLen(eng), SendsRecord(n)
       PROVE  ClientInv'
  <2>1. n \in Nat \ {0} /\ n <= SendRecLen(eng) /\ SendRecLen(eng) # 0
    BY <1>0, EngineFields DEF Good, SendRecLen
  <2>2. open /\ writeIdx = 0
    <3>1. open /\ writeIdx \in Nat
      BY <1>0, <1>11 DEF SendsRecord, ClientInv, CalledWhileOpen, Typed
    <3>2. QED  BY <2>1, <3>1, PendingNotClosed
  <2>3. Good(eng') /\ Keeps(eng', eng)
    BY <1>0, <1>11, <2>1, SendRecAckGood DEF SendsRecord
  <2>4. sent' \in Seq(Cell) /\ notified' \in BOOLEAN
    <3>1. eng.sealed.data \in Seq(Cell)
      BY <1>0, EngineFields DEF Good
    <3>2. sent \o eng.sealed.data \in Seq(Cell)
      BY <1>0, <3>1 DEF Typed
    <3>3. sent' \in Seq(Cell)
      BY <1>0, <1>11, <3>2 DEF SendsRecord, Typed
    <3>4. notified' \in BOOLEAN
      BY <1>0, <1>11 DEF SendsRecord, Typed
    <3>5. QED  BY <3>3, <3>4
  <2>5. inbox' \in Seq(Record) /\ gap' \in BOOLEAN /\ KeepsOrSpoils
    BY <1>0, <1>11, FlushLeaves DEF SendsRecord, Typed
  <2>6. Typed' /\ op' = op /\ writeIdx' = writeIdx /\ open' = open /\ sock' = sock
    BY <1>0, <1>11, <2>4, <2>5 DEF SendsRecord, callVars, peerVars, Typed
  <2>7. QED  BY <2>2, <2>3, <2>5, <2>6, EngineInv
<1>12. CASE SendFails
  <2>1. Stopped /\ op' = "idle" /\ left' \in Nat /\ writeError' \in BOOLEAN
    BY <1>0, <1>12 DEF SendFails, Typed
  <2>2. QED  BY <2>1, StoppedInv
<1>13. QED
  BY <1>1, <1>2, <1>3, <1>4, <1>6, <1>7, <1>8, <1>9, <1>10, <1>11, <1>12 DEF Update

\* ReceivesHead and SpoiltBehindGap as far as the record goes.
LEMMA HeadIsBody ==
    ASSUME ClientInv, open, inbox # <<>>
    PROVE  BodyOf(eng, Head(inbox)) /\ Head(inbox) \in Record
<1>1. inbox \in Seq(Record) /\ Head(inbox) = inbox[1] /\ 1 \in DOMAIN inbox
  BY EmptySeq DEF ClientInv, Typed
<1>2. gap => Head(inbox).type = "forged"
  BY <1>1 DEF ClientInv, SpoiltBehindGap
<1>3. QED  BY <1>1, <1>2, HeadTailProperties DEF ClientInv, Typed, ReceivesHead, BodyOf

\* ... and every step that gives up.
LEMMA GivesUpInv ==
    ASSUME ClientInv, GivesUp
    PROVE  ClientInv'
<1>1. Stopped /\ op' = "idle" /\ left' \in Nat /\ writeError' \in BOOLEAN
  BY DEF GivesUp
<1>2. QED  BY <1>1, StoppedInv

LEMMA ArrivalInv ==
    ASSUME ClientInv, Arrival
    PROVE  ClientInv'
<1>0. Good(eng) /\ Typed
  BY DEF ClientInv
<1>1. CASE ReceiveFails
  BY <1>1, GivesUpInv DEF ReceiveFails
<1>2. ASSUME NEW n \in 1 .. RecvRecLen(eng), ReceivesRecord(n)
      PROVE  ClientInv'
  <2> DEFINE r == Head(inbox)
  <2>1. n \in Nat \ {0} /\ n <= RecvRecLen(eng)
    BY <1>0, EngineFields DEF Good, RecvRecLen, Least
  <2>2. /\ open /\ writeIdx = 0 /\ inbox # <<>> /\ eng' = RecvRecAck(eng, r, n)
        /\ inbox' = IF eng.ixa >= 5 /\ n = eng.ixc THEN Tail(inbox) ELSE inbox
        /\ open' = open /\ writeIdx' = writeIdx /\ writeError' = writeError /\ sock' = sock
        /\ gap' = gap /\ op' = op /\ left' = left /\ records' = records /\ given' = given
        /\ put' = put /\ sent' = sent /\ notified' = notified /\ got' = got
    BY <1>2
    DEF ReceivesRecord, ReadyToReceive, TcpReads, callVars, peerVars, histVars, ClientInv,
        CalledWhileOpen
  <2>3. BodyOf(eng, r) /\ r \in Record
    BY <2>2, HeadIsBody
  <2>4. inbox \in Seq(Record) /\ Tail(inbox) \in Seq(Record) /\ r = inbox[1]
        /\ Len(inbox) \in Nat /\ Len(Tail(inbox)) = Len(inbox) - 1
        /\ \A k \in 1 .. Len(Tail(inbox)) : Tail(inbox)[k] = inbox[k + 1]
    BY <1>0, <2>2, HeadTailProperties DEF Typed
  <2> HIDE DEF r
  <2>5. /\ Good(eng') /\ BodyOf(eng', r)
        /\ 5 <= eng.ixa /\ n = eng.ixc => ~Body(eng')
    BY <1>0, <2>1, <2>2, <2>3, RecvRecAckGood
  <2>6. eng.ixa \in Nat
    BY <1>0, EngineFields DEF Good
  <2>7. inbox' \in Seq(Record)
    BY <2>2, <2>4
  <2>8. Typed'
    BY <1>0, <2>2, <2>7 DEF Typed
  <2>9. PendingHasRoom' /\ CalledWhileOpen' /\ HasItsSocket'
    BY <2>2 DEF ClientInv, PendingHasRoom, CalledWhileOpen, HasItsSocket
  <2>10. SpoiltBehindGap'
    <3>1. SpoiltBehindGap
      BY DEF ClientInv
    <3>2. gap => \A k \in 1 .. Len(Tail(inbox)) : Tail(inbox)[k].type = "forged"
      <4>1. \A k \in 1 .. Len(Tail(inbox)) : k + 1 \in DOMAIN inbox
        BY <2>4
      <4>2. QED  BY <2>4, <3>1, <4>1 DEF SpoiltBehindGap
    <3>3. DOMAIN Tail(inbox) = 1 .. Len(Tail(inbox))
      BY <2>4
    <3>4. inbox' = inbox \/ inbox' = Tail(inbox)
      BY <2>2
    <3>5. QED  BY <2>2, <3>1, <3>2, <3>3, <3>4 DEF SpoiltBehindGap
  <2>11. ReceivesHead'
    <3>1. CASE 5 <= eng.ixa /\ n = eng.ixc
      BY <2>5, <3>1 DEF ReceivesHead, BodyOf, Body, Closed
    <3>2. CASE ~(5 <= eng.ixa /\ n = eng.ixc)
      <4>1. inbox' = inbox
        BY <2>2, <2>6, <3>2
      <4>2. QED
        BY <2>2, <2>5, <4>1 DEF ReceivesHead, BodyOf, Body, Closed, r
    <3>3. QED  BY <3>1, <3>2
  <2>12. QED
    BY <2>5, <2>8, <2>9, <2>10, <2>11 DEF ClientInv, Good, Closed, InRegisters, OutRegisters
<1>3. QED  BY <1>1, <1>2 DEF Arrival

LEMMA PeerInv ==
    ASSUME ClientInv, Peer
    PROVE  ClientInv'
<1>0. Good(eng) /\ Typed
  BY DEF ClientInv
<1>1. ASSUME NEW kind \in Kinds,
             NEW n \in IF kind = "app" THEN Data ELSE {Short[kind]}, PeerSends(kind, n)
      PROVE  ClientInv'
  <2> DEFINE s == [type |-> kind,
                   data |-> IF kind = "app" THEN Numbers(given, n) ELSE Others(n)]
             r == IF gap THEN [s EXCEPT !.type = "forged"] ELSE s
  <2>1. kind \in InType /\ n \in Nat /\ given \in Nat /\ inbox \in Seq(Record)
    BY <1>0 DEF Typed, Short
  <2>2. s \in Record
    <3>1. Numbers(given, n) \in Seq(Cell)
      BY <2>1 DEF Numbers, Cell
    <3>2. Others(n) \in Seq(Cell)
      BY <2>1, OthersCells
    <3>3. QED  BY <2>1, <3>1, <3>2 DEF Record
  <2>3. /\ inbox' = Append(inbox, r) /\ records' = records + 1 /\ records < MaxRecords
        /\ given' = IF kind = "app" THEN given + n ELSE given
        /\ eng' = eng /\ op' = op /\ left' = left /\ writeIdx' = writeIdx /\ open' = open
        /\ writeError' = writeError /\ sock' = sock /\ gap' = gap
        /\ put' = put /\ sent' = sent /\ notified' = notified /\ got' = got
    BY <1>1 DEF PeerSends, TcpCarries, connVars, callVars, histVars
  <2> HIDE DEF s
  <2>4. r \in Record /\ (~gap => r = s) /\ (gap => r.type = "forged")
    BY <2>2 DEF Record, InType
  <2> HIDE DEF r
  <2>5. /\ inbox' \in Seq(Record) /\ inbox' # <<>> /\ Len(inbox) \in Nat
        /\ inbox # <<>> => Head(inbox') = Head(inbox)
        /\ Len(inbox') = Len(inbox) + 1 /\ inbox'[Len(inbox) + 1] = r
        /\ \A k \in 1 .. Len(inbox) : inbox'[k] = inbox[k]
    BY <2>1, <2>3, <2>4, AppendProperties
  <2>6. given' \in Nat /\ records' \in 0 .. MaxRecords
    BY <1>0, <2>1, <2>3 DEF Typed
  <2>7. Typed'
    BY <1>0, <2>3, <2>5, <2>6 DEF Typed
  <2>8. PendingHasRoom' /\ CalledWhileOpen' /\ HasItsSocket'
    BY <2>3 DEF ClientInv, PendingHasRoom, CalledWhileOpen, HasItsSocket
  <2>9. ReceivesHead'
    BY <2>3, <2>5 DEF ClientInv, ReceivesHead, Body, Closed
  <2>10. SpoiltBehindGap'
    <3>1. SUFFICES ASSUME gap, NEW k \in DOMAIN inbox'
                   PROVE  inbox'[k].type = "forged"
      BY <2>3 DEF SpoiltBehindGap
    <3>2. k \in 1 .. Len(inbox) \/ k = Len(inbox) + 1
      BY <2>5
    <3>3. k \in 1 .. Len(inbox) => inbox[k].type = "forged"
      BY <2>1, <3>1 DEF ClientInv, SpoiltBehindGap
    <3>4. QED  BY <2>4, <2>5, <3>1, <3>2, <3>3
  <2>11. QED
    BY <1>0, <2>3, <2>7, <2>8, <2>9, <2>10 DEF ClientInv, Good, Closed, InRegisters, OutRegisters
<1>2. QED  BY <1>1 DEF Peer

LEMMA StepInv == ClientInv /\ [Next]_vars => ClientInv'
<1> SUFFICES ASSUME ClientInv, [Next]_vars
             PROVE  ClientInv'
  OBVIOUS
<1>1. CASE Next
  BY <1>1, CallerInv, UpdateInv, GivesUpInv, ArrivalInv, PeerInv DEF Next, UntilTimeout
<1>2. CASE UNCHANGED vars
  BY <1>2 DEF vars, connVars, tcpVars, callVars, peerVars, histVars, ClientInv, Typed,
     PendingHasRoom, CalledWhileOpen, ReceivesHead, SpoiltBehindGap, HasItsSocket, Good,
     Closed, InRegisters, OutRegisters, Body
<1>3. QED  BY <1>1, <1>2

\* The registers of the engine stay within its buffers, for buffers of every
\* size the library can set up, records of every length and every way in
\* which TCP cuts them.
THEOREM RegistersInBuffers == Spec => []TypeOK
<1>1. Init => ClientInv
  BY InitInv
<1>2. ClientInv /\ [Next]_vars => ClientInv'
  BY StepInv
<1>3. ClientInv => TypeOK
  BY TypeOKIsTyped DEF ClientInv
<1>4. QED  BY <1>1, <1>2, <1>3, PTL DEF Spec

\* In an established session mUpdateEngine never finds bytes of write() pending
\* that the engine has no room for, or that an outgoing record lies over: its
\* three error branches are not taken there, and stop() is not called from
\* within itself.  Only the handshake of a connect() over TCP that an earlier
\* one has left up can take them.
THEOREM NothingInTheWay == Spec => []PendingHasRoom
<1>1. Init => ClientInv
  BY InitInv
<1>2. ClientInv /\ [Next]_vars => ClientInv'
  BY StepInv
<1>3. ClientInv => PendingHasRoom
  BY DEF ClientInv
<1>4. QED  BY <1>1, <1>2, <1>3, PTL DEF Spec
=============================================================================
