--------------------------- MODULE SSLStreamProofs --------------------------
(***************************************************************************)
(* What write() is given goes out, and what the peer sends comes in, in    *)
(* order and with nothing added or left out from within, whatever the      *)
(* sizes of the buffers and of the records and however TCP cuts them or    *)
(* its flush() drops them.  SSLProofs has the same lemmas for the          *)
(* registers; here there is one for each operation about the bytes it      *)
(* moves.                                                                  *)
(***************************************************************************)
EXTENDS SSLProofs, StreamLemmas

USE EngineAssumption, ClientAssumption

-----------------------------------------------------------------------------
(* Numbers and cells.                                                      *)

LEMMA NumbersType ==
    ASSUME NEW a \in Nat, NEW n \in Nat
    PROVE  Numbers(a, n) \in Seq(Nat) /\ Len(Numbers(a, n)) = n
BY DEF Numbers

LEMMA NumbersConcat ==
    ASSUME NEW a \in Nat, NEW m \in Nat, NEW n \in Nat
    PROVE  Joined(Numbers(a, m), Numbers(a + m, n)) = Numbers(a, m + n)
<1> DEFINE s == Numbers(a, m)
           t == Numbers(a + m, n)
           u == Numbers(a, m + n)
<1>1. /\ s \in Seq(Nat) /\ Len(s) = m /\ t \in Seq(Nat) /\ Len(t) = n
      /\ u \in Seq(Nat) /\ Len(u) = m + n
  <2>1. a + m \in Nat /\ m + n \in Nat
    OBVIOUS
  <2> QED
    BY Zenon, <2>1, NumbersType
<1>2. /\ \A k \in 1 .. m : s[k] = a + k
      /\ \A k \in 1 .. n : t[k] = a + m + k
      /\ \A k \in 1 .. m + n : u[k] = a + k
  BY DEF Numbers
<1> HIDE DEF s, t, u
<1>3. /\ s \o t \in Seq(Nat) /\ Len(s \o t) = m + n
      /\ \A k \in 1 .. m + n : (s \o t)[k] = IF k <= m THEN s[k] ELSE t[k - m]
  BY <1>1, ConcatProperties
<1>4. \A k \in 1 .. m + n : (s \o t)[k] = u[k]
  <2> TAKE k \in 1 .. m + n
  <2>1. k > m => k - m \in 1 .. n
    OBVIOUS
  <2>2. IF k <= m THEN s[k] = a + k ELSE t[k - m] = a + k
    BY <1>2, <2>1
  <2> QED
    BY <1>2, <1>3, <2>2
<1>5. s \o t = u
  BY <1>1, <1>3, <1>4, SeqEqual
<1> QED
  BY <1>5 DEF s, t, u, Joined

\* What comes next in a stream.
LEMMA NumbersNext ==
    ASSUME NEW m \in Nat, NEW n \in Nat
    PROVE  Joined(Numbers(0, m), Numbers(m, n)) = Numbers(0, m + n)
<1>1. PICK z \in Nat : z = 0 /\ z + m = m
  OBVIOUS
<1>2. Joined(Numbers(z, m), Numbers(z + m, n)) = Numbers(z, m + n)
  BY <1>1, NumbersConcat
<1> QED
  BY <1>1, <1>2

LEMMA CellsEmpty ==
    ASSUME NEW buf, NEW a \in Nat
    PROVE  Cells(buf, a, a) = <<>>
BY DEF Cells

\* Cells next to each other.
LEMMA CellsConcat ==
    ASSUME NEW buf \in [0 .. OLen - 1 -> Cell], NEW a \in Nat, NEW b \in Nat, NEW c \in Nat,
           a <= b, b <= c, c <= OLen
    PROVE  Joined(Cells(buf, a, b), Cells(buf, b, c)) = Cells(buf, a, c)
<1> DEFINE s == Cells(buf, a, b)
           t == Cells(buf, b, c)
           u == Cells(buf, a, c)
<1>0. b <= OLen /\ a <= c
  OBVIOUS
<1>1. s \in Seq(Cell) /\ t \in Seq(Cell) /\ u \in Seq(Cell)
  BY <1>0, CellsCells
<1>2. /\ Len(s) = b - a /\ \A k \in 1 .. b - a : s[k] = buf[a + k - 1]
      /\ Len(t) = c - b /\ \A k \in 1 .. c - b : t[k] = buf[b + k - 1]
      /\ Len(u) = c - a /\ \A k \in 1 .. c - a : u[k] = buf[a + k - 1]
  <2>1. Len(s) = b - a /\ \A k \in 1 .. b - a : s[k] = buf[a + k - 1]
    BY DEF Cells
  <2>2. Len(t) = c - b /\ \A k \in 1 .. c - b : t[k] = buf[b + k - 1]
    BY DEF Cells
  <2>3. Len(u) = c - a /\ \A k \in 1 .. c - a : u[k] = buf[a + k - 1]
    BY <1>0 DEF Cells
  <2> QED
    BY <2>1, <2>2, <2>3
<1> HIDE DEF s, t, u
<1>3. /\ s \o t \in Seq(Cell) /\ Len(s \o t) = c - a
      /\ \A k \in 1 .. c - a : (s \o t)[k] = IF k <= b - a THEN s[k] ELSE t[k - (b - a)]
  <2>1. /\ s \o t \in Seq(Cell) /\ Len(s \o t) = Len(s) + Len(t)
        /\ \A k \in 1 .. Len(s) + Len(t) :
              (s \o t)[k] = IF k <= Len(s) THEN s[k] ELSE t[k - Len(s)]
    BY <1>1, ConcatProperties
  <2>2. (b - a) + (c - b) = c - a
    OBVIOUS
  <2> QED
    BY <1>2, <2>1, <2>2
<1>4. \A k \in 1 .. c - a : (s \o t)[k] = u[k]
  <2> TAKE k \in 1 .. c - a
  <2>1. k > b - a => t[k - (b - a)] = buf[a + k - 1]
    <3> DEFINE j == k - (b - a)
    <3>1. k > b - a => j \in 1 .. c - b /\ b + j - 1 = a + k - 1
      OBVIOUS
    <3> HIDE DEF j
    <3>2. k > b - a => t[j] = buf[b + j - 1]
      BY <1>2, <3>1
    <3>3. k > b - a => t[j] = buf[a + k - 1]
      BY <3>1, <3>2
    <3> QED
      BY <3>3 DEF j
  <2>2. k <= b - a => s[k] = buf[a + k - 1]
    <3>1. k <= b - a => k \in 1 .. b - a
      OBVIOUS
    <3> QED
      BY <1>2, <3>1
  <2> QED
    BY <1>2, <1>3, <2>1, <2>2
<1>5. s \o t = u
  BY <1>1, <1>2, <1>3, <1>4, SeqEqual
<1> QED
  BY <1>5 DEF s, t, u, Joined

\* What write() copies behind some cells leaves them, and is then there.
LEMMA CellsWritten ==
    ASSUME NEW buf \in [0 .. OLen - 1 -> Cell], NEW a \in Nat, NEW b \in Nat,
           NEW s \in Seq(Cell), NEW n \in Nat, n = Len(s), a <= b, b + n <= OLen
    PROVE  /\ Cells(Written(buf, b, s), a, b) = Cells(buf, a, b)
           /\ Cells(Written(buf, b, s), b, b + n) = s
<1> DEFINE w == Written(buf, b, s)
           t == Cells(w, b, b + n)
<1>1. \A i \in 0 .. OLen - 1 :
         w[i] = IF b <= i /\ i < b + n THEN s[i - b + 1] ELSE buf[i]
  BY DEF Written
<1>2. w \in [0 .. OLen - 1 -> Cell]
  BY WrittenCells
<1> HIDE DEF w
<1>3. \A k \in 1 .. b - a : w[a + k - 1] = buf[a + k - 1]
  <2> TAKE k \in 1 .. b - a
  <2>1. a + k - 1 \in 0 .. OLen - 1 /\ ~(b <= a + k - 1)
    OBVIOUS
  <2> QED
    BY <1>1, <2>1
<1>4. Cells(w, a, b) = Cells(buf, a, b)
  BY <1>3 DEF Cells
<1>5. t \in Seq(Cell)
  <2>1. b + n \in Nat /\ b <= b + n
    OBVIOUS
  <2> QED
    BY <1>2, <2>1, CellsCells
<1>6. Len(t) = n /\ \A k \in 1 .. n : t[k] = w[b + k - 1]
  <2> DEFINE c == b + n
  <2>1. c \in Nat /\ b <= c /\ c - b = n
    OBVIOUS
  <2> HIDE DEF c
  <2>2. /\ Len(Cells(w, b, c)) = c - b
        /\ \A k \in 1 .. c - b : Cells(w, b, c)[k] = w[b + k - 1]
    BY <2>1 DEF Cells
  <2> QED
    BY <2>1, <2>2 DEF c
<1>7. \A k \in 1 .. n : t[k] = s[k]
  <2> TAKE k \in 1 .. n
  <2> DEFINE i == b + k - 1
  <2>1. i \in 0 .. OLen - 1 /\ b <= i /\ i < b + n /\ i - b + 1 = k
    OBVIOUS
  <2> HIDE DEF i
  <2>2. w[i] = s[k]
    BY <1>1, <2>1
  <2> QED
    BY <1>6, <2>2 DEF i
<1> HIDE DEF t
<1>8. t = s
  BY <1>5, <1>6, <1>7, SeqEqual
<1> QED
  BY <1>4, <1>8 DEF t, w

-----------------------------------------------------------------------------
(* What the engine holds.                                                  *)

\* Of what write() has handed over: what is in the record that is being sent,
\* or in the one that is being gathered.
Outgoing(e) ==
    IF HasRecToSend(e) THEN IF e.sealed.type = "app" THEN e.sealed.data ELSE <<>>
    ELSE IF HasPldToSend(e) THEN Cells(e.obuf, e.oxc, e.oxa)
    ELSE <<>>

\* Of what the peer has sent: what read() can take.
UnreadIn(e) == IF RecvAppLen(e) > 0 THEN e.plain ELSE <<>>

\* Where the handshake processor waits, and what it has put into the context
\* before: application data goes out only while it is at "main", and nothing
\* is gathered behind a close_notify.
Waits(e) ==
    /\ e.app = 1 <=> e.hs = "main"
    /\ e.shut <=> e.hs \in {"close", "notified"}
    /\ e.tout # "app" => e.hs = "notified"
    /\ e.hs = "notified" => ~HasPldToSend(e)
    /\ HasRecToSend(e) => (e.sealed.type = "close" <=> e.hs = "notified")
    /\ RecvPldLen(e) > 0 /\ e.tin = "app" => e.app = 1

\* f, which came of e, has the same output buffer; is in the same state; has
\* left nothing of what a connection never leaves.
OutKept(f, e) ==
    /\ f.oxa = e.oxa /\ f.oxb = e.oxb /\ f.oxc = e.oxc
    /\ f.obuf = e.obuf /\ f.sealed = e.sealed /\ f.tout = e.tout
StateKept(f, e) == f.app = e.app /\ f.hs = e.hs /\ f.shut = e.shut
Stays(f, e) ==
    /\ Closed(e) => Closed(f)
    /\ e.shut => f.shut
    /\ e.hs = "notified" => f.hs = "notified"
    /\ f.tin = e.tin /\ (RecvPldLen(f) > 0 => RecvPldLen(e) > 0)

LEMMA OutKeptHolds ==
    ASSUME NEW e, NEW f, OutKept(f, e)
    PROVE  /\ Outgoing(f) = Outgoing(e)
           /\ HasPldToSend(f) <=> HasPldToSend(e)
           /\ HasRecToSend(f) <=> HasRecToSend(e)
BY DEF OutKept, Outgoing, HasPldToSend, HasRecToSend

LEMMA KeptWaits ==
    ASSUME NEW e, NEW f, Waits(e), OutKept(f, e), StateKept(f, e), f.tin = e.tin,
           RecvPldLen(f) > 0 => RecvPldLen(e) > 0
    PROVE  Waits(f)
<1>1. (HasPldToSend(f) <=> HasPldToSend(e)) /\ (HasRecToSend(f) <=> HasRecToSend(e))
  BY OutKeptHolds
<1> QED
  BY <1>1 DEF Waits, OutKept, StateKept

LEMMA SameInStays ==
    ASSUME NEW e, NEW f, SameIn(f, e), StateKept(f, e)
    PROVE  /\ Stays(f, e) /\ RecvPldLen(f) = RecvPldLen(e) /\ RecvAppLen(f) = RecvAppLen(e)
           /\ UnreadIn(f) = UnreadIn(e)
BY DEF SameIn, StateKept, Stays, RecvPldLen, RecvAppLen, UnreadIn, Closed

\* Whoever holds data of another kind has nothing for read().
LEMMA NothingUnread ==
    ASSUME NEW e, e.tin # "app" \/ RecvPldLen(e) = 0 \/ e.app # 1
    PROVE  UnreadIn(e) = <<>>
BY DEF UnreadIn, RecvAppLen

-----------------------------------------------------------------------------
(* The input buffer.                                                       *)

LEMMA MakeReadyInMoves ==
    ASSUME NEW e \in Engine
    PROVE  /\ OutKept(MakeReadyIn(e), e) /\ StateKept(MakeReadyIn(e), e)
           /\ MakeReadyIn(e).tin = e.tin /\ MakeReadyIn(e).iomode = e.iomode
           /\ RecvPldLen(MakeReadyIn(e)) = 0
<1> DEFINE f == MakeReadyIn(e)
<1>1. /\ OutKept(f, e) /\ StateKept(f, e) /\ f.tin = e.tin /\ f.iomode = e.iomode
      /\ f.ixa = 0 /\ f.ixb = 0
  BY DEF MakeReadyIn, Engine, OutKept, StateKept
<1> HIDE DEF f
<1>2. RecvPldLen(f) = 0
  BY <1>1 DEF RecvPldLen
<1> QED
  BY <1>1, <1>2 DEF f

LEMMA FailKeeps ==
    ASSUME NEW e \in Engine, NEW err \in {"OK", "ERROR"}
    PROVE  /\ OutKept(Fail(e, err), e) /\ StateKept(Fail(e, err), e)
           /\ Closed(Fail(e, err)) /\ Fail(e, err).tin = e.tin
           /\ RecvPldLen(Fail(e, err)) = 0
<1> DEFINE f == Fail(e, err)
<1>1. /\ OutKept(f, e) /\ StateKept(f, e) /\ f.tin = e.tin /\ Closed(f)
  BY DEF Fail, Engine, OutKept, StateKept, Closed
<1> HIDE DEF f
<1>2. RecvPldLen(f) = 0
  BY <1>1 DEF RecvPldLen
<1> QED
  BY <1>1, <1>2 DEF f

LEMMA RecvPldAckMoves ==
    ASSUME NEW e, Good(e), Waits(e), NEW n \in Nat, n <= RecvPldLen(e)
    PROVE  /\ OutKept(RecvPldAck(e, n), e) /\ StateKept(RecvPldAck(e, n), e)
           /\ Stays(RecvPldAck(e, n), e) /\ Waits(RecvPldAck(e, n))
           /\ RecvPldAck(e, n).iomode = e.iomode
           /\ RecvAppLen(e) > 0 =>
                 UnreadIn(RecvPldAck(e, n)) = SubSeq(e.plain, n + 1, Len(e.plain))
<1> DEFINE f == [e EXCEPT !.ixa = @ + n, !.plain = SubSeq(@, n + 1, Len(@))]
           g == RecvPldAck(e, n)
<1>1. e \in Engine
  BY DEF Good
<1>2. /\ e.ixa \in Nat /\ e.ixb \in Nat /\ e.plain \in Seq(Cell)
  BY <1>1, EngineFields
<1>3. f \in Engine
  <2>1. SubSeq(e.plain, n + 1, Len(e.plain)) \in Seq(Cell) /\ e.ixa + n \in Nat
    BY <1>2
  <2> QED
    BY Zenon, <1>1, <2>1 DEF Engine
<1>4. /\ OutKept(f, e) /\ StateKept(f, e) /\ f.tin = e.tin /\ f.iomode = e.iomode
      /\ f.ixa = e.ixa + n /\ f.ixb = e.ixb
      /\ f.plain = SubSeq(e.plain, n + 1, Len(e.plain))
  BY <1>1 DEF Engine, OutKept, StateKept
<1>5. g = IF f.ixa = f.ixb THEN MakeReadyIn(f) ELSE f
  BY DEF RecvPldAck
<1> HIDE DEF f, g
<1>6. /\ OutKept(MakeReadyIn(f), f) /\ StateKept(MakeReadyIn(f), f)
      /\ MakeReadyIn(f).tin = f.tin /\ MakeReadyIn(f).iomode = f.iomode
      /\ RecvPldLen(MakeReadyIn(f)) = 0
  BY <1>3, MakeReadyInMoves
<1>7. /\ OutKept(g, e) /\ StateKept(g, e) /\ g.tin = e.tin /\ g.iomode = e.iomode
  BY <1>4, <1>5, <1>6 DEF OutKept, StateKept
<1>8. RecvPldLen(g) > 0 => RecvPldLen(e) > 0
  <2>1. RecvPldLen(f) > 0 => RecvPldLen(e) > 0
    BY <1>2, <1>4 DEF RecvPldLen, Closed
  <2> QED
    BY <1>5, <1>6, <2>1
<1>9. Waits(g)
  BY <1>7, <1>8, KeptWaits
<1>10. Stays(g, e)
  BY <1>7, <1>8 DEF Stays, StateKept, Closed
<1>11. ASSUME RecvAppLen(e) > 0
       PROVE  UnreadIn(g) = SubSeq(e.plain, n + 1, Len(e.plain))
  <2>1. /\ ~Closed(e) /\ InRegisters(e) /\ e.ixb - e.ixa > 0 /\ n <= e.ixb - e.ixa
        /\ e.app = 1 /\ e.tin = "app"
    BY <1>11 DEF Good, RecvAppLen, RecvPldLen
  <2>2. Len(e.plain) = e.ixb - e.ixa
    BY <1>2, <2>1 DEF InRegisters
  <2>3. CASE f.ixa = f.ixb
    <3>1. UnreadIn(g) = <<>>
      BY <1>5, <1>6, <2>3, NothingUnread
    <3>2. n = Len(e.plain)
      BY <1>2, <1>4, <2>2, <2>3
    <3>3. SubSeq(e.plain, n + 1, Len(e.plain)) = <<>>
      BY <3>2, SubSeqEmpty
    <3> QED
      BY <3>1, <3>3
  <2>4. CASE f.ixa # f.ixb
    <3>1. g = f /\ RecvPldLen(f) > 0
      BY <1>2, <1>4, <1>5, <2>1, <2>4 DEF RecvPldLen, Closed
    <3>2. RecvAppLen(g) > 0
      BY <1>4, <2>1, <3>1 DEF RecvAppLen, StateKept
    <3> QED
      BY <1>4, <3>1, <3>2 DEF UnreadIn
  <2> QED
    BY <2>3, <2>4
<1> QED
  BY <1>7, <1>9, <1>10, <1>11 DEF g

-----------------------------------------------------------------------------
(* The output buffer.                                                      *)

LEMMA EncryptMoves ==
    ASSUME NEW e \in Engine, e.oxc = 5 + Nonce, e.oxc < e.oxa, e.oxa <= OLen - 5 - Tag
    PROVE  /\ StateKept(Encrypt(e), e) /\ Encrypt(e).tout = e.tout
           /\ HasRecToSend(Encrypt(e)) /\ ~HasPldToSend(Encrypt(e))
           /\ Encrypt(e).sealed.type = e.tout
           /\ Encrypt(e).sealed.data = Cells(e.obuf, e.oxc, e.oxa)
<1>1. /\ StateKept(Encrypt(e), e) /\ Encrypt(e).tout = e.tout
      /\ Encrypt(e).sealed = [type |-> e.tout, data |-> Cells(e.obuf, e.oxc, e.oxa)]
  BY DEF Encrypt, Engine, StateKept
<1>2. HasRecToSend(Encrypt(e))
  BY EncryptGood
<1> QED
  BY <1>1, <1>2 DEF HasRecToSend, HasPldToSend

\* What was gathered is sealed.
LEMMA SendPldFlushMoves ==
    ASSUME NEW e, Good(e), Waits(e), e.tout = "app"
    PROVE  /\ Outgoing(SendPldFlush(e)) = Outgoing(e) /\ StateKept(SendPldFlush(e), e)
           /\ SendPldFlush(e).tout = "app" /\ Waits(SendPldFlush(e))
           /\ ~HasPldToSend(SendPldFlush(e)) /\ SameIn(SendPldFlush(e), e)
<1> DEFINE f == SendPldFlush(e)
<1>1. CASE ~HasPldToSend(e)
  <2>1. f = e
    BY <1>1 DEF HasPldToSend, SendPldFlush
  <2> QED
    BY <1>1, <2>1 DEF StateKept, SameIn
<1>2. CASE HasPldToSend(e)
  <2>1. e \in Engine /\ OutRegisters(e) /\ e.oxa \in Nat /\ e.oxb \in Nat /\ e.oxc \in Nat
    BY EngineFields DEF Good
  <2>2. e.oxc = 5 + Nonce /\ e.oxc < e.oxa /\ e.oxa <= OLen - 5 - Tag /\ f = Encrypt(e)
    BY <1>2, <2>1 DEF OutRegisters, HasPldToSend, SendPldFlush
  <2> HIDE DEF f
  <2>3. /\ StateKept(f, e) /\ f.tout = e.tout /\ HasRecToSend(f) /\ ~HasPldToSend(f)
        /\ f.sealed.type = e.tout /\ f.sealed.data = Cells(e.obuf, e.oxc, e.oxa)
        /\ SameIn(f, e)
    BY <2>1, <2>2, EncryptMoves, EncryptGood
  <2>4. Outgoing(f) = Outgoing(e)
    BY <1>2, <2>3 DEF Outgoing, HasRecToSend, HasPldToSend
  <2>5. RecvPldLen(f) = RecvPldLen(e) /\ f.tin = e.tin
    BY <2>3, SameInStays DEF SameIn
  <2>6. Waits(f)
    BY <1>2, <2>3, <2>5 DEF Waits, StateKept
  <2> QED
    BY <2>3, <2>4, <2>6 DEF f
<1> QED
  BY <1>1, <1>2

\* What write() has copied is gathered behind what was.
LEMMA SendPldAckMoves ==
    ASSUME NEW e, Good(e), Waits(e), e.app = 1, NEW n \in Nat \ {0}, n <= SendPldLen(e)
    PROVE  /\ Outgoing(SendPldAck(e, n)) = Joined(Outgoing(e), Cells(e.obuf, e.oxa, e.oxa + n))
           /\ StateKept(SendPldAck(e, n), e) /\ Waits(SendPldAck(e, n))
           /\ SameIn(SendPldAck(e, n), e)
<1> DEFINE f == [e EXCEPT !.oxa = @ + n]
           g == [f EXCEPT !.oxb = f.oxa + 1]
           h == SendPldAck(e, n)
<1>1. /\ e \in Engine /\ e.oxa \in Nat /\ e.oxb \in Nat /\ e.oxc \in Nat
      /\ e.obuf \in [0 .. OLen - 1 -> Cell]
      /\ OutRegisters(e) /\ ~Closed(e) /\ n <= e.oxb - e.oxa
  BY EngineFields DEF Good, SendPldLen
<1>2. e.oxc = 5 + Nonce /\ e.oxc <= e.oxa /\ e.oxa < e.oxb /\ e.oxb <= OLen - 5 - Tag
  BY <1>1 DEF OutRegisters
<1>3. e.hs = "main" /\ e.tout = "app"
  BY DEF Waits
<1>4. f \in Engine
  <2>1. e.oxa + n \in Nat
    BY <1>1
  <2> QED
    BY Zenon, <1>1, <2>1 DEF Engine
<1>5. /\ f.oxa = e.oxa + n /\ f.oxb = e.oxb /\ f.oxc = e.oxc /\ SameIn(f, e)
      /\ StateKept(f, e) /\ f.tout = e.tout /\ f.obuf = e.obuf
  BY <1>1 DEF Engine, SameIn, StateKept
<1>6. h = IF f.oxa >= f.oxb THEN SendPldFlush(g) ELSE f
  BY DEF SendPldAck
<1>7. /\ g \in Engine /\ g.oxa = f.oxa /\ g.oxb = f.oxa + 1 /\ g.oxc = f.oxc
      /\ SameIn(g, e) /\ StateKept(g, e) /\ g.tout = e.tout /\ g.obuf = e.obuf
  <2> HIDE DEF f
  <2>1. f.oxa + 1 \in Nat
    BY <1>1, <1>5
  <2>2. g \in Engine
    BY Zenon, <1>4, <2>1 DEF Engine
  <2> QED
    BY <1>4, <1>5, <2>2 DEF Engine, SameIn, StateKept
<1> DEFINE c == Cells(e.obuf, e.oxc, e.oxa + n)
<1> HIDE DEF f, g, h, c
<1>8. c = Joined(Outgoing(e), Cells(e.obuf, e.oxa, e.oxa + n))
  <2>1. e.oxa + n \in Nat /\ e.oxa <= e.oxa + n /\ e.oxa + n <= OLen
    BY <1>1, <1>2
  <2>2. c = Joined(Cells(e.obuf, e.oxc, e.oxa), Cells(e.obuf, e.oxa, e.oxa + n))
    <3> DEFINE z == e.oxa + n
    <3>1. /\ e.oxc \in Nat /\ e.oxa \in Nat /\ z \in Nat
          /\ e.obuf \in [0 .. OLen - 1 -> Cell]
          /\ e.oxc <= e.oxa /\ e.oxa <= z /\ z <= OLen
      BY <1>1, <1>2, <2>1
    <3> HIDE DEF z
    <3>2. Joined(Cells(e.obuf, e.oxc, e.oxa), Cells(e.obuf, e.oxa, z)) = Cells(e.obuf, e.oxc, z)
      BY <3>1, CellsConcat
    <3> QED
      BY <3>2 DEF c, z
  <2>3. Outgoing(e) = Cells(e.obuf, e.oxc, e.oxa)
    BY <1>1, <1>2, CellsEmpty DEF Outgoing, HasRecToSend, HasPldToSend
  <2> QED
    BY <2>2, <2>3
<1>9. CASE f.oxa >= f.oxb
  <2>1. g.oxc = 5 + Nonce /\ g.oxc < g.oxa /\ g.oxa <= OLen - 5 - Tag /\ g.oxa # g.oxb
    BY <1>1, <1>2, <1>5, <1>7, <1>9
  <2>2. h = Encrypt(g)
    BY <1>1, <1>2, <1>5, <1>6, <1>7, <1>9, <2>1 DEF SendPldFlush
  <2>3. /\ StateKept(h, g) /\ h.tout = g.tout /\ HasRecToSend(h) /\ ~HasPldToSend(h)
        /\ h.sealed.type = g.tout /\ h.sealed.data = Cells(g.obuf, g.oxc, g.oxa)
        /\ SameIn(h, g)
    BY <1>7, <2>1, <2>2, EncryptMoves, EncryptGood
  <2>4. Outgoing(h) = c
    BY <1>3, <1>5, <1>7, <2>3 DEF Outgoing, c
  <2>5. StateKept(h, e) /\ SameIn(h, e)
    BY <1>7, <2>3 DEF StateKept, SameIn
  <2>6. RecvPldLen(h) = RecvPldLen(e) /\ h.tin = e.tin
    BY <2>5, SameInStays DEF SameIn
  <2>7. Waits(h)
    BY <1>3, <1>7, <2>3, <2>5, <2>6 DEF Waits, StateKept
  <2> QED
    BY <1>8, <2>4, <2>5, <2>7 DEF h
<1>10. CASE ~(f.oxa >= f.oxb)
  <2>1. h = f
    BY <1>6, <1>10
  <2>2. f.oxa # f.oxb /\ f.oxa # f.oxc
    BY <1>1, <1>2, <1>5, <1>10
  <2>3. Outgoing(h) = c
    BY <1>5, <2>1, <2>2 DEF Outgoing, HasRecToSend, HasPldToSend, c
  <2>4. RecvPldLen(h) = RecvPldLen(e) /\ h.tin = e.tin
    BY <1>5, <2>1, SameInStays DEF SameIn
  <2>5. Waits(h)
    BY <1>3, <1>5, <2>1, <2>2, <2>4 DEF Waits, StateKept, HasRecToSend
  <2> QED
    BY <1>5, <1>8, <2>1, <2>3, <2>5 DEF h
<1> QED
  BY <1>9, <1>10

\* A record on its way stays what it is; when it is gone nothing is left.
LEMMA SendRecBytesMoves ==
    ASSUME NEW e, Good(e), Waits(e), NEW n \in Nat \ {0}, n <= SendRecLen(e)
    PROVE  /\ HasRecToSend(e)
           /\ n < SendRecLen(e) => Outgoing(SendRecBytes(e, n)) = Outgoing(e)
           /\ n = SendRecLen(e) => Outgoing(SendRecBytes(e, n)) = <<>>
           /\ StateKept(SendRecBytes(e, n), e) /\ Waits(SendRecBytes(e, n))
           /\ SameIn(SendRecBytes(e, n), e)
<1> DEFINE f == [e EXCEPT !.oxa = @ + n, !.oxb = e.oxa + n]
           g == [f EXCEPT !.sealed = NoRecord]
           h == SendRecBytes(e, n)
<1>1. /\ e \in Engine /\ e.oxa \in Nat /\ e.oxb \in Nat /\ e.oxc \in Nat
      /\ OutRegisters(e) /\ e.oxa < e.oxc /\ SendRecLen(e) = e.oxc - e.oxa
  BY EngineFields DEF Good, SendRecLen
<1>2. HasRecToSend(e)
  BY <1>1 DEF OutRegisters, HasRecToSend
<1>3. f \in Engine
  <2>1. e.oxa + n \in Nat
    BY <1>1
  <2> QED
    BY Zenon, <1>1, <2>1 DEF Engine
<1>4. /\ f.oxa = e.oxa + n /\ f.oxb = e.oxa + n /\ f.oxc = e.oxc /\ SameIn(f, e)
      /\ StateKept(f, e) /\ f.tout = e.tout /\ f.sealed = e.sealed
  BY <1>1 DEF Engine, SameIn, StateKept
<1>5. h = IF f.oxa = f.oxc THEN MakeReadyOut(g) ELSE f
  BY DEF SendRecBytes
<1>6. g \in Engine /\ SameIn(g, e) /\ StateKept(g, e) /\ g.tout = e.tout
  <2> HIDE DEF f
  <2>1. NoRecord \in [type : OutType, data : Seq(Cell)]
    BY DEF NoRecord, OutType
  <2>2. g \in Engine
    BY Zenon, <1>3, <2>1 DEF Engine
  <2> QED
    BY <1>3, <1>4, <2>2 DEF Engine, SameIn, StateKept
<1> HIDE DEF f, g, h
<1>7. SameIn(h, e)
  BY SendRecBytesGood DEF h
<1>8. RecvPldLen(h) = RecvPldLen(e) /\ h.tin = e.tin
  BY <1>7 DEF SameIn, RecvPldLen, Closed
<1>9. CASE n = SendRecLen(e)
  <2>1. h = MakeReadyOut(g)
    BY <1>1, <1>4, <1>5, <1>9
  <2>2. StateKept(h, g) /\ h.tout = g.tout /\ h.oxa = h.oxc
    BY <1>6, <2>1 DEF MakeReadyOut, Engine, StateKept
  <2>3. ~HasRecToSend(h) /\ ~HasPldToSend(h) /\ StateKept(h, e) /\ h.tout = e.tout
    BY <1>6, <2>2 DEF HasRecToSend, HasPldToSend, StateKept
  <2>4. Outgoing(h) = <<>>
    BY <2>3 DEF Outgoing
  <2>5. Waits(h)
    BY <1>8, <2>3 DEF Waits, StateKept
  <2> QED
    BY <1>1, <1>2, <1>7, <1>9, <2>3, <2>4, <2>5 DEF h
<1>10. CASE n < SendRecLen(e)
  <2>1. h = f /\ f.oxa # f.oxc
    BY <1>1, <1>4, <1>5, <1>10
  <2>2. HasRecToSend(h) /\ ~HasPldToSend(h)
    BY <1>4, <2>1 DEF HasRecToSend, HasPldToSend
  <2>3. Outgoing(h) = Outgoing(e)
    BY <1>2, <1>4, <2>1, <2>2 DEF Outgoing
  <2>4. Waits(h)
    BY <1>2, <1>4, <1>8, <2>1, <2>2 DEF Waits, StateKept
  <2> QED
    BY <1>1, <1>2, <1>4, <1>7, <1>10, <2>1, <2>3, <2>4 DEF h
<1> QED
  BY <1>1, <1>9, <1>10

-----------------------------------------------------------------------------
(* The handshake processor.                                                *)

\* f, which came of e, holds what e held, unless the connection has ended.
Quiet(f, e) ==
    /\ Waits(f) /\ Stays(f, e) /\ Outgoing(f) = Outgoing(e)
    /\ Closed(f) \/ UnreadIn(f) = UnreadIn(e)

LEMMA FailQuiet ==
    ASSUME NEW e \in Engine, Waits(e), NEW err \in {"OK", "ERROR"}
    PROVE  Quiet(Fail(e, err), e)
<1> DEFINE f == Fail(e, err)
<1>1. /\ OutKept(f, e) /\ StateKept(f, e) /\ Closed(f) /\ f.tin = e.tin /\ RecvPldLen(f) = 0
  BY FailKeeps
<1> HIDE DEF f
<1>2. Waits(f)
  BY <1>1, KeptWaits
<1>3. Stays(f, e)
  BY <1>1 DEF Stays, StateKept
<1>4. Outgoing(f) = Outgoing(e)
  BY <1>1, OutKeptHolds
<1> QED
  BY <1>1, <1>2, <1>3, <1>4 DEF Quiet, f

\* An alert is sealed only while nothing is gathered.
LEMMA SendWarningMoves ==
    ASSUME NEW e, Good(e), CanOutput(e), NEW alert \in {"refuse", "close"}
    PROVE  /\ Outgoing(e) = <<>> /\ Outgoing(SendWarning(e, alert)) = <<>>
           /\ StateKept(SendWarning(e, alert), e) /\ SameIn(SendWarning(e, alert), e)
           /\ SendWarning(e, alert).tout = alert
           /\ SendWarning(e, alert).sealed.type = alert
           /\ HasRecToSend(SendWarning(e, alert)) /\ ~HasPldToSend(SendWarning(e, alert))
<1> DEFINE buf == Written(e.obuf, e.oxa, Others(2))
           f   == [e EXCEPT !.tout = alert, !.oxa = @ + 2, !.obuf = buf]
           g   == SendWarning(e, alert)
<1>1. /\ e \in Engine /\ e.oxa \in Nat /\ e.oxb \in Nat /\ e.oxc \in Nat
      /\ OutRegisters(e) /\ e.oxa # e.oxb /\ e.oxa = e.oxc
      /\ e.obuf \in [0 .. OLen - 1 -> Cell]
  BY EngineFields DEF Good, CanOutput, SendPldLen, HasPldToSend
<1>2. e.oxc = 5 + Nonce /\ e.oxa + 2 <= OLen - 5 - Tag
  BY <1>1 DEF OutRegisters
<1>3. buf \in [0 .. OLen - 1 -> Cell]
  <2>1. Others(2) \in Seq(Cell)
    BY OthersCells
  <2> QED
    BY <1>1, <2>1, WrittenCells
<1>4. g = Encrypt(f)
  BY DEF SendWarning
<1> HIDE DEF buf, g
<1>5. f \in Engine
  <2>1. e.oxa + 2 \in Nat /\ alert \in OutType
    BY <1>1 DEF OutType
  <2> QED
    BY Zenon, <1>1, <1>3, <2>1 DEF Engine
<1>6. /\ f.oxa = e.oxa + 2 /\ f.oxc = e.oxc /\ f.tout = alert
      /\ SameIn(f, e) /\ StateKept(f, e)
  BY <1>1 DEF Engine, SameIn, StateKept
<1> HIDE DEF f
<1>7. f.oxc = 5 + Nonce /\ f.oxc < f.oxa /\ f.oxa <= OLen - 5 - Tag
  BY <1>1, <1>2, <1>6
<1>8. /\ StateKept(g, f) /\ g.tout = f.tout /\ HasRecToSend(g) /\ ~HasPldToSend(g)
      /\ g.sealed.type = f.tout /\ SameIn(g, f)
  BY <1>4, <1>5, <1>7, EncryptMoves, EncryptGood
<1>9. StateKept(g, e) /\ SameIn(g, e)
  BY <1>6, <1>8 DEF StateKept, SameIn
<1>10. Outgoing(g) = <<>>
  BY <1>6, <1>8 DEF Outgoing
<1>11. Outgoing(e) = <<>>
  BY <1>1 DEF Outgoing, HasRecToSend, HasPldToSend
<1> QED
  BY <1>6, <1>8, <1>9, <1>10, <1>11 DEF g

LEMMA FlushRecordMoves ==
    ASSUME NEW e, Good(e), Waits(e), e.tout = "app"
    PROVE  /\ Outgoing(FlushRecord(e)) = Outgoing(e) /\ StateKept(FlushRecord(e), e)
           /\ FlushRecord(e).tout = "app" /\ Waits(FlushRecord(e))
           /\ ~HasPldToSend(FlushRecord(e)) /\ SameIn(FlushRecord(e), e)
<1>1. CASE HasPldToSend(e)
  BY <1>1, SendPldFlushMoves DEF FlushRecord
<1>2. CASE ~HasPldToSend(e)
  BY <1>2 DEF FlushRecord, StateKept, SameIn
<1> QED
  BY <1>1, <1>2

LEMMA ConsumedMoves ==
    ASSUME NEW e, Good(e), Waits(e), HasInput(e)
    PROVE  /\ OutKept(Consumed(e), e) /\ StateKept(Consumed(e), e)
           /\ Stays(Consumed(e), e) /\ Waits(Consumed(e)) /\ Good(Consumed(e))
<1>1. RecvPldLen(e) \in Nat
  BY EngineFields DEF HasInput, RecvPldLen, Good
<1> QED
  BY <1>1, RecvPldAckMoves, ConsumedGood DEF Consumed

\* What is gathered goes into a record of its own before the processor leaves
\* "main", so that an alert never lies over it.
LEMMA HsInputMoves ==
    ASSUME NEW e, Good(e), Waits(e)
    PROVE  Quiet(HsInput(e), e)
<1> DEFINE c == Consumed(e)
           g == FlushRecord(c)
<1>1. CASE ~HasInput(e)
  <2>1. HsInput(e) = e
    BY <1>1 DEF HsInput
  <2> QED
    BY <2>1 DEF Quiet, Stays
<1>2. ASSUME HasInput(e), e.hs \in {"main", "refuse"}
      PROVE  /\ Outgoing(g) = Outgoing(e) /\ StateKept(g, e) /\ g.tout = "app" /\ Waits(g)
             /\ ~HasPldToSend(g) /\ g.iomode = e.iomode /\ g.tin = e.tin
             /\ g \in Engine /\ ~e.shut
  <2>1. /\ OutKept(c, e) /\ StateKept(c, e) /\ Stays(c, e) /\ Waits(c) /\ Good(c)
        /\ c.iomode = e.iomode
    <3>1. RecvPldLen(e) \in Nat
      BY <1>2, EngineFields DEF HasInput, RecvPldLen, Good
    <3> QED
      BY <1>2, <3>1, ConsumedMoves, RecvPldAckMoves DEF Consumed
  <2>2. c.tout = "app" /\ ~e.shut
    BY <1>2, <2>1 DEF Waits, OutKept
  <2> HIDE DEF c
  <2>3. /\ Outgoing(g) = Outgoing(c) /\ StateKept(g, c) /\ g.tout = "app" /\ Waits(g)
        /\ ~HasPldToSend(g) /\ SameIn(g, c) /\ Good(g)
    BY <2>1, <2>2, FlushRecordMoves, FlushRecordGood
  <2>4. Outgoing(c) = Outgoing(e)
    BY <2>1, OutKeptHolds
  <2> HIDE DEF g
  <2> QED
    BY <2>1, <2>2, <2>3, <2>4 DEF StateKept, SameIn, Stays, Good
<1>3. ASSUME NEW f, NEW k, k \in Engine, HasInput(e), Waits(f), OutKept(f, k),
             Outgoing(k) = Outgoing(e), f.tin = e.tin, f.iomode = e.iomode,
             e.shut => f.shut, e.hs # "notified"
      PROVE  Quiet(f, e)
  <2>1. Outgoing(f) = Outgoing(e)
    BY <1>3, OutKeptHolds
  <2>2. UnreadIn(f) = <<>> /\ UnreadIn(e) = <<>>
    BY <1>3, NothingUnread DEF HasInput
  <2>3. Stays(f, e)
    BY <1>3 DEF Stays, Closed, HasInput
  <2> QED
    BY <1>3, <2>1, <2>2, <2>3 DEF Quiet
<1>4. CASE HasInput(e) /\ e.hs = "main" /\ e.tin = "hello"
  <2> DEFINE f == [g EXCEPT !.app = 0, !.hs = "refuse"]
  <2>1. HsInput(e) = f
    BY <1>4 DEF HsInput
  <2>2. /\ Outgoing(g) = Outgoing(e) /\ StateKept(g, e) /\ g.tout = "app" /\ Waits(g)
        /\ ~HasPldToSend(g) /\ g.iomode = e.iomode /\ g.tin = e.tin
        /\ g \in Engine /\ ~e.shut
    BY <1>2, <1>4
  <2> HIDE DEF g
  <2>3. /\ OutKept(f, g) /\ f.app = 0 /\ f.hs = "refuse" /\ f.shut = g.shut
        /\ f.tin = g.tin /\ f.iomode = g.iomode
    BY <2>2 DEF Engine, OutKept
  <2> HIDE DEF f
  <2>4. Waits(f)
    BY <1>4, <2>2, <2>3, OutKeptHolds DEF Waits, OutKept, StateKept
  <2> QED
    BY <1>3, <1>4, <2>1, <2>2, <2>3, <2>4 DEF StateKept
<1>5. CASE HasInput(e) /\ e.hs \in {"main", "refuse"} /\ e.tin = "close"
  <2> DEFINE f == [g EXCEPT !.app = 0, !.hs = "close", !.shut = TRUE]
  <2>1. HsInput(e) = f
    BY <1>5 DEF HsInput, Closes
  <2>2. /\ Outgoing(g) = Outgoing(e) /\ StateKept(g, e) /\ g.tout = "app" /\ Waits(g)
        /\ ~HasPldToSend(g) /\ g.iomode = e.iomode /\ g.tin = e.tin
        /\ g \in Engine /\ ~e.shut
    BY <1>2, <1>5
  <2> HIDE DEF g
  <2>3. /\ OutKept(f, g) /\ f.app = 0 /\ f.hs = "close" /\ f.shut = TRUE
        /\ f.tin = g.tin /\ f.iomode = g.iomode
    BY <2>2 DEF Engine, OutKept
  <2> HIDE DEF f
  <2>4. Waits(f)
    BY <1>5, <2>2, <2>3, OutKeptHolds DEF Waits, OutKept, StateKept
  <2> QED
    BY <1>3, <1>5, <2>1, <2>2, <2>3, <2>4
<1>6. CASE HasInput(e) /\ e.hs \in {"main", "refuse"} /\ e.tin = "warning"
  <2>1. HsInput(e) = c
    BY <1>6 DEF HsInput
  <2>2. OutKept(c, e) /\ Stays(c, e) /\ Waits(c)
    BY <1>6, ConsumedMoves
  <2>3. UnreadIn(c) = <<>> /\ UnreadIn(e) = <<>>
    BY <1>6, <2>2, NothingUnread DEF Stays
  <2>4. Outgoing(c) = Outgoing(e)
    BY <2>2, OutKeptHolds
  <2> QED
    BY <2>1, <2>2, <2>3, <2>4 DEF Quiet
<1>7. CASE HasInput(e) /\ e.hs \in {"main", "refuse"} /\ e.tin = "fatal"
  <2>1. HsInput(e) = Fail(e, "ERROR")
    BY <1>7 DEF HsInput
  <2> QED
    BY <2>1, FailQuiet DEF Good
<1>8. CASE HasInput(e) /\ ~(\/ e.hs = "main" /\ e.tin = "hello"
                            \/ /\ e.hs \in {"main", "refuse"}
                               /\ e.tin \in {"close", "warning", "fatal"})
  <2>1. HsInput(e) = e
    BY <1>8 DEF HsInput
  <2> QED
    BY <2>1 DEF Quiet, Stays
<1> QED
  BY <1>1, <1>4, <1>5, <1>6, <1>7, <1>8

LEMMA HsOutputMoves ==
    ASSUME NEW e, Good(e), Waits(e)
    PROVE  Quiet(HsOutput(e), e)
<1>0. e \in Engine
  BY DEF Good
<1>1. CASE Closed(e) \/ ~CanOutput(e) \/ e.hs = "main"
  <2>1. HsOutput(e) = e
    BY <1>1 DEF HsOutput
  <2> QED
    BY <2>1 DEF Quiet, Stays
<1>2. CASE ~(Closed(e) \/ ~CanOutput(e) \/ e.hs = "main") /\ e.hs = "refuse"
  <2> DEFINE g == SendWarning(e, "refuse")
             f == [g EXCEPT !.app = 1, !.tout = "app", !.hs = "main"]
  <2>1. HsOutput(e) = f
    BY <1>2 DEF HsOutput
  <2>2. /\ Outgoing(e) = <<>> /\ Outgoing(g) = <<>> /\ StateKept(g, e) /\ SameIn(g, e)
        /\ g.sealed.type = "refuse" /\ HasRecToSend(g) /\ ~HasPldToSend(g) /\ g \in Engine
    BY <1>2, SendWarningMoves, SendWarningGood DEF OutType, Good
  <2> HIDE DEF g
  <2>3. /\ f.app = 1 /\ f.tout = "app" /\ f.hs = "main" /\ f.shut = g.shut
        /\ f.tin = g.tin /\ f.iomode = g.iomode /\ f.ixa = g.ixa /\ f.ixb = g.ixb
        /\ f.oxa = g.oxa /\ f.oxb = g.oxb /\ f.oxc = g.oxc
        /\ f.obuf = g.obuf /\ f.sealed = g.sealed
    BY <2>2 DEF Engine
  <2> HIDE DEF f
  <2>4. HasRecToSend(f) /\ ~HasPldToSend(f) /\ Outgoing(f) = <<>>
    BY <2>2, <2>3 DEF Outgoing, HasRecToSend, HasPldToSend
  <2>5. e.app # 1 /\ ~e.shut
    BY <1>2 DEF Waits
  <2>6. Waits(f)
    BY <2>2, <2>3, <2>4, <2>5 DEF Waits, StateKept
  <2>7. f.tin = e.tin /\ RecvPldLen(f) = RecvPldLen(e)
    BY <2>2, <2>3 DEF SameIn, RecvPldLen, Closed
  <2>8. f.tin # "app" \/ ~(RecvPldLen(f) > 0)
    BY <2>5, <2>7 DEF Waits
  <2>9. UnreadIn(f) = <<>> /\ UnreadIn(e) = <<>>
    BY <2>3, <2>5, <2>8 DEF UnreadIn, RecvAppLen
  <2>10. Stays(f, e)
    BY <1>2, <2>2, <2>3, <2>5, <2>7 DEF Stays, SameIn, Closed
  <2> QED
    BY <2>1, <2>2, <2>4, <2>6, <2>9, <2>10 DEF Quiet
<1>3. CASE ~(Closed(e) \/ ~CanOutput(e) \/ e.hs = "main") /\ e.hs = "close"
  <2> DEFINE g == SendWarning(e, "close")
             f == [g EXCEPT !.hs = "notified"]
  <2>1. HsOutput(e) = f
    BY <1>3 DEF HsOutput
  <2>2. /\ Outgoing(e) = <<>> /\ Outgoing(g) = <<>> /\ StateKept(g, e) /\ SameIn(g, e)
        /\ g.tout = "close" /\ g.sealed.type = "close"
        /\ HasRecToSend(g) /\ ~HasPldToSend(g) /\ g \in Engine
    BY <1>3, SendWarningMoves, SendWarningGood DEF OutType, Good
  <2> HIDE DEF g
  <2>3. /\ OutKept(f, g) /\ f.app = g.app /\ f.hs = "notified" /\ f.shut = g.shut
        /\ SameIn(f, g)
    BY <2>2 DEF Engine, OutKept, SameIn
  <2> HIDE DEF f
  <2>4. HasRecToSend(f) /\ ~HasPldToSend(f) /\ Outgoing(f) = <<>>
    BY <2>2, <2>3, OutKeptHolds
  <2>5. f.tin = e.tin /\ RecvPldLen(f) = RecvPldLen(e) /\ f.app = e.app /\ f.plain = e.plain
    BY <2>2, <2>3 DEF SameIn, RecvPldLen, Closed, StateKept
  <2>6. e.app # 1 /\ e.shut
    BY <1>3 DEF Waits
  <2>7. Waits(f)
    BY <2>2, <2>3, <2>4, <2>5, <2>6 DEF Waits, OutKept, StateKept
  <2>8. UnreadIn(f) = <<>> /\ UnreadIn(e) = <<>>
    BY <2>5, <2>6, NothingUnread
  <2>9. Stays(f, e)
    BY <2>2, <2>3, <2>5 DEF Stays, SameIn, Closed, StateKept
  <2> QED
    BY <2>1, <2>2, <2>4, <2>7, <2>8, <2>9 DEF Quiet
<1>4. CASE ~(Closed(e) \/ ~CanOutput(e) \/ e.hs = "main") /\ e.hs \notin {"refuse", "close"}
  <2>1. HsOutput(e) = Fail(e, "OK")
    BY <1>4 DEF HsOutput
  <2> QED
    BY <1>0, <2>1, FailQuiet
<1> QED
  BY <1>1, <1>2, <1>3, <1>4

LEMMA JumpHandshakeMoves ==
    ASSUME NEW e, Good(e), Waits(e)
    PROVE  Quiet(JumpHandshake(e), e)
<1> DEFINE f == HsInput(e)
           g == HsOutput(f)
<1>1. Quiet(f, e) /\ Good(f)
  BY HsInputMoves, HsInputGood
<1>2. Quiet(g, f)
  BY <1>1, HsOutputMoves DEF Quiet
<1> HIDE DEF f, g
<1>3. Quiet(g, e)
  BY <1>1, <1>2 DEF Quiet, Stays
<1> QED
  BY <1>3 DEF JumpHandshake, f, g

-----------------------------------------------------------------------------
(* What the caller of the engine does.                                     *)

\* What read() is to have of a record.
AppData(r) == IF r.type = "app" THEN r.data ELSE <<>>

\* The record whose header has been read has the type of r, or r is none that
\* can be kept.
TypeOf(e, r) == Body(e) /\ r.type # "forged" => e.tin = r.type

\* The n bytes that have come are the last ones of the record.
Completes(e, n) == 5 <= e.ixa /\ n = e.ixc

LEMMA RecvRecBytesMoves ==
    ASSUME NEW e, Good(e), NEW r \in Record, BodyOf(e, r), TypeOf(e, r),
           NEW n \in Nat \ {0}, n <= RecvRecLen(e)
    PROVE  /\ OutKept(RecvRecBytes(e, r, n), e) /\ StateKept(RecvRecBytes(e, r, n), e)
           /\ RecvRecBytes(e, r, n) \in Engine
           /\ TypeOf(RecvRecBytes(e, r, n), r) /\ ~Closed(e) /\ ~e.shut /\ RecvPldLen(e) = 0
           /\ ~Completes(e, n) => RecvPldLen(RecvRecBytes(e, r, n)) = 0
           /\ Completes(e, n) =>
                 \/ Closed(RecvRecBytes(e, r, n))
                 \/ /\ RecvRecBytes(e, r, n).tin = r.type
                    /\ IF r.data = <<>> THEN RecvPldLen(RecvRecBytes(e, r, n)) = 0
                       ELSE /\ RecvPldLen(RecvRecBytes(e, r, n)) > 0
                            /\ RecvRecBytes(e, r, n).plain = r.data
<1> DEFINE f == [e EXCEPT !.ixa = @ + n, !.ixb = e.ixa + n, !.ixc = @ - n]
           g == RecvRecBytes(e, r, n)
<1>1. /\ e \in Engine /\ e.ixa \in Nat /\ e.ixb \in Nat /\ e.ixc \in Nat /\ ~Closed(e)
      /\ InRegisters(e) /\ e.ixa = e.ixb /\ n <= e.ixc
  BY EngineFields DEF Good, RecvRecLen, Least
<1>2. ~e.shut
  <2>1. RecvRecLen(e) # 0
    OBVIOUS
  <2> QED
    BY Zenon, <2>1 DEF RecvRecLen
<1>3. \/ e.ixa < 5 /\ e.ixc = 5 - e.ixa
      \/ 5 <= e.ixa /\ 0 < e.ixc /\ e.ixa + e.ixc <= ILen
  BY <1>1 DEF InRegisters
<1>4. f \in Engine
  <2>1. e.ixa + n \in Nat /\ e.ixc - n \in Nat
    BY <1>1
  <2> QED
    BY Zenon, <1>1, <2>1 DEF Engine
<1>5. /\ f.ixa = e.ixa + n /\ f.ixb = e.ixa + n /\ f.ixc = e.ixc - n
      /\ f.tin = e.tin /\ f.iomode = e.iomode
  BY <1>1 DEF Engine
<1>6. OutKept(f, e) /\ StateKept(f, e)
  BY <1>1 DEF Engine, OutKept, StateKept
<1>7. g \in Engine
  BY RecvRecBytesGood DEF Good
<1>8. g = IF f.ixa < 5 THEN f
          ELSE IF f.ixa = 5 THEN RecvHeader(f, r)
          ELSE IF f.ixc # 0 THEN f
          ELSE Decrypt(f, r)
  BY DEF RecvRecBytes
<1>9. RecvPldLen(e) = 0 /\ RecvPldLen(f) = 0 /\ ~Closed(f)
  BY <1>1, <1>5 DEF RecvPldLen, Closed
<1> HIDE DEF f, g
<1>10. OutKept(g, f) /\ StateKept(g, f) => OutKept(g, e) /\ StateKept(g, e)
  BY <1>6 DEF OutKept, StateKept
<1>11. CASE f.ixa < 5
  <2>1. g = f /\ ~Completes(e, n) /\ ~Body(f)
    BY <1>1, <1>5, <1>8, <1>11 DEF Completes, Body
  <2> QED
    BY <1>1, <1>2, <1>6, <1>7, <1>9, <2>1 DEF TypeOf, g
<1>12. CASE f.ixa = 5
  <2>1. ~Completes(e, n)
    BY <1>1, <1>5, <1>12 DEF Completes
  <2>2. CASE RecLen(r) > ILen - 5
    <3>1. g = Fail(f, "ERROR")
      BY <1>8, <1>12, <2>2 DEF RecvHeader
    <3>2. OutKept(g, f) /\ StateKept(g, f) /\ Closed(g) /\ RecvPldLen(g) = 0
      BY <1>4, <3>1, FailKeeps
    <3> QED
      BY <1>1, <1>2, <1>7, <1>9, <1>10, <2>1, <3>2 DEF TypeOf, Body, g
  <2>3. CASE ~(RecLen(r) > ILen - 5)
    <3> DEFINE h == [f EXCEPT !.tin = r.type, !.ixa = 5, !.ixb = 5, !.ixc = RecLen(r)]
    <3>1. g = h
      BY <1>8, <1>12, <2>3 DEF RecvHeader
    <3>2. /\ OutKept(h, f) /\ StateKept(h, f) /\ h.tin = r.type /\ h.ixa = 5 /\ h.ixb = 5
      BY <1>4 DEF Engine, OutKept, StateKept
    <3> HIDE DEF h
    <3>3. RecvPldLen(g) = 0
      BY <3>1, <3>2 DEF RecvPldLen
    <3> QED
      BY <1>1, <1>2, <1>7, <1>9, <1>10, <2>1, <3>1, <3>2, <3>3 DEF TypeOf, g
  <2> QED
    BY <2>2, <2>3
<1>13. CASE f.ixa > 5
  <2>1. 5 <= e.ixa /\ 0 < e.ixc
    BY <1>1, <1>3, <1>5, <1>13
  <2>2. r.type # "forged" => f.tin = r.type
    BY <1>1, <1>5, <2>1 DEF TypeOf, Body
  <2>3. CASE f.ixc # 0
    <3>1. g = f /\ ~Completes(e, n)
      BY <1>1, <1>5, <1>8, <1>13, <2>3 DEF Completes
    <3> QED
      BY <1>1, <1>2, <1>6, <1>7, <1>9, <2>2, <3>1 DEF TypeOf, g
  <2>4. CASE f.ixc = 0
    <3>1. g = Decrypt(f, r) /\ Completes(e, n)
      BY <1>1, <1>5, <1>8, <1>13, <2>1, <2>4 DEF Completes
    <3>2. CASE r.type = "forged"
      <4>1. g = Fail(f, "ERROR")
        BY <3>1, <3>2 DEF Decrypt
      <4>2. OutKept(g, f) /\ StateKept(g, f) /\ Closed(g)
        BY <1>4, <4>1, FailKeeps
      <4> QED
        BY <1>1, <1>2, <1>7, <1>9, <1>10, <3>1, <4>2 DEF TypeOf, Body, g
    <3>3. CASE r.type # "forged" /\ r.data = <<>>
      <4>1. g = MakeReadyIn(f)
        BY <3>1, <3>3 DEF Decrypt
      <4>2. OutKept(g, f) /\ StateKept(g, f) /\ g.tin = f.tin /\ RecvPldLen(g) = 0
        BY <1>4, <4>1, MakeReadyInMoves
      <4> QED
        BY <1>1, <1>2, <1>7, <1>9, <1>10, <2>2, <3>1, <3>3, <4>2 DEF TypeOf, g
    <3>4. CASE r.type # "forged" /\ r.data # <<>>
      <4> DEFINE h == [f EXCEPT !.ixa = 5 + Nonce, !.ixb = 5 + Nonce + Len(r.data),
                                !.plain = r.data]
      <4>1. g = h
        BY <3>1, <3>4 DEF Decrypt
      <4>2. /\ OutKept(h, f) /\ StateKept(h, f) /\ h.tin = f.tin /\ h.iomode = f.iomode
            /\ h.ixa = 5 + Nonce /\ h.ixb = 5 + Nonce + Len(r.data) /\ h.plain = r.data
        BY <1>4 DEF Engine, OutKept, StateKept
      <4> HIDE DEF h
      <4>3. Len(r.data) \in Nat /\ Len(r.data) > 0
        BY <3>4, EmptySeq DEF Record
      <4>4. RecvPldLen(g) > 0
        <5> DEFINE d == Len(r.data)
        <5>1. d \in Nat /\ d > 0 /\ h.ixa = 5 + Nonce /\ h.ixb = 5 + Nonce + d
          BY <4>2, <4>3
        <5> HIDE DEF d
        <5>2. h.ixb - h.ixa > 0
          BY <5>1
        <5> QED
          BY <1>9, <4>1, <4>2, <5>2 DEF RecvPldLen, Closed
      <4> QED
        BY <1>1, <1>2, <1>7, <1>9, <1>10, <2>2, <3>1, <3>4, <4>1, <4>2, <4>4 DEF TypeOf, g
    <3> QED
      BY <3>2, <3>3, <3>4
  <2> QED
    BY <2>3, <2>4
<1> QED
  <2>1. f.ixa \in Nat
    BY <1>1, <1>5
  <2> QED
    BY <2>1, <1>11, <1>12, <1>13

LEMMA RecvRecAckMoves ==
    ASSUME NEW e, Good(e), Waits(e), NEW r \in Record, BodyOf(e, r), TypeOf(e, r),
           NEW n \in Nat \ {0}, n <= RecvRecLen(e)
    PROVE  /\ Outgoing(RecvRecAck(e, r, n)) = Outgoing(e) /\ Waits(RecvRecAck(e, r, n))
           /\ TypeOf(RecvRecAck(e, r, n), r) /\ ~Closed(e) /\ ~e.shut
           /\ e.hs = "notified" => RecvRecAck(e, r, n).hs = "notified"
           /\ UnreadIn(e) = <<>>
           /\ \/ Closed(RecvRecAck(e, r, n))
              \/ UnreadIn(RecvRecAck(e, r, n)) = IF Completes(e, n) THEN AppData(r) ELSE <<>>
<1> DEFINE f == RecvRecBytes(e, r, n)
           g == RecvRecAck(e, r, n)
<1>1. /\ OutKept(f, e) /\ StateKept(f, e) /\ f \in Engine
      /\ TypeOf(f, r) /\ ~Closed(e) /\ ~e.shut /\ RecvPldLen(e) = 0
      /\ ~Completes(e, n) => RecvPldLen(f) = 0
      /\ Completes(e, n) =>
            \/ Closed(f)
            \/ /\ f.tin = r.type
               /\ IF r.data = <<>> THEN RecvPldLen(f) = 0
                  ELSE RecvPldLen(f) > 0 /\ f.plain = r.data
  BY RecvRecBytesMoves
<1>2. Good(f)
  BY RecvRecBytesGood
<1>3. UnreadIn(e) = <<>>
  BY <1>1, NothingUnread
<1>4. g = IF Closed(f) \/ RecvPldLen(f) = 0 THEN f
          ELSE IF f.tin # "app" THEN JumpHandshake(f)
          ELSE IF f.app = 1 THEN f
          ELSE Fail(f, "ERROR")
  BY DEF RecvRecAck
<1>5. Outgoing(f) = Outgoing(e) /\ (e.hs = "notified" => f.hs = "notified")
  BY <1>1, OutKeptHolds DEF StateKept
<1> HIDE DEF f, g
<1>6. RecvPldLen(f) = 0 \/ f.tin # "app" \/ f.app = 1 => Waits(f)
  BY <1>1, OutKeptHolds DEF Waits, OutKept, StateKept
<1>7. CASE Closed(f) \/ RecvPldLen(f) = 0
  <2>1. g = f /\ RecvPldLen(f) = 0
    BY <1>4, <1>7 DEF RecvPldLen
  <2>2. UnreadIn(f) = <<>>
    BY <2>1, NothingUnread
  <2>3. Closed(f) \/ UnreadIn(f) = IF Completes(e, n) THEN AppData(r) ELSE <<>>
    BY <1>1, <2>1, <2>2 DEF AppData
  <2> QED
    BY <1>1, <1>3, <1>5, <1>6, <2>1, <2>3 DEF g
<1>8. CASE ~(Closed(f) \/ RecvPldLen(f) = 0) /\ f.tin # "app"
  <2>1. g = JumpHandshake(f)
    BY <1>4, <1>8
  <2>2. Quiet(g, f) /\ Keeps(g, f)
    BY <1>2, <1>6, <1>8, <2>1, JumpHandshakeMoves, JumpHandshakeGood
  <2>3. TypeOf(g, r)
    BY <1>1, <2>2 DEF TypeOf, Keeps, Quiet, Stays
  <2>4. UnreadIn(f) = <<>> /\ UnreadIn(g) = <<>>
    BY <1>8, <2>2, NothingUnread DEF Quiet, Stays
  <2>5. UnreadIn(g) = IF Completes(e, n) THEN AppData(r) ELSE <<>>
    BY <1>1, <1>8, <2>4 DEF AppData
  <2> QED
    BY <1>1, <1>3, <1>5, <2>2, <2>3, <2>5 DEF Quiet, Stays, g
<1>9. CASE ~(Closed(f) \/ RecvPldLen(f) = 0) /\ f.tin = "app" /\ f.app = 1
  <2>1. g = f
    BY <1>4, <1>9
  <2>2. /\ Completes(e, n) /\ RecvPldLen(f) > 0 /\ f.plain = r.data /\ r.type = "app"
    BY <1>1, <1>9
  <2>3. UnreadIn(f) = AppData(r)
    BY <1>9, <2>2 DEF UnreadIn, RecvAppLen, AppData
  <2> QED
    BY <1>1, <1>3, <1>5, <1>6, <1>9, <2>1, <2>2, <2>3 DEF g
<1>10. CASE ~(Closed(f) \/ RecvPldLen(f) = 0) /\ f.tin = "app" /\ f.app # 1
  <2>1. g = Fail(f, "ERROR")
    BY <1>4, <1>10
  <2>2. OutKept(g, f) /\ StateKept(g, f) /\ Closed(g) /\ RecvPldLen(g) = 0
    BY <1>1, <2>1, FailKeeps
  <2>3. OutKept(g, e) /\ StateKept(g, e)
    BY <1>1, <2>2 DEF OutKept, StateKept
  <2>4. Waits(g) /\ Outgoing(g) = Outgoing(e)
    BY <2>2, <2>3, OutKeptHolds DEF Waits, OutKept, StateKept
  <2> QED
    BY <1>1, <1>3, <2>2, <2>3, <2>4 DEF TypeOf, Body, StateKept, g
<1> QED
  BY <1>7, <1>8, <1>9, <1>10

LEMMA SendRecAckMoves ==
    ASSUME NEW e, Good(e), Waits(e), NEW n \in Nat \ {0}, n <= SendRecLen(e)
    PROVE  /\ HasRecToSend(e)
           /\ n < SendRecLen(e) => Outgoing(SendRecAck(e, n)) = Outgoing(e)
           /\ n = SendRecLen(e) => Outgoing(SendRecAck(e, n)) = <<>>
           /\ Waits(SendRecAck(e, n)) /\ Stays(SendRecAck(e, n), e)
           /\ Closed(SendRecAck(e, n)) \/ UnreadIn(SendRecAck(e, n)) = UnreadIn(e)
<1> DEFINE f == SendRecBytes(e, n)
           g == SendRecAck(e, n)
<1>1. /\ HasRecToSend(e)
      /\ n < SendRecLen(e) => Outgoing(f) = Outgoing(e)
      /\ n = SendRecLen(e) => Outgoing(f) = <<>>
      /\ StateKept(f, e) /\ Waits(f) /\ SameIn(f, e)
  BY SendRecBytesMoves
<1>2. Good(f)
  BY SendRecBytesGood
<1>3. Stays(f, e) /\ UnreadIn(f) = UnreadIn(e)
  BY <1>1, SameInStays
<1>4. g = f \/ g = JumpHandshake(f)
  BY DEF SendRecAck
<1> HIDE DEF f, g
<1>5. CASE g = f
  BY <1>1, <1>3, <1>5 DEF g
<1>6. CASE g = JumpHandshake(f)
  <2>1. Quiet(g, f)
    BY <1>1, <1>2, <1>6, JumpHandshakeMoves
  <2>2. Waits(g) /\ Stays(g, e) /\ Outgoing(g) = Outgoing(f)
    BY <1>3, <2>1 DEF Quiet, Stays
  <2>3. Closed(g) \/ UnreadIn(g) = UnreadIn(e)
    BY <1>3, <2>1 DEF Quiet
  <2> QED
    BY <1>1, <2>2, <2>3 DEF g
<1> QED
  BY <1>4, <1>5, <1>6

LEMMA FlushMoves ==
    ASSUME NEW e, Good(e), Waits(e)
    PROVE  Quiet(Flush(e), e)
<1>1. CASE ~Closed(e) /\ e.app = 1
  <2> DEFINE f == SendPldFlush(e)
  <2>1. e.tout = "app" /\ Flush(e) = f
    BY <1>1 DEF Waits, Flush
  <2>2. Outgoing(f) = Outgoing(e) /\ StateKept(f, e) /\ Waits(f) /\ SameIn(f, e)
    BY <2>1, SendPldFlushMoves
  <2> HIDE DEF f
  <2>3. Stays(f, e) /\ UnreadIn(f) = UnreadIn(e)
    BY <2>2, SameInStays
  <2> QED
    BY <2>1, <2>2, <2>3 DEF Quiet
<1>2. CASE ~(~Closed(e) /\ e.app = 1)
  <2>1. Flush(e) = e
    BY <1>2 DEF Flush
  <2> QED
    BY <2>1 DEF Quiet, Stays
<1> QED
  BY <1>1, <1>2

LEMMA ReadyMoves ==
    /\ Waits(Ready) /\ Outgoing(Ready) = <<>> /\ UnreadIn(Ready) = <<>>
    /\ ~Closed(Ready) /\ ~Ready.shut
<1>1. /\ Ready.iomode = "INOUT" /\ Ready.tin = "app" /\ Ready.tout = "app" /\ Ready.app = 1
      /\ Ready.hs = "main" /\ Ready.ixa = 0 /\ Ready.ixb = 0 /\ Ready.oxa = Ready.oxc
  BY DEF Ready, MakeReadyIn, MakeReadyOut
<1>2. ~Ready.shut
  BY Zenon DEF Ready, MakeReadyIn, MakeReadyOut
<1>3. RecvPldLen(Ready) = 0 /\ ~Closed(Ready)
  BY <1>1 DEF RecvPldLen, Closed
<1>4. ~HasRecToSend(Ready) /\ ~HasPldToSend(Ready)
  BY <1>1 DEF HasRecToSend, HasPldToSend
<1>5. Outgoing(Ready) = <<>> /\ UnreadIn(Ready) = <<>>
  BY <1>3, <1>4, NothingUnread DEF Outgoing
<1>6. Waits(Ready)
  BY <1>1, <1>2, <1>3, <1>4 DEF Waits
<1> QED
  BY <1>2, <1>3, <1>5, <1>6

-----------------------------------------------------------------------------
(* The streams of a connection.                                            *)

\* What write() has copied behind oxa and not handed over.
PendingIn(e, n) == Cells(e.obuf, e.oxa, e.oxa + n)

\* What read() is to have of the records in q.
ComingOf(q) == FlattenSeq([k \in DOMAIN q |-> AppData(q[k])])

LEMMA AppDataType ==
    ASSUME NEW r \in Record
    PROVE  AppData(r) \in Seq(Nat)
BY DEF Record, AppData, Cell

LEMMA AppDataOfAll ==
    ASSUME NEW q \in Seq(Record)
    PROVE  /\ [k \in DOMAIN q |-> AppData(q[k])] \in Seq(Seq(Nat))
           /\ Len([k \in DOMAIN q |-> AppData(q[k])]) = Len(q)
<1>1. DOMAIN q = 1 .. Len(q) /\ Len(q) \in Nat /\ \A k \in 1 .. Len(q) : q[k] \in Record
  OBVIOUS
<1>2. \A k \in 1 .. Len(q) : AppData(q[k]) \in Seq(Nat)
  BY <1>1, AppDataType
<1> QED
  BY <1>1, <1>2

LEMMA ComingType ==
    ASSUME NEW q \in Seq(Record)
    PROVE  ComingOf(q) \in Seq(Nat)
BY AppDataOfAll, FlattenType DEF ComingOf

LEMMA ComingEmpty == ComingOf(<<>>) = <<>>
<1> DEFINE s == [k \in DOMAIN <<>> |-> AppData(<<>>[k])]
<1>1. <<>> \in Seq(Record)
  OBVIOUS
<1>2. s \in Seq(Seq(Nat)) /\ Len(s) = 0
  BY <1>1, AppDataOfAll
<1> HIDE DEF s
<1>3. s = <<>>
  BY <1>2, EmptySeq
<1>4. FlattenSeq(s) = <<>>
  BY <1>3, FlattenEmpty
<1> QED
  BY <1>4 DEF ComingOf, s

LEMMA ComingAppend ==
    ASSUME NEW q \in Seq(Record), NEW r \in Record
    PROVE  ComingOf(Append(q, r)) = Joined(ComingOf(q), AppData(r))
<1> DEFINE p == Append(q, r)
           s == [k \in DOMAIN q |-> AppData(q[k])]
           t == [k \in DOMAIN p |-> AppData(p[k])]
           x == AppData(r)
<1>1. PICK n \in Nat : n = Len(q)
  BY LenProperties
<1>2. /\ p \in Seq(Record) /\ Len(p) = n + 1
      /\ \A k \in 1 .. n : p[k] = q[k]
      /\ p[n + 1] = r
  BY <1>1, AppendProperties
<1>3. s \in Seq(Seq(Nat)) /\ Len(s) = n /\ \A k \in 1 .. n : s[k] = AppData(q[k])
  <2>1. s \in Seq(Seq(Nat)) /\ Len(s) = Len(q)
    BY AppDataOfAll
  <2> QED
    BY <1>1, <2>1
<1> HIDE DEF p
<1>4. t \in Seq(Seq(Nat)) /\ Len(t) = n + 1 /\ \A k \in 1 .. n + 1 : t[k] = AppData(p[k])
  <2>1. t \in Seq(Seq(Nat)) /\ Len(t) = Len(p)
    BY <1>2, AppDataOfAll
  <2> QED
    BY <1>2, <2>1
<1>5. x \in Seq(Nat)
  BY AppDataType
<1> HIDE DEF s, t, x
<1>6. /\ Append(s, x) \in Seq(Seq(Nat)) /\ Len(Append(s, x)) = n + 1
      /\ \A k \in 1 .. n : Append(s, x)[k] = s[k]
      /\ Append(s, x)[n + 1] = x
  BY <1>3, <1>5, AppendProperties
<1>7. \A k \in 1 .. n + 1 : t[k] = Append(s, x)[k]
  <2> TAKE k \in 1 .. n + 1
  <2>1. CASE k \in 1 .. n
    BY <1>2, <1>3, <1>4, <1>6, <2>1
  <2>2. CASE k = n + 1
    BY <1>2, <1>4, <1>6, <2>2 DEF x
  <2>3. k \in 1 .. n \/ k = n + 1
    BY <1>1
  <2> QED
    BY <2>1, <2>2, <2>3
<1>8. t = Append(s, x)
  BY <1>2, <1>4, <1>6, <1>7, SeqEqual
<1>9. FlattenSeq(t) = FlattenSeq(s) \o x
  BY <1>3, <1>5, <1>8, FlattenAppend
<1> QED
  BY <1>9 DEF ComingOf, Joined, p, s, t, x

LEMMA ComingHead ==
    ASSUME NEW q \in Seq(Record), q # <<>>
    PROVE  ComingOf(q) = Joined(AppData(Head(q)), ComingOf(Tail(q)))
<1> DEFINE p == Tail(q)
           s == [k \in DOMAIN q |-> AppData(q[k])]
           t == [k \in DOMAIN p |-> AppData(p[k])]
<1>1. PICK n \in Nat : n = Len(q)
  BY LenProperties
<1>2. /\ p \in Seq(Record) /\ Len(p) = n - 1 /\ n > 0 /\ Head(q) = q[1]
      /\ \A k \in 1 .. n - 1 : p[k] = q[k + 1]
  BY <1>1, HeadTailProperties, EmptySeq
<1>3. s \in Seq(Seq(Nat)) /\ Len(s) = n /\ \A k \in 1 .. n : s[k] = AppData(q[k])
  <2>1. s \in Seq(Seq(Nat)) /\ Len(s) = Len(q)
    BY AppDataOfAll
  <2> QED
    BY <1>1, <2>1
<1> HIDE DEF p
<1>4. t \in Seq(Seq(Nat)) /\ Len(t) = n - 1 /\ \A k \in 1 .. n - 1 : t[k] = AppData(p[k])
  <2>1. t \in Seq(Seq(Nat)) /\ Len(t) = Len(p)
    BY <1>2, AppDataOfAll
  <2> QED
    BY <1>2, <2>1
<1> HIDE DEF s, t
<1>5. s # <<>>
  BY <1>2, <1>3
<1>6. /\ Tail(s) \in Seq(Seq(Nat)) /\ Len(Tail(s)) = n - 1 /\ Head(s) = s[1]
      /\ \A k \in 1 .. n - 1 : Tail(s)[k] = s[k + 1]
  BY <1>3, <1>5, HeadTailProperties
<1>7. \A k \in 1 .. n - 1 : t[k] = Tail(s)[k]
  <2> TAKE k \in 1 .. n - 1
  <2>1. k + 1 \in 1 .. n /\ 1 \in 1 .. n
    BY <1>1
  <2>2. t[k] = AppData(q[k + 1])
    BY <1>2, <1>4
  <2> QED
    BY <1>3, <1>6, <2>1, <2>2
<1>8. t = Tail(s)
  BY <1>4, <1>6, <1>7, SeqEqual
<1>9. Head(s) = AppData(Head(q))
  <2>1. 1 \in 1 .. n
    BY <1>1, <1>2
  <2> QED
    BY <1>2, <1>3, <1>6, <2>1
<1>10. FlattenSeq(s) = Head(s) \o FlattenSeq(Tail(s))
  BY <1>3, <1>5, FlattenHead
<1> QED
  BY <1>8, <1>9, <1>10 DEF ComingOf, Joined, p, s, t

-----------------------------------------------------------------------------
(* The inductive invariant.                                                *)

Sending ==
    IF open THEN Joined(Joined(sent, Outgoing(eng)), PendingIn(eng, writeIdx)) = Numbers(0, put)
    ELSE IsPrefix(sent, Numbers(0, put))

Receiving ==
    /\ IsPrefix(got, Numbers(0, given))
    /\ Running => IsPrefix(Joined(got, UnreadIn(eng)), Numbers(0, given))
    /\ Running /\ ~gap =>
          Joined(Joined(got, UnreadIn(eng)), ComingOf(inbox)) = Numbers(0, given)

\* What the engine takes the record for that it is receiving.
HeadType == open /\ inbox # <<>> => TypeOf(eng, Head(inbox))

\* The handshake processor does nothing more behind its close_notify, so that
\* nothing can be written behind it either.
NotifiedLast == notified => sent = Numbers(0, put) /\ (open => eng.hs = "notified")

StreamInv ==
    ClientInv /\ Waits(eng) /\ Sending /\ Receiving /\ HeadType /\ NotifiedLast

LEMMA PrefixOfStream ==
    ASSUME NEW s \in Seq(Nat), NEW t \in Seq(Nat), NEW u \in Seq(Nat), NEW v,
           Joined(Joined(s, t), u) = v
    PROVE  IsPrefix(s, v)
<1>1. Joined(t, u) \in Seq(Nat)
  BY JoinedType
<1>2. IsPrefix(s, Joined(s, Joined(t, u)))
  BY <1>1, PrefixOfJoined
<1>3. Joined(Joined(s, t), u) = Joined(s, Joined(t, u))
  BY JoinedAssociative
<1> QED
  BY <1>2, <1>3

LEMMA PrefixOfPrefix ==
    ASSUME NEW s \in Seq(Nat), NEW t \in Seq(Nat), NEW u \in Seq(Nat),
           IsPrefix(s, t), IsPrefix(t, u)
    PROVE  IsPrefix(s, u)
<1>1. Len(s) <= Len(t) /\ \A k \in 1..Len(s) : s[k] = t[k]
  BY PrefixByElements
<1>2. Len(t) <= Len(u) /\ \A k \in 1..Len(t) : t[k] = u[k]
  BY PrefixByElements
<1>3. Len(s) \in Nat /\ Len(t) \in Nat /\ Len(u) \in Nat
  BY LenProperties
<1>4. Len(s) <= Len(u)
  BY <1>1, <1>2, <1>3
<1>5. \A k \in 1..Len(s) : s[k] = u[k]
  <2>1. \A k \in 1..Len(s) : k \in 1..Len(t)
    BY <1>1, <1>3
  <2> QED
    BY <1>1, <1>2, <2>1
<1> QED
  BY <1>4, <1>5, PrefixByElements

LEMMA OutgoingType ==
    ASSUME NEW e, Good(e)
    PROVE  Outgoing(e) \in Seq(Nat)
<1>1. /\ e.oxa \in Nat /\ e.oxb \in Nat /\ e.oxc \in Nat
      /\ e.obuf \in [0 .. OLen - 1 -> Cell] /\ e.sealed.data \in Seq(Cell) /\ OutRegisters(e)
  BY EngineFields DEF Good
<1>2. HasPldToSend(e) => e.oxc <= e.oxa /\ e.oxa <= OLen
  BY <1>1 DEF HasPldToSend, OutRegisters
<1>3. HasPldToSend(e) => Cells(e.obuf, e.oxc, e.oxa) \in Seq(Cell)
  BY <1>1, <1>2, CellsCells
<1>4. <<>> \in Seq(Cell)
  OBVIOUS
<1> QED
  BY <1>1, <1>3, <1>4 DEF Outgoing, Cell

LEMMA PendingNone ==
    ASSUME NEW e \in Engine
    PROVE  PendingIn(e, 0) = <<>>
<1>1. e.oxa \in Nat /\ e.oxa + 0 = e.oxa
  BY EngineFields
<1> QED
  BY <1>1, CellsEmpty DEF PendingIn

LEMMA PendingType ==
    ASSUME ClientInv, open
    PROVE  PendingIn(eng, writeIdx) \in Seq(Nat)
<1>1. /\ eng \in Engine /\ eng.oxa \in Nat /\ eng.oxb \in Nat
      /\ eng.obuf \in [0 .. OLen - 1 -> Cell] /\ OutRegisters(eng) /\ writeIdx \in Nat
  BY EngineFields DEF ClientInv, Good, Typed
<1>2. CASE writeIdx = 0
  <2>1. PendingIn(eng, writeIdx) = <<>>
    BY <1>1, <1>2, PendingNone
  <2> QED
    BY <2>1
<1>3. CASE writeIdx > 0
  <2>1. eng.oxb - eng.oxa > writeIdx
    BY <1>1, <1>3, PendingNotClosed DEF SendAppLen, SendPldLen
  <2>2. eng.oxa <= eng.oxa + writeIdx /\ eng.oxa + writeIdx <= OLen /\ eng.oxa + writeIdx \in Nat
    BY <1>1, <2>1 DEF OutRegisters
  <2> QED
    BY <1>1, <2>2, CellsCells DEF PendingIn, Cell
<1> QED
  BY <1>1, <1>2, <1>3

LEMMA StreamTypes ==
    ASSUME ClientInv
    PROVE  /\ sent \in Seq(Nat) /\ got \in Seq(Nat) /\ put \in Nat /\ given \in Nat
           /\ Outgoing(eng) \in Seq(Nat) /\ UnreadIn(eng) \in Seq(Nat)
           /\ ComingOf(inbox) \in Seq(Nat) /\ inbox \in Seq(Record)
           /\ eng \in Engine /\ Good(eng)
<1>1. /\ sent \in Seq(Nat) /\ got \in Seq(Nat) /\ put \in Nat /\ given \in Nat
      /\ inbox \in Seq(Record) /\ eng \in Engine /\ Good(eng)
  BY DEF ClientInv, Typed, Good, Cell
<1>2. UnreadIn(eng) \in Seq(Nat)
  <2>1. eng.plain \in Seq(Nat) /\ <<>> \in Seq(Nat)
    BY <1>1, EngineFields DEF Cell
  <2> QED
    BY <2>1 DEF UnreadIn
<1> QED
  BY <1>1, <1>2, OutgoingType, ComingType

\* What has been sent never has to be taken back.
LEMMA SentIsPrefix ==
    ASSUME ClientInv, Sending
    PROVE  IsPrefix(sent, Numbers(0, put))
BY StreamTypes, PendingType, PrefixOfStream DEF Sending

\* The properties are parts of the invariant.
LEMMA SendingIsSent ==
    ASSUME ClientInv, Sending
    PROVE  SentInOrder
<1>1. CASE ~open
  BY <1>1 DEF Sending, SentInOrder
<1>2. CASE open
  <2>1. Joined(sent, Outgoing(eng)) = Joined(Joined(sent, Sealed), Gathered)
    <3>1. CASE HasRecToSend(eng)
      <4>1. Gathered = <<>> /\ Sealed = Outgoing(eng)
        BY <3>1 DEF Gathered, Sealed, Outgoing, HasRecToSend, HasPldToSend
      <4>2. Joined(sent, Outgoing(eng)) \in Seq(Nat)
        BY StreamTypes, JoinedType
      <4> QED
        BY <4>1, <4>2, JoinedEmpty
    <3>2. CASE ~HasRecToSend(eng)
      <4>1. Sealed = <<>> /\ Gathered = Outgoing(eng)
        BY <3>2 DEF Gathered, Sealed, Outgoing
      <4> QED
        BY <4>1, StreamTypes, JoinedEmpty
    <3> QED
      BY <3>1, <3>2
  <2>2. Pending = PendingIn(eng, writeIdx)
    BY DEF Pending, PendingIn
  <2> QED
    BY <1>2, <2>1, <2>2 DEF Sending, SentInOrder, Joined
<1> QED
  BY <1>1, <1>2

LEMMA ReceivingIsRead ==
    ASSUME ClientInv, Receiving
    PROVE  ReadInOrder
<1>1. UnreadIn(eng) = Unread /\ ComingOf(inbox) = Coming
  BY DEF UnreadIn, Unread, ComingOf, Coming, AppData
<1> QED
  BY <1>1 DEF Receiving, ReadInOrder, Joined

-----------------------------------------------------------------------------
(* Steps of the client.                                                    *)

\* Nothing is on its way in a new connection.
LEMMA FreshStream ==
    ASSUME ClientInv', eng' = Ready, writeIdx' = 0, inbox' = <<>>, put' = 0, given' = 0,
           sent' = <<>>, got' = <<>>, notified' = FALSE
    PROVE  StreamInv'
<1>1. Waits(eng)' /\ Outgoing(eng)' = <<>> /\ UnreadIn(eng)' = <<>>
  BY ReadyMoves
<1>2. PendingIn(eng, writeIdx)' = <<>>
  <2>1. eng' \in Engine
    BY ReadyGood DEF Good
  <2> QED
    BY <2>1, PendingNone
<1>3. ComingOf(inbox)' = <<>>
  BY ComingEmpty
<1>4. Numbers(0, 0) = <<>> /\ <<>> \in Seq(Nat) /\ IsPrefix(<<>>, <<>>)
  BY EmptyStream DEF Numbers
<1>5. Joined(Joined(<<>>, <<>>), <<>>) = <<>>
  BY <1>4, JoinedEmpty
<1>6. Sending'
  BY <1>1, <1>2, <1>4, <1>5 DEF Sending
<1>7. Receiving'
  <2>1. Joined(<<>>, <<>>) = <<>>
    BY <1>4, JoinedEmpty
  <2> QED
    BY <1>1, <1>3, <1>4, <1>5, <2>1 DEF Receiving
<1>8. HeadType' /\ NotifiedLast'
  BY DEF HeadType, NotifiedLast
<1> QED
  BY <1>1, <1>6, <1>7, <1>8 DEF StreamInv

\* What is on its way is lost with the connection.
LEMMA EndedStream ==
    ASSUME StreamInv, ClientInv', open' = FALSE, eng' = Ready, UNCHANGED <<peerVars, histVars>>
    PROVE  StreamInv'
<1>1. /\ given' = given /\ put' = put /\ sent' = sent /\ notified' = notified /\ got' = got
  BY DEF peerVars, histVars
<1>2. Waits(eng)'
  BY <1>1, ReadyMoves
<1>3. Sending'
  BY <1>1, SentIsPrefix DEF StreamInv, Sending
<1>4. Receiving'
  BY <1>1 DEF StreamInv, Receiving, Running
<1>5. HeadType' /\ NotifiedLast'
  BY <1>1 DEF StreamInv, HeadType, NotifiedLast
<1> QED
  BY <1>2, <1>3, <1>4, <1>5 DEF StreamInv

LEMMA StoppedStream ==
    ASSUME StreamInv, ClientInv', Stopped
    PROVE  StreamInv'
BY EndedStream DEF Stopped

\* A step that leaves what has come, drops some of it, or ends the reading.
LEMMA ReceivingKept ==
    ASSUME StreamInv, open' = open, KeepsOrSpoils, got' = got, given' = given,
           Stays(eng', eng), op = "stop" => op' = "stop",
           Running' => UnreadIn(eng') = UnreadIn(eng)
    PROVE  Receiving'
<1>1. CASE Running'
  <2>1. Running
    BY <1>1 DEF Running, Stays
  <2>2. UnreadIn(eng)' = UnreadIn(eng)
    BY <1>1
  <2>3. ~gap' => ComingOf(inbox)' = ComingOf(inbox) /\ ~gap
    BY DEF KeepsOrSpoils
  <2> QED
    BY <1>1, <2>1, <2>2, <2>3 DEF StreamInv, Receiving
<1>2. CASE ~Running'
  BY <1>2 DEF StreamInv, Receiving
<1> QED
  BY <1>1, <1>2

\* A step in which the engine receives nothing.
LEMMA HeadTypeKept ==
    ASSUME StreamInv, ClientInv', open' = open, KeepsOrSpoils, Stays(eng', eng),
           Keeps(eng', eng)
    PROVE  HeadType'
<1>1. CASE inbox' = inbox
  BY <1>1 DEF StreamInv, HeadType, TypeOf, Stays, Keeps
<1>2. CASE inbox' # inbox
  <2>1. inbox' # <<>> => 1 \in DOMAIN inbox' /\ Head(inbox') = inbox'[1]
    <3>1. inbox' \in Seq(Record)
      BY DEF ClientInv, Typed
    <3> QED
      BY <3>1, EmptySeq
  <2> QED
    BY <1>2, <2>1 DEF HeadType, TypeOf, KeepsOrSpoils
<1> QED
  BY <1>1, <1>2

LEMMA NotifiedKept ==
    ASSUME StreamInv, open' = open, notified' = notified, sent' = sent, put' = put,
           eng.hs = "notified" => eng'.hs = "notified"
    PROVE  NotifiedLast'
BY DEF StreamInv, NotifiedLast

\* A step in which no byte of either stream goes from one place to another.
LEMMA QuietStream ==
    ASSUME StreamInv, ClientInv', Quiet(eng', eng), Keeps(eng', eng),
           PendingIn(eng', writeIdx') = PendingIn(eng, writeIdx),
           open' = open, KeepsOrSpoils, put' = put, sent' = sent, got' = got,
           given' = given, notified' = notified, op = "stop" => op' = "stop"
    PROVE  StreamInv'
<1>1. Stays(eng', eng) /\ (Running' => UnreadIn(eng') = UnreadIn(eng))
  BY DEF Quiet, Running
<1>2. Waits(eng)' /\ Outgoing(eng)' = Outgoing(eng)
  BY DEF Quiet
<1>3. Sending'
  BY <1>2 DEF StreamInv, Sending
<1>4. Receiving' /\ HeadType'
  BY <1>1, ReceivingKept, HeadTypeKept
<1>5. NotifiedLast'
  BY <1>1, NotifiedKept DEF Stays
<1> QED
  BY <1>2, <1>3, <1>4, <1>5 DEF StreamInv

\* The same when the engine does not change either.
LEMMA CallStream ==
    ASSUME StreamInv, ClientInv', eng' = eng, writeIdx' = writeIdx,
           open' = open, UNCHANGED tcpVars, put' = put, sent' = sent, got' = got,
           given' = given, notified' = notified, op = "stop" => op' = "stop"
    PROVE  StreamInv'
<1>1. Quiet(eng', eng) /\ Keeps(eng', eng)
  BY DEF StreamInv, Quiet, Stays, Keeps
<1>2. KeepsOrSpoils
  BY DEF tcpVars, KeepsOrSpoils
<1> QED
  BY <1>1, <1>2, QuietStream

LEMMA InitStream == Init => StreamInv
<1> SUFFICES ASSUME Init PROVE StreamInv
  OBVIOUS
<1>1. ClientInv
  BY InitInv
<1>2. /\ eng = Ready /\ writeIdx = 0 /\ open = FALSE /\ inbox = <<>> /\ put = 0 /\ given = 0
      /\ sent = <<>> /\ got = <<>> /\ notified = FALSE
  BY DEF Init
<1>3. Waits(eng)
  BY <1>2, ReadyMoves
<1>4. Numbers(0, 0) = <<>> /\ IsPrefix(<<>>, <<>>)
  BY EmptyStream DEF Numbers
<1>5. Sending /\ Receiving /\ HeadType /\ NotifiedLast
  BY <1>2, <1>4 DEF Sending, Receiving, Running, HeadType, NotifiedLast
<1> QED
  BY <1>1, <1>3, <1>5 DEF StreamInv

LEMMA CallerStream ==
    ASSUME StreamInv, Caller
    PROVE  StreamInv'
<1>0. ClientInv'
  BY CallerInv DEF StreamInv
<1>1. CASE Connect
  <2>1. /\ eng' = Ready /\ writeIdx' = 0 /\ inbox' = <<>> /\ put' = 0 /\ given' = 0
        /\ sent' = <<>> /\ got' = <<>> /\ notified' = FALSE
    BY <1>1 DEF Connect, ConnectsTcp, Up, StreamInv, ClientInv, Typed, HasItsSocket
  <2> QED
    BY <1>0, <2>1, FreshStream
<1>2. CASE ConnectFails \/ HandshakeFails
  <2>1. CASE ConnectFails
    BY <1>0, <2>1, CallStream DEF ConnectFails, callVars, peerVars, histVars
  <2>2. CASE HandshakeFails
    BY <1>0, <2>2, EndedStream DEF HandshakeFails
  <2> QED
    BY <1>2, <2>1, <2>2
<1>3. ASSUME NEW o, NEW n, Begins(o, n)
      PROVE  StreamInv'
  <2>1. /\ eng' = eng /\ writeIdx' = writeIdx /\ open' = open /\ UNCHANGED tcpVars /\ put' = put
        /\ sent' = sent /\ got' = got /\ given' = given /\ notified' = notified /\ op = "idle"
    BY <1>3 DEF Begins, connVars, peerVars, histVars
  <2> QED
    BY <1>0, <2>1, CallStream
<1>4. CASE Available
  BY <1>3, <1>4 DEF Available
<1>5. CASE AvailableForWrite
  BY <1>3, <1>5 DEF AvailableForWrite
<1>6. CASE FlushCall
  BY <1>3, <1>6 DEF FlushCall
<1>7. ASSUME NEW n \in Sizes, Read(n)
      PROVE  StreamInv'
  BY <1>3, <1>7 DEF Read
<1>8. ASSUME NEW n \in Sizes, Write(n)
      PROVE  StreamInv'
  BY <1>3, <1>8 DEF Write
<1>9. CASE Stop
  <2>1. CASE ~Closed(eng) /\ writeIdx > 0
    <3> DEFINE n == RecvAppLen(eng)
    <3>1. /\ eng' = IF n > 0 THEN RecvPldAck(eng, n) ELSE eng
          /\ op' = "stop" /\ open' = open /\ writeIdx' = writeIdx /\ KeepsOrSpoils
          /\ put' = put /\ sent' = sent /\ got' = got /\ given' = given /\ notified' = notified
      BY <1>9, <2>1 DEF Stop, tcpVars, peerVars, histVars, KeepsOrSpoils
    <3>2. Good(eng) /\ Waits(eng) /\ n \in Nat /\ n <= RecvPldLen(eng)
      <4>1. /\ Good(eng) /\ eng.ixa \in Nat /\ eng.ixb \in Nat
            /\ Closed(eng) \/ eng.ixa <= eng.ixb
        BY EngineFields DEF StreamInv, ClientInv, Good, InRegisters
      <4> QED
        BY <4>1 DEF RecvAppLen, RecvPldLen, StreamInv
    <3> HIDE DEF n
    <3>3. OutKept(eng', eng) /\ Stays(eng', eng) /\ Waits(eng') /\ Keeps(eng', eng)
      <4>1. CASE n > 0
        BY <3>1, <3>2, <4>1, RecvPldAckMoves, RecvPldAckGood DEF Keeps
      <4>2. CASE ~(n > 0)
        BY <3>1, <3>2, <4>2 DEF OutKept, Stays, Keeps
      <4> QED
        BY <4>1, <4>2
    <3>4. Outgoing(eng)' = Outgoing(eng)
      BY <3>3, OutKeptHolds
    <3>5. PendingIn(eng, writeIdx)' = PendingIn(eng, writeIdx)
      BY <3>1, <3>3 DEF PendingIn, OutKept
    <3>6. Sending'
      BY <3>1, <3>4, <3>5 DEF StreamInv, Sending
    <3>7. Receiving' /\ HeadType' /\ NotifiedLast'
      BY <1>0, <3>1, <3>3, ReceivingKept, HeadTypeKept, NotifiedKept DEF Running, Stays
    <3> QED
      BY <1>0, <3>3, <3>6, <3>7 DEF StreamInv
  <2>2. CASE ~(~Closed(eng) /\ writeIdx > 0)
    BY <1>0, <1>9, <2>2, StoppedStream DEF Stop
  <2> QED
    BY <2>1, <2>2
<1> QED
  BY <1>1, <1>2, <1>4, <1>5, <1>6, <1>7, <1>8, <1>9 DEF Caller

\* A call flushes what is gathered.
LEMMA FlushStream ==
    ASSUME StreamInv, ClientInv', eng' = Flush(eng), writeIdx = 0, writeIdx' = 0,
           open' = open, UNCHANGED tcpVars, put' = put, sent' = sent, got' = got,
           given' = given, notified' = notified, op = "stop" => op' = "stop"
    PROVE  StreamInv'
<1>1. Good(eng) /\ Waits(eng) /\ eng \in Engine /\ eng' \in Engine
  BY DEF StreamInv, ClientInv, Good
<1>2. Quiet(eng', eng) /\ Keeps(eng', eng)
  BY <1>1, FlushMoves, FlushGood
<1>3. PendingIn(eng', writeIdx') = PendingIn(eng, writeIdx)
  BY <1>1, PendingNone
<1>4. KeepsOrSpoils
  BY DEF tcpVars, KeepsOrSpoils
<1> QED
  BY <1>2, <1>3, <1>4, QuietStream

\* read() takes from the front of what it can.
LEMMA ReadStream ==
    ASSUME StreamInv, ClientInv', ReadEnds
    PROVE  /\ StreamInv' /\ Stays(eng', eng) /\ StateKept(eng', eng)
           /\ Running /\ Running' /\ IsPrefix(got, got')
<1> DEFINE n == Least(left, RecvAppLen(eng))
           taken == SubSeq(eng.plain, 1, n)
           rest == SubSeq(eng.plain, n + 1, Len(eng.plain))
<1>1. /\ eng \in Engine /\ Good(eng) /\ Waits(eng) /\ left \in Nat
      /\ eng.plain \in Seq(Nat) /\ eng.ixa \in Nat /\ eng.ixb \in Nat
  BY EngineFields DEF StreamInv, ClientInv, Good, Typed, Cell
<1>2. open /\ writeIdx = 0
  BY UpdatedNothingPending DEF ReadEnds, StreamInv
<1>3. /\ RecvAppLen(eng) > 0 /\ RecvAppLen(eng) = RecvPldLen(eng) /\ RecvPldLen(eng) \in Nat
      /\ eng.app = 1 /\ ~Closed(eng) /\ RecvPldLen(eng) = eng.ixb - eng.ixa
  BY <1>1 DEF ReadEnds, RecvAppLen, RecvPldLen
<1>4. Len(eng.plain) = RecvPldLen(eng)
  BY <1>1, <1>3 DEF Good, InRegisters
<1>5. n \in Nat /\ n <= RecvPldLen(eng)
  BY <1>1, <1>3 DEF Least
<1>6. /\ got' = Joined(got, taken) /\ eng' = RecvPldAck(eng, n) /\ op = "read" /\ op' = "idle"
      /\ writeIdx' = writeIdx /\ open' = open /\ inbox' = inbox /\ gap' = gap
      /\ given' = given /\ put' = put /\ sent' = sent /\ notified' = notified
  BY DEF ReadEnds, Returns, tcpVars, peerVars, Joined
<1> HIDE DEF n
<1>7. /\ OutKept(eng', eng) /\ StateKept(eng', eng) /\ Stays(eng', eng) /\ Waits(eng')
      /\ eng'.iomode = eng.iomode /\ UnreadIn(eng') = rest /\ Keeps(eng', eng)
  BY <1>1, <1>3, <1>5, <1>6, RecvPldAckMoves, RecvPldAckGood DEF Keeps
<1>8. Outgoing(eng)' = Outgoing(eng) /\ PendingIn(eng, writeIdx)' = PendingIn(eng, writeIdx)
  BY <1>6, <1>7, OutKeptHolds DEF PendingIn, OutKept
<1>9. Running /\ Running'
  <2>1. ~eng.shut
    BY <1>1, <1>3 DEF Waits
  <2> QED
    BY <1>2, <1>3, <1>6, <1>7, <2>1 DEF Running, Closed, StateKept
<1>10. Joined(taken, rest) = eng.plain
  <2>1. PICK l \in Nat : l = Len(eng.plain)
    BY <1>1, LenProperties
  <2>2. 1 \in 1 .. l + 1 /\ n \in 1 - 1 .. l /\ l \in n .. l
    BY <1>4, <1>5, <2>1
  <2>3. taken \o rest = SubSeq(eng.plain, 1, l)
    BY <1>1, <2>1, <2>2, ConcatAdjacentSubSeq
  <2>4. SubSeq(eng.plain, 1, l) = eng.plain
    BY <1>1, <2>1, SubSeqFull
  <2> QED
    BY <2>3, <2>4 DEF Joined
<1>11. taken \in Seq(Nat) /\ rest \in Seq(Nat)
  <2>1. PICK l \in Nat : l = Len(eng.plain)
    BY <1>1, LenProperties
  <2>2. /\ \A i \in 1 .. n : eng.plain[i] \in Nat
        /\ \A i \in n + 1 .. l : eng.plain[i] \in Nat
        /\ 1 \in Int /\ n \in Int /\ n + 1 \in Int /\ l \in Int
    BY <1>1, <1>4, <1>5, <2>1
  <2> QED
    BY <2>1, <2>2, SubSeqProperties
<1> HIDE DEF taken, rest
<1>12. Receiving'
  <2>1. /\ IsPrefix(Joined(got, eng.plain), Numbers(0, given))
        /\ ~gap => Joined(Joined(got, eng.plain), ComingOf(inbox)) = Numbers(0, given)
    BY <1>3, <1>9 DEF StreamInv, Receiving, UnreadIn
  <2>2. got \in Seq(Nat) /\ Joined(got, taken) \in Seq(Nat) /\ Numbers(0, given) \in Seq(Nat)
    <3>1. got \in Seq(Nat) /\ given \in Nat /\ 0 \in Nat
      BY StreamTypes DEF StreamInv
    <3> QED
      BY <1>11, <3>1, JoinedType, NumbersType
  <2>3. Joined(got, eng.plain) = Joined(Joined(got, taken), rest)
    BY <1>10, <1>11, <2>2, JoinedAssociative
  <2>4. ~gap' => Joined(Joined(got', UnreadIn(eng')), ComingOf(inbox')) = Numbers(0, given')
    BY <1>6, <1>7, <2>1, <2>3
  <2>5. IsPrefix(Joined(got', UnreadIn(eng')), Numbers(0, given'))
    BY <1>6, <1>7, <2>1, <2>3
  <2>6. IsPrefix(got', Numbers(0, given'))
    <3>1. IsPrefix(got', Joined(got', rest)) /\ Joined(got', rest) \in Seq(Nat)
      BY <1>6, <1>11, <2>2, PrefixOfJoined, JoinedType
    <3> QED
      BY <1>6, <1>7, <2>2, <2>5, <3>1, PrefixOfPrefix
  <2> QED
    BY <1>9, <2>4, <2>5, <2>6 DEF Receiving
<1>13. Sending'
  BY <1>6, <1>8 DEF StreamInv, Sending
<1>14. HeadType' /\ NotifiedLast'
  BY <1>6, <1>7, HeadTypeKept, NotifiedKept DEF Stays, KeepsOrSpoils
<1>15. IsPrefix(got, got')
  BY <1>6, <1>11, StreamTypes, PrefixOfJoined DEF StreamInv
<1> QED
  BY <1>7, <1>9, <1>12, <1>13, <1>14, <1>15 DEF StreamInv

\* What write() has copied joins what is gathered.
LEMMA HandsOverStream ==
    ASSUME StreamInv, ClientInv', HandsOver
    PROVE  StreamInv'
<1>1. /\ eng \in Engine /\ Good(eng) /\ Waits(eng) /\ eng' \in Engine /\ writeIdx \in Nat
      /\ SendAppLen(eng) >= writeIdx /\ writeIdx > 0
  BY DEF HandsOver, StreamInv, ClientInv, Good, Typed
<1>2. eng.app = 1 /\ writeIdx <= SendPldLen(eng) /\ writeIdx \in Nat \ {0} /\ open
  BY <1>1 DEF SendAppLen, HandsOver, StreamInv, ClientInv, CalledWhileOpen
<1>3. /\ eng' = SendPldAck(eng, writeIdx) /\ writeIdx' = 0 /\ op' = op
      /\ open' = open /\ KeepsOrSpoils /\ given' = given /\ put' = put /\ sent' = sent
      /\ notified' = notified /\ got' = got
  BY DEF HandsOver, IndexReset, tcpVars, callVars, peerVars, histVars, KeepsOrSpoils
<1>4. /\ Outgoing(eng') = Joined(Outgoing(eng), PendingIn(eng, writeIdx))
      /\ StateKept(eng', eng) /\ Waits(eng') /\ SameIn(eng', eng)
  BY <1>1, <1>2, <1>3, SendPldAckMoves DEF PendingIn
<1>5. Stays(eng', eng) /\ UnreadIn(eng') = UnreadIn(eng) /\ Keeps(eng', eng)
  BY <1>4, SameInStays, SameInKeeps
<1>6. Sending'
  <2>1. PendingIn(eng', writeIdx') = <<>>
    BY <1>1, <1>3, PendingNone
  <2>2. /\ sent \in Seq(Nat) /\ Outgoing(eng) \in Seq(Nat)
        /\ PendingIn(eng, writeIdx) \in Seq(Nat)
    BY <1>2, StreamTypes, PendingType DEF StreamInv
  <2>3. Joined(sent, Outgoing(eng')) \in Seq(Nat)
    BY <1>4, <2>2, JoinedType
  <2>4. Joined(Joined(sent, Outgoing(eng')), PendingIn(eng', writeIdx'))
           = Joined(Joined(sent, Outgoing(eng)), PendingIn(eng, writeIdx))
    BY <1>4, <2>1, <2>2, <2>3, JoinedEmpty, JoinedAssociative
  <2> QED
    BY <1>2, <1>3, <2>4 DEF StreamInv, Sending
<1>7. Receiving' /\ HeadType' /\ NotifiedLast'
  BY <1>3, <1>5, ReceivingKept, HeadTypeKept, NotifiedKept DEF Stays
<1> QED
  BY <1>4, <1>6, <1>7 DEF StreamInv

\* write() copies to where the payload goes on, which no record lies over.
LEMMA CopiesStream ==
    ASSUME StreamInv, ClientInv', Copies
    PROVE  /\ StreamInv' /\ Stays(eng', eng) /\ StateKept(eng', eng)
           /\ open /\ ~eng.shut /\ put' \in Nat /\ put' > put
<1> DEFINE room == SendAppLen(eng)
           n    == Least(left, room)
           new  == Numbers(put, n)
           buf  == Written(eng.obuf, eng.oxa, new)
           e    == [eng EXCEPT !.obuf = buf]
<1>1. /\ eng \in Engine /\ Good(eng) /\ Waits(eng) /\ eng.oxa \in Nat /\ eng.oxb \in Nat
      /\ eng.oxc \in Nat /\ eng.obuf \in [0 .. OLen - 1 -> Cell] /\ OutRegisters(eng)
      /\ left \in Nat /\ put \in Nat /\ eng' \in Engine
  BY EngineFields DEF StreamInv, ClientInv, Good, Typed
<1>2. open /\ writeIdx = 0 /\ left > 0
  BY UpdatedNothingPending DEF Copies, StreamInv
<1>3. /\ eng.app = 1 /\ ~Closed(eng) /\ room > 0 /\ room = eng.oxb - eng.oxa
      /\ room = SendPldLen(eng) /\ room \in Nat
  <2>1. SendAppLen(eng) > 0
    BY DEF Copies
  <2>2. eng.app = 1 /\ ~Closed(eng) /\ SendAppLen(eng) = eng.oxb - eng.oxa
    BY <1>1, <2>1 DEF SendAppLen, SendPldLen
  <2> QED
    BY <1>1, <2>1, <2>2 DEF SendPldLen
<1>4. n \in Nat \ {0} /\ n <= room
  <2> HIDE DEF room
  <2> QED
    BY <1>1, <1>2, <1>3 DEF Least
<1>5. /\ put' = put + n
      /\ IF n = room THEN eng' = SendPldAck(e, n) /\ writeIdx' = 0 /\ op' = op
         ELSE eng' = e /\ writeIdx' = n /\ op' = "idle"
      /\ op = "write" /\ open' = open /\ KeepsOrSpoils /\ given' = given /\ sent' = sent
      /\ notified' = notified /\ got' = got
  BY <1>2 DEF Copies, Returns, tcpVars, peerVars, KeepsOrSpoils
<1>6. eng.oxc = 5 + Nonce /\ eng.oxc <= eng.oxa /\ eng.oxa + n <= OLen
  <2>1. SendRecLen(eng) = 0
    BY <1>3 DEF Copies, Updated
  <2>2. eng.oxa < eng.oxb
    BY <1>1, <1>3
  <2>3. eng.oxc = 5 + Nonce /\ eng.oxc <= eng.oxa /\ eng.oxb <= OLen - 5 - Tag
    BY <1>1, <2>2 DEF OutRegisters
  <2> HIDE DEF n
  <2> QED
    BY <1>1, <1>3, <1>4, <2>3
<1> HIDE DEF n, room
<1>7. new \in Seq(Cell) /\ n = Len(new) /\ n \in Nat
  BY <1>1, <1>4, NumbersType DEF Cell
<1> HIDE DEF new
<1>8. buf \in [0 .. OLen - 1 -> Cell]
  BY <1>1, <1>7, WrittenCells
<1>9. /\ Cells(buf, eng.oxc, eng.oxa) = Cells(eng.obuf, eng.oxc, eng.oxa)
      /\ Cells(buf, eng.oxa, eng.oxa + n) = new
  BY <1>1, <1>6, <1>7, CellsWritten
<1> HIDE DEF buf
<1>10. e \in Engine
  BY Zenon, <1>1, <1>8 DEF Engine
<1>11. /\ SameRoom(e, eng) /\ SameIn(e, eng) /\ StateKept(e, eng) /\ e.obuf = buf
       /\ e.sealed = eng.sealed /\ e.tout = eng.tout
  BY <1>1 DEF Engine, SameRoom, SameIn, StateKept
<1> HIDE DEF e
<1>12. /\ (HasPldToSend(e) <=> HasPldToSend(eng)) /\ (HasRecToSend(e) <=> HasRecToSend(eng))
       /\ Outgoing(e) = Outgoing(eng) /\ PendingIn(e, n) = new
  BY <1>9, <1>11 DEF SameRoom, HasPldToSend, HasRecToSend, Outgoing, PendingIn
<1>13. Stays(e, eng) /\ UnreadIn(e) = UnreadIn(eng) /\ RecvPldLen(e) = RecvPldLen(eng)
  BY <1>11, SameInStays
<1>14. Waits(e)
  BY <1>1, <1>11, <1>12, <1>13 DEF Waits, StateKept, SameIn
<1>15. Good(e) /\ Keeps(e, eng) /\ SendPldLen(e) = room /\ e.app = 1
  <2>1. OutRegisters(e)
    BY <1>1, <1>11 DEF OutRegisters, SameRoom
  <2>2. SendPldLen(e) = SendPldLen(eng) /\ e.app = 1
    BY <1>3, <1>11 DEF SameRoom, SendPldLen, Closed
  <2> QED
    BY <1>1, <1>3, <1>10, <1>11, <2>1, <2>2, SameInGood, SameInKeeps
<1>16. /\ Waits(eng') /\ Stays(eng', eng) /\ UnreadIn(eng') = UnreadIn(eng)
       /\ Keeps(eng', eng) /\ StateKept(eng', eng)
       /\ \/ Outgoing(eng') = Outgoing(eng) /\ PendingIn(eng', writeIdx') = new
          \/ /\ Outgoing(eng') = Joined(Outgoing(eng), new)
             /\ PendingIn(eng', writeIdx') = <<>>
  <2>1. CASE n = room
    <3>1. /\ Outgoing(eng') = Joined(Outgoing(e), PendingIn(e, n))
          /\ StateKept(eng', e) /\ Waits(eng') /\ SameIn(eng', e)
      BY <1>4, <1>5, <1>14, <1>15, <2>1, SendPldAckMoves DEF PendingIn
    <3>2. Stays(eng', e) /\ UnreadIn(eng') = UnreadIn(e) /\ Keeps(eng', e)
      BY <3>1, SameInStays, SameInKeeps
    <3>3. /\ Stays(eng', eng) /\ UnreadIn(eng') = UnreadIn(eng) /\ Keeps(eng', eng)
          /\ StateKept(eng', eng)
      BY <1>11, <1>13, <1>15, <3>1, <3>2 DEF Stays, Keeps, StateKept
    <3>4. PendingIn(eng', writeIdx') = <<>>
      BY <1>1, <1>5, <2>1, PendingNone
    <3> QED
      BY <1>12, <3>1, <3>3, <3>4
  <2>2. CASE n # room
    BY <1>5, <1>11, <1>12, <1>13, <1>14, <1>15, <2>2
  <2> QED
    BY <2>1, <2>2
<1>17. Sending'
  <2>1. sent \in Seq(Nat) /\ Outgoing(eng) \in Seq(Nat) /\ new \in Seq(Nat)
    BY <1>7, StreamTypes DEF StreamInv, Cell
  <2>2. /\ Joined(sent, Outgoing(eng)) \in Seq(Nat)
        /\ Joined(Joined(sent, Outgoing(eng)), new) \in Seq(Nat)
    BY <2>1, JoinedType
  <2>3. Joined(sent, Outgoing(eng)) = Numbers(0, put)
    <3>1. PendingIn(eng, writeIdx) = <<>>
      BY <1>1, <1>2, PendingNone
    <3> QED
      BY <1>2, <2>2, <3>1, JoinedEmpty DEF StreamInv, Sending
  <2>4. Joined(Numbers(0, put), new) = Numbers(0, put + n)
    <3>1. Joined(Numbers(0, put), Numbers(put, n)) = Numbers(0, put + n)
      BY <1>1, <1>7, NumbersNext
    <3> QED
      BY <3>1 DEF new
  <2>5. Joined(sent, Joined(Outgoing(eng), new)) = Joined(Joined(sent, Outgoing(eng)), new)
    BY <2>1, JoinedAssociative
  <2>6. Joined(Joined(sent, Outgoing(eng')), PendingIn(eng', writeIdx'))
           = Joined(Joined(sent, Outgoing(eng)), new)
    BY <1>16, <2>2, <2>5, JoinedEmpty
  <2> QED
    BY <1>2, <1>5, <2>3, <2>4, <2>6 DEF Sending
<1>18. Receiving' /\ HeadType'
  BY <1>5, <1>16, ReceivingKept, HeadTypeKept
<1>19. NotifiedLast'
  BY <1>1, <1>2, <1>3, <1>5 DEF StreamInv, NotifiedLast, Waits
<1>20. ~eng.shut /\ put' \in Nat /\ put' > put
  BY <1>1, <1>3, <1>4, <1>5 DEF Waits
<1> QED
  BY <1>2, <1>16, <1>17, <1>18, <1>19, <1>20 DEF StreamInv

\* A record goes out.
LEMMA SendsStream ==
    ASSUME StreamInv, ClientInv', NEW n \in 1 .. SendRecLen(eng), SendsRecord(n)
    PROVE  /\ StreamInv' /\ Stays(eng', eng) /\ open /\ HasRecToSend(eng)
           /\ n = SendRecLen(eng) => sent' = Numbers(0, put)
<1>1. /\ eng \in Engine /\ Good(eng) /\ Waits(eng) /\ eng' \in Engine /\ writeIdx \in Nat
      /\ SendRecLen(eng) \in Nat
  BY EngineFields DEF StreamInv, ClientInv, Good, Typed, SendRecLen
<1>2. n \in Nat \ {0} /\ n <= SendRecLen(eng) /\ SendRecLen(eng) # 0
  BY <1>1
<1>3. open /\ writeIdx = 0
  <2>1. open
    BY DEF SendsRecord, StreamInv, ClientInv, CalledWhileOpen
  <2> QED
    BY <1>1, <1>2, <2>1, PendingNotClosed DEF StreamInv
<1>4. /\ eng' = SendRecAck(eng, n) /\ open' = open /\ writeIdx' = writeIdx /\ op' = op
      /\ KeepsOrSpoils /\ given' = given /\ put' = put /\ got' = got
  <2>1. inbox \in Seq(Record) /\ gap \in BOOLEAN
    BY DEF StreamInv, ClientInv, Typed
  <2> QED
    BY <2>1, FlushLeaves DEF SendsRecord, callVars, peerVars
<1>5. /\ HasRecToSend(eng)
      /\ n < SendRecLen(eng) => Outgoing(eng') = Outgoing(eng)
      /\ n = SendRecLen(eng) => Outgoing(eng') = <<>>
      /\ Waits(eng') /\ Stays(eng', eng)
      /\ Closed(eng') \/ UnreadIn(eng') = UnreadIn(eng)
      /\ Keeps(eng', eng)
  BY <1>1, <1>2, <1>4, SendRecAckMoves, SendRecAckGood
<1>6. PendingIn(eng', writeIdx') = <<>> /\ PendingIn(eng, writeIdx) = <<>>
  BY <1>1, <1>3, <1>4, PendingNone
<1>7. CASE n < SendRecLen(eng)
  <2>1. sent' = sent /\ notified' = notified
    BY <1>7 DEF SendsRecord
  <2>2. Quiet(eng', eng)
    BY <1>5, <1>7 DEF Quiet
  <2> QED
    BY <1>3, <1>4, <1>5, <1>6, <1>7, <2>1, <2>2, QuietStream
<1>8. CASE n = SendRecLen(eng)
  <2>1. sent \in Seq(Nat) /\ Outgoing(eng) \in Seq(Nat)
    BY StreamTypes DEF StreamInv
  <2>2. sent' = Joined(sent, Outgoing(eng))
    <3>1. sent' = IF eng.sealed.type = "app" THEN Joined(sent, eng.sealed.data) ELSE sent
      BY <1>1, <1>8 DEF SendsRecord, Joined
    <3>2. Outgoing(eng) = IF eng.sealed.type = "app" THEN eng.sealed.data ELSE <<>>
      BY <1>5 DEF Outgoing
    <3> QED
      BY <2>1, <3>1, <3>2, JoinedEmpty
  <2>3. sent' \in Seq(Nat)
    BY <2>1, <2>2, JoinedType
  <2>4. sent' = Numbers(0, put)
    <3>1. Joined(sent', <<>>) = Numbers(0, put)
      BY <1>3, <1>6, <2>2 DEF StreamInv, Sending
    <3> QED
      BY <2>3, <3>1, JoinedEmpty
  <2>5. Sending'
    <3>1. Joined(Joined(sent', <<>>), <<>>) = sent'
      BY <2>3, JoinedEmpty
    <3> QED
      BY <1>3, <1>4, <1>5, <1>6, <1>8, <2>4, <3>1 DEF Sending
  <2>6. NotifiedLast'
    <3>1. notified' = (notified \/ eng.sealed.type = "close")
      BY <1>1, <1>8 DEF SendsRecord
    <3>2. notified' => eng.hs = "notified"
      BY <1>1, <1>3, <1>5, <3>1 DEF StreamInv, NotifiedLast, Waits
    <3> QED
      BY <1>4, <1>5, <2>4, <3>2 DEF NotifiedLast, Stays
  <2>7. Receiving' /\ HeadType'
    BY <1>4, <1>5, ReceivingKept, HeadTypeKept DEF Running
  <2> QED
    BY <1>3, <1>5, <2>4, <2>5, <2>6, <2>7 DEF StreamInv
<1> QED
  BY <1>1, <1>2, <1>7, <1>8

LEMMA UpdateStream ==
    ASSUME StreamInv, Update
    PROVE  StreamInv'
<1>0. ClientInv'
  BY UpdateInv DEF StreamInv
<1>1. CASE AvailableEnds
  <2>1. /\ writeIdx = 0 /\ writeIdx' = writeIdx /\ open' = open /\ UNCHANGED tcpVars
        /\ given' = given /\ put' = put /\ sent' = sent /\ got' = got /\ notified' = notified
        /\ op # "stop"
    BY <1>1, UpdatedNothingPending DEF AvailableEnds, peerVars, histVars, StreamInv
  <2>2. eng' = Flush(eng) \/ eng' = eng
    BY <1>1 DEF AvailableEnds, AvailableFlushes
  <2> QED
    BY <1>0, <2>1, <2>2, FlushStream, CallStream
<1>2. CASE ReadEnds
  BY <1>0, <1>2, ReadStream
<1>3. ASSUME eng' = eng, Updated, op # "stop",
             UNCHANGED <<open, writeIdx, tcpVars, peerVars, histVars>>
      PROVE  StreamInv'
  <2>1. /\ writeIdx' = writeIdx /\ open' = open /\ UNCHANGED tcpVars
        /\ given' = given /\ put' = put /\ sent' = sent /\ got' = got /\ notified' = notified
    BY <1>3 DEF peerVars, histVars
  <2> QED
    BY <1>0, <1>3, <2>1, CallStream
<1>4. CASE UntilClosed
  BY <1>0, <1>3, <1>4, StoppedStream DEF UntilClosed
<1>5. CASE UntilReceived
  BY <1>0, <1>3, <1>5, StoppedStream DEF UntilReceived
<1>6. CASE UntilRoom
  BY <1>3, <1>6 DEF UntilRoom, connVars
<1>7. CASE WriteEnds
  BY <1>3, <1>7 DEF WriteEnds, connVars
<1>8. CASE Copies
  BY <1>0, <1>8, CopiesStream
<1>9. CASE UntilFlushes
  <2>1. /\ writeIdx = 0 /\ writeIdx' = writeIdx /\ open' = open /\ UNCHANGED tcpVars
        /\ given' = given /\ put' = put /\ sent' = sent /\ got' = got /\ notified' = notified
        /\ op' = op /\ eng' = Flush(eng)
    BY <1>9, UpdatedNothingPending DEF UntilFlushes, callVars, peerVars, histVars, StreamInv
  <2> QED
    BY <1>0, <2>1, FlushStream
<1>10. CASE HandsOver
  BY <1>0, <1>10, HandsOverStream
<1>11. ASSUME NEW n \in 1 .. SendRecLen(eng), SendsRecord(n)
       PROVE  StreamInv'
  BY <1>0, <1>11, SendsStream
<1>12. CASE SendFails
  BY <1>0, <1>12, StoppedStream DEF SendFails
<1> QED
  BY <1>1, <1>2, <1>4, <1>5, <1>6, <1>7, <1>8, <1>9, <1>10, <1>11, <1>12 DEF Update

\* The bytes of a record become readable when its last one has come.
LEMMA ReceivesStream ==
    ASSUME StreamInv, ClientInv', NEW n \in 1 .. RecvRecLen(eng), ReceivesRecord(n)
    PROVE  StreamInv'
<1> DEFINE r == Head(inbox)
<1>1. /\ eng \in Engine /\ Good(eng) /\ Waits(eng) /\ eng' \in Engine
      /\ RecvRecLen(eng) \in Nat /\ eng.ixa \in Nat /\ inbox \in Seq(Record) /\ got \in Seq(Nat)
  <2>1. eng \in Engine /\ Good(eng) /\ Waits(eng) /\ eng' \in Engine
    BY DEF StreamInv, ClientInv, Good
  <2> QED
    BY <2>1, EngineFields, StreamTypes DEF StreamInv, RecvRecLen, Least
<1>2. n \in Nat \ {0} /\ n <= RecvRecLen(eng)
  BY <1>1
<1>3. /\ open /\ writeIdx = 0 /\ inbox # <<>> /\ eng' = RecvRecAck(eng, r, n)
      /\ inbox' = IF Completes(eng, n) THEN Tail(inbox) ELSE inbox
      /\ open' = open /\ writeIdx' = writeIdx /\ op' = op /\ given' = given /\ gap' = gap
      /\ put' = put /\ sent' = sent /\ notified' = notified /\ got' = got
  BY <1>1 DEF ReceivesRecord, ReadyToReceive, TcpReads, callVars, peerVars, histVars, StreamInv,
     ClientInv, CalledWhileOpen, Completes
<1>4. /\ BodyOf(eng, r) /\ r \in Record /\ TypeOf(eng, r)
      /\ gap => AppData(r) = <<>>
  <2>1. gap => r.type = "forged"
    <3>1. r = inbox[1] /\ 1 \in DOMAIN inbox
      BY <1>1, <1>3, EmptySeq
    <3> QED
      BY <3>1 DEF StreamInv, ClientInv, SpoiltBehindGap
  <2> QED
    BY <1>3, <2>1, HeadIsBody DEF StreamInv, HeadType, AppData
<1> HIDE DEF r
<1>5. /\ Outgoing(eng') = Outgoing(eng) /\ Waits(eng')
      /\ TypeOf(eng', r) /\ ~Closed(eng) /\ ~eng.shut
      /\ eng.hs = "notified" => eng'.hs = "notified"
      /\ UnreadIn(eng) = <<>>
      /\ \/ Closed(eng')
         \/ UnreadIn(eng') = IF Completes(eng, n) THEN AppData(r) ELSE <<>>
  BY <1>1, <1>2, <1>3, <1>4, RecvRecAckMoves
<1>6. Completes(eng, n) => ~Body(eng')
  BY <1>1, <1>2, <1>3, <1>4, RecvRecAckGood DEF Completes
<1>7. Sending'
  <2>1. PendingIn(eng', writeIdx') = <<>> /\ PendingIn(eng, writeIdx) = <<>>
    BY <1>1, <1>3, PendingNone
  <2> QED
    BY <1>3, <1>5, <2>1 DEF StreamInv, Sending
<1>8. Receiving'
  <2>1. CASE Running'
    <3>1. Running
      BY <1>3, <1>5, <2>1 DEF Running
    <3>2. ~gap => Joined(got, ComingOf(inbox)) = Numbers(0, given)
      BY <1>1, <1>5, <3>1, JoinedEmpty DEF StreamInv, Receiving
    <3>3. Joined(Joined(got, UnreadIn(eng')), ComingOf(inbox')) = Joined(got, ComingOf(inbox))
      <4>1. CASE Completes(eng, n)
        <5>1. Tail(inbox) \in Seq(Record)
          BY <1>1, <1>3, HeadTailProperties
        <5>2. AppData(r) \in Seq(Nat) /\ ComingOf(Tail(inbox)) \in Seq(Nat)
          BY <1>4, <5>1, AppDataType, ComingType
        <5>3. ComingOf(inbox) = Joined(AppData(r), ComingOf(Tail(inbox)))
          BY <1>1, <1>3, ComingHead DEF r
        <5>4. UnreadIn(eng') = AppData(r) /\ inbox' = Tail(inbox)
          BY <1>3, <1>5, <2>1, <4>1 DEF Running
        <5> QED
          BY <1>1, <5>2, <5>3, <5>4, JoinedAssociative
      <4>2. CASE ~Completes(eng, n)
        BY <1>1, <1>3, <1>5, <2>1, <4>2, JoinedEmpty DEF Running
      <4> QED
        BY <4>1, <4>2
    <3>4. IsPrefix(Joined(got, UnreadIn(eng')), Numbers(0, given))
      <4>1. UnreadIn(eng') = <<>> \/ (UnreadIn(eng') = AppData(r) /\ Completes(eng, n))
        BY <1>3, <1>5, <2>1 DEF Running
      <4>2. IsPrefix(got, Numbers(0, given))
        BY DEF StreamInv, Receiving
      <4>3. CASE UnreadIn(eng') = <<>>
        BY <1>1, <4>2, <4>3, JoinedEmpty
      <4>4. CASE UnreadIn(eng') # <<>>
        <5>1. ~gap /\ AppData(r) \in Seq(Nat) /\ inbox' = Tail(inbox)
          BY <1>3, <1>4, <4>1, <4>4, AppDataType
        <5>2. ComingOf(inbox') \in Seq(Nat)
          BY <1>1, <1>3, <5>1, HeadTailProperties, ComingType
        <5>3. Joined(Joined(got, UnreadIn(eng')), ComingOf(inbox')) = Numbers(0, given)
          BY <3>2, <3>3, <5>1
        <5>4. Joined(got, UnreadIn(eng')) \in Seq(Nat)
          BY <1>1, <4>1, <4>4, <5>1, JoinedType
        <5>5. IsPrefix(Joined(got, UnreadIn(eng')),
                       Joined(Joined(got, UnreadIn(eng')), ComingOf(inbox')))
          BY <5>2, <5>4, PrefixOfJoined
        <5> QED
          BY <5>3, <5>5
      <4> QED
        BY <4>3, <4>4
    <3> QED
      BY <1>3, <2>1, <3>2, <3>3, <3>4 DEF StreamInv, Receiving
  <2>2. CASE ~Running'
    BY <1>3, <2>2 DEF StreamInv, Receiving
  <2> QED
    BY <2>1, <2>2
<1>9. HeadType'
  BY <1>3, <1>5, <1>6 DEF HeadType, TypeOf, r
<1>10. NotifiedLast'
  BY <1>3, <1>5, NotifiedKept
<1> QED
  BY <1>5, <1>7, <1>8, <1>9, <1>10 DEF StreamInv

LEMMA PeerStream ==
    ASSUME StreamInv, ClientInv', NEW kind \in Kinds,
           NEW n \in IF kind = "app" THEN Data ELSE {Short[kind]}, PeerSends(kind, n)
    PROVE  StreamInv'
<1> DEFINE s == [type |-> kind,
                 data |-> IF kind = "app" THEN Numbers(given, n) ELSE Others(n)]
           r == IF gap THEN [s EXCEPT !.type = "forged"] ELSE s
           all == Joined(Joined(got, UnreadIn(eng)), ComingOf(inbox))
<1>1. kind \in InType /\ n \in Nat
  BY DEF Short
<1>2. /\ got \in Seq(Nat) /\ UnreadIn(eng) \in Seq(Nat) /\ ComingOf(inbox) \in Seq(Nat)
      /\ inbox \in Seq(Record) /\ given \in Nat
  BY StreamTypes DEF StreamInv
<1>3. s \in Record
  <2>1. Numbers(given, n) \in Seq(Cell) /\ Others(n) \in Seq(Cell)
    BY <1>1, <1>2, NumbersType, OthersCells DEF Cell
  <2> QED
    BY <1>1, <2>1 DEF Record
<1>4. AppData(s) = IF kind = "app" THEN Numbers(given, n) ELSE <<>>
  BY DEF AppData
<1>5. /\ inbox' = Append(inbox, r) /\ gap' = gap
      /\ given' = IF kind = "app" THEN given + n ELSE given
      /\ eng' = eng /\ op' = op /\ writeIdx' = writeIdx /\ open' = open
      /\ put' = put /\ sent' = sent /\ notified' = notified /\ got' = got
  BY DEF PeerSends, TcpCarries, connVars, callVars, histVars
<1> HIDE DEF s
<1>6. r \in Record /\ (~gap => r = s) /\ (gap => r.type = "forged")
  BY <1>3 DEF Record, InType
<1> HIDE DEF r
<1>7. AppData(s) \in Seq(Nat) /\ Numbers(0, given) \in Seq(Nat)
  <2>1. 0 \in Nat
    OBVIOUS
  <2> QED
    BY <1>2, <1>3, <2>1, AppDataType, NumbersType
<1>8. Joined(Numbers(0, given), AppData(s)) = Numbers(0, given')
  <2>1. Joined(Numbers(0, given), Numbers(given, n)) = Numbers(0, given + n)
    BY <1>1, <1>2, NumbersNext
  <2>2. Joined(Numbers(0, given), <<>>) = Numbers(0, given)
    BY <1>7, JoinedEmpty
  <2> QED
    BY <1>4, <1>5, <2>1, <2>2
<1>9. Receiving'
  <2>1. ASSUME NEW t \in Seq(Nat), IsPrefix(t, Numbers(0, given))
        PROVE  IsPrefix(t, Numbers(0, given'))
    <3>1. IsPrefix(t, Numbers(0, given) \o AppData(s))
      BY <1>7, <2>1, PrefixOfLonger
    <3> QED
      BY <1>8, <3>1 DEF Joined
  <2>2. IsPrefix(got, Numbers(0, given'))
    BY <1>2, <2>1 DEF StreamInv, Receiving
  <2>3. Running => IsPrefix(Joined(got, UnreadIn(eng)), Numbers(0, given'))
    <3>1. Joined(got, UnreadIn(eng)) \in Seq(Nat)
      BY <1>2, JoinedType
    <3> QED
      BY <2>1, <3>1 DEF StreamInv, Receiving
  <2>4. ASSUME Running, ~gap
        PROVE  Joined(Joined(got, UnreadIn(eng)), ComingOf(inbox')) = Numbers(0, given')
    <3>1. Joined(got, UnreadIn(eng)) \in Seq(Nat) /\ all = Numbers(0, given)
      BY <1>2, <2>4, JoinedType DEF StreamInv, Receiving
    <3>2. ComingOf(inbox') = Joined(ComingOf(inbox), AppData(s))
      BY <1>2, <1>3, <1>5, <1>6, <2>4, ComingAppend
    <3>3. Joined(Joined(got, UnreadIn(eng)), ComingOf(inbox')) = Joined(all, AppData(s))
      BY <1>2, <1>7, <3>1, <3>2, JoinedAssociative
    <3> QED
      BY <1>8, <3>1, <3>3
  <2> QED
    BY <1>5, <2>2, <2>3, <2>4 DEF Receiving, Running
<1>10. HeadType'
  <2>1. inbox # <<>> => Head(inbox') = Head(inbox)
    BY <1>2, <1>5, <1>6, AppendProperties
  <2>2. inbox = <<>> => Head(inbox') = r
    BY <1>2, <1>5, <1>6, AppendProperties
  <2>3. open /\ inbox = <<>> => gap \/ ~Body(eng)
    BY DEF StreamInv, ClientInv, ReceivesHead
  <2> QED
    BY <1>5, <1>6, <2>1, <2>2, <2>3 DEF StreamInv, HeadType, TypeOf
<1>11. Waits(eng)' /\ Sending' /\ NotifiedLast'
  BY <1>5 DEF StreamInv, Sending, NotifiedLast
<1> QED
  BY <1>9, <1>10, <1>11 DEF StreamInv

LEMMA ArrivalStream ==
    ASSUME StreamInv, Arrival
    PROVE  StreamInv'
<1>0. ClientInv'
  BY ArrivalInv DEF StreamInv
<1>1. CASE ReceiveFails
  BY <1>0, <1>1, StoppedStream DEF ReceiveFails, GivesUp
<1>2. ASSUME NEW n \in 1 .. RecvRecLen(eng), ReceivesRecord(n)
      PROVE  StreamInv'
  BY <1>0, <1>2, ReceivesStream
<1> QED
  BY <1>1, <1>2 DEF Arrival

LEMMA StepStream == StreamInv /\ [Next]_vars => StreamInv'
<1> SUFFICES ASSUME StreamInv, [Next]_vars
             PROVE  StreamInv'
  OBVIOUS
<1>1. ClientInv'
  BY StepInv DEF StreamInv
<1>2. CASE Caller \/ Update \/ Arrival
  BY <1>2, CallerStream, UpdateStream, ArrivalStream
<1>3. CASE UntilTimeout
  BY <1>1, <1>3, StoppedStream DEF UntilTimeout, GivesUp
<1>4. CASE Peer
  BY <1>1, <1>4, PeerStream DEF Peer
<1>5. CASE UNCHANGED vars
  <2>1. /\ eng' = eng /\ writeIdx' = writeIdx /\ open' = open /\ UNCHANGED tcpVars /\ op' = op
        /\ given' = given /\ put' = put /\ sent' = sent /\ got' = got /\ notified' = notified
    BY <1>5 DEF vars, connVars, callVars, peerVars, histVars
  <2> QED
    BY <1>1, <2>1, CallStream
<1> QED
  BY <1>2, <1>3, <1>4, <1>5 DEF Next

-----------------------------------------------------------------------------
(* The theorems.                                                           *)

\* What TCP has taken, and what the engine and its buffer hold behind it, is
\* what write() has copied: no byte is lost, repeated, moved or written over
\* by an alert, for buffers of every size and however TCP cuts the records.
THEOREM WrittenInOrder == Spec => []SentInOrder
<1>1. Init => StreamInv
  BY InitStream
<1>2. StreamInv /\ [Next]_vars => StreamInv'
  BY StepStream
<1>3. StreamInv => SentInOrder
  BY SendingIsSent DEF StreamInv
<1> QED
  BY <1>1, <1>2, <1>3, PTL DEF Spec

\* What read() has returned and can return next are the first bytes the peer
\* has sent, for records of every length and kind and however they come in.
\* The flush() behind every write may drop bytes at any time, but those only
\* end the reading: no byte behind them is ever returned.  As long as none is
\* dropped, all that the peer has sent is there or still to come.
THEOREM ReadAsSent == Spec => []ReadInOrder
<1>1. Init => StreamInv
  BY InitStream
<1>2. StreamInv /\ [Next]_vars => StreamInv'
  BY StepStream
<1>3. StreamInv => ReadInOrder
  BY ReceivingIsRead DEF StreamInv
<1> QED
  BY <1>1, <1>2, <1>3, PTL DEF Spec

\* Our close_notify never overtakes what was written, and nothing can be
\* written behind it.
THEOREM NothingBehindClose == Spec => []CloseIsLast
<1>1. Init => StreamInv
  BY InitStream
<1>2. StreamInv /\ [Next]_vars => StreamInv'
  BY StepStream
<1>3. StreamInv => CloseIsLast
  BY DEF StreamInv, NotifiedLast, CloseIsLast
<1> QED
  BY <1>1, <1>2, <1>3, PTL DEF Spec

-----------------------------------------------------------------------------
(* The end that the peer puts to a connection.                             *)

\* The handshake processor has seen the peer's close_notify, if it has come.
NoneEnds(e) == RecvPldLen(e) > 0 => e.tin # "close"

LEMMA ShutType ==
    ASSUME NEW e \in Engine
    PROVE  e.shut \in BOOLEAN
BY Zenon DEF Engine

LEMMA StaysNoneEnds ==
    ASSUME NEW e, NEW f, NoneEnds(e), Stays(f, e)
    PROVE  NoneEnds(f)
BY DEF NoneEnds, Stays

LEMMA ConsumedNothing ==
    ASSUME NEW e, Good(e), HasInput(e)
    PROVE  RecvPldLen(Consumed(e)) = 0
<1> DEFINE n == RecvPldLen(e)
           f == [e EXCEPT !.ixa = @ + n, !.plain = SubSeq(@, n + 1, Len(@))]
<1>1. /\ e \in Engine /\ e.ixa \in Nat /\ e.ixb \in Nat /\ e.plain \in Seq(Cell)
      /\ n \in Nat /\ n = e.ixb - e.ixa
  BY EngineFields DEF Good, HasInput, RecvPldLen
<1>2. Consumed(e) = IF f.ixa = f.ixb THEN MakeReadyIn(f) ELSE f
  BY DEF Consumed, RecvPldAck
<1> HIDE DEF n
<1>3. f \in Engine
  <2>1. SubSeq(e.plain, n + 1, Len(e.plain)) \in Seq(Cell) /\ e.ixa + n \in Nat
    BY <1>1
  <2> QED
    BY Zenon, <1>1, <2>1 DEF Engine
<1>4. f.ixa = e.ixa + n /\ f.ixb = e.ixb
  BY <1>1 DEF Engine
<1> HIDE DEF f
<1>5. f.ixa = f.ixb
  BY <1>1, <1>4
<1> QED
  BY <1>2, <1>3, <1>5, MakeReadyInMoves

LEMMA HsInputEnds ==
    ASSUME NEW e, Good(e), Waits(e)
    PROVE  /\ NoneEnds(e) => HsInput(e).shut = e.shut
           /\ ~e.shut => NoneEnds(HsInput(e))
<1> DEFINE c == Consumed(e)
           g == FlushRecord(c)
<1>1. Stays(HsInput(e), e)
  BY HsInputMoves DEF Quiet
<1>2. ASSUME HasInput(e), e.hs \in {"main", "refuse"}
      PROVE  /\ StateKept(c, e) /\ StateKept(g, e) /\ g \in Engine /\ RecvPldLen(g) = 0
  <2>1. /\ OutKept(c, e) /\ StateKept(c, e) /\ Waits(c) /\ Good(c) /\ RecvPldLen(c) = 0
    BY <1>2, ConsumedMoves, ConsumedNothing
  <2>2. c.tout = "app"
    BY <1>2, <2>1 DEF Waits, OutKept
  <2> HIDE DEF c
  <2>3. StateKept(g, c) /\ SameIn(g, c) /\ Good(g)
    BY <2>1, <2>2, FlushRecordMoves, FlushRecordGood
  <2>4. RecvPldLen(g) = 0
    BY <2>1, <2>3, SameInStays
  <2> HIDE DEF g
  <2> QED
    BY <2>1, <2>3, <2>4 DEF StateKept, Good
<1>3. ASSUME NoneEnds(e)
      PROVE  HsInput(e).shut = e.shut
  <2>1. CASE HasInput(e) /\ e.hs = "main" /\ e.tin = "hello"
    <3> DEFINE f == [g EXCEPT !.app = 0, !.hs = "refuse"]
    <3>1. HsInput(e) = f
      BY <2>1 DEF HsInput
    <3>2. StateKept(g, e) /\ g \in Engine
      BY <1>2, <2>1
    <3> HIDE DEF g
    <3>3. f.shut = g.shut
      BY Zenon, <3>2 DEF Engine
    <3> QED
      BY <3>1, <3>2, <3>3 DEF StateKept
  <2>2. CASE HasInput(e) /\ e.hs \in {"main", "refuse"} /\ e.tin = "warning"
    BY <1>2, <2>2 DEF HsInput, StateKept
  <2>3. CASE HasInput(e) /\ e.hs \in {"main", "refuse"} /\ e.tin = "fatal"
    <3>1. HsInput(e) = Fail(e, "ERROR")
      BY <2>3 DEF HsInput
    <3> QED
      BY <3>1, FailKeeps DEF Good, StateKept
  <2>4. CASE ~(HasInput(e) /\ e.hs = "main" /\ e.tin = "hello")
             /\ ~(HasInput(e) /\ e.hs \in {"main", "refuse"} /\ e.tin \in {"warning", "fatal"})
    <3>1. HasInput(e) => e.tin # "close"
      BY <1>3 DEF HasInput, NoneEnds
    <3> QED
      BY <2>4, <3>1 DEF HsInput
  <2> QED
    BY <2>1, <2>2, <2>3, <2>4
<1>4. ASSUME ~e.shut
      PROVE  NoneEnds(HsInput(e))
  <2>1. CASE HasInput(e) /\ e.tin = "close"
    <3> DEFINE f == [g EXCEPT !.app = 0, !.hs = "close", !.shut = TRUE]
    <3>1. e.hs \in {"main", "refuse"}
      BY <1>4, EngineFields DEF Waits, Good
    <3>2. HsInput(e) = f
      BY <2>1, <3>1 DEF HsInput, Closes
    <3>3. g \in Engine /\ RecvPldLen(g) = 0
      BY <1>2, <2>1, <3>1
    <3> HIDE DEF g
    <3>4. RecvPldLen(f) = RecvPldLen(g)
      BY <3>3 DEF Engine, RecvPldLen, Closed
    <3> QED
      BY <3>2, <3>3, <3>4 DEF NoneEnds
  <2>2. CASE ~(HasInput(e) /\ e.tin = "close")
    <3>1. NoneEnds(e)
      BY <2>2 DEF HasInput, NoneEnds
    <3> QED
      BY <1>1, <3>1, StaysNoneEnds
  <2> QED
    BY <2>1, <2>2
<1> QED
  BY <1>3, <1>4

LEMMA HsOutputEnds ==
    ASSUME NEW e, Good(e)
    PROVE  HsOutput(e).shut = e.shut
<1>1. ASSUME NEW alert \in {"refuse", "close"}, CanOutput(e)
      PROVE  /\ SendWarning(e, alert) \in Engine /\ SendWarning(e, alert).shut = e.shut
  BY <1>1, SendWarningMoves, SendWarningGood DEF OutType, Good, StateKept
<1>2. CASE ~(Closed(e) \/ ~CanOutput(e) \/ e.hs = "main") /\ e.hs = "refuse"
  <2> DEFINE g == SendWarning(e, "refuse")
             f == [g EXCEPT !.app = 1, !.tout = "app", !.hs = "main"]
  <2>1. HsOutput(e) = f /\ g \in Engine /\ g.shut = e.shut
    BY <1>1, <1>2 DEF HsOutput
  <2> HIDE DEF g
  <2>2. f.shut = g.shut
    BY Zenon, <2>1 DEF Engine
  <2> QED
    BY <2>1, <2>2
<1>3. CASE ~(Closed(e) \/ ~CanOutput(e) \/ e.hs = "main") /\ e.hs = "close"
  <2> DEFINE g == SendWarning(e, "close")
             f == [g EXCEPT !.hs = "notified"]
  <2>1. HsOutput(e) = f /\ g \in Engine /\ g.shut = e.shut
    BY <1>1, <1>3 DEF HsOutput
  <2> HIDE DEF g
  <2>2. f.shut = g.shut
    BY Zenon, <2>1 DEF Engine
  <2> QED
    BY <2>1, <2>2
<1>4. CASE ~(Closed(e) \/ ~CanOutput(e) \/ e.hs = "main") /\ e.hs \notin {"refuse", "close"}
  <2>1. HsOutput(e) = Fail(e, "OK")
    BY <1>4 DEF HsOutput
  <2> QED
    BY <2>1, FailKeeps DEF Good, StateKept
<1>5. CASE Closed(e) \/ ~CanOutput(e) \/ e.hs = "main"
  BY <1>5 DEF HsOutput
<1> QED
  BY <1>2, <1>3, <1>4, <1>5

\* It is seen as soon as it has come, whatever waits to be sent.
LEMMA RecvRecAckEnds ==
    ASSUME NEW e, Good(e), Waits(e), NEW r \in Record, BodyOf(e, r), TypeOf(e, r),
           NEW n \in Nat \ {0}, n <= RecvRecLen(e)
    PROVE  NoneEnds(RecvRecAck(e, r, n))
<1> DEFINE f == RecvRecBytes(e, r, n)
           h == HsInput(f)
           g == RecvRecAck(e, r, n)
<1>1. OutKept(f, e) /\ StateKept(f, e) /\ f \in Engine /\ ~e.shut /\ RecvPldLen(e) = 0
  BY RecvRecBytesMoves
<1>2. Good(f)
  BY RecvRecBytesGood
<1>3. /\ g = IF Closed(f) \/ RecvPldLen(f) = 0 THEN f
             ELSE IF f.tin # "app" THEN JumpHandshake(f)
             ELSE IF f.app = 1 THEN f
             ELSE Fail(f, "ERROR")
      /\ JumpHandshake(f) = HsOutput(h)
  BY DEF RecvRecAck, JumpHandshake
<1> HIDE DEF f, g
<1>4. CASE Closed(f) \/ RecvPldLen(f) = 0
  BY <1>3, <1>4 DEF NoneEnds, RecvPldLen, g
<1>5. CASE ~(Closed(f) \/ RecvPldLen(f) = 0) /\ f.tin # "app"
  <2>1. Waits(f) /\ ~f.shut
    BY <1>1, <1>5, OutKeptHolds DEF Waits, OutKept, StateKept
  <2>2. NoneEnds(h) /\ Good(h) /\ Waits(h)
    BY <1>2, <2>1, HsInputEnds, HsInputGood, HsInputMoves DEF Quiet
  <2> HIDE DEF h
  <2>3. Stays(HsOutput(h), h)
    BY <2>2, HsOutputMoves DEF Quiet
  <2> QED
    BY <1>3, <1>5, <2>2, <2>3, StaysNoneEnds DEF g
<1>6. CASE ~(Closed(f) \/ RecvPldLen(f) = 0) /\ f.tin = "app"
  <2>1. Fail(f, "ERROR").tin = f.tin
    BY <1>1, FailKeeps
  <2> QED
    BY <1>3, <1>6, <2>1 DEF NoneEnds, g
<1> QED
  BY <1>4, <1>5, <1>6

LEMMA SendRecAckEnds ==
    ASSUME NEW e, Good(e), Waits(e), NoneEnds(e), NEW n \in Nat \ {0}, n <= SendRecLen(e)
    PROVE  SendRecAck(e, n).shut = e.shut
<1> DEFINE f == SendRecBytes(e, n)
           h == HsInput(f)
<1>1. StateKept(f, e) /\ Waits(f) /\ SameIn(f, e) /\ Good(f)
  BY SendRecBytesMoves, SendRecBytesGood
<1>2. SendRecAck(e, n) = f \/ SendRecAck(e, n) = HsOutput(h)
  BY DEF SendRecAck, JumpHandshake
<1> HIDE DEF f
<1>3. NoneEnds(f)
  BY <1>1, SameInStays, StaysNoneEnds
<1>4. h.shut = f.shut /\ Good(h)
  BY <1>1, <1>3, HsInputEnds, HsInputGood
<1> HIDE DEF h
<1>5. HsOutput(h).shut = h.shut
  BY <1>4, HsOutputEnds
<1> QED
  BY <1>1, <1>2, <1>4, <1>5 DEF StateKept

LEMMA FlushEnds ==
    ASSUME NEW e, Good(e), Waits(e)
    PROVE  Flush(e).shut = e.shut
BY SendPldFlushMoves DEF Flush, Waits, StateKept

-----------------------------------------------------------------------------
(* The client implements ClientStream.                                     *)

\* Without a session there is no engine.
NoSessionNoEngine == ~open => eng = Ready

StreamEndInv == StreamInv /\ NoneEnds(eng) /\ NoSessionNoEngine

\* The step is one of the streams or leaves them as they are.
Implements == NoneEnds(eng') /\ [Promise!StreamNext]_(Promise!streamVars)

\* A prefix of a stream is its first bytes.
LEMMA PrefixOfNumbers ==
    ASSUME NEW s \in Seq(Nat), NEW m \in Nat, IsPrefix(s, Numbers(0, m))
    PROVE  Len(s) \in Nat /\ Len(s) <= m /\ s = Promise!Upto(Len(s))
<1>1. PICK n \in Nat : n = Len(s)
  BY LenProperties
<1>2. /\ Numbers(0, m) \in Seq(Nat) /\ Len(Numbers(0, m)) = m
      /\ \A k \in 1 .. m : Numbers(0, m)[k] = k
  BY DEF Numbers
<1>3. n <= m /\ \A k \in 1 .. n : s[k] = Numbers(0, m)[k]
  BY <1>1, <1>2, PrefixByElements
<1>4. \A k \in 1 .. n : s[k] = k
  BY <1>1, <1>2, <1>3
<1>5. /\ Promise!Upto(n) \in Seq(Nat) /\ Len(Promise!Upto(n)) = n
      /\ \A k \in 1 .. n : Promise!Upto(n)[k] = k
  BY <1>1 DEF Promise!Upto
<1>6. s = Promise!Upto(n)
  BY <1>1, <1>4, <1>5, SeqEqual
<1> QED
  BY <1>1, <1>3, <1>6

LEMMA StutterImplements ==
    ASSUME StreamEndInv, Stays(eng', eng), eng'.shut = eng.shut,
           UNCHANGED <<open, put, sent, given, got, notified>>
    PROVE  Implements
<1>1. NoneEnds(eng')
  BY StaysNoneEnds DEF StreamEndInv
<1>2. UNCHANGED Promise!streamVars
  BY DEF Promise!streamVars
<1> QED
  BY <1>1, <1>2 DEF Implements

\* A step that leaves the engine alone.
LEMMA SameEngineImplements ==
    ASSUME StreamEndInv, eng' = eng, UNCHANGED <<open, put, sent, given, got, notified>>
    PROVE  Implements
BY StutterImplements DEF Stays

LEMMA ReadyEnds == Ready.shut = FALSE /\ NoneEnds(Ready)
<1>1. Ready.shut = FALSE
  BY Zenon DEF Ready, MakeReadyIn, MakeReadyOut
<1>2. Ready.tin = "app"
  BY DEF Ready, MakeReadyIn, MakeReadyOut
<1> QED
  BY <1>1, <1>2 DEF NoneEnds

LEMMA EndedImplements ==
    ASSUME StreamEndInv, open' = FALSE, eng' = Ready, UNCHANGED <<peerVars, histVars>>
    PROVE  Implements
<1>1. UNCHANGED <<put, sent, given, got, notified>>
  BY DEF peerVars, histVars
<1>2. CASE open
  <2>1. Promise!Stops
    BY <1>1, <1>2, ReadyEnds DEF Promise!Stops
  <2> QED
    BY <2>1, ReadyEnds DEF Implements, Promise!StreamNext
<1>3. CASE ~open
  <2>1. eng' = eng /\ open' = open
    BY <1>3 DEF StreamEndInv, NoSessionNoEngine, StreamInv, ClientInv, Typed
  <2> QED
    BY <1>1, <2>1, SameEngineImplements
<1> QED
  BY <1>2, <1>3

LEMMA StoppedImplements ==
    ASSUME StreamEndInv, Stopped
    PROVE  Implements
BY EndedImplements DEF Stopped

LEMMA CallerImplements ==
    ASSUME StreamEndInv, Caller
    PROVE  Implements
<1>1. CASE Connect
  <2>1. /\ ~open /\ open' = TRUE /\ eng' = Ready /\ notified' = FALSE /\ put' = 0
        /\ sent' = <<>> /\ given' = 0 /\ got' = <<>>
    BY <1>1 DEF Connect, StreamEndInv, StreamInv, ClientInv, HasItsSocket
  <2>2. Promise!Opens
    BY <2>1, ReadyEnds DEF Promise!Opens
  <2> QED
    BY <2>1, <2>2, ReadyEnds DEF Implements, Promise!StreamNext
<1>2. CASE ConnectFails \/ HandshakeFails
  <2>1. CASE ConnectFails
    BY <2>1, SameEngineImplements DEF ConnectFails, peerVars, histVars
  <2>2. CASE HandshakeFails
    BY <2>2, EndedImplements DEF HandshakeFails
  <2> QED
    BY <1>2, <2>1, <2>2
<1>3. ASSUME NEW o, NEW n, Begins(o, n)
      PROVE  Implements
  BY <1>3, SameEngineImplements DEF Begins, connVars, peerVars, histVars
<1>4. CASE Available \/ AvailableForWrite \/ FlushCall
  BY <1>3, <1>4 DEF Available, AvailableForWrite, FlushCall
<1>5. ASSUME NEW n \in Sizes, Read(n) \/ Write(n)
      PROVE  Implements
  BY <1>3, <1>5 DEF Read, Write
<1>6. CASE Stop
  <2>1. CASE ~Closed(eng) /\ writeIdx > 0
    <3> DEFINE n == RecvAppLen(eng)
    <3>1. /\ eng' = IF n > 0 THEN RecvPldAck(eng, n) ELSE eng
          /\ UNCHANGED <<open, put, sent, given, got, notified>>
      BY <1>6, <2>1 DEF Stop, peerVars, histVars
    <3>2. Good(eng) /\ Waits(eng) /\ n \in Nat /\ n <= RecvPldLen(eng)
      <4>1. /\ Good(eng) /\ Waits(eng) /\ eng.ixa \in Nat /\ eng.ixb \in Nat
            /\ Closed(eng) \/ eng.ixa <= eng.ixb
        BY EngineFields DEF StreamEndInv, StreamInv, ClientInv, Good, InRegisters
      <4> QED
        BY <4>1 DEF RecvAppLen, RecvPldLen
    <3> HIDE DEF n
    <3>3. CASE n > 0
      <4>1. Stays(eng', eng) /\ eng'.shut = eng.shut
        BY <3>1, <3>2, <3>3, RecvPldAckMoves DEF StateKept
      <4> QED
        BY <3>1, <4>1, StutterImplements
    <3>4. CASE ~(n > 0)
      BY <3>1, <3>4, SameEngineImplements
    <3> QED
      BY <3>3, <3>4
  <2>2. CASE ~(~Closed(eng) /\ writeIdx > 0)
    BY <1>6, <2>2, StoppedImplements DEF Stop
  <2> QED
    BY <2>1, <2>2
<1> QED
  BY <1>1, <1>2, <1>4, <1>5, <1>6 DEF Caller

\* What is written is new, and the peer has not ended.
LEMMA CopiesImplements ==
    ASSUME StreamEndInv, Copies, ClientInv'
    PROVE  Implements
<1>1. /\ Stays(eng', eng) /\ StateKept(eng', eng)
      /\ open /\ ~eng.shut /\ put' \in Nat /\ put' > put
  BY CopiesStream DEF StreamEndInv
<1>2. UNCHANGED <<open, sent, given, got, notified>>
  BY DEF Copies, peerVars
<1>3. Promise!Writes
  BY <1>1, <1>2 DEF Promise!Writes, StateKept
<1>4. NoneEnds(eng')
  BY <1>1, StaysNoneEnds DEF StreamEndInv
<1> QED
  BY <1>3, <1>4 DEF Implements, Promise!StreamNext

\* What is read are the next bytes.
LEMMA ReadImplements ==
    ASSUME StreamEndInv, ReadEnds, ClientInv'
    PROVE  Implements
<1>1. /\ StreamInv' /\ Stays(eng', eng) /\ StateKept(eng', eng)
      /\ Running /\ Running' /\ IsPrefix(got, got')
  BY ReadStream DEF StreamEndInv
<1>2. UNCHANGED <<open, put, sent, given, notified>>
  BY DEF ReadEnds, peerVars
<1>3. /\ got \in Seq(Nat) /\ got' \in Seq(Nat) /\ given \in Nat /\ given' = given
      /\ UnreadIn(eng') \in Seq(Nat) /\ ComingOf(inbox') \in Seq(Nat)
  <2>1. /\ got' \in Seq(Nat) /\ given' \in Nat /\ inbox' \in Seq(Record) /\ eng' \in Engine
    BY DEF ClientInv, Good, Typed, Cell
  <2>2. UnreadIn(eng') \in Seq(Nat)
    <3>1. eng'.plain \in Seq(Nat) /\ <<>> \in Seq(Nat)
      BY <2>1, EngineFields DEF Cell
    <3> QED
      BY <3>1 DEF UnreadIn
  <2> QED
    BY <1>2, <2>1, <2>2, ComingType, StreamTypes DEF StreamEndInv, StreamInv
<1>4. IsPrefix(got', Numbers(0, given))
  BY <1>1, <1>3 DEF StreamInv, Receiving
<1>5. Len(got') \in Nat /\ Len(got') <= given /\ got' = Promise!Upto(Len(got'))
  BY <1>3, <1>4, PrefixOfNumbers
<1>6. Len(got) \in Nat /\ Len(got) <= Len(got')
  BY <1>1, <1>3, LenProperties DEF IsPrefix
<1>7. Len(got') \in Len(got) .. given
  BY <1>3, <1>5, <1>6
<1>8. Promise!Reads
  BY <1>1, <1>2, <1>5, <1>7 DEF Promise!Reads, Running, StateKept
<1>9. NoneEnds(eng')
  BY <1>1, StaysNoneEnds DEF StreamEndInv
<1> QED
  BY <1>8, <1>9 DEF Implements, Promise!StreamNext

\* What goes out are the next bytes, or the answer behind all of them.
LEMMA SendsImplements ==
    ASSUME StreamEndInv, ClientInv', NEW n \in 1 .. SendRecLen(eng), SendsRecord(n)
    PROVE  Implements
<1>1. /\ StreamInv' /\ Stays(eng', eng) /\ open /\ HasRecToSend(eng)
      /\ n = SendRecLen(eng) => sent' = Numbers(0, put)
  BY SendsStream DEF StreamEndInv
<1>2. /\ Good(eng) /\ Waits(eng) /\ NoneEnds(eng) /\ n \in Nat \ {0} /\ n <= SendRecLen(eng)
      /\ SendRecLen(eng) \in Nat /\ eng.hs \in {"main", "refuse", "close", "notified"}
  <2>1. Good(eng) /\ Waits(eng) /\ NoneEnds(eng) /\ eng \in Engine
    BY DEF StreamEndInv, StreamInv, ClientInv, Good
  <2>2. SendRecLen(eng) \in Nat
    BY <2>1, EngineFields DEF SendRecLen
  <2> QED
    BY <2>1, <2>2, EngineFields
<1>3. /\ eng' = SendRecAck(eng, n) /\ UNCHANGED <<open, put, given, got>>
      /\ IF n < SendRecLen(eng) THEN UNCHANGED <<sent, notified>>
         ELSE /\ eng.sealed.type # "app" => sent' = sent
              /\ notified' = (notified \/ eng.sealed.type = "close")
  BY DEF SendsRecord, peerVars
<1>4. eng'.shut = eng.shut /\ NoneEnds(eng')
  BY <1>1, <1>2, <1>3, SendRecAckEnds, StaysNoneEnds
<1>5. /\ eng.sealed.type = "close" <=> eng.hs = "notified"
      /\ notified => eng.hs = "notified"
      /\ notified \in BOOLEAN /\ put \in Nat /\ sent \in Seq(Nat)
  BY <1>1, <1>2 DEF StreamEndInv, StreamInv, ClientInv, Typed, Waits, NotifiedLast, Cell
<1>6. CASE sent' = sent /\ notified' = notified
  BY <1>1, <1>3, <1>4, <1>6, StutterImplements
<1>7. CASE eng.sealed.type = "close" /\ ~notified /\ ~(sent' = sent /\ notified' = notified)
  <2>1. n = SendRecLen(eng) /\ sent' = sent /\ notified' = TRUE /\ eng.shut
    <3>1. ~(n < SendRecLen(eng))
      BY <1>3, <1>7, Zenon
    <3>2. n = SendRecLen(eng)
      BY <1>2, <3>1
    <3>3. eng.sealed.type # "app"
      BY <1>7, SMT
    <3>4. sent' = sent
      BY <1>3, <3>1, <3>3, Zenon
    <3>5. notified' = TRUE
      BY <1>3, <1>7, <3>1, Zenon
    <3>6. eng.shut
      BY <1>2, <1>5, <1>7, Zenon DEF Waits
    <3> QED
      BY <3>2, <3>4, <3>5, <3>6
  <2>2. Len(sent) = put
    BY <1>1, <1>5, <2>1, NumbersType
  <2>3. Promise!Answers
    BY <1>1, <1>3, <1>4, <1>7, <2>1, <2>2 DEF Promise!Answers
  <2> QED
    BY <1>4, <2>3 DEF Implements, Promise!StreamNext
<1>8. CASE eng.sealed.type # "close" /\ ~(sent' = sent /\ notified' = notified)
  <2>1. n = SendRecLen(eng) /\ notified' = notified /\ ~notified
    BY <1>2, <1>3, <1>5, <1>8
  <2>2. sent' = Promise!Upto(put)
    BY <1>1, <1>5, <2>1 DEF Numbers, Promise!Upto
  <2>3. put \in Len(sent) .. put
    <3>1. IsPrefix(sent, Numbers(0, put))
      BY SentIsPrefix DEF StreamEndInv, StreamInv
    <3>2. Len(sent) \in Nat /\ Len(sent) <= put
      BY <1>5, <3>1, PrefixOfNumbers
    <3> QED
      BY <1>5, <3>2
  <2>4. Promise!Sends
    BY <1>1, <1>3, <1>4, <2>1, <2>2, <2>3 DEF Promise!Sends
  <2> QED
    BY <1>4, <2>4 DEF Implements, Promise!StreamNext
<1>9. eng.sealed.type = "close" /\ notified => sent' = sent /\ notified' = notified
  BY <1>3, <1>5
<1> QED
  BY <1>6, <1>7, <1>8, <1>9

LEMMA UpdateImplements ==
    ASSUME StreamEndInv, Update
    PROVE  Implements
<1>0. Good(eng) /\ Waits(eng) /\ ClientInv /\ ClientInv'
  BY UpdateInv DEF StreamEndInv, StreamInv, ClientInv
<1>1. ASSUME eng' = Flush(eng), UNCHANGED <<peerVars, histVars, open>>
      PROVE  Implements
  <2>1. Stays(eng', eng) /\ eng'.shut = eng.shut
    BY <1>0, <1>1, FlushMoves, FlushEnds DEF Quiet
  <2> QED
    BY <1>1, <2>1, StutterImplements DEF peerVars, histVars
<1>2. ASSUME eng' = eng, UNCHANGED <<peerVars, histVars, open>>
      PROVE  Implements
  BY <1>2, SameEngineImplements DEF peerVars, histVars
<1>3. CASE AvailableEnds
  BY <1>1, <1>2, <1>3 DEF AvailableEnds, AvailableFlushes
<1>4. CASE ReadEnds
  BY <1>0, <1>4, ReadImplements
<1>5. CASE UntilClosed
  BY <1>2, <1>5, StoppedImplements DEF UntilClosed
<1>6. CASE UntilReceived
  BY <1>2, <1>6, StoppedImplements DEF UntilReceived
<1>7. CASE UntilRoom \/ WriteEnds
  BY <1>2, <1>7 DEF UntilRoom, WriteEnds, connVars
<1>8. CASE Copies
  BY <1>0, <1>8, CopiesImplements
<1>9. CASE UntilFlushes
  BY <1>1, <1>9 DEF UntilFlushes
<1>10. CASE HandsOver
  <2>1. /\ eng.app = 1 /\ writeIdx \in Nat \ {0} /\ writeIdx <= SendPldLen(eng)
    BY <1>0, <1>10 DEF HandsOver, ClientInv, Typed, SendAppLen
  <2>2. eng' = SendPldAck(eng, writeIdx) /\ UNCHANGED <<peerVars, histVars, open>>
    BY <1>10 DEF HandsOver
  <2>3. StateKept(eng', eng) /\ SameIn(eng', eng)
    BY <1>0, <2>1, <2>2, SendPldAckMoves
  <2>4. Stays(eng', eng) /\ eng'.shut = eng.shut
    BY <2>3, SameInStays DEF StateKept
  <2> QED
    BY <2>2, <2>4, StutterImplements DEF peerVars, histVars
<1>11. ASSUME NEW n \in 1 .. SendRecLen(eng), SendsRecord(n)
       PROVE  Implements
  BY <1>0, <1>11, SendsImplements
<1>12. CASE SendFails
  BY <1>12, StoppedImplements DEF SendFails
<1> QED
  BY <1>3, <1>4, <1>5, <1>6, <1>7, <1>8, <1>9, <1>10, <1>11, <1>12 DEF Update

\* The record that ends the streams carries no byte of them.
LEMMA ReceivesImplements ==
    ASSUME StreamEndInv, NEW n \in 1 .. RecvRecLen(eng), ReceivesRecord(n), ClientInv'
    PROVE  Implements
<1> DEFINE r == Head(inbox)
<1>1. /\ eng \in Engine /\ Good(eng) /\ Waits(eng) /\ eng' \in Engine
      /\ RecvRecLen(eng) \in Nat
  <2>1. eng \in Engine /\ Good(eng) /\ Waits(eng) /\ eng' \in Engine
    BY DEF StreamEndInv, StreamInv, ClientInv, Good
  <2> QED
    BY <2>1, EngineFields DEF RecvRecLen, Least
<1>2. n \in Nat \ {0} /\ n <= RecvRecLen(eng)
  BY <1>1
<1>3. /\ open /\ inbox # <<>> /\ eng' = RecvRecAck(eng, r, n)
      /\ UNCHANGED <<open, put, sent, given, got, notified>>
  BY DEF ReceivesRecord, TcpReads, callVars, peerVars, histVars, StreamEndInv, StreamInv,
     ClientInv, CalledWhileOpen
<1>4. BodyOf(eng, r) /\ r \in Record /\ TypeOf(eng, r)
  BY <1>3, HeadIsBody DEF StreamEndInv, StreamInv, HeadType
<1> HIDE DEF r
<1>5. ~eng.shut /\ NoneEnds(eng')
  BY <1>1, <1>2, <1>3, <1>4, RecvRecAckMoves, RecvRecAckEnds
<1>6. eng.shut \in BOOLEAN /\ eng'.shut \in BOOLEAN
  BY Zenon, <1>1, ShutType
<1>7. CASE eng'.shut
  <2>1. Promise!Ends
    BY <1>3, <1>5, <1>6, <1>7 DEF Promise!Ends
  <2> QED
    BY <1>5, <2>1 DEF Implements, Promise!StreamNext
<1>8. CASE ~eng'.shut
  <2>1. UNCHANGED Promise!streamVars
    BY <1>3, <1>5, <1>6, <1>8 DEF Promise!streamVars
  <2> QED
    BY <1>5, <2>1 DEF Implements
<1> QED
  BY <1>7, <1>8

LEMMA PeerImplements ==
    ASSUME StreamEndInv, NEW kind \in Kinds,
           NEW n \in IF kind = "app" THEN Data ELSE {Short[kind]}, PeerSends(kind, n)
    PROVE  Implements
<1>1. /\ eng' = eng /\ UNCHANGED <<open, put, sent, got, notified>> /\ open
      /\ given' = IF kind = "app" THEN given + n ELSE given
  BY DEF PeerSends, connVars, histVars
<1>2. given \in Nat /\ (kind = "app" => n \in Nat)
  BY DEF StreamEndInv, StreamInv, ClientInv, Typed
<1>3. CASE given' = given
  BY <1>1, <1>3, SameEngineImplements
<1>4. CASE given' # given
  <2>1. given' \in Nat /\ given' > given
    BY <1>1, <1>2, <1>4
  <2>2. Promise!Gives
    BY <1>1, <2>1 DEF Promise!Gives
  <2> QED
    BY <1>1, <2>2 DEF Implements, Promise!StreamNext, StreamEndInv
<1> QED
  BY <1>3, <1>4

LEMMA NoSessionNoEngineKept ==
    ASSUME StreamEndInv, Next
    PROVE  NoSessionNoEngine'
<1>1. NoSessionNoEngine /\ (op # "idle" => open)
  BY DEF StreamEndInv, StreamInv, ClientInv, CalledWhileOpen
<1>2. ASSUME Stopped
      PROVE  NoSessionNoEngine'
  BY <1>2 DEF Stopped, NoSessionNoEngine
<1>3. ASSUME open, open' = open
      PROVE  NoSessionNoEngine'
  BY <1>3 DEF NoSessionNoEngine
<1>4. ASSUME eng' = eng, open' = open
      PROVE  NoSessionNoEngine'
  BY <1>1, <1>4 DEF NoSessionNoEngine
<1>5. CASE Caller
  <2>1. CASE Connect \/ HandshakeFails
    BY <2>1 DEF Connect, HandshakeFails, NoSessionNoEngine
  <2>2. ASSUME NEW o, NEW n, Begins(o, n)
        PROVE  NoSessionNoEngine'
    BY <1>4, <2>2 DEF Begins, connVars
  <2>3. CASE ConnectFails \/ Available \/ AvailableForWrite \/ FlushCall
    BY <1>4, <2>2, <2>3 DEF ConnectFails, Available, AvailableForWrite, FlushCall
  <2>4. ASSUME NEW n \in Sizes, Read(n) \/ Write(n)
        PROVE  NoSessionNoEngine'
    BY <2>2, <2>4 DEF Read, Write
  <2>5. CASE Stop
    BY <1>2, <1>3, <2>5 DEF Stop
  <2> QED
    BY <1>5, <2>1, <2>3, <2>4, <2>5 DEF Caller
<1>6. CASE Update
  <2>1. CASE AvailableEnds \/ ReadEnds \/ Copies \/ UntilFlushes \/ HandsOver
    BY <1>1, <1>3, <2>1
    DEF Updated, AvailableEnds, ReadEnds, Copies, UntilFlushes, HandsOver
  <2>2. CASE UntilClosed \/ UntilReceived \/ SendFails
    BY <1>2, <1>4, <2>2 DEF UntilClosed, UntilReceived, SendFails
  <2>3. CASE UntilRoom \/ WriteEnds
    BY <1>4, <2>3 DEF UntilRoom, WriteEnds, connVars
  <2>4. ASSUME NEW n \in 1 .. SendRecLen(eng), SendsRecord(n)
        PROVE  NoSessionNoEngine'
    BY <1>1, <1>3, <2>4 DEF SendsRecord
  <2> QED
    BY <1>6, <2>1, <2>2, <2>3, <2>4 DEF Update
<1>7. CASE UntilTimeout \/ ReceiveFails
  BY <1>2, <1>7 DEF UntilTimeout, ReceiveFails, GivesUp
<1>8. ASSUME NEW n \in 1 .. RecvRecLen(eng), ReceivesRecord(n)
      PROVE  NoSessionNoEngine'
  BY <1>1, <1>3, <1>8 DEF ReceivesRecord
<1>9. ASSUME NEW kind, NEW n, PeerSends(kind, n)
      PROVE  NoSessionNoEngine'
  BY <1>4, <1>9 DEF PeerSends, connVars
<1> QED
  BY <1>5, <1>6, <1>7, <1>8, <1>9 DEF Next, Arrival, Peer

LEMMA StepImplements ==
    ASSUME StreamEndInv, [Next]_vars
    PROVE  StreamEndInv' /\ [Promise!StreamNext]_(Promise!streamVars)
<1>1. StreamInv' /\ ClientInv'
  BY StepStream DEF StreamEndInv, StreamInv
<1>2. CASE Next
  <2>1. UntilTimeout \/ ReceiveFails => Implements
    BY StoppedImplements DEF UntilTimeout, ReceiveFails, GivesUp
  <2>2. ASSUME NEW n \in 1 .. RecvRecLen(eng), ReceivesRecord(n)
        PROVE  Implements
    BY <1>1, <2>2, ReceivesImplements
  <2>3. Peer => Implements
    BY PeerImplements DEF Peer
  <2>4. Implements
    BY <1>2, <2>1, <2>2, <2>3, CallerImplements, UpdateImplements DEF Next, Arrival
  <2> QED
    BY <1>1, <1>2, <2>4, NoSessionNoEngineKept DEF Implements, StreamEndInv
<1>3. CASE UNCHANGED vars
  <2>1. eng' = eng /\ UNCHANGED <<open, put, sent, given, got, notified>>
    BY <1>3 DEF vars, connVars, peerVars, histVars
  <2> QED
    BY <1>1, <2>1, SameEngineImplements DEF Implements, StreamEndInv, NoSessionNoEngine
<1> QED
  BY <1>2, <1>3

LEMMA InitImplements == Init => StreamEndInv /\ Promise!StreamInit
<1> SUFFICES ASSUME Init PROVE StreamEndInv /\ Promise!StreamInit
  OBVIOUS
<1>1. /\ eng = Ready /\ open = FALSE /\ notified = FALSE /\ put = 0 /\ sent = <<>>
      /\ given = 0 /\ got = <<>>
  BY DEF Init
<1>2. StreamEndInv
  BY <1>1, InitStream, ReadyEnds DEF StreamEndInv, NoSessionNoEngine
<1>3. Promise!StreamInit
  BY <1>1, ReadyEnds DEF Promise!StreamInit
<1> QED
  BY <1>2, <1>3

\* Seen from outside, the client, the engine, TCP and the peer are two
\* streams, for every size of the buffers and every way of cutting: what goes
\* out and what is read are the next bytes, whatever the flush() behind every
\* write drops; nothing is written or read once the peer has closed; our answer
\* goes out behind all that was written, and nothing behind it.
THEOREM ClientStreamImplemented == Spec => ImplementsClientStream
<1>1. Init => StreamEndInv /\ Promise!StreamInit
  BY InitImplements
<1>2. StreamEndInv /\ [Next]_vars =>
         StreamEndInv' /\ [Promise!StreamNext]_(Promise!streamVars)
  BY StepImplements
<1> QED
  BY <1>1, <1>2, PTL DEF Spec, ImplementsClientStream, Promise!StreamSpec
=============================================================================
