----------------------------- MODULE SSLClient -----------------------------
(***************************************************************************)
(* The SSL client of the Firebase-ESP32 library, class BSSL_SSL_Client     *)
(* (src/client/SSLClient/client/BSSL_SSL_Client.cpp): a caller of one      *)
(* thread, the engine of SSLEngine, the TCP client under it (TcpClient)    *)
(* and a peer.  write() copies into the engine's buffer and tells it only  *)
(* later, in mUpdateEngine, how much it has copied (_write_idx); what is   *)
(* not a whole record waits there until available() flushes it.            *)
(***************************************************************************)
EXTENDS SSLEngine, TcpClient, SequencesExt

CONSTANTS Sizes,      \* arguments of write() and of read()
          Kinds,      \* what the peer sends, of InType
          Data,       \* how much application data it puts in a record
          MaxOut,     \* bound: bytes written per connection
          MaxRecords, \* bounds: records of the peer per connection, and those
          MaxFlight   \* of them on their way

ASSUME ClientAssumption ==
    /\ Sizes \subseteq Nat \ {0} /\ Kinds \subseteq InType /\ Data \subseteq Nat
    /\ MaxOut \in Nat /\ MaxRecords \in Nat /\ MaxFlight \in Nat

VARIABLES eng,         \* *_eng, while open
          open,        \* _is_connected, _secure: between connectSSL and stop
          writeIdx,    \* _write_idx
          writeError,  \* getWriteError() != esp_ssl_ok
          op, left,    \* the call under way; the bytes write() must still copy
          records,     \* how many records the peer has sent
          put, sent,   \* histories: bytes copied by write(), bytes in records
          notified,    \* that the TCP client took whole, whether it took our
          given, got   \* close_notify, bytes the peer sent, read() returned

connVars == <<eng, open, writeIdx, writeError>>
callVars == <<op, left>>
peerVars == <<records, given>>
histVars == <<put, sent, notified, got>>
vars == <<connVars, tcpVars, callVars, peerVars, histVars>>

Calls == {"idle", "available", "read", "write", "availableForWrite", "flush", "stop"}
Numbers(from, n) == [k \in 1 .. n |-> from + k]

Init == /\ eng = Ready /\ open = FALSE /\ writeIdx = 0 /\ writeError = FALSE
        /\ sock = "down" /\ op = "idle" /\ left = 0
        /\ inbox = <<>> /\ gap = FALSE /\ records = 0 /\ given = 0
        /\ put = 0 /\ sent = <<>> /\ notified = FALSE /\ got = <<>>

-----------------------------------------------------------------------------
(* The connection.                                                         *)

\* mConnectBasicClient sets the index to 0.  connectSSL() goes without it over
\* a connection that is still up.
ConnectsTcp == writeIdx' = IF Up THEN writeIdx ELSE 0

\* connectSSL() succeeds: on a new TCP connection, or on one over which no
\* earlier handshake has sent a byte.
Connect ==
    /\ op = "idle" /\ sock # "used"
    /\ ConnectsTcp
    /\ eng' = Ready /\ open' = TRUE /\ writeError' = FALSE
    /\ sock' = "used" /\ inbox' = <<>> /\ gap' = FALSE /\ records' = 0 /\ given' = 0
    /\ put' = 0 /\ sent' = <<>> /\ notified' = FALSE /\ got' = <<>>
    /\ UNCHANGED callVars

\* The TCP connection is refused.
ConnectFails ==
    /\ op = "idle" /\ ~Up /\ writeError' = TRUE
    /\ UNCHANGED <<eng, open, writeIdx, tcpVars, callVars, peerVars, histVars>>

\* The handshake fails: mFreeSSL gives an old session back, and the new one,
\* but TCP stays up.  On a connection that has carried TLS it always fails.
\* Bytes that an old session had waiting end it with an error, unless a write
\* that took nothing has let mRunUntil forget them before.
HandshakeFails ==
    /\ op = "idle"
    /\ writeError' \in BOOLEAN
    /\ ConnectsTcp \/ writeIdx' = 0
    /\ sock' \in IF sock = "used" THEN {"used"} ELSE {"fresh", "used"}
    /\ eng' = Ready /\ open' = FALSE /\ inbox' = <<>> /\ gap' = FALSE
    /\ UNCHANGED <<callVars, peerVars, histVars>>

\* The end of stop(): the socket is closed, mFreeSSL gives everything back,
\* the index stays as it is.
Stopped == /\ open' = FALSE /\ eng' = Ready /\ TcpCloses
           /\ UNCHANGED <<writeIdx, peerVars, histVars>>

\* setWriteError and stop(), in the middle of a call.
GivesUp == Stopped /\ writeError' = TRUE /\ op' = "idle" /\ left' = 0

-----------------------------------------------------------------------------
(* Calls.                                                                  *)

SoftConnected == ~writeError /\ open /\ ~Closed(eng)

Begins(o, n) ==
    op = "idle" /\ op' = o /\ left' = n /\ UNCHANGED <<connVars, tcpVars, peerVars, histVars>>

Available == SoftConnected /\ Begins("available", 0)
Read(n)   == SoftConnected /\ Begins("read", n)
Write(n)  == SoftConnected /\ put + n <= MaxOut /\ Begins("write", n)

AvailableForWrite == open /\ ~Closed(eng) /\ Begins("availableForWrite", 0)
FlushCall == open /\ writeIdx > 0 /\ Begins("flush", 0)

\* What has been received and not read is dropped; bytes not yet handed to
\* the engine are flushed first.  Without a session, after a handshake that
\* failed too, stop() does nothing: TCP stays as it is.
Stop ==
    /\ op = "idle" /\ open
    /\ IF ~Closed(eng) /\ writeIdx > 0
       THEN /\ eng' = IF RecvAppLen(eng) > 0 THEN RecvPldAck(eng, RecvAppLen(eng)) ELSE eng
            /\ op' = "stop"
            /\ UNCHANGED <<open, writeIdx, writeError, left, tcpVars, peerVars, histVars>>
       ELSE Stopped /\ UNCHANGED <<writeError, callVars>>

-----------------------------------------------------------------------------
(* mUpdateEngine, the loop inside every call.                              *)

\* _basic_client->write took n bytes of the record that is being sent.  The
\* flush() behind it drops what the peer has sent.
SendsRecord(n) ==
    /\ op # "idle" /\ n \in TcpWrites(SendRecLen(eng)) \ {0}
    /\ eng' = SendRecAck(eng, n)
    /\ TcpFlushes
    /\ IF n < SendRecLen(eng)
       THEN UNCHANGED <<sent, notified>>
       ELSE /\ sent' = IF eng.sealed.type = "app" THEN sent \o eng.sealed.data ELSE sent
            /\ notified' = (notified \/ eng.sealed.type = "close")
    /\ UNCHANGED <<open, writeIdx, writeError, sock, callVars, peerVars, put, got>>

\* It took none: stop(), without a write error since the TCP client has none
\* and its socket is still open.  available() and read() return then; mRunUntil
\* goes on with the engine that stop() has freed, which ends it sooner or later
\* with a write error (the closed socket takes nothing) or without.
SendFails ==
    /\ op # "idle" /\ SendRecLen(eng) > 0 /\ 0 \in TcpWrites(SendRecLen(eng))
    /\ Stopped /\ op' = "idle" /\ left' = 0
    /\ writeError' \in IF op \in {"available", "read"} THEN {writeError} ELSE {writeError, TRUE}

\* Mutant: the index is not reset.
IndexKept == UNCHANGED writeIdx

IndexReset == writeIdx' = 0

\* What write() has copied becomes payload.
HandsOver ==
    /\ op # "idle" /\ SendRecLen(eng) = 0 /\ writeIdx > 0 /\ SendAppLen(eng) >= writeIdx
    /\ eng' = SendPldAck(eng, writeIdx)
    /\ IndexReset
    /\ UNCHANGED <<open, writeError, tcpVars, callVars, peerVars, histVars>>

\* Mutant: what has come is read before what was written is handed over.
ReadyToReceiveFirst == SendRecLen(eng) = 0

ReadyToReceive == SendRecLen(eng) = 0 /\ writeIdx = 0

\* _basic_client->read gave n bytes.
ReceivesRecord(n) ==
    /\ op # "idle" /\ ReadyToReceive
    /\ n \in TcpReads(RecvRecLen(eng)) \ {0}
    /\ eng' = RecvRecAck(eng, Head(inbox), n)
    /\ inbox' = IF eng.ixa >= 5 /\ n = eng.ixc THEN Tail(inbox) ELSE inbox
    /\ UNCHANGED <<open, writeIdx, writeError, sock, gap, callVars, peerVars, histVars>>

\* It gave none, although there were some.
ReceiveFails ==
    /\ op # "idle" /\ ReadyToReceive
    /\ RecvRecLen(eng) > 0 /\ 0 \in TcpReads(RecvRecLen(eng))
    /\ GivesUp

\* The engine is closed, or there is nothing to send, nothing to hand over,
\* nothing to receive or not all of a record yet: mUpdateEngine returns.
Updated == op # "idle" /\ (Closed(eng) \/ (SendRecLen(eng) = 0 /\ writeIdx = 0))

-----------------------------------------------------------------------------
(* What the call does when mUpdateEngine has returned.                     *)

Returns == op' = "idle" /\ left' = 0

\* Mutant: available() does not flush what the engine has gathered.
AvailableOnly == UNCHANGED eng

AvailableFlushes == eng' = IF RecvAppLen(eng) = 0 THEN Flush(eng) ELSE eng

AvailableEnds ==
    /\ Updated /\ op \in {"available", "read"}
    /\ op = "read" => RecvAppLen(eng) = 0
    /\ AvailableFlushes /\ Returns
    /\ UNCHANGED <<open, writeIdx, writeError, tcpVars, peerVars, histVars>>

ReadEnds ==
    /\ Updated /\ op = "read" /\ RecvAppLen(eng) > 0
    /\ LET n == Least(left, RecvAppLen(eng))
       IN  /\ got' = got \o SubSeq(eng.plain, 1, n)
           /\ eng' = RecvPldAck(eng, n)
    /\ Returns
    /\ UNCHANGED <<open, writeIdx, writeError, tcpVars, peerVars, put, sent, notified>>

\* mRunUntil: the engine has closed.
UntilClosed ==
    /\ Updated /\ op \in {"write", "availableForWrite", "flush", "stop"} /\ Closed(eng)
    /\ IF op = "stop" THEN Stopped ELSE UNCHANGED <<eng, open, writeIdx, tcpVars, peerVars, histVars>>
    /\ Returns /\ UNCHANGED writeError

\* The call has taken longer than _timeout.
UntilTimeout ==
    /\ Updated /\ op \in {"write", "availableForWrite", "flush", "stop"} /\ ~Closed(eng)
    /\ GivesUp

\* flush() and stop() wait for application data from the peer; what the
\* engine has gathered is flushed while they wait.
UntilFlushes ==
    /\ Updated /\ op \in {"flush", "stop"} /\ ~Closed(eng) /\ RecvAppLen(eng) = 0
    /\ SendAppLen(eng) > 0 /\ eng' = Flush(eng)
    /\ UNCHANGED <<open, writeIdx, writeError, tcpVars, callVars, peerVars, histVars>>

UntilReceived ==
    /\ Updated /\ op \in {"flush", "stop"} /\ RecvAppLen(eng) > 0
    /\ IF op = "stop" THEN Stopped ELSE UNCHANGED <<eng, open, writeIdx, tcpVars, peerVars, histVars>>
    /\ Returns /\ UNCHANGED writeError

UntilRoom ==
    /\ Updated /\ op = "availableForWrite" /\ SendAppLen(eng) > 0
    /\ Returns /\ UNCHANGED <<connVars, tcpVars, peerVars, histVars>>

\* write() copies as much as there is room for; a full buffer is handed over
\* at once, and write() runs the engine again.
Copies ==
    /\ Updated /\ op = "write" /\ SendAppLen(eng) > 0 /\ left > 0
    /\ LET room == SendAppLen(eng)
           n    == Least(left, room)
           e    == [eng EXCEPT !.obuf = Written(@, eng.oxa, Numbers(put, n))]
       IN  /\ put' = put + n
           /\ IF n = room
              THEN /\ eng' = SendPldAck(e, n) /\ left' = left - n
                   /\ UNCHANGED <<writeIdx, op>>
              ELSE eng' = e /\ writeIdx' = n /\ Returns
    /\ UNCHANGED <<open, writeError, tcpVars, peerVars, sent, notified, got>>

WriteEnds ==
    /\ Updated /\ op = "write" /\ SendAppLen(eng) > 0 /\ left = 0
    /\ Returns /\ UNCHANGED <<connVars, tcpVars, peerVars, histVars>>

-----------------------------------------------------------------------------
(* The peer.                                                               *)

\* The length of what is not application data: an alert, a HelloRequest.
Short == [kind \in InType |-> IF kind = "hello" THEN 4 ELSE 2]

PeerSends(kind, n) ==
    /\ open /\ records < MaxRecords /\ Len(inbox) < MaxFlight
    /\ TcpCarries([type |-> kind,
                   data |-> IF kind = "app" THEN Numbers(given, n) ELSE Others(n)])
    /\ records' = records + 1
    /\ given' = IF kind = "app" THEN given + n ELSE given
    /\ UNCHANGED <<connVars, callVars, histVars>>

Peer == \E kind \in Kinds :
           \E n \in IF kind = "app" THEN Data ELSE {Short[kind]} : PeerSends(kind, n)

Caller == \/ Connect \/ ConnectFails \/ HandshakeFails
          \/ Available \/ AvailableForWrite \/ FlushCall \/ Stop
          \/ \E n \in Sizes : Read(n) \/ Write(n)

\* One turn of mUpdateEngine's loop, or what the call does behind it, that
\* does not need a byte from the peer.
Update ==
    \/ AvailableEnds \/ ReadEnds \/ UntilClosed \/ UntilReceived \/ UntilRoom
    \/ WriteEnds \/ Copies \/ UntilFlushes \/ HandsOver \/ SendFails
    \/ \E n \in 1 .. SendRecLen(eng) : SendsRecord(n)

Arrival == ReceiveFails \/ \E n \in 1 .. RecvRecLen(eng) : ReceivesRecord(n)

Next == Caller \/ Update \/ UntilTimeout \/ Arrival \/ Peer

Spec == Init /\ [][Next]_vars

\* The loops of a call go on, and a write to TCP returns, with bytes taken or
\* with none; the clock of a call goes on too; and the caller reads again and
\* again, as the library does while it waits for a response.
Fairness == /\ WF_vars(Update) /\ WF_vars(UntilTimeout)
            /\ SF_vars(\E n \in Sizes : Read(n))

FairSpec == Spec /\ Fairness

-----------------------------------------------------------------------------
(* Properties.                                                             *)

\* The registers of both buffers stay within them, whatever the peer sends
\* and however the TCP client cuts what it takes and gives.
TypeOK ==
    /\ eng \in Engine /\ (Closed(eng) \/ InRegisters(eng)) /\ OutRegisters(eng)
    /\ open \in BOOLEAN /\ writeError \in BOOLEAN
    /\ sock \in {"down", "fresh", "used"} /\ gap \in BOOLEAN
    /\ op \in Calls /\ left \in Nat /\ writeIdx \in Nat
    /\ inbox \in Seq([type : InType, data : Seq(Cell)]) /\ records \in 0 .. MaxRecords
    /\ given \in Nat /\ put \in Nat /\ sent \in Seq(Cell) /\ notified \in BOOLEAN
    /\ got \in Seq(Cell)

\* While bytes of write() wait in an established session, the engine is ready
\* for them and not about to send.  In the other cases mUpdateEngine would call
\* stop(), which with a session calls flush(), mRunUntil and mUpdateEngine
\* again, with the same bytes waiting.  (A handshake over a connection still up
\* does meet them, without a session: HandshakeFails.)
PendingHasRoom ==
    open /\ writeIdx > 0 => SendRecLen(eng) = 0 /\ SendAppLen(eng) > writeIdx

Sealed   == IF HasRecToSend(eng) /\ eng.sealed.type = "app" THEN eng.sealed.data ELSE <<>>
Gathered == IF HasPldToSend(eng) THEN Cells(eng.obuf, eng.oxc, eng.oxa) ELSE <<>>
Pending  == Cells(eng.obuf, eng.oxa, eng.oxa + writeIdx)

\* What TCP has for the peer, what is in the record being sent, in the record
\* being gathered and behind it is what write() has copied: no byte is lost,
\* repeated, moved, or written over by an alert that the handshake processor
\* puts into the same buffer.
SentInOrder ==
    IF open THEN sent \o Sealed \o Gathered \o Pending = Numbers(0, put)
    ELSE IsPrefix(sent, Numbers(0, put))

Unread == IF RecvAppLen(eng) > 0 THEN eng.plain ELSE <<>>
Coming == FlattenSeq([k \in DOMAIN inbox |->
              IF inbox[k].type = "app" THEN inbox[k].data ELSE <<>>])

Running == open /\ ~Closed(eng) /\ ~eng.shut /\ op # "stop"

\* Received bytes are dropped behind every write, but never from within what
\* read() returns: that, with what it can return next, is always the first
\* bytes the peer has sent, and before the first drop all of them are there or
\* still to come.
ReadInOrder ==
    /\ IsPrefix(got, Numbers(0, given))
    /\ Running => IsPrefix(got \o Unread, Numbers(0, given))
    /\ Running /\ ~gap => got \o Unread \o Coming = Numbers(0, given)

\* When our close_notify goes out, all that was written is out before it.
CloseIsLast == notified => sent = Numbers(0, put)

\* What was written is sent while the caller reads, unless the connection
\* ends: write() leaves it in the engine, available() must send it.  It does so
\* only when nothing is unread, which the premise says of the peer: one whose
\* data never runs out would keep the rest of a request waiting.
WrittenIsSent ==
    <>[](RecvAppLen(eng) = 0)
        => ((open /\ Len(sent) < put) ~> (~open \/ Closed(eng) \/ Len(sent) = put))

\* A close_notify of the peer is answered, unless the connection is lost.
CloseAnswered == (open /\ eng.shut) ~> (notified \/ ~open)

-----------------------------------------------------------------------------
(* The abstract streams that the client implements.                        *)

Promise == INSTANCE ClientStream WITH ended <- eng.shut, answered <- notified

\* Every step of the caller, the engine, TCP and the peer is a step of the
\* two streams or leaves them as they are: nothing is sent, read or written
\* but the next byte, nothing is written or read once the peer has closed,
\* and nothing follows our answer to that.
ImplementsClientStream == Promise!StreamSpec
=============================================================================
