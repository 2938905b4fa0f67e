----------------------------- MODULE SSLEngine -----------------------------
(***************************************************************************)
(* The BearSSL engine after its handshake, as the Firebase-ESP32 library   *)
(* sets it up: one buffer for each direction, AES/GCM (or ChaCha20, whose  *)
(* Nonce is 0) in both, client side (src/client/SSLClient/bssl/            *)
(* ssl_engine.c, ssl_rec_gcm.c and the handshake processor in              *)
(* ssl_hs_common.t0 and ssl_hs_client.t0).  Each operation of the engine   *)
(* is a function from one value of its context to the next.                *)
(*                                                                         *)
(* A cell of the output buffer holds a byte of the application (a number   *)
(* from 1 on) or something else (0): a header, an alert, ciphertext.  The  *)
(* peer does not support secure renegotiation (reneg = 1), so that its     *)
(* HelloRequests are refused.                                              *)
(***************************************************************************)
EXTENDS Naturals, Sequences

CONSTANTS ILen, OLen,   \* ibuf_len, obuf_len
          MaxFrag,      \* max_frag_len
          Nonce, Tag    \* what encryption puts before and behind the data

\* br_ssl_engine_set_buffers_bidi takes a max_frag_len, of 512 or more, that
\* leaves 85 bytes of the output buffer; 5 + 8 + 16 + 5 of them are used.
ASSUME EngineAssumption ==
    /\ ILen \in Nat /\ OLen \in Nat /\ MaxFrag \in Nat /\ Nonce \in Nat /\ Tag \in Nat \ {0}
    /\ MaxFrag >= 2 /\ OLen >= MaxFrag + Nonce + Tag + 10
    /\ ILen >= 5

Cell    == Nat
\* What a record from the peer holds, and what one of ours holds; of an
\* alert, which one.  "forged" fails its check, "fatal" stands for any
\* other record that ends the connection.
InType  == {"app", "close", "warning", "hello", "fatal", "forged"}
OutType == {"app", "close", "refuse"}
NoRecord == [type |-> "app", data |-> <<>>]

Engine == [iomode : {"INOUT", "FAILED"}, err : {"OK", "ERROR"},
           ixa : Nat, ixb : Nat, ixc : Nat, tin : InType, plain : Seq(Cell),
           oxa : Nat, oxb : Nat, oxc : Nat, tout : OutType,
           obuf : [0 .. OLen - 1 -> Cell], sealed : [type : OutType, data : Seq(Cell)],
           app : {0, 1}, shut : BOOLEAN, hs : {"main", "refuse", "close", "notified"}]

Closed(e) == e.iomode = "FAILED"
Fail(e, err) == IF Closed(e) THEN e ELSE [e EXCEPT !.iomode = "FAILED", !.err = err]

Least(a, b) == IF a < b THEN a ELSE b
Cells(buf, from, to) == [k \in 1 .. (to - from) |-> buf[from + k - 1]]
Written(buf, from, s) ==
    [i \in DOMAIN buf |-> IF from <= i /\ i < from + Len(s) THEN s[i - from + 1] ELSE buf[i]]
Others(n) == [k \in 1 .. n |-> 0]

\* The registers while a header, a body or a payload is in the input buffer,
\* and while a record is gathered or sent in the output buffer.
InRegisters(e) ==
    \/ e.ixa = e.ixb /\ e.ixa < 5 /\ e.ixc = 5 - e.ixa
    \/ e.ixa = e.ixb /\ 5 <= e.ixa /\ 0 < e.ixc /\ e.ixa + e.ixc <= ILen
    \/ e.ixc = 0 /\ 5 <= e.ixa /\ e.ixa < e.ixb /\ e.ixb <= ILen /\ Len(e.plain) = e.ixb - e.ixa
OutRegisters(e) ==
    \/ e.oxc = 5 + Nonce /\ e.oxc <= e.oxa /\ e.oxa < e.oxb /\ e.oxb <= OLen - 5 - Tag
    \/ e.oxa = e.oxb /\ e.oxa < e.oxc /\ e.oxc <= OLen - 5

-----------------------------------------------------------------------------
(* The registers of the input buffer.                                      *)

MakeReadyIn(e) == [e EXCEPT !.ixa = 0, !.ixb = 0, !.ixc = 5]

RecLen(r) == Nonce + Len(r.data) + Tag

RecvRecLen(e) ==
    IF e.shut \/ Closed(e) \/ e.ixa # e.ixb THEN 0 ELSE Least(e.ixc, ILen - e.ixa)

RecvPldLen(e) == IF Closed(e) THEN 0 ELSE e.ixb - e.ixa

\* Mutant: what is left of the payload is forgotten.
RecvPldAckAll(e, n) == MakeReadyIn([e EXCEPT !.plain = <<>>])

RecvPldAck(e, n) ==
    LET f == [e EXCEPT !.ixa = @ + n, !.plain = SubSeq(@, n + 1, Len(@))]
    IN  IF f.ixa = f.ixb THEN MakeReadyIn(f) ELSE f

\* Mutant: a record longer than the buffer is accepted.
RecvHeaderAny(e, r) == [e EXCEPT !.tin = r.type, !.ixa = 5, !.ixb = 5, !.ixc = RecLen(r)]

\* n more bytes of the record r have come: the fifth ends its header, the
\* last one ends the record, which is then decrypted in its place.
RecvHeader(e, r) ==
    IF RecLen(r) > ILen - 5 THEN Fail(e, "ERROR")
    ELSE [e EXCEPT !.tin = r.type, !.ixa = 5, !.ixb = 5, !.ixc = RecLen(r)]

Decrypt(e, r) ==
    IF r.type = "forged" THEN Fail(e, "ERROR")
    ELSE IF r.data = <<>> THEN MakeReadyIn(e)
    ELSE [e EXCEPT !.ixa = 5 + Nonce, !.ixb = 5 + Nonce + Len(r.data), !.plain = r.data]

RecvRecBytes(e, r, n) ==
    LET f == [e EXCEPT !.ixa = @ + n, !.ixb = e.ixa + n, !.ixc = @ - n]
    IN  IF f.ixa < 5 THEN f
        ELSE IF f.ixa = 5 THEN RecvHeader(f, r)
        ELSE IF f.ixc # 0 THEN f
        ELSE Decrypt(f, r)

-----------------------------------------------------------------------------
(* The registers of the output buffer.  While payload is gathered, oxc is  *)
(* where it begins, oxa where it goes on and oxb where it must end; when a *)
(* record is complete oxa = oxb is its next byte to send and oxc its end.  *)

MakeReadyOut(e) ==
    LET a == 5 + Nonce
    IN  [e EXCEPT !.oxa = a, !.oxb = Least(OLen - 5 - Tag, a + MaxFrag), !.oxc = a]

SendPldLen(e) == IF Closed(e) THEN 0 ELSE e.oxb - e.oxa

HasPldToSend(e) == e.oxa # e.oxb /\ e.oxa # e.oxc
HasRecToSend(e) == e.oxa = e.oxb /\ e.oxa # e.oxc

SendRecLen(e) == IF ~Closed(e) /\ e.oxc > e.oxa THEN e.oxc - e.oxa ELSE 0

Encrypt(e) ==
    LET start == e.oxc - Nonce - 5
        len   == 5 + Nonce + (e.oxa - e.oxc) + Tag
    IN  [e EXCEPT !.oxa = start, !.oxb = start, !.oxc = start + len,
                  !.obuf = Written(@, start, Others(len)),
                  !.sealed = [type |-> e.tout, data |-> Cells(e.obuf, e.oxc, e.oxa)]]

SendPldFlush(e) == IF e.oxa = e.oxb \/ e.oxa = e.oxc THEN e ELSE Encrypt(e)

SendPldAck(e, n) ==
    LET f == [e EXCEPT !.oxa = @ + n]
    IN  IF f.oxa >= f.oxb THEN SendPldFlush([f EXCEPT !.oxb = f.oxa + 1]) ELSE f

SendRecBytes(e, n) ==
    LET f == [e EXCEPT !.oxa = @ + n, !.oxb = e.oxa + n]
    IN  IF f.oxa = f.oxc THEN MakeReadyOut([f EXCEPT !.sealed = NoRecord]) ELSE f

-----------------------------------------------------------------------------
(* The handshake processor, a coroutine that waits at hs: "main" for       *)
(* whatever comes, "refuse" and "close" for room for an alert, "notified"  *)
(* for its close_notify to be gone.                                        *)

FlushRecord(e) == IF HasPldToSend(e) THEN SendPldFlush(e) ELSE e

HasInput(e)  == RecvPldLen(e) > 0 /\ e.tin # "app"
CanOutput(e) == SendPldLen(e) > 0 /\ ~HasPldToSend(e)
Consumed(e)  == RecvPldAck(e, RecvPldLen(e))

\* Two bytes, at a time when nothing is gathered: either they fill the record
\* or flush-record ends it.
SendWarning(e, alert) ==
    Encrypt([e EXCEPT !.tout = alert, !.oxa = @ + 2, !.obuf = Written(@, e.oxa, Others(2))])

\* Mutant: a close_notify clears the output buffer.
ClosesClearing(e) ==
    [MakeReadyOut(Consumed(e)) EXCEPT !.app = 0, !.hs = "close", !.shut = TRUE]

\* Mutant: application data may still be written after a close_notify.
ClosesOpen(e) == [FlushRecord(Consumed(e)) EXCEPT !.hs = "close", !.shut = TRUE]

\* do-close, for a close_notify of the peer.
Closes(e) == [FlushRecord(Consumed(e)) EXCEPT !.app = 0, !.hs = "close", !.shut = TRUE]

HsInput(e) ==
    IF ~HasInput(e) THEN e
    ELSE IF e.hs = "main" /\ e.tin = "hello"
         THEN [FlushRecord(Consumed(e)) EXCEPT !.app = 0, !.hs = "refuse"]
    ELSE IF e.hs \in {"main", "refuse"} /\ e.tin = "close"
         THEN Closes(e)
    ELSE IF e.hs \in {"main", "refuse"} /\ e.tin = "warning" THEN Consumed(e)
    ELSE IF e.hs \in {"main", "refuse"} /\ e.tin = "fatal" THEN Fail(e, "ERROR")
    ELSE e

HsOutput(e) ==
    IF Closed(e) \/ ~CanOutput(e) \/ e.hs = "main" THEN e
    ELSE IF e.hs = "refuse"
         THEN [SendWarning(e, "refuse") EXCEPT !.app = 1, !.tout = "app", !.hs = "main"]
    ELSE IF e.hs = "close" THEN [SendWarning(e, "close") EXCEPT !.hs = "notified"]
    ELSE Fail(e, "OK")

\* jump_handshake runs the processor again when it has read everything;
\* with two buffers the second run finds nothing to do.
JumpHandshake(e) == HsOutput(HsInput(e))

-----------------------------------------------------------------------------
(* What the caller of the engine sees.                                     *)

RecvRecAck(e, r, n) ==
    LET f == RecvRecBytes(e, r, n)
    IN  IF Closed(f) \/ RecvPldLen(f) = 0 THEN f
        ELSE IF f.tin # "app" THEN JumpHandshake(f)
        ELSE IF f.app = 1 THEN f
        ELSE Fail(f, "ERROR")

\* Mutant: the processor is not told that its room has come.
SendRecAckOnly(e, n) == SendRecBytes(e, n)

SendRecAck(e, n) ==
    LET f == SendRecBytes(e, n)
    IN  IF ~HasRecToSend(f) /\ (f.tout # "app" \/ f.app = 0) THEN JumpHandshake(f) ELSE f

SendAppLen(e) == IF e.app = 1 THEN SendPldLen(e) ELSE 0
RecvAppLen(e) == IF e.app = 1 /\ e.tin = "app" THEN RecvPldLen(e) ELSE 0

Flush(e) == IF ~Closed(e) /\ e.app = 1 THEN SendPldFlush(e) ELSE e

\* The handshake is over: application data may go both ways.
Ready == MakeReadyOut(MakeReadyIn(
    [iomode |-> "INOUT", err |-> "OK", ixa |-> 0, ixb |-> 0, ixc |-> 0,
     tin |-> "app", plain |-> <<>>, oxa |-> 0, oxb |-> 0, oxc |-> 0, tout |-> "app",
     obuf |-> [i \in 0 .. OLen - 1 |-> 0], sealed |-> NoRecord,
     app |-> 1, shut |-> FALSE, hs |-> "main"]))
=============================================================================
