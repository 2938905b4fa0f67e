----------------------------- MODULE TcpClient -----------------------------
(***************************************************************************)
(* The TCP client under the SSL client: WiFiClientImpl                     *)
(* (src/client/WiFiClientImpl.h), the default of FB_TCP_Client on ESP32.   *)
(* What it knows of a connection is its socket: the loss of the link       *)
(* changes nothing here, it is a write that takes no byte and a peer of    *)
(* which nothing comes.                                                    *)
(***************************************************************************)
EXTENDS Naturals, Sequences

VARIABLES sock,   \* "down": _socket < 0; else connected, and "used" once
                  \* a byte has gone over the connection, "fresh" before
          inbox,  \* records of the peer that no read has taken whole
          gap     \* bytes of them were dropped before they were read

tcpVars == <<sock, inbox, gap>>

\* tcpConnected()
Up == sock # "down"

\* How many of len bytes tcpWrite() passes on before it gives up, after ten
\* tries without success or at an error.  It never sets a write error.
TcpWrites(len) == 0 .. len

\* How many of len bytes tcpRead() gives when available() is not 0: at least
\* one, or none (a 0 or -1) if recv() or the allocation of its buffer fails.
TcpReads(len) == IF inbox = <<>> THEN {} ELSE 0 .. len

\* Records behind a gap: the next byte read is none that follows, and a record
\* that is cut or out of its turn fails its check.
Spoilt(queue) == [k \in DOMAIN queue |-> [queue[k] EXCEPT !.type = "forged"]]

\* flush() drops what has come and is not read, up to the size of its buffer:
\* nothing, part of a record, or whole records too.
TcpFlushes ==
    \/ UNCHANGED <<inbox, gap>>
    \/ /\ inbox # <<>> /\ gap' = TRUE
       /\ \E k \in 0 .. Len(inbox) : inbox' = Spoilt(SubSeq(inbox, k + 1, Len(inbox)))

\* tcpClose()
TcpCloses == sock' = "down" /\ inbox' = <<>> /\ gap' = FALSE

\* A record of the peer is on its way; kept together with its successors by TCP.
TcpCarries(r) ==
    /\ inbox' = Append(inbox, IF gap THEN [r EXCEPT !.type = "forged"] ELSE r)
    /\ UNCHANGED <<sock, gap>>
=============================================================================
