------------------------------ MODULE SerialBT ------------------------------
(***************************************************************************)
(* External: the Bluetooth stack between the sketch and the host, as far   *)
(* as SerialBT.write(dados, 2) and socket.recv use it.  A write is taken   *)
(* whole into the stack's queue or dropped (the sketch ignores its         *)
(* result); the queue is sent in one go when a host is connected and       *)
(* thrown away when none is; bytes sent arrive in order, and losing the    *)
(* link loses a tail of those that have not arrived.                       *)
(***************************************************************************)
EXTENDS Rfcomm, Sequences

CONSTANTS TxCapacity,    \* frames the stack can queue
          MaxFrames      \* bound of the model: frames taken per connection

ASSUME BoundAssumption == /\ TxCapacity \in Nat \ {0}
                          /\ MaxFrames \in Nat
                          /\ TxCapacity <= MaxFrames

VARIABLES txq,      \* frames the stack has taken and not sent
          wire,     \* bytes sent and not yet read by the host's recv
          frames    \* history: the frames taken for the host's connection

btVars == <<txq, wire, frames>>

\* The bytes of a sequence of two-byte frames, in sending order.
Bytes(fs) == [k \in 1..2 * Len(fs) |-> fs[(k + 1) \div 2][2 - (k % 2)]]

BtInit == txq = <<>> /\ wire = <<>> /\ frames = <<>>

\* SerialBT.write(dados, 2): the stack queues both bytes or neither.
Taken(dados) == /\ Len(txq) < TxCapacity
                /\ sock = "open" => Len(frames) < MaxFrames
                /\ txq' = Append(txq, dados)
                /\ frames' = IF sock = "open" THEN Append(frames, dados)
                                              ELSE frames
                /\ UNCHANGED wire

Dropped == UNCHANGED btVars

Write(dados) == Taken(dados) \/ Dropped

\* The stack's sender empties the queue.
Transmit == /\ txq # <<>>
            /\ txq' = <<>>
            /\ wire' = IF sock = "open" THEN wire \o Bytes(txq) ELSE wire
            /\ UNCHANGED <<frames, rfcommVars>>

\* A new connection starts with what the stack still queues.
OpenStream == /\ frames' = txq
              /\ wire' = <<>>
              /\ UNCHANGED txq

\* Of the bytes on their way only some first ones have arrived.
CutWire == \E n \in 0..Len(wire) : wire' = SubSeq(wire, 1, n)

LoseLink == /\ HangUp
            /\ CutWire
            /\ UNCHANGED <<txq, frames>>

\* The board restarts: server, queue and connection go with it.
StackRestart == /\ listening' = {}
                /\ txq' = <<>>
                /\ \/ /\ sock = "open"
                      /\ sock' = "lost"
                      /\ CutWire
                   \/ /\ sock # "open"
                      /\ UNCHANGED <<sock, wire>>
                /\ UNCHANGED <<channel, frames>>
=============================================================================
