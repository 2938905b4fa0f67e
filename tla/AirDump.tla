------------------------------ MODULE AirDump ------------------------------
(***************************************************************************)
(* The whole of AirDump: the sketch on the ESP32 (src/src/test.cpp) sends  *)
(* humidity and temperature, two bytes a frame, and src/main.py on the     *)
(* host dials the board and lists the bytes it receives.  The stream has   *)
(* no framing, so what the list means depends on every byte before.        *)
(***************************************************************************)
EXTENDS Firmware, SerialBT, BluetoothConnection, SequencesExt

VARIABLES main,     \* main.py: "connect", "recv", or "ended" (the process)
          listaa    \* the list it prints

mainVars == <<main, listaa>>
vars == <<fwVars, rfcommVars, btVars, objVars, mainVars>>

SppChannel == 1     \* the channel SerialBT.begin serves
DialledPort == 1    \* BluetoothConnection(BLUETOOTH_ADDRESS, 1, 1): its port
TwoBytes == 2       \* mutant: a word is a whole frame
NoteSize == 1       \* ... and its wordSize

ASSUME SppAssumption == SppChannel \in Channels

Init == /\ FwInit
        /\ listening = {} /\ sock = "fresh" /\ channel = None
        /\ BtInit
        /\ NewObject(DialledPort)
        /\ main = "connect"
        /\ listaa = <<>>

-----------------------------------------------------------------------------
(* The board.                                                              *)

hostVars == <<objVars, mainVars>>

DeviceSetup == /\ Setup
               /\ listening' = {SppChannel}
               /\ UNCHANGED <<sock, channel, btVars, hostVars>>

DeviceRead == /\ ReadHumidity \/ ReadTemperature
              /\ UNCHANGED <<rfcommVars, btVars, hostVars>>

DeviceFails == /\ FalhaNaLeitura
               /\ UNCHANGED <<rfcommVars, btVars, hostVars>>

DeviceSends == /\ \E dados \in Dados : EnviarDadosBluetooth(dados) /\ Write(dados)
               /\ UNCHANGED <<rfcommVars, hostVars>>

DeviceRests == /\ DelayEnds
               /\ UNCHANGED <<rfcommVars, btVars, hostVars>>

DeviceStep == DeviceSetup \/ DeviceRead \/ DeviceFails \/ DeviceSends \/ DeviceRests

DeviceRestart == /\ FwRestart
                 /\ StackRestart
                 /\ UNCHANGED hostVars

-----------------------------------------------------------------------------
(* main.py.                                                                *)

\* btconn.connect() is called on the new object.
MainConnects == /\ main = "connect"
                /\ outcome = "none"
                /\ CallConnect
                /\ UNCHANGED <<fwVars, btVars, mainVars>>

\* The dial succeeds and the stream of this connection begins.
MainDials == /\ Dial
             /\ OpenStream
             /\ UNCHANGED <<fwVars, mainVars>>

\* connect() returns; the connection is reported and the loop begins.
MainConnected == /\ SetFlag
                 /\ main' = "recv"
                 /\ UNCHANGED <<fwVars, btVars, listaa>>

\* connect() raises addressNotFound, which main.py does not catch.
MainRefused == /\ DialFails
               /\ main' = "ended"
               /\ UNCHANGED <<fwVars, btVars, listaa>>

\* Mutant: the byte is listed and stays to be received again.
ReceivePeeks == /\ main = "recv"
                /\ \E data \in Received(wire, NoteSize) :
                      /\ data # <<>> /\ Len(listaa) < 2 * MaxFrames
                      /\ listaa' = Append(listaa, Head(data))
                /\ UNCHANGED <<fwVars, rfcommVars, btVars, objVars, main>>

\* Mutant: recv waits until a whole frame has arrived.
ReceivePairs == /\ main = "recv"
                /\ Len(wire) >= 2
                /\ listaa' = Append(listaa, Head(wire))
                /\ wire' = Tail(wire)
                /\ UNCHANGED <<fwVars, rfcommVars, txq, frames, objVars, main>>

\* recv returned data: list(...)[0] keeps its first byte, which is listed.
ReceiveNote == /\ main = "recv"
               /\ \E data \in Received(wire, NoteSize) :
                     /\ data # <<>>
                     /\ listaa' = Append(listaa, Head(data))
                     /\ wire' = SubSeq(wire, Len(data) + 1, Len(wire))
               /\ UNCHANGED <<fwVars, rfcommVars, txq, frames, objVars, main>>

\* Mutant: an empty result is skipped and recv is called again.
ReceiveRetries == /\ main = "recv"
                  /\ <<>> \in Received(wire, NoteSize)
                  /\ UNCHANGED vars

\* The peer is gone and every byte is read: recv returns b'' and [0] raises
\* IndexError, or recv raises; main.py catches neither.
ReceiveFails == /\ main = "recv"
                /\ <<>> \in Received(wire, NoteSize)
                /\ main' = "ended"
                /\ UNCHANGED <<fwVars, rfcommVars, btVars, objVars, listaa>>

MainStep == \/ MainConnects \/ MainDials \/ MainConnected \/ MainRefused
            \/ ReceiveNote \/ ReceiveFails

\* The user stops the process, at any statement: the system closes its
\* socket and what waited in it is gone.
MainKilled == /\ main # "ended"
              /\ main' = "ended"
              /\ sock' = IF sock = "open" THEN "lost" ELSE sock
              /\ wire' = <<>>
              /\ Ends("none")
              /\ UNCHANGED <<fwVars, listening, channel, txq, frames, connected, listaa>>

\* Mutant: main.py reconnects by itself and goes on with its list.
MainKeepsList == /\ main = "ended"
                 /\ main' = "connect"
                 /\ sock' = "fresh" /\ channel' = None
                 /\ connected' = FALSE /\ call' = "none" /\ outcome' = "none"
                 /\ wire' = <<>> /\ frames' = <<>>
                 /\ UNCHANGED <<fwVars, listening, txq, port, probe, dialled, listaa>>

\* main.py is run again: a new object, a new socket, an empty list.
MainStarts == /\ main = "ended"
              /\ main' = "connect"
              /\ listaa' = <<>>
              /\ sock' = "fresh" /\ channel' = None
              /\ port' = DialledPort /\ connected' = FALSE
              /\ call' = "none" /\ probe' = 0 /\ dialled' = FALSE
              /\ outcome' = "none"
              /\ wire' = <<>> /\ frames' = <<>>
              /\ UNCHANGED <<fwVars, listening, txq>>

-----------------------------------------------------------------------------
StackSends == Transmit /\ UNCHANGED <<fwVars, hostVars>>
LinkLost   == LoseLink /\ UNCHANGED <<fwVars, hostVars>>

Next == \/ DeviceStep \/ DeviceRestart
        \/ MainStep \/ MainKilled \/ MainStarts
        \/ StackSends \/ LinkLost

Spec == Init /\ [][Next]_vars

\* The Arduino task runs loop() for ever, the stack's sender task runs while
\* its queue holds something, and main.py goes on while recv has an answer.
\* Nobody has to kill, restart or connect anything.
Fairness == WF_vars(DeviceStep) /\ WF_vars(StackSends) /\ WF_vars(MainStep)

FairSpec == Spec /\ Fairness

-----------------------------------------------------------------------------
(* Properties.                                                             *)

\* Types of the whole state; the bytes of test.cpp's dados are bytes.
TypeOK == /\ FwTypeOK
          /\ RfcommTypeOK
          /\ ObjTypeOK
          /\ outcome \in Outcomes
          /\ txq \in Seq(Byte \X Byte)
          /\ frames \in Seq(Byte \X Byte)
          /\ wire \in Seq(Byte)
          /\ listaa \in Seq(Byte)
          /\ main \in {"connect", "recv", "ended"}

\* What main.py lists, and then what is on its way, are the bytes of the
\* frames that loop() sent over this connection: none missing, repeated,
\* invented or out of order, and while the link is up none lost.
Conserved == /\ IsPrefix(listaa \o wire, Bytes(frames))
             /\ sock = "open" => listaa \o wire \o Bytes(txq) = Bytes(frames)

\* main.py's list ends in a humidity without its temperature, with nothing
\* left to read, only after the link was lost.
HalfFrameOnlyAfterLoss ==
    (wire = <<>> /\ Len(listaa) % 2 = 1) => sock = "lost"

\* The integer parts of the readings in S, as the sketch's comment has it
\* ("converter umidade e temperatura para valores inteiros").
IntegerParts(S) == {Trunc(x) : x \in S}

\* main.py's odd entries are integer parts of humidities and its even ones
\* of temperatures that the sensor can give: no failed read, no swap and no
\* wrapped value reaches the list.
ListedReadings ==
    \A k \in DOMAIN listaa :
       listaa[k] \in IntegerParts(IF k % 2 = 1 THEN Humidities ELSE Temperatures)

\* The n-th byte that loop() handed to a connected stack is listed by
\* main.py, unless the link is lost first.
Owed(n)    == sock = "open" /\ n <= 2 * Len(frames)
Settled(n) == sock # "open" \/ n <= Len(listaa)
Delivered  == \A n \in 1..2 * MaxFrames : Owed(n) ~> Settled(n)

\* main.py does not wait for ever in recv on a connection that is gone.
LossEndsMain == (main = "recv" /\ sock = "lost") ~> main # "recv"

\* The reads of this step succeed and the board does not restart.
GoodReads == /\ (pc = "loop" /\ pc' = "humidity") => humidade' # NaN
             /\ (pc = "humidity" /\ pc' = "read") => temperatura' # NaN
             /\ pc' # "setup"

\* Whatever failed before, once every read succeeds the sketch keeps
\* sending: the early return of loop() never gets it stuck.
SensorRecovers == <>[][GoodReads]_fwVars => []<>(pc = "delay")

-----------------------------------------------------------------------------
(* The abstract stream that the system implements.                         *)

Promise == INSTANCE FrameStream WITH link <- sock, sent <- frames, got <- listaa

\* Every step of sketch, stack, link and main.py is a step of the abstract
\* stream: test.cpp's two bytes a frame are appended whole, main.py's list
\* grows by exactly the next byte, a list is never carried over to another
\* connection.
ImplementsStream == Promise!StreamSpec

\* Under the fairness of the two loops and the stack, the abstract stream's
\* own fairness: a connection that stays up delivers.
ImplementsFairStream == Promise!FairStream
=============================================================================
