------------------------ MODULE BluetoothConnection ------------------------
(***************************************************************************)
(* The class BluetoothConnection of src/bluetoothConnection.py: connect()  *)
(* and tryFindPort() with their except handlers, one action per statement  *)
(* that another party can come between, and the results of recv.           *)
(***************************************************************************)
EXTENDS Rfcomm, Sequences

CONSTANT MaxScan      \* tryFindPort tries the channels 0 .. MaxScan - 1

ASSUME MaxScanAssumption == MaxScan \in Nat

VARIABLES port,        \* self.port
          connected,   \* self._connected
          call,        \* the call that runs: "none", "connect", "tryFindPort"
          probe,       \* the channel that call dials (i of tryFindPort)
          dialled,     \* its socket.connect returned, the flag is not set yet
          outcome      \* how the last call ended

objVars == <<port, connected, call, probe, dialled, outcome>>

Outcomes == {"none", "returned", "alreadyConnected", "addressNotFound", "noPort",
             "interrupted"}

ObjTypeOK == /\ port \in Nat \cup {None}
             /\ connected \in BOOLEAN
             /\ call \in {"none", "connect", "tryFindPort"}
             /\ probe \in Nat
             /\ dialled \in BOOLEAN

\* __init__: a socket that was never connected, and the given port.
NewObject(p) == /\ port = p
                /\ connected = FALSE
                /\ call = "none"
                /\ probe = 0
                /\ dialled = FALSE
                /\ outcome = "none"

\* The running call raises e or returns.
Ends(e) == /\ call' = "none"
           /\ dialled' = FALSE
           /\ outcome' = e
           /\ UNCHANGED <<port, probe>>

\* Mutant: the test of self.port is forgotten.
CallConnectNoTest ==
    /\ call = "none"
    /\ ~connected
    /\ call' = "connect" /\ probe' = port
    /\ UNCHANGED <<port, connected, dialled, outcome, rfcommVars>>

\* connect(): the guards, then the dial of self.port is under way.
CallConnect ==
    /\ call = "none"
    /\ \/ /\ connected
          /\ Ends("alreadyConnected")
       \/ /\ ~connected /\ port = None
          /\ Ends("noPort")
       \/ /\ ~connected /\ port # None
          /\ call' = "connect" /\ probe' = port
          /\ UNCHANGED <<port, dialled, outcome>>
    /\ UNCHANGED <<connected, rfcommVars>>

\* Mutant: the scan starts at the port the object was given.
CallTryFindPortFromPort ==
    /\ call = "none"
    /\ call' = "tryFindPort"
    /\ probe' = IF port = None THEN 0 ELSE port
    /\ UNCHANGED <<port, connected, dialled, outcome, rfcommVars>>

\* tryFindPort(): it looks at neither the flag nor self.port.
CallTryFindPort == /\ call = "none"
                   /\ call' = "tryFindPort"
                   /\ probe' = 0
                   /\ UNCHANGED <<port, connected, dialled, outcome, rfcommVars>>

\* The try block is running: the dial of channel probe, or the next statement.
Trying == call = "connect" \/ (call = "tryFindPort" /\ probe < MaxScan)

\* self._socket.connect((self.address, probe)) succeeds ...
Dial == /\ Trying
        /\ ~dialled
        /\ Establish(probe)
        /\ dialled' = TRUE
        /\ UNCHANGED <<port, connected, call, probe, outcome>>

\* Mutant: tryFindPort() returns without setting the flag.
SetFlagInConnect == /\ dialled
                    /\ connected' = (connected \/ call = "connect")
                    /\ Ends("returned")
                    /\ UNCHANGED rfcommVars

\* ... and only then self._connected is set and the call returns.
SetFlag == /\ dialled
           /\ connected' = TRUE
           /\ Ends("returned")
           /\ UNCHANGED rfcommVars

\* Mutant: the same channel is tried again for ever.
CaughtRetries(flag) ==
    /\ \/ call = "connect" /\ Ends("addressNotFound")
       \/ /\ call = "tryFindPort"
          /\ dialled' = FALSE
          /\ UNCHANGED <<port, call, probe, outcome>>
    /\ connected' = flag
    /\ UNCHANGED rfcommVars

\* Mutant: the flag is set in a finally clause.
CaughtFinally(flag) ==
    /\ \/ call = "connect" /\ Ends("addressNotFound")
       \/ /\ call = "tryFindPort"
          /\ probe' = probe + 1
          /\ dialled' = FALSE
          /\ UNCHANGED <<port, call, outcome>>
    /\ connected' = TRUE
    /\ UNCHANGED rfcommVars

\* The bare except, reached with _connected at flag: connect() raises
\* addressNotFound, tryFindPort() passes on to the next channel.
Caught(flag) ==
    /\ \/ call = "connect" /\ Ends("addressNotFound")
       \/ /\ call = "tryFindPort"
          /\ probe' = probe + 1
          /\ dialled' = FALSE
          /\ UNCHANGED <<port, call, outcome>>
    /\ connected' = flag
    /\ UNCHANGED rfcommVars

DialFails == Trying /\ ~dialled /\ ~Accepts(probe) /\ Caught(connected)

\* A KeyboardInterrupt inside the try block is caught by the bare except
\* too: before the dial, after it, or after the flag was set.
Interrupt == Trying /\ (Caught(connected) \/ (dialled /\ Caught(TRUE)))

\* Outside the try block it ends the call.
InterruptEscapes == /\ call # "none"
                    /\ ~dialled
                    /\ Ends("interrupted")
                    /\ UNCHANGED <<connected, rfcommVars>>

\* Mutant: the range ends one channel early.
ScanExhaustedEarly == /\ call = "tryFindPort"
                      /\ probe >= MaxScan - 1
                      /\ Ends("addressNotFound")
                      /\ UNCHANGED <<connected, rfcommVars>>

\* The loop of tryFindPort ran out of channels.
ScanExhausted == /\ call = "tryFindPort"
                 /\ probe >= MaxScan
                 /\ Ends("addressNotFound")
                 /\ UNCHANGED <<connected, rfcommVars>>

CallStep == Dial \/ SetFlag \/ DialFails \/ ScanExhausted

\* Mutant: a full word is returned only once another byte follows it.
ReceivedLate(arrived, wordSize) ==
    IF arrived # <<>>
    THEN {SubSeq(arrived, 1, n) : n \in {m \in 1..wordSize : m < Len(arrived)}}
    ELSE IF sock = "lost" THEN {<<>>} ELSE {}

\* What getPressedFromBT may return when the bytes in arrived wait in the
\* socket: between one and wordSize of them, b'' once the peer is gone, and
\* nothing at all while it blocks.
Received(arrived, wordSize) ==
    IF arrived # <<>>
    THEN {SubSeq(arrived, 1, n) : n \in {m \in 1..wordSize : m <= Len(arrived)}}
    ELSE IF sock = "lost" THEN {<<>>} ELSE {}
=============================================================================
