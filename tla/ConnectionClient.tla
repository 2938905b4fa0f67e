-------------------------- MODULE ConnectionClient --------------------------
(***************************************************************************)
(* The class BluetoothConnection under any client: connect() and           *)
(* tryFindPort() in any order, against a device that starts and stops      *)
(* accepting on its channels, hangs up, and a user who may press Ctrl-C.   *)
(***************************************************************************)
EXTENDS BluetoothConnection, FiniteSets

CONSTANTS Ports,        \* values the client gives the constructor as port
          Interrupts    \* whether KeyboardInterrupt happens

ASSUME ClientAssumption == /\ Ports \subseteq Nat \cup {None}
                           /\ Interrupts \in BOOLEAN

VARIABLES steady,    \* history: the channels on which the device has accepted
                     \* without a break since tryFindPort was called on a
                     \* fresh socket
          told       \* history: getPressedFromBT returned b'' to the client

clientVars == <<steady, told>>
vars == <<rfcommVars, objVars, clientVars>>

Init == /\ listening \in SUBSET Channels
        /\ sock = "fresh" /\ channel = None
        /\ \E p \in Ports : NewObject(p)
        /\ steady = {} /\ told = FALSE

ClientConnects == CallConnect /\ UNCHANGED clientVars

ClientScans == /\ CallTryFindPort
               /\ steady' = IF sock = "fresh" THEN listening ELSE {}
               /\ UNCHANGED told

\* getPressedFromBT() with nothing left to read: the object changes nothing
\* when recv reports the end of the stream.
ClientReceives == /\ call = "none"
                  /\ <<>> \in Received(<<>>, 1)
                  /\ told' = TRUE
                  /\ UNCHANGED <<rfcommVars, objVars, steady>>

ObjectSteps == CallStep /\ UNCHANGED clientVars

CtrlC == Interrupts /\ (Interrupt \/ InterruptEscapes) /\ UNCHANGED clientVars

\* The device changes the channels it serves.
DeviceChanges == /\ listening' \in SUBSET Channels
                 /\ steady' = steady \cap listening'
                 /\ UNCHANGED <<sock, channel, objVars, told>>

DeviceHangsUp == HangUp /\ UNCHANGED <<objVars, clientVars>>

Next == \/ ClientConnects \/ ClientScans \/ ClientReceives \/ ObjectSteps
        \/ CtrlC \/ DeviceChanges \/ DeviceHangsUp

Spec == Init /\ [][Next]_vars

\* A call that was made keeps running; nothing else has to happen.
FairSpec == Spec /\ WF_vars(ObjectSteps)

-----------------------------------------------------------------------------
(* Properties.                                                             *)

\* Types; a call that dials dials a channel.
TypeOK == /\ RfcommTypeOK
          /\ ObjTypeOK
          /\ outcome \in Outcomes
          /\ steady \subseteq Channels
          /\ told \in BOOLEAN

\* _connected is set exactly when the socket was connected, but for the one
\* statement between the two: no dial goes unrecorded, no record is early.
FlagTracksSocket == (sock # "fresh") <=> (connected \/ dialled)

\* With interrupts: _connected is still never set without a connection.
FlagNeedsSocket == connected => sock # "fresh"

\* tryFindPort raises addressNotFound only if no channel in its range
\* accepted all the while: it skips no channel.
ScanFinds ==
    [][(call = "tryFindPort" /\ call' = "none" /\ outcome' = "addressNotFound")
         => steady \cap 0..MaxScan - 1 = {}]_vars

\* The channel tryFindPort connects is the lowest of those that accepted all
\* the while.
LowestPort ==
    (call = "tryFindPort" /\ dialled) => \A c \in steady : channel <= c

\* connect() and tryFindPort() end, whatever the device does meanwhile, and
\* although their bare excepts swallow the user's interrupts.  (A dial is taken
\* to return; getPressedFromBT, which is no call here, may block for ever.)
CallsEnd == call # "none" ~> call = "none"

\* connection() no longer says "Connected to: ..." once the object's own
\* getPressedFromBT() has returned the end of the stream.
ConnectedToIsTrue == told => ~connected

\* connection() says "Connected to: <address> : <port>", the port connected.
ReportedPort == connected => port = channel

\* "Couldn't connect to the given address." is raised by tryFindPort only
\* when the object has no connection to that address.
NotFoundIsTrue ==
    [][(call = "tryFindPort" /\ call' = "none" /\ outcome' = "addressNotFound")
         => sock # "open"]_vars

\* connection() says "not connected yet." between calls only when the
\* socket is not connected.
NotConnectedIsTrue == (call = "none" /\ ~connected) => sock # "open"
=============================================================================
