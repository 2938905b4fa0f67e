-------------------------- MODULE ConnectionProofs --------------------------
(***************************************************************************)
(* Proofs about the class BluetoothConnection, for every set of channels   *)
(* and every range of tryFindPort: the flag _connected against the socket, *)
(* and what tryFindPort finds.                                             *)
(***************************************************************************)
EXTENDS ConnectionClient, TLAPS

\* The bare except keeps the types of the object.
LEMMA CaughtType ==
    ASSUME ObjTypeOK, outcome \in Outcomes, NEW flag \in BOOLEAN, Caught(flag)
    PROVE  ObjTypeOK' /\ outcome' \in Outcomes /\ rfcommVars' = rfcommVars
<1> USE DEF ObjTypeOK, Outcomes
<1>1. CASE call = "connect" /\ Ends("addressNotFound")
  BY <1>1 DEF Caught, Ends
<1>2. CASE call = "tryFindPort"
  <2>1. /\ probe' = probe + 1 /\ dialled' = FALSE /\ connected' = flag
        /\ port' = port /\ call' = call /\ outcome' = outcome
    BY <1>2 DEF Caught
  <2>2. probe' \in Nat
    BY <2>1
  <2> QED
    BY <1>2, <2>1, <2>2 DEF Caught
<1> QED
  BY <1>1, <1>2 DEF Caught

\* The state of the object, the socket and the histories keeps its types,
\* whatever the client, the device and the user do.
THEOREM TypeCorrect == Spec => []TypeOK
<1> USE DEF TypeOK, RfcommTypeOK, ObjTypeOK, Outcomes, rfcommVars, objVars, clientVars
<1>1. ASSUME Init
      PROVE  TypeOK
  <2>1. PICK p \in Ports : NewObject(p)
    BY <1>1 DEF Init
  <2>2. p \in Nat \cup {None}
    BY ClientAssumption
  <2> QED
    BY <1>1, <2>1, <2>2 DEF Init, NewObject
<1>2. ASSUME TypeOK, [Next]_vars
      PROVE  TypeOK'
  <2>1. CASE ClientConnects
    BY <1>2, <2>1 DEF ClientConnects, CallConnect, Ends
  <2>2. CASE ClientScans
    BY <1>2, <2>2 DEF ClientScans, CallTryFindPort
  <2>3. CASE ClientReceives
    BY <1>2, <2>3 DEF ClientReceives
  <2>4. CASE ObjectSteps
    <3>1. CASE Dial
      BY <1>2, <2>4, <3>1 DEF ObjectSteps, Dial, Establish, Accepts
    <3>2. CASE SetFlag
      BY <1>2, <2>4, <3>2 DEF ObjectSteps, SetFlag, Ends
    <3>3. CASE DialFails
      BY <1>2, <2>4, <3>3, CaughtType DEF ObjectSteps, DialFails
    <3>4. CASE ScanExhausted
      BY <1>2, <2>4, <3>4 DEF ObjectSteps, ScanExhausted, Ends
    <3> QED
      BY <2>4, <3>1, <3>2, <3>3, <3>4 DEF ObjectSteps, CallStep
  <2>5. CASE CtrlC
    <3>1. CASE \E flag \in BOOLEAN : Caught(flag)
      BY <1>2, <2>5, <3>1, CaughtType DEF CtrlC
    <3>2. CASE InterruptEscapes
      BY <1>2, <2>5, <3>2 DEF CtrlC, InterruptEscapes, Ends
    <3> QED
      BY <1>2, <2>5, <3>1, <3>2 DEF CtrlC, Interrupt
  <2>6. CASE DeviceChanges
    BY <1>2, <2>6 DEF DeviceChanges
  <2>7. CASE DeviceHangsUp
    BY <1>2, <2>7 DEF DeviceHangsUp, HangUp
  <2>8. CASE UNCHANGED vars
    BY <1>2, <2>8 DEF vars
  <2> QED
    BY <1>2, <2>1, <2>2, <2>3, <2>4, <2>5, <2>6, <2>7, <2>8 DEF Next
<1> QED
  BY <1>1, <1>2, PTL DEF Spec

-----------------------------------------------------------------------------
(* The flag and the socket.                                                *)

\* What holds of them whatever is interrupted: the flag, and the dial that is
\* about to set it, follow the socket.
Follows == (connected \/ dialled) => sock # "fresh"

\* _connected is never set on an object whose socket was never connected,
\* interrupts included.
THEOREM NoFalseFlag == Spec => []FlagNeedsSocket
<1> USE DEF Follows, rfcommVars, objVars, clientVars
<1>1. Init => Follows
  BY DEF Init, NewObject
<1>2. ASSUME Follows, [Next]_vars
      PROVE  Follows'
  <2>1. CASE ClientConnects
    BY <1>2, <2>1 DEF ClientConnects, CallConnect, Ends
  <2>2. CASE ClientScans
    BY <1>2, <2>2 DEF ClientScans, CallTryFindPort
  <2>3. CASE ClientReceives
    BY <1>2, <2>3 DEF ClientReceives
  <2>4. CASE ObjectSteps
    BY <1>2, <2>4 DEF ObjectSteps, CallStep, Dial, Establish, SetFlag, DialFails,
       Caught, ScanExhausted, Ends
  <2>5. CASE CtrlC
    BY <1>2, <2>5 DEF CtrlC, Interrupt, InterruptEscapes, Caught, Ends
  <2>6. CASE DeviceChanges
    BY <1>2, <2>6 DEF DeviceChanges
  <2>7. CASE DeviceHangsUp
    BY <1>2, <2>7 DEF DeviceHangsUp, HangUp
  <2>8. CASE UNCHANGED vars
    BY <1>2, <2>8 DEF vars
  <2> QED
    BY <1>2, <2>1, <2>2, <2>3, <2>4, <2>5, <2>6, <2>7, <2>8 DEF Next
<1>3. Follows => FlagNeedsSocket
  BY DEF FlagNeedsSocket
<1> QED
  BY <1>1, <1>2, <1>3, PTL DEF Spec

-----------------------------------------------------------------------------
(* The scan of tryFindPort, when nothing interrupts it.                    *)

\* Between the dial and the flag the call is still in its try block, on the
\* channel it connected.
DialIsHere == dialled => Trying /\ channel = probe

\* No channel below the one to try has accepted all the while; a scan on a
\* socket that was connected before counts on none.
Passed == /\ steady \subseteq listening
          /\ call = "tryFindPort" =>
                /\ \A c \in steady : probe <= c
                /\ (sock # "fresh" /\ ~dialled) => steady = {}

ScanInv == FlagTracksSocket /\ DialIsHere /\ Passed

\* Without interrupts every step keeps the three of them.
LEMMA NextScan ==
    ASSUME ~Interrupts, TypeOK, ScanInv, [Next]_vars
    PROVE  ScanInv'
<1> USE DEF rfcommVars, objVars, clientVars, ScanInv, FlagTracksSocket, DialIsHere,
        Passed, Trying
<1>0. steady \subseteq Nat /\ probe \in Nat /\ MaxScan \in Nat
  BY ChannelAssumption, MaxScanAssumption DEF TypeOK, ObjTypeOK
<1>1. CASE ClientConnects
  BY <1>1 DEF ClientConnects, CallConnect, Ends
<1>2. CASE ClientScans
  <2>1. ~dialled
    BY <1>2 DEF ClientScans, CallTryFindPort
  <2>2. listening \subseteq Nat
    BY ChannelAssumption DEF TypeOK, RfcommTypeOK
  <2> QED
    BY <1>2, <2>1, <2>2 DEF ClientScans, CallTryFindPort
<1>3. CASE ClientReceives
  BY <1>3 DEF ClientReceives
<1>4. CASE ObjectSteps
  <2>1. CASE Dial
    BY <1>4, <2>1 DEF ObjectSteps, Dial, Establish, Accepts
  <2>2. CASE SetFlag
    BY <1>4, <2>2 DEF ObjectSteps, SetFlag, Ends
  <2>3. CASE DialFails
    <3>1. CASE call = "connect"
      BY <1>4, <2>3, <3>1 DEF ObjectSteps, DialFails, Caught, Ends
    <3>2. CASE call = "tryFindPort"
      <4>1. /\ probe' = probe + 1 /\ ~dialled /\ dialled' = FALSE
            /\ UNCHANGED <<call, connected, listening, sock, channel, steady>>
        BY <1>4, <2>3, <3>2 DEF ObjectSteps, DialFails, Caught
      <4>2. \A c \in steady : probe + 1 <= c
        <5>1. probe \notin steady
          BY <2>3, <3>2 DEF DialFails, Accepts
        <5>2. \A c \in steady : probe <= c /\ c # probe
          BY <3>2, <5>1
        <5> QED
          BY <1>0, <5>2
      <4>3. FlagTracksSocket' /\ DialIsHere'
        BY <4>1
      <4>4. Passed'
        BY <3>2, <4>1, <4>2
      <4> QED
        BY <4>3, <4>4
    <3> QED
      BY <2>3, <3>1, <3>2 DEF DialFails
  <2>4. CASE ScanExhausted
    <3>1. ~dialled
      BY <1>0, <2>4 DEF ScanExhausted
    <3> QED
      BY <1>4, <2>4, <3>1 DEF ObjectSteps, ScanExhausted, Ends
  <2> QED
    BY <1>4, <2>1, <2>2, <2>3, <2>4 DEF ObjectSteps, CallStep
<1>5. CASE DeviceChanges
  BY <1>5 DEF DeviceChanges
<1>6. CASE DeviceHangsUp
  BY <1>6 DEF DeviceHangsUp, HangUp
<1>7. CASE UNCHANGED vars
  BY <1>7 DEF vars
<1> QED
  BY <1>1, <1>2, <1>3, <1>4, <1>5, <1>6, <1>7 DEF Next, CtrlC

LEMMA ScanCorrect ==
    ASSUME ~Interrupts
    PROVE  Spec => [](TypeOK /\ ScanInv)
<1>1. Init => ScanInv
  BY DEF Init, NewObject, ScanInv, FlagTracksSocket, DialIsHere, Passed
<1>2. TypeOK /\ ScanInv /\ [Next]_vars => ScanInv'
  BY NextScan
<1> QED
  BY <1>1, <1>2, TypeCorrect, PTL DEF Spec

\* Without interrupts the flag is exactly whether the socket was connected,
\* but for the statement between the dial and the flag.
THEOREM FlagIsSocket ==
    ASSUME ~Interrupts
    PROVE  Spec => []FlagTracksSocket
<1>1. TypeOK /\ ScanInv => FlagTracksSocket
  BY DEF ScanInv
<1> QED
  BY <1>1, ScanCorrect, PTL

\* The channel tryFindPort connects is the lowest that accepted all the while.
THEOREM ScanIsLowest ==
    ASSUME ~Interrupts
    PROVE  Spec => []LowestPort
<1>1. TypeOK /\ ScanInv => LowestPort
  BY DEF ScanInv, DialIsHere, Passed, LowestPort
<1> QED
  BY <1>1, ScanCorrect, PTL

\* tryFindPort gives up only when no channel in its range accepted all the
\* while, however the device changes the others under the scan.
THEOREM ScanSkipsNone ==
    ASSUME ~Interrupts
    PROVE  Spec => ScanFinds
<1> DEFINE GivesUp == /\ call = "tryFindPort" /\ call' = "none"
                      /\ outcome' = "addressNotFound"
<1>1. ASSUME TypeOK, ScanInv, [Next]_vars, GivesUp
      PROVE  steady \cap 0..MaxScan - 1 = {}
  <2> USE DEF rfcommVars, objVars, clientVars
  <2>1. ScanExhausted
    <3>1. ObjectSteps
      BY <1>1 DEF Next, vars, ClientConnects, CallConnect, ClientScans,
         CallTryFindPort, ClientReceives, CtrlC, DeviceChanges, DeviceHangsUp
    <3> QED
      BY <1>1, <3>1 DEF ObjectSteps, CallStep, Dial, SetFlag, Ends, DialFails, Caught
  <2>2. \A c \in steady : probe <= c
    BY <1>1 DEF ScanInv, Passed
  <2>3. probe >= MaxScan /\ probe \in Nat /\ MaxScan \in Nat /\ steady \subseteq Nat
    BY <1>1, <2>1, ChannelAssumption, MaxScanAssumption
       DEF ScanExhausted, TypeOK, ObjTypeOK
  <2> QED
    BY <2>2, <2>3
<1>2. TypeOK /\ ScanInv /\ [Next]_vars =>
        [GivesUp => steady \cap 0..MaxScan - 1 = {}]_vars
  BY <1>1
<1> QED
  BY <1>2, ScanCorrect, PTL DEF Spec, ScanFinds
=============================================================================
