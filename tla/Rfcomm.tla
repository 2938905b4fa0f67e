------------------------------- MODULE Rfcomm -------------------------------
(***************************************************************************)
(* External: the host's RFCOMM socket and the device it dials, as far as   *)
(* src/bluetoothConnection.py uses them.  connect() on the socket succeeds *)
(* exactly when the device accepts on that channel at that moment (a       *)
(* device out of range accepts on none); a socket connects at most once    *)
(* and may be dialled again after a refusal, as tryFindPort does.          *)
(***************************************************************************)
EXTENDS Naturals

CONSTANTS None, Channels      \* the channels a device may serve

ASSUME ChannelAssumption == Channels \subseteq Nat /\ None \notin Nat

VARIABLES listening,   \* the channels on which the device accepts now
          sock,        \* "fresh", "open" or "lost" (the peer is gone)
          channel      \* the channel the socket was connected on, or None

rfcommVars == <<listening, sock, channel>>

RfcommTypeOK == /\ listening \subseteq Channels
                /\ sock \in {"fresh", "open", "lost"}
                /\ channel \in Channels \cup {None}

Accepts(c) == sock = "fresh" /\ c \in listening

Establish(c) == /\ Accepts(c)
                /\ sock' = "open"
                /\ channel' = c
                /\ UNCHANGED listening

\* The peer resets, goes out of range or closes: the socket stays lost.
HangUp == /\ sock = "open"
          /\ sock' = "lost"
          /\ UNCHANGED <<listening, channel>>
=============================================================================
