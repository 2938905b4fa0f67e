---------------------------- MODULE MCConnection ----------------------------
(***************************************************************************)
(* A device with three channels; channel 3 lies beyond the scanned range.  *)
(***************************************************************************)
EXTENDS ConnectionClient

MCChannels == {1, 2, 3}
MCPorts    == {2, None}
=============================================================================
