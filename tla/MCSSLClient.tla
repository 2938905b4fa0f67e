----------------------------- MODULE MCSSLClient ----------------------------
(***************************************************************************)
(* Values for the run of SSLClient: records of the peer that are empty,    *)
(* short, and longer than the input buffer; records of ours of at most two *)
(* bytes, so that what write() copies fills one or waits in it.            *)
(***************************************************************************)
EXTENDS SSLClient

MCSizes == {1, 3}
MCData  == {0, 2, 5}
MCKinds == {"app", "close", "hello", "forged"}
=============================================================================
