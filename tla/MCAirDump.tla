----------------------------- MODULE MCAirDump -----------------------------
(***************************************************************************)
(* Readings for the runs of AirDump.  40.7 % and 55.3 % differ in integer  *)
(* part, and no integer part is both a humidity and a temperature.         *)
(***************************************************************************)
EXTENDS AirDump

MCHumidities == {407, 553}
MCWarm       == {214}          \* 21.4 degrees
MCFrost      == {214, -50}     \* and 5.0 below zero
MCChannels   == {1}
=============================================================================
