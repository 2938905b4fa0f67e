----------------------------- MODULE Uint8Cast -----------------------------
(***************************************************************************)
(* The conversion of src/src/test.cpp: a float reading of the DHT sensor   *)
(* becomes one byte.  A reading is an integer number of tenths, or NaN for *)
(* a failed read; a byte is what goes over the air.                        *)
(***************************************************************************)
EXTENDS Integers

CONSTANT NaN     \* what readHumidity / readTemperature return on failure

ASSUME NaNAssumption == NaN \notin Int

Byte == 0..255

\* The integer part of a reading, rounded toward zero as a cast does.
Trunc(x) == IF x >= 0 THEN x \div 10 ELSE -((-x) \div 10)

\* The readings whose integer part a uint8_t can hold: the cast is defined
\* for these and for no others.
Representable(x) == x # NaN /\ Trunc(x) \in Byte

\* Mutant: the float is sent as it is.
UncastOutcomes(x) == {x}

\* static_cast<uint8_t>(x).  Outside the representable readings C++ leaves
\* the value open; a build gives the low byte of the integer part or one
\* end of the byte's range (the conversion instruction saturates).
Uint8Outcomes(x) == IF Representable(x) THEN {Trunc(x)}
                    ELSE {0, 255} \cup {Trunc(y) % 256 : y \in {x} \ {NaN}}
=============================================================================
