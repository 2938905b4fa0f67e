-------------------------- MODULE Uint8CastProofs --------------------------
(***************************************************************************)
(* What static_cast<uint8_t> does to a reading in tenths: exact and off by *)
(* less than one unit between -0.9 and 255.9, and a byte in any case.      *)
(***************************************************************************)
EXTENDS Uint8Cast, TLAPS

\* The integer part is an integer less than one unit from the reading, and
\* on the side of zero.
LEMMA TruncTowardZero ==
    ASSUME NEW x \in Int
    PROVE  /\ Trunc(x) \in Int
           /\ x >= 0 => 10 * Trunc(x) <= x /\ x < 10 * Trunc(x) + 10
           /\ x < 0  => 10 * Trunc(x) - 10 < x /\ x <= 10 * Trunc(x)
  BY DEF Trunc

\* The readings for which the cast is defined (test.cpp:15-16): those above
\* -1.0 and below 256.0.
THEOREM RepresentableRange ==
    ASSUME NEW x \in Int
    PROVE  Representable(x) <=> -10 < x /\ x < 2560
<1>1. x # NaN
  BY NaNAssumption
<1> DEFINE n == Trunc(x)
<1>2. /\ n \in Int
      /\ x >= 0 => 10 * n <= x /\ x < 10 * n + 10
      /\ x < 0  => 10 * n - 10 < x /\ x <= 10 * n
  BY TruncTowardZero
<1> HIDE DEF n
<1>3. n \in 0..255 <=> -10 < x /\ x < 2560
  BY <1>2
<1> QED
  BY <1>1, <1>3 DEF Representable, Byte, n

\* ... and for those it has exactly one outcome, the integer part.
LEMMA CastExact ==
    ASSUME NEW x, Representable(x)
    PROVE  Uint8Outcomes(x) = {Trunc(x)}
  BY DEF Uint8Outcomes

\* Whatever is cast, the outcomes are bytes.
LEMMA CastIsByte ==
    ASSUME NEW x \in Int \cup {NaN}
    PROVE  Uint8Outcomes(x) \subseteq Byte
<1>1. CASE Representable(x)
  BY <1>1, CastExact DEF Representable
<1>2. CASE ~Representable(x)
  <2>1. \A y \in {x} \ {NaN} : Trunc(y) % 256 \in Byte
    <3> TAKE y \in {x} \ {NaN}
    <3> DEFINE n == Trunc(y)
    <3>1. n \in Int
      BY TruncTowardZero
    <3> HIDE DEF n
    <3>2. n % 256 \in 0..255
      BY <3>1
    <3> QED
      BY <3>2 DEF Byte, n
  <2> QED
    BY <1>2, <2>1 DEF Uint8Outcomes, Byte
<1> QED
  BY <1>1, <1>2
=============================================================================
