----------------------------- MODULE BigEndian ------------------------------
(***************************************************************************)
(* Integers as fixed numbers of bytes, most significant first: what        *)
(* to_be_bytes and from_be_bytes of the standard library compute for the   *)
(* length in front of a frame, and what is left of it in a usize.          *)
(***************************************************************************)
EXTENDS Integers, Sequences

CONSTANTS
    Base,       \* number of byte values, 256 in the code
    LenBytes,   \* bytes of a length, 8 in the code
    UsizeLimit  \* number of usize values, 2^32 or 2^64 with the target

ASSUME BigEndianAssumption ==
    Base \in Nat \ {0, 1} /\ LenBytes \in Nat \ {0} /\ UsizeLimit \in Nat \ {0}

Byte == 0 .. Base - 1

\* Base to the power of k.
Power[k \in 0 .. LenBytes] == IF k = 0 THEN 1 ELSE Power[k - 1] * Base

\* One more than the largest length a frame can announce (u64::MAX).
LenLimit == Power[LenBytes]

\* to_be_bytes: the digits of n.
ToBe(n) == [k \in 1 .. LenBytes |-> (n \div Power[LenBytes - k]) % Base]

\* from_be_bytes: the number whose digits are the bytes of s.
FromBe(s) ==
    LET value[k \in 0 .. LenBytes] == IF k = 0 THEN 0 ELSE value[k - 1] * Base + s[k]
    IN  value[LenBytes]

\* A u64 `as usize`: on a narrow target the upper bits are dropped.
AsUsize(n) == n % UsizeLimit
=============================================================================
