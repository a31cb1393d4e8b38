------------------------------ MODULE FixedPoint ------------------------------
(***************************************************************************)
(* The fixed-point numbers of lib/kernel/real.c: a value in units of       *)
(* 1 / One, and a sign of its own, which is set for negative numbers and   *)
(* for zero.  Sums keep the sign of their left operand, so that a number   *)
(* may also have its sign set and a negative value.  The word that holds   *)
(* both is wide enough for numbers below 2^16, which are all that occur    *)
(* here.                                                                   *)
(***************************************************************************)
EXTENDS Integers

CONSTANT One         \* 1 << Q, 2^14 in the kernel

ASSUME FixedPointAssumption == One \in Nat \ {0}

(* C's division rounds to zero, and its shift to the right rounds down.    *)
Quotient(a, b) ==
    LET abs(x) == IF x < 0 THEN -x ELSE x
        q == abs(a) \div abs(b)
    IN  IF (a < 0) = (b < 0) THEN q ELSE -q

RealOfInt(x) ==
    IF x > 0 THEN [value |-> x * One, sign |-> 0] ELSE [value |-> -x * One, sign |-> 1]

(* Mutant: the sign is taken for that of the value.                        *)
IntOfRealUnsigned(r) == r.value \div One

IntOfReal(r) == IF r.sign = 0 THEN r.value \div One ELSE -(r.value \div One)

RealAdd(a, b) ==
    [a EXCEPT !.value = IF a.sign = b.sign THEN @ + b.value ELSE @ - b.value]

RealMult(a, b) ==
    [value |-> (a.value * b.value) \div One, sign |-> (a.sign + b.sign) % 2]

RealDiv(a, b) ==
    [value |-> Quotient(a.value * One, b.value), sign |-> (a.sign + b.sign) % 2]

(* The number that r stands for, in units of 1 / One.                      *)
Exact(r) == IF r.sign = 0 THEN r.value ELSE -r.value
=============================================================================
