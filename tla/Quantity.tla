------------------------------ MODULE Quantity ------------------------------
(***************************************************************************)
(* uint64Quantity (pkg/sources/summary/summary.go): a kubelet reports      *)
(* unsigned readings, a resource.Quantity is made from a signed integer    *)
(* and a decimal scale.  A reading that does not fit is divided by ten and *)
(* its scale raised by one.                                                *)
(*                                                                         *)
(* The integers have the width that MaxInt gives them; 2^63 - 1 is Go's.   *)
(***************************************************************************)
EXTENDS Integers

CONSTANT MaxInt     \* math.MaxInt64

ASSUME MaxIntAssumption == MaxInt \in Nat /\ MaxInt >= 1

MaxUint == 2 * MaxInt + 1

\* int64(v): the value wraps where it does not fit.
ToInt(v) == IF v > MaxInt THEN v - 2 * (MaxInt + 1) ELSE v

\* The integer and the scale handed to resource.NewScaledQuantity.
uint64Quantity(val, scale) ==
    IF val <= MaxInt
    THEN [unscaled |-> ToInt(val), scale |-> scale]
    ELSE [unscaled |-> ToInt(val \div 10), scale |-> 1 + scale]

\* No reading becomes negative or too large, none is off by ten of its units or
\* more, and one that fits is kept as it is (lines 238-248).
Faithful(val, scale, q) ==
    LET kept == IF q.scale = scale THEN q.unscaled ELSE 10 * q.unscaled
    IN  /\ q.unscaled \in 0..MaxInt
        /\ q.scale \in {scale, scale + 1}
        /\ kept <= val /\ val - kept < 10
        /\ val <= MaxInt => kept = val
=============================================================================
