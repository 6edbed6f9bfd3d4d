------------------------------ MODULE Decimals ------------------------------
(***************************************************************************)
(* The decimals StockWinner calculates with: java.math.BigDecimal, a whole *)
(* number of units of 1/Base^scale.  A product keeps every digit; a        *)
(* quotient without a scale of its own has the scale of the dividend and   *)
(* is rounded to it.                                                       *)
(***************************************************************************)
EXTENDS Integers

CONSTANT Base             \* 10; any other base rounds the same way

ASSUME BaseAssumption == Base \in Nat \ {0, 1}

Dec(unscaled, scale) == [unscaled |-> unscaled, scale |-> scale]

Wider(a, b) == IF a.scale >= b.scale THEN a.scale ELSE b.scale
At(a, scale) == a.unscaled * Base^(scale - a.scale)

Plus(a, b) == Dec(At(a, Wider(a, b)) + At(b, Wider(a, b)), Wider(a, b))
Minus(a, b) == Dec(At(a, Wider(a, b)) - At(b, Wider(a, b)), Wider(a, b))
Times(a, b) == Dec(a.unscaled * b.unscaled, a.scale + b.scale)
Less(a, b) == At(a, Wider(a, b)) < At(b, Wider(a, b))

\* ROUND_DOWN, of what is not negative.
DivideDown(a, b) == Dec((a.unscaled * Base^b.scale) \div b.unscaled, a.scale)

\* HALF_UP: half a unit is rounded away from 0.
DivideHalfUp(a, b) ==
  LET Rounded(n) == (2 * n * Base^b.scale + b.unscaled) \div (2 * b.unscaled)
  IN Dec(IF a.unscaled >= 0 THEN Rounded(a.unscaled) ELSE -Rounded(-a.unscaled), a.scale)
=============================================================================
