--------------------------- MODULE MCStockWinner ---------------------------
(***************************************************************************)
(* A user of StockWinner and small files of prices for TLC.                *)
(***************************************************************************)
EXTENDS StockWinner

\* The prices of consecutive days, with so many digits after the point.
Daily(prices, scale) ==
  [i \in DOMAIN prices |-> [date |-> i, price |-> Dec(prices[i], scale)]]

\* A fall after a rise, a price of 0, a file that begins with its last day.
SomeFiles ==
  {Daily(<<2, 3, 1>>, 1), Daily(<<1, 0, 2>>, 0), Reverse(Daily(<<2, 3, 1>>, 0))}

\* A rise by half, in whole numbers.
TestFiles == {Daily(<<2, 3>>, 0)}

\* Half, all, and more.
SomeShares == {Dec(1, 1), Dec(2, 1), Dec(3, 1)}

SomeFunds == {Dec(7, 0)}
=============================================================================
