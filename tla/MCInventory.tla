---------------------------- MODULE MCInventory -----------------------------
(* The accounts TLC checks Inventory on. *)
EXTENDS Inventory

\* Every average is a whole number of it: at most two are taken in a walk, of
\* at most ten shares.
Unit == 2520 * 2520

\* One symbol goes both ways, the other is a long position sold.
MCTrades ==
  [symbol: {"a"}, qty: {1, 2}, px: {Unit}]
    \cup [symbol: {"a"}, qty: {-2, -1, 1}, px: {3 * Unit}]
    \cup [symbol: {"b"}, qty: {-1}, px: {Unit}]

Holding(n) == [Zero EXCEPT !["a"] = [qty |-> n, avg |-> 2 * Unit],
                           !["b"] = [qty |-> 1, avg |-> 2 * Unit]]
MCOld == {Zero, Holding(2), Holding(-2)}
=============================================================================
