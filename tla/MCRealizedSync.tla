--------------------------- MODULE MCRealizedSync ---------------------------
(* Executions for the runs of RealizedSync. *)
EXTENDS RealizedSync

\* Two orders filled at once, shortly after each other; the activity of the
\* first is listed without order id.
SingleFills ==
  << [order |-> "a", qty |-> 1, price |-> 1, at |-> 1, stamp |-> 1, named |-> FALSE],
     [order |-> "b", qty |-> 1, price |-> 2, at |-> 3, stamp |-> 3, named |-> TRUE] >>

\* One order filled in two parts; a part carries the time of submission.
PartialFills ==
  << [order |-> "a", qty |-> 1, price |-> 1, at |-> 2, stamp |-> 1, named |-> TRUE],
     [order |-> "a", qty |-> 1, price |-> 2, at |-> 3, stamp |-> 3, named |-> TRUE] >>
=============================================================================
