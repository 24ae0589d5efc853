---------------------------- MODULE MCOrderEntry ----------------------------
(***************************************************************************)
(* A small instance of OrderEntry for TLC: one order (a request is about   *)
(* one order, and the lane makes one at a time), and two listings of       *)
(* different contract sizes, lots and minima, live one after the other or  *)
(* together for a while.                                                   *)
(***************************************************************************)
EXTENDS OrderEntry

CONSTANTS o1, old, new

OneOrder == {o1}
TwoListings == {old, new}
OneOrTwo == [l \in TwoListings |-> IF l = old THEN 1 ELSE 2]
TwoOrOne == [l \in TwoListings |-> IF l = old THEN 2 ELSE 1]
AtLeastTwo == [l \in TwoListings |-> 2]
Relisting == {{old}, {old, new}, {new}}
Margin == {"51008"}
Failed == {"1"}

=============================================================================
