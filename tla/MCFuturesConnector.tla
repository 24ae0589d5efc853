------------------------- MODULE MCFuturesConnector -------------------------
(***************************************************************************)
(* A small instance of FuturesConnector for TLC.                           *)
(***************************************************************************)
EXTENDS FuturesConnector, TLC

CONSTANTS c1, c2, i1, i2, i3

TwoCallers == {c1, c2}
ThreeInstruments == {i1, i2, i3}
Symmetry == Permutations(TwoCallers) \cup Permutations(ThreeInstruments)

=============================================================================
