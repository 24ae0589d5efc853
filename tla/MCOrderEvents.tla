--------------------------- MODULE MCOrderEvents ---------------------------
(***************************************************************************)
(* A small instance of OrderEvents for TLC: one coin with two X-Perp       *)
(* listings, the old one and the one the venue relists it as, and a dated  *)
(* contract; an order of ours and one of another strategy.                 *)
(***************************************************************************)
EXTENDS OrderEvents

CONSTANTS mine, theirs, coin, oldPerp, newPerp, dated

OneOurs == {mine}
OneForeign == {theirs}
OneCoin == {coin}
ThreeListings == {oldPerp, newPerp, dated}
OfCoin == [l \in ThreeListings |-> coin]
PerpListings == {oldPerp, newPerp}

\* Base units per contract: a relist changes the contract size.
Sizes == [l \in ThreeListings |-> IF l = oldPerp THEN 2 ELSE 3]

\* What is live changes: both X-Perps for a while, or a gap, where the coin has no
\* listing.
Relisting == {{oldPerp, dated}, {oldPerp, newPerp}, {}}

=============================================================================
