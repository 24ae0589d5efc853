------------------------------ MODULE MCHistory ------------------------------
(***************************************************************************)
(* A small instance of History for TLC: five minutes, any of which may     *)
(* have no bar, and three downloads of any split into pages.               *)
(***************************************************************************)
EXTENDS History

BothKinds == {"candles", "funding"}
FromZero == {0}

=============================================================================
