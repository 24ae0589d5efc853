-------------------------- MODULE MCPrivateStream --------------------------
(***************************************************************************)
(* Small instances of PrivateStream for TLC.                               *)
(***************************************************************************)
EXTENDS PrivateStream

CONSTANTS s1, s2, orders, c1

TwoSessions == {s1, s2}
OneSession == {s1}
OneRequest == {orders}
OneCaller == {c1}

=============================================================================
