----------------------------- MODULE FillLedger -----------------------------
(***************************************************************************)
(* What an execution gateway promises the engine about fills: whatever the *)
(* venue executes may be credited later, once, and at its size in units of *)
(* the base asset.                                                         *)
(***************************************************************************)
EXTENDS Naturals, Sequences

CONSTANT Trades     \* the venue's trade ids

VARIABLES
    executed,   \* executed[t]: the size of trade t in base units, 0 before it
    fills       \* fills[t]: the quantities credited for trade t, in order

lvars == <<executed, fills>>

LInit ==
    /\ executed = [t \in Trades |-> 0]
    /\ fills = [t \in Trades |-> << >>]

Execute(t) ==
    /\ executed[t] = 0
    /\ executed'[t] \in Nat \ {0}
    /\ executed' = [executed EXCEPT ![t] = executed'[t]]
    /\ UNCHANGED fills

Credit(t) ==
    /\ executed[t] # 0 /\ fills[t] = << >>
    /\ fills' = [fills EXCEPT ![t] = <<executed[t]>>]
    /\ UNCHANGED executed

LNext == \E t \in Trades : Execute(t) \/ Credit(t)

LSpec == LInit /\ [][LNext]_lvars

=============================================================================
