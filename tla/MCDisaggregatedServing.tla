----------------------- MODULE MCDisaggregatedServing -----------------------
(* Instances of DisaggregatedServing for TLC. *)
EXTENDS DisaggregatedServing

CONSTANTS r1, r2, b1, b2

\* One replica with two blocks.
OnePool == [d \in {0} |-> {b1, b2}]

\* r2 needs the whole pool.
SmallAndLarge == [r \in Requests |-> IF r = r2 THEN 2 ELSE 1]
=============================================================================
