-------------------------- MODULE MCTernaryCoreLite --------------------------
(* TernaryCoreLite with a counter that saturates early.                        *)
EXTENDS TernaryCoreLite

MCThresholds == {0, 2, 3}
=============================================================================
