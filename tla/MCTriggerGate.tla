--------------------------- MODULE MCTriggerGate ----------------------------
(* A word of four values: both orders of delay and width, and the wrap.      *)
EXTENDS TriggerGate

MCSettings == {0, 1, 3}
=============================================================================
