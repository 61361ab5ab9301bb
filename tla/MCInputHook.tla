---------------------------- MODULE MCInputHook ----------------------------
(* Two inputs: a has OnEnd and OnChar, b a timeout of one tick. *)
EXTENDS InputHook

CONSTANTS a, b

MCTimeoutOf == [i \in {a, b} |-> IF i = b THEN 1 ELSE 0]
=============================================================================
