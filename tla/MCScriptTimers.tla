---------------------------- MODULE MCScriptTimers ----------------------------
(* ScriptTimers for TLC.  No action and no invariant tells one script      *)
(* function from another.                                                  *)
EXTENDS ScriptTimers

(* PRIORITY_MINIMUM: below every priority in use. *)
MCMinPriority == -1

CallbackSymmetry == Permutations(Callbacks)
===============================================================================
