------------------------------ MODULE MCHotkeys ------------------------------
(***************************************************************************)
(* Two hotkeys for TLC: one of the hook, with a variant for an expression, *)
(* one for a window and one without a criterion, and a registered one with *)
(* a window variant that may run twice at a time and is exempt from        *)
(* Suspend.                                                                *)
(***************************************************************************)
EXTENDS Hotkeys

MCHotkeyNames == {"a", "b"}
MCVariants == {"expr", "window", "plain", "twice"}
MCVariantsOf == [hk \in MCHotkeyNames |->
    IF hk = "a" THEN <<"expr", "window", "plain">> ELSE <<"twice">>]
MCCriterion == [v \in MCVariants |->
    CASE v = "expr" -> "expr" [] v = "plain" -> "none" [] OTHER -> "window"]
MCMaxThreadsOf == [v \in MCVariants |-> IF v = "twice" THEN 2 ELSE 1]
==============================================================================
