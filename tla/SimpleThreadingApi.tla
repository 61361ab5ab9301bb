-------------------------- MODULE SimpleThreadingApi --------------------------
(***************************************************************************)
(* ThreadGetVar, the script function of source/simple_threading_api.cpp    *)
(* that gives something back, on top of SimpleThreading.  It hands its     *)
(* result a pointer to a buffer it deletes before it returns: the script   *)
(* reads either what was there or what the heap has put in its place.      *)
(*                                                                         *)
(* The other functions pass their parameters on to SimpleThreading, with   *)
(* one catch.  ThreadDestroy reads ExprTokenType::value_int64 whatever the *)
(* token's symbol is: a literal or a call's result gives its number, but a *)
(* variable the address of its Var, an identifier nobody has.              *)
(***************************************************************************)
EXTENDS SimpleThreading

CONSTANT Forms   \* the forms scripts write the parameter in: "integer", "variable"

VARIABLE got     \* what a caller's last ThreadGetVar has returned

apiVars == <<allVars, got>>

Freed == -1      \* the content of a buffer that has been deleted

ApiInit == Init /\ got = [c \in Callers |-> 0]

(* An identifier nobody has: DestroyThread finds nothing and changes       *)
(* nothing.                                                                *)
BIF_ThreadDestroy(c, id, form) ==
    IF form = "integer"
    THEN DestroyRequest(c, id)
    ELSE cpc[c] = "idle" /\ lock = Free /\ UNCHANGED allVars

BIF_ThreadGetVar(c, k) ==
    /\ cpc[c] = "idle" /\ lock = Free
    /\ \E value \in {vars[k], Freed} : got' = [got EXCEPT ![c] = value]
    /\ UNCHANGED allVars

ApiNext ==
    \/ \E c \in Callers :
         \/ \E id \in Ids, form \in Forms : BIF_ThreadDestroy(c, id, form) /\ UNCHANGED got
         \/ \E k \in Keys : BIF_ThreadGetVar(c, k)
         \/ /\ Create(c) \/ DestroyJoin(c) \/ DestroyCleanup(c) \/ \E k \in Keys : SetGlobalVar(c, k)
            /\ UNCHANGED got
    \/ \E id \in Ids : WorkerStep(id) /\ UNCHANGED got

ApiSpec == ApiInit /\ [][ApiNext]_apiVars

(* docs/API.md:93: ThreadGetVar returns the "stored string value, or empty *)
(* string if missing".  (0 stands for the latter.)                         *)
GetReturnsStored ==
    [][\A c \in Callers : got'[c] # got[c] => \E k \in Keys : got'[c] = vars[k]]_apiVars
===============================================================================
