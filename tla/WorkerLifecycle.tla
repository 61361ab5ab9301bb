--------------------------- MODULE WorkerLifecycle ---------------------------
(***************************************************************************)
(* What source/simple_threading.cpp promises of a worker, seen from        *)
(* outside: it comes to life, it goes on until somebody asks it to stop,   *)
(* it then finishes, and after that it may be forgotten.  Each worker goes *)
(* through these stages once and in this order.  A line of its script may  *)
(* hold it up, for ever if it likes.                                       *)
(***************************************************************************)
CONSTANT Ids
VARIABLES life, held

lifeVars == <<life, held>>

Stages == {"none", "alive", "stopping", "finished", "forgotten"}

TypeOK == life \in [Ids -> Stages] /\ held \subseteq Ids

Init == life = [id \in Ids |-> "none"] /\ held = {}

Advance(id, from, to) ==
    /\ id \notin held /\ life[id] = from
    /\ life' = [life EXCEPT ![id] = to]
    /\ UNCHANGED held

Start(id)  == Advance(id, "none", "alive")
Finish(id) == Advance(id, "stopping", "finished")
Forget(id) == Advance(id, "finished", "forgotten")

(* A worker may be asked while it is held.                                 *)
Ask(id) ==
    /\ life[id] = "alive"
    /\ life' = [life EXCEPT ![id] = "stopping"]
    /\ UNCHANGED held

Hold(id) ==
    /\ life[id] \in {"alive", "stopping"}
    /\ held' = held \cup {id}
    /\ UNCHANGED life

Release(id) == held' = held \ {id} /\ UNCHANGED life

Next ==
    \E id \in Ids :
        Start(id) \/ Ask(id) \/ Finish(id) \/ Forget(id) \/ Hold(id) \/ Release(id)

Spec == Init /\ [][Next]_lifeVars

(* A worker that has been asked to stop does stop, unless it is held.      *)
FairSpec == Spec /\ \A id \in Ids : WF_lifeVars(Finish(id))
=============================================================================
