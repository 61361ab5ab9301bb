---------------------------- MODULE WorkerProofs ----------------------------
(***************************************************************************)
(* Proofs about worker threads.  First SimpleThreading, for any number of  *)
(* workers, callers and script keys: the inductive invariant relates each  *)
(* caller's place to the registries and each worker's place to its stop    *)
(* flag.  Then the line loop of one worker, for every set of scripts: its  *)
(* two stacks match, so execStack.back() and loopStack.back() are taken of *)
(* vectors that have an element.  Last that it carries out WorkerScript,   *)
(* for every set of scripts whose blocks do not nest.                      *)
(***************************************************************************)
EXTENDS SimpleThreading, WorkerInterp, FiniteSetTheorems, SequenceTheorems,
        WellFoundedInduction, TLAPS

Leaving == {"joining", "cleaning", "waiting"}

(* The mutex is held between two actions only by CreateThread, whose new   *)
(* worker has a flag but is in no other registry yet.                      *)
LockInv ==
    \A c \in Callers :
        /\ cpc[c] = "registering" <=> lock = c
        /\ cpc[c] = "registering" =>
             /\ wpc[arg[c]] = "spawned" /\ stopFlag[arg[c]] = "clear"
             /\ arg[c] \notin threads /\ arg[c] \notin interp

(* A caller that has taken a thread out of s_threads works on a worker     *)
(* that is still in the other two registries.                              *)
LeavingInv ==
    \A c \in Callers : cpc[c] \in Leaving =>
        /\ wpc[arg[c]] # "none"
        /\ arg[c] \notin threads /\ arg[c] \in interp
        /\ stopFlag[arg[c]] # "absent"
        /\ cpc[c] \in {"joining", "cleaning"} => stopFlag[arg[c]] = "set"
        /\ cpc[c] = "cleaning" => wpc[arg[c]] = "done"
        /\ cpc[c] = "waiting" => c \in Waiters

(* No two calls under way work on the same worker.                         *)
UniqueInv ==
    \A c, d \in Callers :
        cpc[c] # "idle" /\ cpc[d] # "idle" /\ arg[c] = arg[d] => c = d

(* Identifiers not handed out yet are nowhere.                             *)
FreshInv ==
    \A id \in Ids :
        /\ id >= nextId <=> wpc[id] = "none"
        /\ wpc[id] = "none" =>
             stopFlag[id] = "absent" /\ id \notin threads /\ id \notin interp

(* s_threads is part of s_interpreters, which is part of s_stopFlags; a    *)
(* worker that has not ended has its flag, and has its interpreter once it *)
(* has taken its first step.                                               *)
WorkerInv ==
    \A id \in Ids :
        /\ id \in threads => id \in interp
        /\ id \in interp => stopFlag[id] # "absent"
        /\ wpc[id] = "spawned" =>
             /\ stopFlag[id] # "absent"
             /\ id \in interp \/ (lock # Free /\ arg[lock] = id)
        /\ Running(id) => id \in interp
        /\ wpc[id] = "returning" => stopFlag[id] = "set"
        /\ wpc[id] = "done" => stopFlag[id] # "clear" /\ status[id] = "completed"

(* A flag stands for a thread in s_threads or for a call under way, unless *)
(* a WaitForThread has left it behind.                                     *)
AgreeInv ==
    \A id \in Ids : stopFlag[id] # "absent" =>
        \/ id \in threads
        \/ \E c \in Callers : cpc[c] # "idle" /\ arg[c] = id
        \/ Waiters # {} /\ wpc[id] = "done" /\ id \in interp

Inv == TypeOK /\ LockInv /\ LeavingInv /\ UniqueInv /\ FreshInv /\ WorkerInv /\ AgreeInv

-----------------------------------------------------------------------------
(* The invariant holds at the start.                                       *)
LEMMA InitInv == Init => Inv
  BY ThreadingAssumption, SMTT(30)
     DEF ThreadingAssumption, Init, TypeOK, Ids, CallerPlaces, WorkerPlaces, Inv, LockInv, LeavingInv, UniqueInv, FreshInv, WorkerInv, AgreeInv, Running, Leaving

(* Every step keeps the variables in their types.                          *)
LEMMA CallerType ==
  ASSUME TypeOK, NEW c \in Callers, CallerStep(c)
  PROVE  TypeOK'
<1> USE ThreadingAssumption DEF ThreadingAssumption, TypeOK, Ids, CallerPlaces, WorkerPlaces, Goto, Step,
        TearLookups, registry, store, caller, worker
<1>1. CASE CreateSpawn(c)    BY <1>1 DEF CreateSpawn
<1>2. CASE CreateRegister(c) BY <1>2 DEF CreateRegister
<1>3. ASSUME NEW id \in Ids, DestroyRequest(c, id) PROVE TypeOK'
  BY <1>3 DEF DestroyRequest, RaiseFlag, TakeThread
<1>4. CASE DestroyJoin(c)    BY <1>4 DEF DestroyJoin
<1>5. CASE DestroyCleanup(c) BY <1>5 DEF DestroyCleanup, EraseInterpreter
<1>6. ASSUME NEW id \in Ids, WaitTake(c, id) PROVE TypeOK'
  BY <1>6 DEF WaitTake
<1>7. CASE WaitJoin(c)       BY <1>7 DEF WaitJoin
<1>8. ASSUME NEW k \in Keys, SetGlobalVar(c, k) PROVE TypeOK'
  BY <1>8 DEF SetGlobalVar
<1> QED
  BY <1>1, <1>2, <1>3, <1>4, <1>5, <1>6, <1>7, <1>8
     DEF CallerStep, Create, Destroy, Wait

(* A step of a worker keeps the types.                                     *)
LEMMA WorkerType ==
  ASSUME TypeOK, NEW id \in Ids, WorkerStep(id) \/ Unblocked(id)
  PROVE  TypeOK'
<1> USE ThreadingAssumption DEF ThreadingAssumption, TypeOK, Ids, CallerPlaces, WorkerPlaces, Step, registry, store, caller, worker
<1>1. CASE WorkerStart(id)  BY <1>1 DEF WorkerStart
<1>2. CASE ScriptEnd(id)    BY <1>2 DEF ScriptEnd
<1>3. CASE FindBegin(id)    BY <1>3 DEF FindBegin
<1>4. CASE FindEnd(id)      BY <1>4 DEF FindEnd
<1>5. CASE LineBegin(id)    BY <1>5 DEF LineBegin
<1>6. CASE ExecLocal(id)    BY <1>6 DEF ExecLocal
<1>7. ASSUME NEW k \in Keys, ExecSetVar(id, k) PROVE TypeOK'
  BY <1>7 DEF ExecSetVar
<1>8. CASE ExecError(id)    BY <1>8 DEF ExecError
<1>9. CASE BeatRead(id)     BY <1>9 DEF BeatRead
<1>10. CASE BeatSkip(id)    BY <1>10 DEF BeatSkip
<1>11. CASE BeatWrite(id)   BY <1>11 DEF BeatWrite, NextBeat
<1>12. CASE WorkerReturn(id) BY <1>12 DEF WorkerReturn
<1>13. CASE ExecBlocks(id)  BY <1>13 DEF ExecBlocks
<1>14. CASE Unblocked(id)   BY <1>14 DEF Unblocked
<1> QED
  BY <1>1, <1>2, <1>3, <1>4, <1>5, <1>6, <1>7, <1>8, <1>9, <1>10, <1>11, <1>12, <1>13, <1>14
     DEF WorkerStep, Exec

(* A step of a running worker that stays running, touches no registry and  *)
(* moves to "returning" only with its flag set preserves the invariant:    *)
(* this is all the invariant asks of the two loops of run.                 *)
LEMMA LoopStep ==
  ASSUME Inv, TypeOK', NEW id \in Ids, Running(id),
         NEW place \in WorkerPlaces \ {"none", "spawned", "done"}, Step(id, place),
         place = "returning" => stopFlag[id] = "set",
         UNCHANGED <<registry, caller, status>>
  PROVE  Inv'
<1> USE DEF Step, registry, caller, Running
<1>1. LockInv'    BY DEF TypeOK, Ids, CallerPlaces, WorkerPlaces, Inv, LockInv
<1>2. LeavingInv' BY DEF TypeOK, Ids, CallerPlaces, WorkerPlaces, Inv, LeavingInv, Leaving
<1>3. UniqueInv'  BY DEF Inv, UniqueInv
<1>4. FreshInv'   BY DEF TypeOK, Ids, CallerPlaces, WorkerPlaces, Inv, FreshInv
<1>5. WorkerInv'  BY DEF TypeOK, Ids, CallerPlaces, WorkerPlaces, Inv, WorkerInv
<1>6. AgreeInv'   BY DEF Inv, AgreeInv
<1> QED BY <1>1, <1>2, <1>3, <1>4, <1>5, <1>6 DEF Inv

(* A step of a worker keeps the rest: it changes only its own place.       *)
LEMMA WorkerInvariant ==
  ASSUME Inv, NEW id \in Ids, WorkerStep(id) \/ Unblocked(id)
  PROVE  Inv'
<1>1. TypeOK /\ TypeOK' BY WorkerType DEF Inv
<1>2. CASE WorkerStart(id)
  <2> USE <1>1, <1>2 DEF WorkerStart, Step, registry, caller, Running
  <2>1. LockInv'    BY ThreadingAssumption DEF ThreadingAssumption, TypeOK, Ids, CallerPlaces, WorkerPlaces, Inv, LockInv
  <2>2. LeavingInv' BY DEF TypeOK, Ids, CallerPlaces, WorkerPlaces, Inv, LeavingInv, Leaving
  <2>3. UniqueInv'  BY DEF Inv, UniqueInv
  <2>4. FreshInv'   BY DEF TypeOK, Ids, CallerPlaces, WorkerPlaces, Inv, FreshInv
  <2>5. WorkerInv'  BY DEF TypeOK, Ids, CallerPlaces, WorkerPlaces, Inv, WorkerInv
  <2>6. AgreeInv'   BY DEF Inv, AgreeInv
  <2> QED BY <2>1, <2>2, <2>3, <2>4, <2>5, <2>6 DEF Inv
<1>3. CASE WorkerReturn(id)
  <2> USE <1>1, <1>3 DEF WorkerReturn, Step, registry, caller, Running
  <2>1. LockInv'    BY DEF TypeOK, Ids, CallerPlaces, WorkerPlaces, Inv, LockInv
  <2>2. LeavingInv' BY DEF TypeOK, Ids, CallerPlaces, WorkerPlaces, Inv, LeavingInv, Leaving
  <2>3. UniqueInv'  BY DEF Inv, UniqueInv
  <2>4. FreshInv'   BY DEF TypeOK, Ids, CallerPlaces, WorkerPlaces, Inv, FreshInv
  <2>5. WorkerInv'  BY DEF TypeOK, Ids, CallerPlaces, WorkerPlaces, Inv, WorkerInv
  <2>6. AgreeInv'   BY DEF Inv, AgreeInv
  <2> QED BY <2>1, <2>2, <2>3, <2>4, <2>5, <2>6 DEF Inv
<1>4. CASE FindEnd(id)
  <2>1. PICK stop \in StopSeen(id) :
          \/ wpc[id] = "finding" /\ Step(id, IF stop THEN "beat_check" ELSE "line")
          \/ wpc[id] = "beat_finding" /\ Step(id, IF stop THEN "returning" ELSE "beat_due")
    BY <1>4 DEF FindEnd
  <2>2. stop => stopFlag[id] = "set" BY DEF StopSeen
  <2>3. PICK place \in {"beat_check", "line", "returning", "beat_due"} :
          Step(id, place) /\ (place = "returning" => stopFlag[id] = "set")
    BY <2>1, <2>2
  <2>4. Running(id) BY <2>1 DEF Running
  <2> QED BY <1>1, <1>4, <2>3, <2>4, LoopStep DEF FindEnd, store, WorkerPlaces
<1>5. CASE \/ ScriptEnd(id) \/ FindBegin(id) \/ LineBegin(id) \/ Exec(id)
           \/ BeatRead(id) \/ BeatSkip(id) \/ BeatWrite(id) \/ Unblocked(id)
  <2>1. /\ Running(id)
        /\ \E place \in {"beat_check", "finding", "beat_finding", "exec", "blocked", "check",
                        "beat"} :
             Step(id, place)
        /\ UNCHANGED <<registry, caller, status>>
    BY <1>5 DEF ScriptEnd, FindBegin, LineBegin, Exec, ExecLocal, ExecSetVar, ExecError,
                ExecBlocks, Unblocked, BeatRead, BeatSkip, BeatWrite, Running, store
  <2> QED BY <1>1, <2>1, LoopStep DEF WorkerPlaces
<1> QED BY <1>2, <1>3, <1>4, <1>5 DEF WorkerStep

(* The worker a call under way is about exists, has left s_threads (or is  *)
(* not there yet), and no other call under way is about it.                *)
LEMMA Busy ==
  ASSUME Inv, NEW c \in Callers, cpc[c] # "idle"
  PROVE  /\ arg[c] \in Ids /\ wpc[arg[c]] # "none" /\ arg[c] \notin threads
         /\ \A d \in Callers : d # c /\ cpc[d] # "idle" => arg[d] # arg[c]
  BY DEF Inv, TypeOK, CallerPlaces, LockInv, LeavingInv, Leaving, UniqueInv

(* A step of a caller keeps it, one action at a time.                      *)
LEMMA CallerInvariant ==
  ASSUME Inv, NEW c \in Callers, CallerStep(c)
  PROVE  Inv'
<1>1. TypeOK /\ TypeOK' BY CallerType DEF Inv
<1> USE ThreadingAssumption, <1>1 DEF ThreadingAssumption, Goto, Step, Running, registry,
        store, caller, worker
<1>2. CASE CreateSpawn(c)
  <2> USE <1>2 DEF CreateSpawn, TearLookups
  <2>1. LockInv'    BY DEF TypeOK, Ids, CallerPlaces, WorkerPlaces, Inv, FreshInv, LockInv
  <2>2. LeavingInv' BY DEF TypeOK, Ids, CallerPlaces, WorkerPlaces, Inv, FreshInv, LeavingInv, Leaving
  <2>3. UniqueInv'
    <3>1. wpc[nextId] = "none" BY DEF TypeOK, Ids, Inv, FreshInv
    <3>2. \A d \in Callers : d # c /\ cpc[d] # "idle" => arg[d] # nextId
      BY <3>1, Busy
    <3> QED BY <3>2 DEF TypeOK, Inv, UniqueInv
  <2>4. FreshInv'   BY DEF TypeOK, Ids, CallerPlaces, WorkerPlaces, Inv, FreshInv
  <2>5. WorkerInv'  BY DEF TypeOK, Ids, CallerPlaces, WorkerPlaces, Inv, FreshInv, LockInv, WorkerInv
  <2>6. AgreeInv'   BY DEF TypeOK, Ids, CallerPlaces, WorkerPlaces, Inv, AgreeInv, FreshInv
  <2> QED BY <2>1, <2>2, <2>3, <2>4, <2>5, <2>6 DEF Inv
<1>3. CASE CreateRegister(c)
  <2> USE <1>3 DEF CreateRegister
  <2>1. LockInv'    BY DEF TypeOK, Ids, CallerPlaces, WorkerPlaces, Inv, LockInv
  <2>2. LeavingInv'
    <3>1. \A d \in Callers : d # c /\ cpc[d] # "idle" => arg[d] # arg[c]
      BY Busy
    <3> QED BY <3>1 DEF TypeOK, Inv, LeavingInv, Leaving
  <2>3. UniqueInv'  BY DEF TypeOK, Ids, CallerPlaces, WorkerPlaces, Inv, UniqueInv
  <2>4. FreshInv'   BY DEF TypeOK, Ids, CallerPlaces, WorkerPlaces, Inv, FreshInv, LockInv
  <2>5. WorkerInv'  BY DEF TypeOK, Ids, CallerPlaces, WorkerPlaces, Inv, LockInv, WorkerInv
  <2>6. AgreeInv'   BY DEF TypeOK, Ids, CallerPlaces, WorkerPlaces, Inv, AgreeInv
  <2> QED BY <2>1, <2>2, <2>3, <2>4, <2>5, <2>6 DEF Inv
<1>4. ASSUME NEW id \in Ids, DestroyRequest(c, id) PROVE Inv'
  <2> USE <1>4 DEF DestroyRequest, RaiseFlag, TakeThread
  <2>1. LockInv'    BY DEF TypeOK, Ids, CallerPlaces, WorkerPlaces, Inv, LockInv, WorkerInv
  <2>2. LeavingInv' BY DEF TypeOK, Ids, CallerPlaces, WorkerPlaces, Inv, FreshInv, LeavingInv, WorkerInv, Leaving
  <2>3. UniqueInv'
    <3>1. CASE id \in threads
      <4>1. \A d \in Callers : d # c /\ cpc[d] # "idle" => arg[d] # id
        BY <3>1, Busy
      <4> QED BY <3>1, <4>1 DEF TypeOK, Inv, UniqueInv
    <3>2. CASE id \notin threads
      BY <3>2 DEF Inv, UniqueInv
    <3> QED BY <3>1, <3>2
  <2>4. FreshInv'   BY DEF TypeOK, Ids, CallerPlaces, WorkerPlaces, Inv, FreshInv
  <2>5. WorkerInv'  BY DEF TypeOK, Ids, CallerPlaces, WorkerPlaces, Inv, WorkerInv
  <2>6. AgreeInv'
    <3> SUFFICES ASSUME NEW i \in Ids, stopFlag'[i] # "absent"
                 PROVE  \/ i \in threads'
                        \/ \E d \in Callers : cpc'[d] # "idle" /\ arg'[d] = i
                        \/ Waiters # {} /\ wpc'[i] = "done" /\ i \in interp'
      BY DEF AgreeInv
    <3>0. stopFlag[i] # "absent"
      BY DEF TypeOK, Inv
    <3>1. CASE id \in threads
      <4>1. cpc' = [cpc EXCEPT ![c] = "joining"] /\ arg' = [arg EXCEPT ![c] = id]
        BY <3>1
      <4>2. CASE i = id
        BY <4>1, <4>2 DEF TypeOK, Inv
      <4>3. CASE i # id /\ \E d \in Callers : cpc[d] # "idle" /\ arg[d] = i
        <5>1. PICK d \in Callers : cpc[d] # "idle" /\ arg[d] = i
          BY <4>3
        <5>2. d # c
          BY <5>1
        <5>3. cpc'[d] = cpc[d] /\ arg'[d] = arg[d]
          BY <4>1, <5>2 DEF TypeOK, Inv
        <5> QED BY <5>1, <5>3
      <4>4. CASE i # id /\ ~\E d \in Callers : cpc[d] # "idle" /\ arg[d] = i
        BY <4>4, <3>0, <3>1 DEF Inv, AgreeInv
      <4> QED BY <4>2, <4>3, <4>4
    <3>2. CASE id \notin threads
      BY <3>2, <3>0 DEF Inv, AgreeInv
    <3> QED BY <3>1, <3>2
  <2> QED BY <2>1, <2>2, <2>3, <2>4, <2>5, <2>6 DEF Inv
<1>5. CASE DestroyJoin(c)
  <2> USE <1>5 DEF DestroyJoin, Joinable
  <2>1. LockInv'    BY DEF TypeOK, Ids, CallerPlaces, WorkerPlaces, Inv, LockInv
  <2>2. LeavingInv' BY DEF TypeOK, Ids, CallerPlaces, WorkerPlaces, Inv, LeavingInv, Leaving
  <2>3. UniqueInv'  BY DEF TypeOK, Ids, CallerPlaces, WorkerPlaces, Inv, UniqueInv
  <2>4. FreshInv'   BY DEF TypeOK, Ids, CallerPlaces, WorkerPlaces, Inv, FreshInv
  <2>5. WorkerInv'  BY DEF TypeOK, Ids, CallerPlaces, WorkerPlaces, Inv, WorkerInv
  <2>6. AgreeInv'   BY DEF TypeOK, Ids, CallerPlaces, WorkerPlaces, Inv, AgreeInv
  <2> QED BY <2>1, <2>2, <2>3, <2>4, <2>5, <2>6 DEF Inv
<1>6. CASE DestroyCleanup(c)
  <2> USE <1>6 DEF DestroyCleanup, EraseInterpreter, TearLookups
  <2>1. LockInv'    BY DEF TypeOK, Ids, CallerPlaces, WorkerPlaces, Inv, LeavingInv, LockInv, UniqueInv, Leaving
  <2>2. LeavingInv' BY DEF TypeOK, Ids, CallerPlaces, WorkerPlaces, Inv, LeavingInv, UniqueInv, Leaving
  <2>3. UniqueInv'  BY DEF TypeOK, Ids, CallerPlaces, WorkerPlaces, Inv, UniqueInv
  <2>4. FreshInv'   BY DEF TypeOK, Ids, CallerPlaces, WorkerPlaces, Inv, FreshInv, LeavingInv, Leaving
  <2>5. WorkerInv'
    <3>1. wpc[arg[c]] = "done" /\ arg[c] \notin threads /\ arg[c] \in Ids
      BY DEF TypeOK, Inv, LeavingInv, Leaving
    <3> QED BY <3>1 DEF TypeOK, Inv, WorkerInv
  <2>6. AgreeInv'   BY DEF TypeOK, Ids, CallerPlaces, WorkerPlaces, Inv, AgreeInv
  <2> QED BY <2>1, <2>2, <2>3, <2>4, <2>5, <2>6 DEF Inv
<1>7. ASSUME NEW id \in Ids, c \in Waiters, WaitTake(c, id) PROVE Inv'
  <2> USE <1>7 DEF WaitTake
  <2>1. LockInv'    BY DEF TypeOK, Ids, CallerPlaces, WorkerPlaces, Inv, LockInv
  <2>2. LeavingInv' BY DEF TypeOK, Ids, CallerPlaces, WorkerPlaces, Inv, FreshInv, LeavingInv, WorkerInv, Leaving
  <2>3. UniqueInv'
    <3>1. \A d \in Callers : d # c /\ cpc[d] # "idle" => arg[d] # id
      BY Busy
    <3> QED BY <3>1 DEF TypeOK, Inv, UniqueInv
  <2>4. FreshInv'   BY DEF TypeOK, Ids, CallerPlaces, WorkerPlaces, Inv, FreshInv
  <2>5. WorkerInv'  BY DEF TypeOK, Ids, CallerPlaces, WorkerPlaces, Inv, WorkerInv
  <2>6. AgreeInv'   BY DEF TypeOK, Ids, CallerPlaces, WorkerPlaces, Inv, AgreeInv
  <2> QED BY <2>1, <2>2, <2>3, <2>4, <2>5, <2>6 DEF Inv
<1>8. CASE WaitJoin(c)
  <2> USE <1>8 DEF WaitJoin
  <2>1. LockInv'    BY DEF TypeOK, Ids, CallerPlaces, WorkerPlaces, Inv, LockInv
  <2>2. LeavingInv' BY DEF TypeOK, Ids, CallerPlaces, WorkerPlaces, Inv, LeavingInv, Leaving
  <2>3. UniqueInv'  BY DEF TypeOK, Ids, CallerPlaces, WorkerPlaces, Inv, UniqueInv
  <2>4. FreshInv'   BY DEF TypeOK, Ids, CallerPlaces, WorkerPlaces, Inv, FreshInv
  <2>5. WorkerInv'  BY DEF TypeOK, Ids, CallerPlaces, WorkerPlaces, Inv, WorkerInv
  <2>6. AgreeInv'
    <3>1. wpc[arg[c]] = "done" /\ arg[c] \in interp /\ Waiters # {}
      BY DEF Joinable, Inv, LeavingInv, Leaving
    <3> SUFFICES ASSUME NEW i \in Ids, stopFlag'[i] # "absent"
                 PROVE  \/ i \in threads'
                        \/ \E d \in Callers : cpc'[d] # "idle" /\ arg'[d] = i
                        \/ Waiters # {} /\ wpc'[i] = "done" /\ i \in interp'
      BY DEF AgreeInv
    <3>2. CASE i = arg[c]
      BY <3>1, <3>2
    <3>3. CASE i # arg[c] /\ \E d \in Callers : cpc[d] # "idle" /\ arg[d] = i
      <4>1. PICK d \in Callers : cpc[d] # "idle" /\ arg[d] = i
        BY <3>3
      <4>2. d # c /\ cpc'[d] = cpc[d] /\ arg'[d] = arg[d]
        BY <4>1, <3>3 DEF TypeOK, Inv
      <4> QED BY <4>1, <4>2
    <3>4. CASE i # arg[c] /\ ~\E d \in Callers : cpc[d] # "idle" /\ arg[d] = i
      BY <3>4 DEF Inv, AgreeInv
    <3> QED BY <3>2, <3>3, <3>4
  <2> QED BY <2>1, <2>2, <2>3, <2>4, <2>5, <2>6 DEF Inv
<1>9. ASSUME NEW k \in Keys, SetGlobalVar(c, k) PROVE Inv'
  BY <1>9 DEF SetGlobalVar, Inv, LockInv, LeavingInv, UniqueInv, FreshInv, WorkerInv, AgreeInv
<1> QED
  BY <1>2, <1>3, <1>4, <1>5, <1>6, <1>7, <1>8, <1>9 DEF CallerStep, Create, Destroy, Wait

-----------------------------------------------------------------------------
(* Every reachable state satisfies the invariant, types included.          *)
THEOREM Invariance == Spec => []Inv
<1>1. Inv /\ [Next]_allVars => Inv'
  <2> SUFFICES ASSUME Inv, [Next]_allVars PROVE Inv'
    OBVIOUS
  <2>1. ASSUME NEW c \in Callers, CallerStep(c) PROVE Inv'
    BY <2>1, CallerInvariant
  <2>2. ASSUME NEW id \in Ids, WorkerStep(id) \/ Unblocked(id) PROVE Inv'
    BY <2>2, WorkerInvariant
  <2>3. CASE UNCHANGED allVars
    BY <2>3 DEF allVars, registry, store, caller, worker, Inv, TypeOK, LockInv, LeavingInv,
                UniqueInv, FreshInv, WorkerInv, AgreeInv, Running
  <2> QED BY <2>1, <2>2, <2>3 DEF Next
<1> QED BY InitInv, <1>1, PTL DEF Spec

(* Types.                                                                  *)
THEOREM TypeCorrect == Spec => []TypeOK
<1>1. Inv => TypeOK BY DEF Inv
<1> QED BY Invariance, <1>1, PTL

(* run never outlives the interpreter object it runs on.                   *)
THEOREM InterpreterSafe == Spec => []InterpreterOutlivesRun
<1>1. Inv => InterpreterOutlivesRun BY DEF Inv, WorkerInv, InterpreterOutlivesRun
<1> QED BY Invariance, <1>1, PTL

(* No std::thread is joined twice.                                         *)
THEOREM JoinedOnce == Spec => []OneJoiner
<1>1. Inv => OneJoiner BY DEF Inv, UniqueInv, OneJoiner
<1> QED BY Invariance, <1>1, PTL

(* Between calls the three registries name the same workers.               *)
THEOREM Agreement == Spec => []RegistriesAgree
<1>1. ASSUME Inv, \A c \in Callers : cpc[c] = "idle"
      PROVE  /\ threads \subseteq interp
             /\ interp = {id \in Ids : stopFlag[id] # "absent"}
             /\ \A id \in interp \ threads : Waiters # {} /\ wpc[id] = "done"
  <2>1. \A id \in Ids : stopFlag[id] # "absent" =>
           id \in threads \/ (Waiters # {} /\ wpc[id] = "done" /\ id \in interp)
    BY <1>1 DEF Inv, AgreeInv
  <2>2. threads \subseteq Ids /\ interp \subseteq Ids
    BY <1>1 DEF Inv, TypeOK
  <2>3. \A id \in Ids : /\ id \in threads => id \in interp
                        /\ id \in interp => stopFlag[id] # "absent"
    BY <1>1 DEF Inv, WorkerInv
  <2> QED BY <2>1, <2>2, <2>3
<1>2. Inv => RegistriesAgree
  BY <1>1 DEF RegistriesAgree
<1> QED BY Invariance, <1>2, PTL

(* Workers end on request only.                                            *)
THEOREM EndsOnRequest == Spec => []OverOnlyOnRequest
<1>1. Inv => OverOnlyOnRequest BY DEF Inv, WorkerInv, OverOnlyOnRequest
<1> QED BY Invariance, <1>1, PTL

(* When DestroyThread answers true the worker is over and forgotten.       *)
THEOREM DestroySound == Spec => DestroyedIsOver
<1> DEFINE Sound(c) == (cpc[c] = "cleaning" /\ cpc'[c] = "idle") =>
          /\ wpc[arg[c]] = "done" /\ status[arg[c]] = "completed"
          /\ arg[c] \notin threads' /\ arg[c] \notin interp'
          /\ stopFlag'[arg[c]] = "absent"
<1>1. ASSUME Inv, [Next]_allVars, NEW c \in Callers PROVE Sound(c)
  <2> SUFFICES ASSUME cpc[c] = "cleaning", cpc'[c] = "idle"
               PROVE  /\ wpc[arg[c]] = "done" /\ status[arg[c]] = "completed"
                      /\ arg[c] \notin threads' /\ arg[c] \notin interp'
                      /\ stopFlag'[arg[c]] = "absent"
    OBVIOUS
  <2>1. DestroyCleanup(c)
    <3>1. ASSUME NEW d \in Callers, CallerStep(d) PROVE DestroyCleanup(c)
      BY <1>1, <3>1
         DEF Inv, TypeOK, CallerStep, Create, Destroy, Wait, CreateSpawn, CreateRegister,
             DestroyRequest, DestroyJoin, DestroyCleanup, WaitTake, WaitJoin, SetGlobalVar,
             Goto, caller
    <3>2. ASSUME NEW id \in Ids, WorkerStep(id) \/ Unblocked(id) PROVE cpc' = cpc
      BY <3>2 DEF WorkerStep, Exec, WorkerStart, ScriptEnd, FindBegin, FindEnd, LineBegin,
             ExecLocal, ExecSetVar, ExecError, ExecBlocks, Unblocked, BeatRead, BeatSkip,
             BeatWrite, WorkerReturn, caller
    <3> QED BY <1>1, <3>1, <3>2 DEF Next, allVars, caller
  <2> QED BY <1>1, <2>1
     DEF Inv, TypeOK, LeavingInv, Leaving, WorkerInv, DestroyCleanup, EraseInterpreter
<1>2. Inv /\ [Next]_allVars => [\A c \in Callers : Sound(c)]_allVars
  BY <1>1
<1> QED BY Invariance, <1>2, PTL DEF Spec, DestroyedIsOver

(* A destroyed worker writes nothing into the shared store any more.       *)
THEOREM SilentOnceDestroyed == Spec => DestroyedIsSilent
<1> DEFINE Silent(id) == Destroyed(id) =>
          /\ status'[id] = status[id] /\ error'[id] = error[id] /\ beat'[id] = beat[id]
          /\ \A k \in Keys : vars'[k] = id => vars[k] = id
<1>1. ASSUME Inv, [Next]_allVars, NEW id \in Ids PROVE Silent(id)
  <2> SUFFICES ASSUME Destroyed(id)
               PROVE  /\ status'[id] = status[id] /\ error'[id] = error[id]
                      /\ beat'[id] = beat[id]
                      /\ \A k \in Keys : vars'[k] = id => vars[k] = id
    OBVIOUS
  <2>1. wpc[id] = "done"
    BY <1>1 DEF Inv, TypeOK, WorkerPlaces, WorkerInv, Running, Destroyed
  <2>2. ASSUME NEW c \in Callers, CallerStep(c)
        PROVE  /\ UNCHANGED <<status, error, beat>>
               /\ \A k \in Keys : vars'[k] \in {vars[k], c}
    BY <1>1, <2>2
       DEF Inv, TypeOK, CallerStep, Create, Destroy, Wait, CreateSpawn, CreateRegister,
           DestroyRequest, DestroyJoin, DestroyCleanup, WaitTake, WaitJoin, SetGlobalVar, store
  <2>3. ASSUME NEW w \in Ids, WorkerStep(w) \/ Unblocked(w)
        PROVE  /\ w # id
               /\ status'[id] = status[id] /\ error'[id] = error[id]
               /\ beat'[id] = beat[id]
               /\ \A k \in Keys : vars'[k] \in {vars[k], w}
    BY <1>1, <2>1, <2>3
       DEF Inv, TypeOK, WorkerStep, Exec, WorkerStart, ScriptEnd, FindBegin, FindEnd, LineBegin,
           ExecLocal, ExecSetVar, ExecError, ExecBlocks, Unblocked, BeatRead, BeatSkip, BeatWrite,
           WorkerReturn, store
  <2>4. \A c \in Callers : c # id
    BY ThreadingAssumption DEF ThreadingAssumption, Ids
  <2> QED BY <1>1, <2>2, <2>3, <2>4 DEF Next, allVars, store
<1>2. Inv /\ [Next]_allVars => [\A id \in Ids : Silent(id)]_allVars
  BY <1>1
<1> QED BY Invariance, <1>2, PTL DEF Spec, DestroyedIsSilent

-----------------------------------------------------------------------------
(* SimpleThreading implements WorkerLifecycle: each step moves one worker  *)
(* one stage on, or none.                                                  *)
Life == [id \in Ids |-> Stage(id)]
Held == {id \in Ids : StuckInLine(id)}

(* A step that moves no worker to another stage, or into or out of a line  *)
(* that waits, is a stutter.                                               *)
LEMMA LifeUnchanged ==
  ASSUME \A id \in Ids : Stage(id)' = Stage(id) /\ StuckInLine(id)' = StuckInLine(id)
  PROVE  Life' = Life /\ Held' = Held
  BY DEF Life, Held

(* A step that moves one worker to the next stage is one of its steps.     *)
LEMMA LifeAdvances ==
  ASSUME NEW w \in Ids, NEW from, NEW to, Stage(w) = from, Stage(w)' = to,
         \A id \in Ids \ {w} : Stage(id)' = Stage(id),
         \A id \in Ids : StuckInLine(id)' = StuckInLine(id)
  PROVE  /\ Life[w] = from /\ Life' = [Life EXCEPT ![w] = to] /\ Held' = Held
         /\ ~StuckInLine(w) => Lifecycle!Advance(w, from, to)
  BY DEF Lifecycle!Advance, Life, Held

(* What a caller does is a stutter, a Start, an Ask or a Forget.           *)
LEMMA CallerRefines ==
  ASSUME Inv, NEW c \in Callers, CallerStep(c)
  PROVE  Lifecycle!Next \/ (Life' = Life /\ Held' = Held)
<1> USE DEF Inv, TypeOK, WorkerPlaces, Stage, StuckInLine, Goto, Step, worker, registry
<1>1. CASE CreateSpawn(c)
  <2>1. nextId \in Ids /\ wpc[nextId] = "none" BY <1>1 DEF CreateSpawn, FreshInv
  <2>2. PICK w \in Ids : w = nextId BY <2>1
  <2>3. Lifecycle!Start(w)
    BY <1>1, <2>1, <2>2, LifeAdvances DEF CreateSpawn, Lifecycle!Start
  <2> QED BY <2>3 DEF Lifecycle!Next
<1>2. CASE CreateRegister(c)
  BY <1>2, LifeUnchanged DEF CreateRegister
<1>3. ASSUME NEW id \in Ids, DestroyRequest(c, id)
      PROVE  Lifecycle!Next \/ (Life' = Life /\ Held' = Held)
  <2>1. /\ \A w \in Ids \ {id} : Stage(w)' = Stage(w)
        /\ \A w \in Ids : StuckInLine(w)' = StuckInLine(w)
    BY <1>3 DEF DestroyRequest, RaiseFlag
  <2>2. CASE Stage(id)' = Stage(id)
    BY <2>1, <2>2, LifeUnchanged
  <2>3. CASE Stage(id)' # Stage(id)
    <3>1. Stage(id) = "alive" /\ Stage(id)' = "stopping"
      BY <1>3, <2>3 DEF DestroyRequest, RaiseFlag, FreshInv, WorkerInv
    <3>2. Life[id] = "alive" /\ Life' = [Life EXCEPT ![id] = "stopping"] /\ Held' = Held
      BY <2>1, <3>1, LifeAdvances
    <3>3. Lifecycle!Ask(id)
      BY <3>2 DEF Lifecycle!Ask, Life, Held, Stage, StuckInLine
    <3> QED BY <3>3 DEF Lifecycle!Next
  <2> QED BY <2>2, <2>3
<1>4. CASE DestroyJoin(c)
  BY <1>4, LifeUnchanged DEF DestroyJoin
<1>5. CASE DestroyCleanup(c)
  <2>1. /\ arg[c] \in Ids /\ wpc[arg[c]] = "done" /\ stopFlag[arg[c]] = "set"
    BY <1>5 DEF DestroyCleanup, LeavingInv, Leaving
  <2>2. PICK w \in Ids : w = arg[c] BY <2>1
  <2>3. Lifecycle!Forget(w)
    BY <1>5, <2>1, <2>2, LifeAdvances DEF DestroyCleanup, Lifecycle!Forget
  <2> QED BY <2>3 DEF Lifecycle!Next
<1>6. ASSUME NEW id \in Ids, WaitTake(c, id) PROVE Life' = Life /\ Held' = Held
  BY <1>6, LifeUnchanged DEF WaitTake
<1>7. CASE WaitJoin(c)
  BY <1>7, LifeUnchanged DEF WaitJoin
<1>8. ASSUME NEW k \in Keys, SetGlobalVar(c, k) PROVE Life' = Life /\ Held' = Held
  BY <1>8, LifeUnchanged DEF SetGlobalVar
<1> QED
  BY <1>1, <1>2, <1>3, <1>4, <1>5, <1>6, <1>7, <1>8 DEF CallerStep, Create, Destroy, Wait

(* A worker comes to a line that waits, or out of it.                      *)
LEMMA HeldRefines ==
  ASSUME Inv, NEW id \in Ids, ExecBlocks(id) \/ Unblocked(id)
  PROVE  Lifecycle!Next
<1> USE DEF Inv, TypeOK, WorkerPlaces, Stage, StuckInLine, Step, registry
<1>1. Life' = Life
  BY DEF Life, ExecBlocks, Unblocked
<1>2. CASE ExecBlocks(id)
  <2>1. Held' = Held \cup {id}
    BY <1>2 DEF Held, ExecBlocks
  <2>2. Life[id] \in {"alive", "stopping"}
    BY <1>2 DEF Life, ExecBlocks
  <2>3. Lifecycle!Hold(id)
    BY <1>1, <2>1, <2>2 DEF Lifecycle!Hold, Life, Held
  <2> QED BY <2>3 DEF Lifecycle!Next
<1>3. CASE Unblocked(id)
  <2>1. Held' = Held \ {id}
    BY <1>3 DEF Held, Unblocked
  <2>2. Lifecycle!Release(id)
    BY <1>1, <2>1 DEF Lifecycle!Release, Life, Held
  <2> QED BY <2>2 DEF Lifecycle!Next
<1> QED BY <1>2, <1>3

(* What a worker does is a stutter, a Hold, a Release or a Finish.         *)
LEMMA WorkerRefines ==
  ASSUME Inv, NEW id \in Ids, WorkerStep(id) \/ Unblocked(id)
  PROVE  Lifecycle!Next \/ (Life' = Life /\ Held' = Held)
<1> USE DEF Inv, TypeOK, WorkerPlaces, Stage, StuckInLine, Step, registry
<1>1. CASE WorkerReturn(id)
  <2>1. wpc[id] = "returning" /\ stopFlag[id] = "set"
    BY <1>1 DEF WorkerReturn, WorkerInv
  <2>2. Lifecycle!Finish(id)
    BY <1>1, <2>1, LifeAdvances DEF WorkerReturn, Lifecycle!Finish
  <2> QED BY <2>2 DEF Lifecycle!Next
<1>2. CASE WorkerStart(id)
  BY <1>2, LifeUnchanged DEF WorkerStart
<1>3. CASE FindBegin(id) \/ FindEnd(id)
  BY <1>3, LifeUnchanged DEF FindBegin, FindEnd
<1>4. CASE \/ ScriptEnd(id) \/ LineBegin(id) \/ ExecLocal(id) \/ ExecError(id)
           \/ \E k \in Keys : ExecSetVar(id, k)
  BY <1>4, LifeUnchanged DEF ScriptEnd, LineBegin, ExecLocal, ExecSetVar, ExecError
<1>5. CASE BeatRead(id) \/ BeatSkip(id) \/ BeatWrite(id)
  BY <1>5, LifeUnchanged DEF BeatRead, BeatSkip, BeatWrite
<1>6. CASE ExecBlocks(id) \/ Unblocked(id)
  BY <1>6, HeldRefines
<1> QED BY <1>1, <1>2, <1>3, <1>4, <1>5, <1>6 DEF WorkerStep, Exec

(* The safety part of ImplementsLifecycle, for any number of workers.      *)
THEOREM Refinement == Spec => Lifecycle!Spec
<1>1. Init => Lifecycle!Init
  BY DEF Init, Lifecycle!Init, Stage, StuckInLine
<1>2. Inv /\ [Next]_allVars => [Lifecycle!Next]_<<Life, Held>>
  <2> SUFFICES ASSUME Inv, [Next]_allVars
               PROVE  Lifecycle!Next \/ (Life' = Life /\ Held' = Held)
    OBVIOUS
  <2>1. ASSUME NEW c \in Callers, CallerStep(c)
        PROVE  Lifecycle!Next \/ (Life' = Life /\ Held' = Held)
    BY <2>1, CallerRefines
  <2>2. ASSUME NEW id \in Ids, WorkerStep(id) \/ Unblocked(id)
        PROVE  Lifecycle!Next \/ (Life' = Life /\ Held' = Held)
    BY <2>2, WorkerRefines
  <2>3. CASE UNCHANGED allVars
    BY <2>3 DEF allVars, registry, worker, Life, Held, Stage, StuckInLine
  <2> QED BY <2>1, <2>2, <2>3 DEF Next
<1> QED BY Invariance, <1>1, <1>2, PTL DEF Spec, Lifecycle!Spec, Lifecycle!lifeVars, Life, Held

-----------------------------------------------------------------------------
(* The line loop of a worker: its two stacks.                              *)

LinesTyped ==
    /\ prog \in Seq(Lines) /\ pc \in Nat \ {0}
    /\ loopStack \in Seq(Nat) /\ execStack \in Seq(BOOLEAN)
    /\ exec \in BOOLEAN

LinesInv == LinesTyped /\ StacksMatch

(* The stacks match when they are empty.                                   *)
LEMMA LinesInit == InterpInit => LinesInv
  BY ProgramAssumption DEF InterpInit, LinesInv, LinesTyped, StacksMatch

(* What push_back and pop_back keep.                                       *)
LEMMA Pushed ==
  ASSUME NEW S, NEW s \in Seq(S), NEW x \in S
  PROVE  /\ Append(s, x) \in Seq(S) /\ Len(Append(s, x)) = Len(s) + 1
         /\ \A i \in 1..Len(s) : Append(s, x)[i] = s[i]
         /\ Append(s, x)[Len(s) + 1] = x
  OBVIOUS

(* What Front does to a stack.                                             *)
LEMMA Popped ==
  ASSUME NEW S, NEW s \in Seq(S), s # <<>>
  PROVE  /\ Front(s) \in Seq(S) /\ Len(Front(s)) = Len(s) - 1
         /\ \A i \in 1..Len(Front(s)) : Front(s)[i] = s[i]
         /\ Last(s) = s[Len(s)] /\ Last(s) \in S
<1>1. Len(s) \in Nat \ {0}
  OBVIOUS
<1>2. \A i \in 1..(Len(s) - 1) : s[i] \in S
  BY <1>1
<1>3. /\ Front(s) \in Seq(S)
      /\ Len(Front(s)) = IF 1 <= Len(s) - 1 THEN Len(s) - 1 - 1 + 1 ELSE 0
      /\ \A i \in 1..(Len(s) - 1 - 1 + 1) : Front(s)[i] = s[1 + i - 1]
  BY <1>1, <1>2, SubSeqProperties DEF Front
<1>4. Len(Front(s)) = Len(s) - 1
  <2>1. \A n \in Nat \ {0} : (IF 1 <= n - 1 THEN n - 1 - 1 + 1 ELSE 0) = n - 1
    OBVIOUS
  <2> QED BY <1>1, <1>3, <2>1
<1>5. \A i \in 1..Len(Front(s)) : Front(s)[i] = s[i]
  BY <1>1, <1>3, <1>4
<1> QED BY <1>1, <1>3, <1>4, <1>5 DEF Last

(* A set of naturals that is not empty has a least element.                *)
LEMMA LeastExists ==
  ASSUME NEW T \in SUBSET Nat, T # {}
  PROVE  Least(T) \in T /\ \E p \in T : \A q \in T : p <= q
<1>1. PICK p \in T : \A q \in T : ~(<<q, p>> \in OpToRel(<, Nat))
  BY NatLessThanWellFounded, WFMin
<1>2. ASSUME NEW q \in T PROVE p <= q
  <2>1. p \in Nat /\ q \in Nat /\ ~(q < p)
    BY <1>1 DEF OpToRel
  <2> QED BY <2>1
<1> QED BY <1>2 DEF Least

(* A loop that is skipped goes on at some line.                            *)
LEMMA SkipLoopPos == ASSUME LinesTyped, NEW p \in Nat PROVE SkipLoop(p) \in Nat \ {0}
<1> DEFINE ends == {q \in (p + 1)..Len(prog) : LoopDepth(p, q) = 0}
<1>1. CASE ends = {}
  BY <1>1 DEF SkipLoop, LinesTyped
<1>2. CASE ends # {}
  <2>1. ends \in SUBSET Nat
    BY DEF LinesTyped
  <2>2. Least(ends) \in Nat
    BY <1>2, <2>1, LeastExists
  <2>3. SkipLoop(p) = Least(ends) + 1
    BY <1>2 DEF SkipLoop
  <2> QED BY <2>2, <2>3
<1> QED BY <1>1, <1>2

(* A step that leaves the script and the stacks alone.                     *)
LEMMA StacksKept ==
  ASSUME LinesInv, UNCHANGED <<prog, loopStack, execStack>>, pc' \in Nat \ {0}, exec' \in BOOLEAN
  PROVE  LinesInv'
  BY DEF LinesInv, LinesTyped, StacksMatch

(* Every line keeps the invariant.                                         *)
LEMMA LinesStep == LinesInv /\ [InterpNext]_interpVars => LinesInv'
<1> SUFFICES ASSUME LinesInv, [InterpNext]_interpVars PROVE LinesInv'
  OBVIOUS
<1> USE DEF LinesInv, LinesTyped
<1>1. CASE While
  <2>1. CASE exec /\ EvalCond(Here)
    <3>1. /\ loopStack' = Append(loopStack, pc) /\ execStack' = Append(execStack, exec)
          /\ pc' = pc + 1 /\ UNCHANGED <<prog, exec>> /\ prog[pc].op = "while"
      BY <1>1, <2>1 DEF While, At, Here
    <3>2. LinesTyped'
      BY <3>1, Pushed
    <3>3. StacksMatch'
      BY <3>1, Pushed DEF StacksMatch
    <3> QED BY <3>2, <3>3
  <2>2. CASE ~(exec /\ EvalCond(Here))
    <3>1. SkipLoop(pc) \in Nat \ {0}
      BY SkipLoopPos
    <3>2. pc' \in Nat \ {0}
      BY <1>1, <2>2, <3>1 DEF While
    <3>3. UNCHANGED <<prog, exec, loopStack, execStack>>
      BY <1>1, <2>2 DEF While
    <3> QED BY <3>2, <3>3, StacksKept
  <2> QED BY <2>1, <2>2
<1>2. CASE EndLoop
  <2>1. /\ loopStack # <<>> /\ loopStack' = Front(loopStack) /\ execStack' = Front(execStack)
        /\ UNCHANGED prog
    BY <1>2 DEF EndLoop, PopLoop
  <2>2. execStack # <<>>
    BY <2>1 DEF StacksMatch
  <2>8. /\ Len(loopStack') = Len(loopStack) - 1 /\ Len(execStack') = Len(execStack) - 1
        /\ \A i \in 1..Len(loopStack') : loopStack'[i] = loopStack[i]
        /\ Len(loopStack) \in Nat /\ Len(execStack) \in Nat
    <3>1. /\ Len(Front(loopStack)) = Len(loopStack) - 1
          /\ \A i \in 1..Len(Front(loopStack)) : Front(loopStack)[i] = loopStack[i]
      BY <2>1, Popped
    <3>2. Len(Front(execStack)) = Len(execStack) - 1
      BY <2>2, Popped
    <3> QED BY <2>1, <3>1, <3>2
  <2>3. Last(loopStack) \in Nat /\ Last(execStack) \in BOOLEAN
    BY <2>1, <2>2, Popped
  <2>4. pc' \in Nat \ {0} /\ exec' \in BOOLEAN
    BY <1>2, <2>3 DEF EndLoop
  <2>5. LinesTyped'
    BY <2>1, <2>2, <2>4, Popped
  <2>6. Len(loopStack') <= Len(execStack')
    BY <2>8 DEF StacksMatch
  <2>7. ASSUME NEW i \in 1..Len(loopStack') PROVE prog'[loopStack'[i]].op = "while"
    <3>1. loopStack'[i] = loopStack[i]
      BY <2>8
    <3>2. Len(loopStack') = Len(loopStack) - 1 /\ Len(loopStack) \in Nat
      BY <2>8
    <3>3. i \in 1..Len(loopStack)
      BY <3>2
    <3> QED BY <2>1, <3>1, <3>3 DEF StacksMatch
  <2> QED BY <2>5, <2>6, <2>7 DEF StacksMatch
<1>3. CASE If
  <2>1. execStack' = Append(execStack, exec) /\ UNCHANGED <<prog, loopStack>>
    BY <1>3 DEF If
  <2>2. pc' \in Nat \ {0} /\ exec' \in BOOLEAN
    BY <1>3 DEF If
  <2> QED BY <2>1, <2>2, Pushed DEF StacksMatch
<1>4. CASE Else
  <2>1. execStack # <<>> => Last(execStack) \in BOOLEAN
    BY Popped
  <2>2. pc' \in Nat \ {0}
    BY <1>4 DEF Else, Stop
  <2>3. exec' \in BOOLEAN
    BY <1>4, <2>1 DEF Else
  <2> QED BY <1>4, <2>2, <2>3, StacksKept DEF Else
<1>5. CASE EndIf
  BY <1>5, StacksKept DEF EndIf
<1>8. CASE Inactive
  BY <1>8, StacksKept DEF Inactive
<1>6. CASE Zero \/ Inc \/ Act \/ Bad \/ Other
  BY <1>6, StacksKept DEF Zero, Inc, Act, Bad, Other, Command, Stop
<1>7. CASE UNCHANGED interpVars
  BY <1>7, StacksKept DEF interpVars
<1> QED BY <1>1, <1>2, <1>3, <1>4, <1>5, <1>6, <1>7, <1>8 DEF InterpNext

(* The vectors whose back() the loop takes are not empty, whatever the     *)
(* script: no more loops than blocks, and each entry the line of a while.  *)
THEOREM StacksAlwaysMatch == InterpSpec => []StacksMatch
<1>1. LinesInv => StacksMatch
  BY DEF LinesInv
<1> QED BY LinesInit, LinesStep, <1>1, PTL DEF InterpSpec

-----------------------------------------------------------------------------
(* The line loop does what the script says, if its blocks do not nest.     *)

(* What follows is about a script whose blocks do not nest: Flat(prog).    *)
Placed == prog \in Seq(Lines) /\ Len(prog) \in Nat /\ Flat(prog)
Heads(n) == {m \in 1..Len(prog) : Within(prog, m, n)}

(* No two blocks have a line in common, and a block ends at its first end. *)
LEMMA OneHead ==
  ASSUME Placed, NEW n \in Nat, NEW m \in Heads(n), NEW k \in Heads(n)
  PROVE  m = k
<1>1. m \in Nat /\ k \in Nat /\ m < n /\ k < n
  BY DEF Placed, Heads, Within
<1>2. ASSUME NEW x \in Heads(n), NEW y \in Heads(n), x < y PROVE FALSE
  <2>1. y \in (x + 1)..(n - 1) /\ prog[y].op \in {"while", "if"}
    BY <1>2 DEF Placed, Heads, Within, Opens
  <2>2. prog[y].op \in Between(prog, x, n)
    BY <2>1 DEF Between
  <2>3. Between(prog, x, n) \cap {"while", "if", "end"} = {}
    BY DEF Heads, Within
  <2> QED BY <2>1, <2>2, <2>3
<1>3. ~(m < k) /\ ~(k < m)
  BY <1>2
<1> QED BY <1>1, <1>3

(* The end of a block, and the lines of the block before it.               *)
LEMMA Ends ==
  ASSUME Placed, NEW m \in 1..Len(prog), Opens(prog, m)
  PROVE  \E q \in 1..Len(prog) :
           /\ m < q /\ m \in Heads(q) /\ prog[q].op = "end"
           /\ \A n \in Nat : m \in Heads(n) <=> m < n /\ n <= q
           /\ \A n \in (m + 1)..(q - 1) : prog[n].op \notin {"while", "if", "end"}
<1>1. PICK q \in 1..Len(prog) : Within(prog, m, q) /\ prog[q].op = "end"
  BY DEF Placed, Flat
<1>2. m < q /\ m \in Heads(q)
  BY <1>1 DEF Within, Heads
<1>3. ASSUME NEW n \in (m + 1)..(q - 1) PROVE prog[n].op \notin {"while", "if", "end"}
  <2>1. prog[n].op \in Between(prog, m, q)
    BY DEF Between
  <2> QED BY <1>1, <2>1 DEF Within
<1>4. ASSUME NEW n \in Nat, m < n, n <= q PROVE m \in Heads(n)
  <2>1. (m + 1)..(n - 1) \subseteq (m + 1)..(q - 1)
    BY <1>4 DEF Placed
  <2>2. Between(prog, m, n) \cap {"while", "if", "end"} = {}
    BY <1>3, <2>1 DEF Between
  <2> QED BY <1>4, <2>2 DEF Heads, Within
<1>5. ASSUME NEW n \in Nat, m \in Heads(n) PROVE m < n /\ n <= q
  <2>1. m < n /\ Between(prog, m, n) \cap {"while", "if", "end"} = {}
    BY <1>5 DEF Heads, Within
  <2>2. CASE ~(n <= q)
    <3>1. q \in (m + 1)..(n - 1)
      BY <1>2, <2>2 DEF Placed
    <3>2. "end" \in Between(prog, m, n)
      BY <1>1, <3>1 DEF Between
    <3> QED BY <2>1, <3>2
  <2> QED BY <2>1, <2>2
<1> QED BY <1>1, <1>2, <1>3, <1>4, <1>5

(* The lines outside of blocks are those that have no head.                *)
LEMMA NoHead ==
  ASSUME Placed, NEW n \in 1..Len(prog)
  PROVE  /\ prog[n].op \in {"while", "if"} => Heads(n) = {}
         /\ prog[n].op = "end" => Heads(n + 1) = {} /\ Heads(n) # {}
<1>1. ASSUME prog[n].op \in {"while", "if"}, NEW m \in Heads(n) PROVE FALSE
  <2>1. m \in 1..Len(prog) /\ Opens(prog, m) /\ n \in Nat
    BY DEF Heads, Within, Placed
  <2>2. PICK q \in 1..Len(prog) :
           /\ m < q /\ m \in Heads(q) /\ prog[q].op = "end"
           /\ \A k \in Nat : m \in Heads(k) <=> m < k /\ k <= q
           /\ \A k \in (m + 1)..(q - 1) : prog[k].op \notin {"while", "if", "end"}
    BY <2>1, Ends
  <2>3. m < n /\ n <= q
    BY <1>1, <2>1, <2>2
  <2>4. n = q \/ n \in (m + 1)..(q - 1)
    BY <2>1, <2>3 DEF Placed
  <2> QED BY <1>1, <2>2, <2>4
<1>2. ASSUME prog[n].op = "end", NEW m \in Heads(n + 1) PROVE FALSE
  <2>1. m \in 1..Len(prog) /\ m < n + 1 /\ Opens(prog, m)
        /\ Between(prog, m, n + 1) \cap {"while", "if", "end"} = {}
    BY DEF Heads, Within
  <2>2. m # n
    BY <1>2, <2>1 DEF Opens
  <2>3. n \in (m + 1)..((n + 1) - 1)
    BY <2>1, <2>2 DEF Placed
  <2>4. "end" \in Between(prog, m, n + 1)
    BY <1>2, <2>3 DEF Between
  <2> QED BY <2>1, <2>4
<1>3. prog[n].op = "end" => Heads(n) # {}
  BY DEF Placed, Flat, Heads
<1> QED BY <1>1, <1>2, <1>3

(* The block of m ends at q.                                               *)
Spans(m, q) ==
    /\ m \in 1..Len(prog) /\ q \in 1..Len(prog) /\ Opens(prog, m) /\ m < q
    /\ prog[q].op = "end"
    /\ \A n \in Nat : m \in Heads(n) <=> m < n /\ n <= q
    /\ \A n \in (m + 1)..(q - 1) : prog[n].op \notin {"while", "if", "end"}

LEMMA BlockSpans ==
  ASSUME Placed, NEW m \in 1..Len(prog), Opens(prog, m)
  PROVE  \E q \in 1..Len(prog) : Spans(m, q)
  BY Ends DEF Spans

LEMMA HeadSpans ==
  ASSUME Placed, NEW n \in Nat, NEW m \in Heads(n)
  PROVE  \E q \in 1..Len(prog) : Spans(m, q) /\ m < n /\ n <= q
<1>1. m \in 1..Len(prog) /\ Opens(prog, m)
  BY DEF Heads, Within
<1>2. PICK q \in 1..Len(prog) : Spans(m, q)
  BY <1>1, BlockSpans
<1> QED BY <1>2 DEF Spans

(* The least number of a set, if it has one.                               *)
LEMMA LeastIs ==
  ASSUME NEW T \in SUBSET Int, NEW q \in T, \A r \in T : q <= r
  PROVE  Least(T) = q /\ Script!Least(T) = q
<1>1. ASSUME NEW p \in T, \A r \in T : p <= r PROVE p = q
  <2>1. p <= q /\ q <= p /\ p \in Int /\ q \in Int
    BY <1>1
  <2> QED BY <2>1
<1> QED BY <1>1 DEF Least, Script!Least

(* Where a script without nested blocks has opened one block more than it  *)
(* has closed.                                                             *)
LEMMA OneOpen ==
  ASSUME Placed, NEW m, NEW q, Spans(m, q), NEW r \in m..q, NEW op \in {"while", "if", "end"}
  PROVE  {k \in m..r : prog[k].op = op} =
           IF op = prog[m].op THEN {m} ELSE IF op = "end" /\ r = q THEN {q} ELSE {}
<1>1. m \in Nat /\ q \in Nat /\ r \in Nat /\ m <= r /\ r <= q /\ m < q
  BY DEF Spans, Placed
<1>2. prog[m].op \in {"while", "if"} /\ prog[q].op = "end"
  BY DEF Spans, Opens
<1>3. \A k \in m..r : k = m \/ k = q \/ prog[k].op \notin {"while", "if", "end"}
  BY <1>1 DEF Spans
<1>4. m \in m..r /\ (q \in m..r <=> r = q)
  BY <1>1
<1> QED BY <1>1, <1>2, <1>3, <1>4

(* The line that closes a block, for the script and for the search of the  *)
(* line loop.                                                              *)
LEMMA EndIs ==
  ASSUME Placed, NEW m, NEW q, Spans(m, q)
  PROVE  Script!EndOf(m) = q /\ (prog[m].op = "while" => SkipLoop(m) = q + 1)
<1>0. m \in Nat /\ q \in Nat /\ m < q /\ Len(prog) \in Nat /\ q <= Len(prog)
  BY DEF Spans, Placed
<1> DEFINE opened(r)  == {k \in m..r : Script!Opens(k)}
           closed(r)  == {k \in m..r : prog[k].op = "end"}
<1>1. \A x, y : Cardinality({}) = 0 /\ Cardinality({x}) = 1
  BY FS_EmptySet, FS_Singleton
<1>2. ASSUME NEW r \in m..q
      PROVE  opened(r) = {m} /\ closed(r) = IF r = q THEN {q} ELSE {}
  <2>1. {k \in m..r : prog[k].op = "while"} \cup {k \in m..r : prog[k].op = "if"} = {m}
    BY OneOpen DEF Spans, Opens
  <2>2. opened(r) = {k \in m..r : prog[k].op = "while"} \cup {k \in m..r : prog[k].op = "if"}
    BY DEF Script!Opens
  <2>3. closed(r) = IF r = q THEN {q} ELSE {}
    BY OneOpen DEF Spans, Opens
  <2> QED BY <2>1, <2>2, <2>3
<1>3. ASSUME NEW r \in m..q PROVE Script!Depth(m, r) = IF r = q THEN 0 ELSE 1
  <2>1. Script!Depth(m, r) = Cardinality(opened(r)) - Cardinality(closed(r))
    BY DEF Script!Depth, Script!Cardinality, Cardinality, Script!IsFiniteSet, IsFiniteSet
  <2>2. /\ Cardinality(opened(r)) = 1
        /\ Cardinality(closed(r)) = IF r = q THEN 1 ELSE 0
    BY <1>1, <1>2
  <2> HIDE DEF opened, closed
  <2> QED BY <2>1, <2>2
<1>4. Script!EndOf(m) = q
  <2> DEFINE T == {r \in m..Len(prog) : Script!Depth(m, r) = 0}
  <2>1. q \in T
    BY <1>0, <1>3
  <2>2. \A r \in T : q <= r
    BY <1>0, <1>3
  <2>3. T \in SUBSET Int
    BY <1>0
  <2> HIDE DEF T
  <2>4. Script!Least(T) = q
    BY <2>1, <2>2, <2>3, LeastIs
  <2> QED BY <2>4 DEF Script!EndOf, T
<1>5. ASSUME prog[m].op = "while" PROVE SkipLoop(m) = q + 1
  <2> DEFINE T == {r \in (m + 1)..Len(prog) : LoopDepth(m, r) = 0}
  <2>1. ASSUME NEW r \in m..q PROVE LoopDepth(m, r) = IF r = q THEN 0 ELSE 1
    <3>1. {k \in m..r : prog[k].op = "while"} = {m} /\ closed(r) = IF r = q THEN {q} ELSE {}
      BY <1>5, OneOpen DEF Spans, Opens
    <3>2. Count(m, r, "while") = 1 /\ Count(m, r, "end") = IF r = q THEN 1 ELSE 0
      BY <1>1, <3>1 DEF Count
    <3> QED BY <3>2 DEF LoopDepth
  <2>2. q \in T /\ T \in SUBSET Int
    BY <1>0, <2>1
  <2>3. \A r \in T : q <= r
    BY <1>0, <2>1
  <2> HIDE DEF T
  <2>4. Least(T) = q /\ T # {}
    BY <2>2, <2>3, LeastIs
  <2> QED BY <2>4 DEF SkipLoop, T
<1> QED BY <1>4, <1>5


(* The block around a line.                                                *)
LEMMA BlockIs ==
  ASSUME Placed, NEW n \in Nat, NEW m \in Heads(n)
  PROVE  Script!BlockOf(n) = m
<1>1. PICK q \in 1..Len(prog) : Spans(m, q) /\ m < n /\ n <= q
  BY HeadSpans
<1>2. /\ m \in Nat /\ q \in Nat /\ Len(prog) \in Nat /\ m \in 1..Len(prog)
      /\ Opens(prog, m)
  BY <1>1 DEF Placed, Spans
<1>3. m \in Script!Around(n)
  <2>1. Script!EndOf(m) = q
    BY <1>1, EndIs
  <2> QED BY <1>1, <1>2, <2>1 DEF Script!Around, Script!Opens, Opens
<1>4. ASSUME NEW x \in Script!Around(n) PROVE x = m
  <2>1. x \in 1..(n - 1) /\ Script!Opens(x) /\ Script!EndOf(x) >= n
    BY DEF Script!Around
  <2>2. x \in 1..Len(prog) /\ Opens(prog, x)
    BY <1>1, <1>2, <2>1 DEF Script!Opens, Opens
  <2>3. PICK y \in 1..Len(prog) : Spans(x, y)
    BY <2>2, BlockSpans
  <2>4. y >= n
    BY <2>1, <2>3, EndIs
  <2>5. x \in Heads(n)
    BY <2>1, <2>3, <2>4, <1>2 DEF Spans
  <2> QED BY <2>5, OneHead
<1>5. Script!Around(n) = {m}
  BY <1>3, <1>4
<1> QED BY <1>2, <1>5 DEF Script!BlockOf, Script!Greatest

(* The lines at which a block may go on when its condition fails.          *)
LEMMA ElsesAre ==
  ASSUME Placed, NEW m, NEW q, Spans(m, q)
  PROVE  Script!ElseOf(m) = {n \in (m + 1)..(q - 1) : prog[n].op = "else"}
<1>0. Script!EndOf(m) = q
  BY EndIs
<1>1. m \in Nat /\ q \in Nat /\ prog[q].op # "else" /\ m < q
  BY DEF Spans, Placed
<1>2. ASSUME NEW n \in (m + 1)..q PROVE Script!BlockOf(n) = m
  <2>1. n \in Nat /\ m \in Heads(n)
    BY <1>1 DEF Spans
  <2> QED BY <2>1, BlockIs
<1>3. \A n : n \in (m + 1)..q <=> n \in (m + 1)..(q - 1) \/ n = q
  BY <1>1
<1> QED BY <1>0, <1>1, <1>2, <1>3 DEF Script!ElseOf

(* The next else or end from a line of a block on.                         *)
AheadOf(n) == {r \in n..Len(prog) : prog[r].op \in {"else", "end"}}
NoElse(n, q) == \A r \in n..(q - 1) : prog[r].op # "else"

LEMMA NextAhead ==
  ASSUME Placed, NEW m, NEW q, Spans(m, q), NEW n \in (m + 1)..q
  PROVE  /\ prog[n].op \in {"else", "end"} => Least(AheadOf(n)) = n
         /\ prog[n].op \notin {"else", "end"} => n < q /\ AheadOf(n) = AheadOf(n + 1)
         /\ NoElse(n, q) => Least(AheadOf(n)) = q
         /\ Least(AheadOf(m + 1)) = Script!Least(Script!ElseOf(m) \cup {Script!EndOf(m)})
<1>1. /\ m \in Nat /\ q \in Nat /\ n \in Nat /\ Len(prog) \in Nat /\ q <= Len(prog) /\ m < q
      /\ prog[q].op = "end" /\ m < n /\ n <= q
  BY DEF Spans, Placed
<1>2. AheadOf(n) \in SUBSET Int /\ AheadOf(m + 1) \in SUBSET Int
  BY <1>1 DEF AheadOf
<1>3. ASSUME prog[n].op \in {"else", "end"} PROVE Least(AheadOf(n)) = n
  <2>1. n \in AheadOf(n) /\ \A r \in AheadOf(n) : n <= r
    BY <1>1, <1>3 DEF AheadOf
  <2> QED BY <1>2, <2>1, LeastIs
<1>4. ASSUME prog[n].op \notin {"else", "end"} PROVE n < q /\ AheadOf(n) = AheadOf(n + 1)
  <2>1. n # q
    BY <1>1, <1>4
  <2>2. \A r : r \in n..Len(prog) <=> r = n \/ r \in (n + 1)..Len(prog)
    BY <1>1
  <2> QED BY <1>1, <1>4, <2>1, <2>2 DEF AheadOf
<1>5. \A r \in (m + 1)..(q - 1) : prog[r].op # "end"
  BY DEF Spans
<1>6. ASSUME NoElse(n, q) PROVE Least(AheadOf(n)) = q
  <2>1. q \in AheadOf(n)
    BY <1>1 DEF AheadOf
  <2>2. ASSUME NEW r \in AheadOf(n) PROVE q <= r
    <3>1. r \in n..Len(prog) /\ prog[r].op \in {"else", "end"}
      BY DEF AheadOf
    <3>2. CASE r < q
      BY <1>1, <1>5, <1>6, <3>1, <3>2 DEF NoElse
    <3> QED BY <1>1, <3>1, <3>2
  <2> QED BY <1>2, <2>1, <2>2, LeastIs
<1>7. Least(AheadOf(m + 1)) = Script!Least(Script!ElseOf(m) \cup {Script!EndOf(m)})
  <2> DEFINE T == Script!ElseOf(m) \cup {Script!EndOf(m)}
  <2>1. T = {r \in (m + 1)..(q - 1) : prog[r].op = "else"} \cup {q}
    BY EndIs, ElsesAre
  <2>2. T \in SUBSET Int /\ T \subseteq AheadOf(m + 1)
    BY <1>1, <2>1 DEF AheadOf
  <2>3. ASSUME NEW r \in AheadOf(m + 1) PROVE r \in T \/ q < r
    <3>1. r \in (m + 1)..Len(prog) /\ prog[r].op \in {"else", "end"}
      BY DEF AheadOf
    <3>2. r \in (m + 1)..(q - 1) \/ r = q \/ q < r
      BY <1>1, <3>1
    <3> QED BY <1>5, <2>1, <3>1, <3>2
  <2>4. PICK x \in T : \A y \in T : x <= y
    <3>1. T \in SUBSET Nat /\ T # {}
      BY <1>1, <2>1
    <3> HIDE DEF T
    <3>2. Least(T) \in T /\ \E x \in T : \A y \in T : x <= y
      BY <3>1, LeastExists
    <3> QED BY <3>2
  <2>5. q \in T
    BY <2>1
  <2> HIDE DEF T
  <2>6. Script!Least(T) = x
    BY <2>2, <2>4, LeastIs
  <2>7. \A r \in AheadOf(m + 1) : x <= r
    <3>1. x \in Int /\ x <= q
      BY <2>2, <2>4, <2>5
    <3> QED BY <1>1, <1>2, <2>3, <2>4, <3>1
  <2>8. Least(AheadOf(m + 1)) = x
    BY <1>2, <2>2, <2>7, LeastIs
  <2> QED BY <2>6, <2>8 DEF T
<1> QED BY <1>3, <1>4, <1>6, <1>7


(* Where the line loop may be, with exec ex, loopStack ls, execStack es    *)
(* and the variable l at line p.  Inside an if, and in the first round of  *)
(* a loop, the last entry of execStack is TRUE; in the second round, which *)
(* loopStack knows nothing of, the variable has counted one round, and one *)
(* more where the "inc" is behind.                                         *)
Counted(m, p) == "inc" \in Between(prog, m, p)
AtLine(p, ex, ls, es, l) ==
    /\ p \in Nat /\ l \in Nat
    /\ ~ex => \E m \in Heads(p) : prog[m].op = "if"
    /\ ls # <<>> => p > Len(prog) \/ \E m \in Heads(p) : ls = <<m>>
    /\ \A m \in Heads(p) :
         /\ prog[m].op = "if" \/ ls # <<>> => es # <<>> /\ Last(es) = TRUE
         /\ prog[m].op = "if" => ls = <<>>
         /\ prog[m].op = "while" =>
              IF ls = <<>> THEN l >= 1 /\ (Counted(m, p) => l >= 2)
                           ELSE Counted(m, p) => l >= 1

FlatInv == LinesInv /\ Placed /\ AtLine(pc, exec, loopStack, execStack, local)

LEMMA FlatKept ==
  ASSUME UNCHANGED prog, Placed
  PROVE  /\ Placed'
         /\ AtLine(pc, exec, loopStack, execStack, local)'
              <=> AtLine(pc', exec', loopStack', execStack', local')
         /\ Meant' = IF exec' THEN pc' ELSE Least(AheadOf(pc')) + 1
<1>1. Placed'
  BY DEF Placed
<1>2. \A n : Heads(n)' = Heads(n)
  BY DEF Heads, Within, Between, Opens
<1>3. \A m, n : Counted(m, n)' <=> Counted(m, n)
  BY DEF Counted, Between
<1>4. Ahead' = AheadOf(pc')
  BY DEF Ahead, AheadOf
<1>5. Heads(pc)' = Heads(pc')
  BY DEF Heads, Within, Between, Opens
<1>6. \A m : Counted(m, pc)' <=> Counted(m, pc')
  BY DEF Counted, Between
<1>7. Meant' = IF exec' THEN pc' ELSE Least(Ahead') + 1
  BY DEF Meant, Least
<1>8. AtLine(pc, exec, loopStack, execStack, local)'
        <=> AtLine(pc', exec', loopStack', execStack', local')
  BY <1>5, <1>6 DEF AtLine, Last
<1> QED BY <1>1, <1>4, <1>7, <1>8

LEMMA MeantNow == Meant = IF exec THEN pc ELSE Least(AheadOf(pc)) + 1
  BY DEF Meant, Ahead, AheadOf

(* The lines of a block but its end, one after another.                    *)
LEMMA NextLine ==
  ASSUME Placed, NEW n \in 1..Len(prog), prog[n].op \notin {"while", "if", "end"}
  PROVE  /\ Heads(n + 1) = Heads(n)
         /\ \A m \in Heads(n) : Counted(m, n + 1) <=> Counted(m, n) \/ prog[n].op = "inc"
<1>0. n \in Nat /\ n + 1 \in Nat /\ Len(prog) \in Nat
  BY DEF Placed
<1>1. ASSUME NEW m \in 1..Len(prog), Opens(prog, m)
      PROVE  m \in Heads(n + 1) <=> m \in Heads(n)
  <2>1. PICK q \in 1..Len(prog) : Spans(m, q)
    BY <1>1, BlockSpans
  <2>2. n # q /\ n # m /\ m \in Nat /\ q \in Nat
    BY <1>0, <1>1, <2>1 DEF Spans, Opens
  <2>3. m < n /\ n <= q <=> m < n + 1 /\ n + 1 <= q
    BY <1>0, <2>2
  <2>4. /\ m \in Heads(n) <=> m < n /\ n <= q
        /\ m \in Heads(n + 1) <=> m < n + 1 /\ n + 1 <= q
    BY <1>0, <2>1 DEF Spans
  <2> QED BY <2>3, <2>4
<1>2. Heads(n + 1) = Heads(n)
  BY <1>1 DEF Heads, Within
<1>3. ASSUME NEW m \in Heads(n)
      PROVE  Counted(m, n + 1) <=> Counted(m, n) \/ prog[n].op = "inc"
  <2>1. m \in Nat /\ m < n
    BY DEF Heads, Within, Placed
  <2>2. \A k : k \in (m + 1)..((n + 1) - 1) <=> k \in (m + 1)..(n - 1) \/ k = n
    BY <1>0, <2>1
  <2> QED BY <2>2 DEF Counted, Between
<1> QED BY <1>2, <1>3

(* Outside of blocks nothing is asked of the stacks.                       *)
LEMMA OutsideLine ==
  ASSUME Placed, NEW n \in Nat, Heads(n) = {}, NEW es, NEW l \in Nat
  PROVE  AtLine(n, TRUE, <<>>, es, l)
  BY DEF AtLine

(* What a line in no block of its own may do to the variable.              *)
LEMMA LineGoes ==
  ASSUME FlatInv, pc \in 1..Len(prog), prog[pc].op \notin {"while", "if", "end"},
         NEW l \in Nat, l >= local \/ (prog[pc].op = "zero"),
         prog[pc].op = "inc" /\ exec => l >= local + 1
  PROVE  AtLine(pc + 1, exec, loopStack, execStack, l)
<1>1. Placed /\ AtLine(pc, exec, loopStack, execStack, local) /\ pc \in Nat
  BY DEF FlatInv, Placed
<1>2. /\ Heads(pc + 1) = Heads(pc)
      /\ \A m \in Heads(pc) : Counted(m, pc + 1) <=> Counted(m, pc) \/ prog[pc].op = "inc"
  BY <1>1, NextLine
<1>3. ASSUME NEW m \in Heads(pc), prog[m].op = "while"
      PROVE  exec /\ prog[pc].op # "zero"
  <2>1. exec
    <3>1. ASSUME ~exec PROVE FALSE
      <4>1. PICK k \in Heads(pc) : prog[k].op = "if"
        BY <1>1, <3>1 DEF AtLine
      <4>2. k = m
        BY <1>1, OneHead
      <4> QED BY <1>3, <4>1, <4>2
    <3> QED BY <3>1
  <2>2. PICK q \in 1..Len(prog) : Spans(m, q) /\ m < pc /\ pc <= q
    BY <1>1, HeadSpans
  <2>3. /\ m \in 1..Len(prog) /\ q \in 1..Len(prog) /\ q \in Nat /\ m \in Nat /\ m < q
        /\ prog[q].op = "end" /\ m \in Heads(q)
    BY <1>1, <2>2 DEF Spans, Placed
  <2>4. Within(prog, m, q)
    BY <2>3 DEF Heads
  <2>5. "zero" \notin Between(prog, m, q)
    BY <1>1, <1>3, <2>3, <2>4 DEF Placed, Flat
  <2>6. pc # q
    BY <2>3
  <2>7. pc \in (m + 1)..(q - 1)
    BY <1>1, <2>2, <2>3, <2>6
  <2> QED BY <2>1, <2>5, <2>7 DEF Between
<1>4. ASSUME loopStack # <<>>
      PROVE  pc + 1 > Len(prog) \/ \E m \in Heads(pc + 1) : loopStack = <<m>>
  BY <1>1, <1>2, <1>4 DEF AtLine
<1>5. ASSUME NEW m \in Heads(pc), prog[m].op = "while"
      PROVE  IF loopStack = <<>> THEN l >= 1 /\ (Counted(m, pc + 1) => l >= 2)
                                 ELSE Counted(m, pc + 1) => l >= 1
  <2>1. /\ IF loopStack = <<>> THEN local >= 1 /\ (Counted(m, pc) => local >= 2)
                               ELSE Counted(m, pc) => local >= 1
        /\ local \in Nat
    BY <1>1, <1>5 DEF AtLine
  <2>2. l >= local /\ (prog[pc].op = "inc" => l >= local + 1)
    BY <1>3, <1>5
  <2> QED BY <1>2, <2>1, <2>2
<1>6. pc + 1 \in Nat
  BY <1>1
<1> QED BY <1>1, <1>2, <1>4, <1>5, <1>6 DEF AtLine


(* A step of the line loop is a step of the script or none of it.          *)
ScriptStep == Script!Next \/ UNCHANGED <<prog, Meant, local, trace>>

(* What a line finds.                                                      *)
LEMMA Facts ==
  ASSUME FlatInv, LinesLeft
  PROVE  /\ pc \in 1..Len(prog) /\ pc \in Nat /\ local \in Nat /\ Len(prog) \in Nat
         /\ Placed /\ AtLine(pc, exec, loopStack, execStack, local)
         /\ prog[pc].op \in {"while", "if"} => exec /\ loopStack = <<>> /\ Heads(pc) = {}
  BY NoHead DEF FlatInv, LinesInv, LinesTyped, LinesLeft, AtLine, Placed

(* What a block pushes is on top.                                          *)
LEMMA TopIs ==
  ASSUME NEW es \in Seq(BOOLEAN)
  PROVE  Append(es, TRUE) # <<>> /\ Last(Append(es, TRUE)) = TRUE
<1> DEFINE s == Append(es, TRUE)
<1>1. s \in Seq(BOOLEAN) /\ Len(s) = Len(es) + 1 /\ s[Len(es) + 1] = TRUE
  BY Pushed
<1>2. Len(es) \in Nat /\ Len(<<>>) = 0
  OBVIOUS
<1> HIDE DEF s
<1>3. Len(s) # 0
  BY <1>1, <1>2
<1>4. s # <<>> /\ Last(s) = TRUE
  BY <1>1, <1>2, <1>3 DEF Last
<1> QED BY <1>4 DEF s

LEMMA WhileFlat ==
  ASSUME FlatInv, While
  PROVE  AtLine(pc', exec', loopStack', execStack', local') /\ ScriptStep
<1>0. /\ pc \in 1..Len(prog) /\ prog[pc].op = "while" /\ LinesLeft
      /\ UNCHANGED <<prog, exec, local, trace>>
  BY Facts DEF While, At, Here
<1>1. /\ pc \in Nat /\ local \in Nat /\ Placed /\ exec /\ loopStack = <<>> /\ Heads(pc) = {}
      /\ Opens(prog, pc)
  BY <1>0, Facts DEF Opens
<1>2. PICK q \in 1..Len(prog) : Spans(pc, q)
  BY <1>0, <1>1, BlockSpans
<1>3. q \in Nat /\ pc < q /\ prog[q].op = "end"
  BY <1>1, <1>2 DEF Spans, Placed
<1>4. Script!EndOf(pc) = q /\ SkipLoop(pc) = q + 1
  BY <1>0, <1>1, <1>2, EndIs
<1>5. Meant = pc /\ Meant' = pc'
  BY <1>0, <1>1, FlatKept, MeantNow
<1>6. CASE EvalCond(Here)
  <2>1. /\ loopStack' = Append(<<>>, pc) /\ execStack' = Append(execStack, TRUE)
        /\ pc' = pc + 1
    BY <1>0, <1>1, <1>6 DEF While, FlatInv, LinesInv, LinesTyped
  <2>2. loopStack' = <<pc>> /\ execStack' # <<>> /\ Last(execStack') = TRUE
    <3>1. execStack \in Seq(BOOLEAN) /\ Append(<<>>, pc) = <<pc>>
      BY DEF FlatInv, LinesInv, LinesTyped
    <3> QED BY <2>1, <3>1, TopIs
  <2>3. Heads(pc + 1) = {pc}
    <3>1. pc \in Heads(pc + 1)
      BY <1>1, <1>2, <1>3 DEF Spans
    <3> QED BY <1>1, <3>1, OneHead
  <2>4. ~Counted(pc, pc + 1)
    <3>1. (pc + 1)..((pc + 1) - 1) = {}
      BY <1>1
    <3> QED BY <3>1 DEF Counted, Between
  <2>5. AtLine(pc + 1, TRUE, <<pc>>, execStack', local)
    BY <1>0, <1>1, <2>2, <2>3, <2>4 DEF AtLine
  <2>6. AtLine(pc', exec', loopStack', execStack', local')
    BY <1>0, <1>1, <2>1, <2>2, <2>5 DEF FlatInv, LinesInv, LinesTyped
  <2>7. Script!While
    BY <1>0, <1>5, <1>6, <2>1
       DEF Script!While, Script!Line, Script!Goto, Script!Holds, EvalCond, Here
  <2> QED BY <2>6, <2>7 DEF ScriptStep, Script!Next
<1>7. CASE ~EvalCond(Here)
  <2>1. UNCHANGED <<loopStack, execStack>> /\ pc' = q + 1
    BY <1>1, <1>4, <1>7 DEF While
  <2>2. Heads(q + 1) = {}
    BY <1>1, <1>3, NoHead
  <2>3. AtLine(q + 1, TRUE, <<>>, execStack, local)
    <3>1. q + 1 \in Nat
      BY <1>3
    <3> QED BY <1>1, <2>2, <3>1, OutsideLine
  <2>4. AtLine(pc', exec', loopStack', execStack', local')
    BY <1>0, <1>1, <2>1, <2>3 DEF FlatInv, LinesInv, LinesTyped
  <2>5. Script!While
    BY <1>0, <1>4, <1>5, <1>7, <2>1
       DEF Script!While, Script!Line, Script!Goto, Script!Holds, EvalCond, Here
  <2> QED BY <2>4, <2>5 DEF ScriptStep, Script!Next
<1> QED BY <1>6, <1>7

LEMMA IfFlat ==
  ASSUME FlatInv, If
  PROVE  AtLine(pc', exec', loopStack', execStack', local') /\ ScriptStep
<1>0. /\ pc \in 1..Len(prog) /\ prog[pc].op = "if" /\ LinesLeft
      /\ UNCHANGED <<prog, loopStack, local, trace>> /\ pc' = pc + 1
      /\ execStack' = Append(execStack, exec) /\ exec' = (exec /\ EvalCond(Here))
  BY Facts DEF If, At, Here
<1>1. /\ pc \in Nat /\ local \in Nat /\ Placed /\ exec /\ loopStack = <<>> /\ Heads(pc) = {}
      /\ Opens(prog, pc)
  BY <1>0, Facts DEF Opens
<1>2. PICK q \in 1..Len(prog) : Spans(pc, q)
  BY <1>0, <1>1, BlockSpans
<1>3. q \in Nat /\ pc < q
  BY <1>1, <1>2 DEF Spans, Placed
<1>4. exec = TRUE /\ exec' = EvalCond(Here) /\ execStack' = Append(execStack, TRUE)
  <2>1. exec = TRUE
    BY <1>1 DEF FlatInv, LinesInv, LinesTyped
  <2>2. EvalCond(Here) \in BOOLEAN
    BY DEF EvalCond
  <2> QED BY <1>0, <2>1, <2>2
<1>5. execStack' # <<>> /\ Last(execStack') = TRUE
  <2>1. execStack \in Seq(BOOLEAN)
    BY DEF FlatInv, LinesInv, LinesTyped
  <2> QED BY <1>4, <2>1, TopIs
<1>6. Heads(pc + 1) = {pc}
  <2>1. pc \in Heads(pc + 1)
    BY <1>1, <1>2, <1>3 DEF Spans
  <2> QED BY <1>1, <2>1, OneHead
<1>7. AtLine(pc', exec', loopStack', execStack', local')
  <2>1. AtLine(pc + 1, exec', <<>>, execStack', local)
    <3>1. prog[pc].op = "if" /\ pc + 1 \in Nat /\ local \in Nat
      BY <1>0, <1>1
    <3>2. \E m \in Heads(pc + 1) : prog[m].op = "if"
      BY <1>6, <3>1
    <3>3. \A m \in Heads(pc + 1) : m = pc
      BY <1>6
    <3> QED BY <1>5, <3>1, <3>2, <3>3 DEF AtLine
  <2> QED BY <1>0, <1>1, <2>1
<1>8. /\ Meant = pc
      /\ Meant' = (IF EvalCond(Here) THEN pc
                   ELSE Script!Least(Script!ElseOf(pc) \cup {Script!EndOf(pc)})) + 1
  <2>1. Meant = pc /\ Meant' = IF EvalCond(Here) THEN pc + 1 ELSE Least(AheadOf(pc + 1)) + 1
    BY <1>0, <1>1, <1>4, FlatKept, MeantNow
  <2>2. pc + 1 \in (pc + 1)..q
    BY <1>1, <1>3
  <2>3. Least(AheadOf(pc + 1)) = Script!Least(Script!ElseOf(pc) \cup {Script!EndOf(pc)})
    BY <1>1, <1>2, <2>2, NextAhead
  <2> QED BY <2>1, <2>3
<1>9. Script!If
  BY <1>0, <1>8 DEF Script!If, Script!Line, Script!Goto, Script!Holds, EvalCond, Here
<1> QED BY <1>7, <1>9 DEF ScriptStep, Script!Next


(* The block of an end, and what its loop has counted.                     *)
LEMMA EndFacts ==
  ASSUME FlatInv, LinesLeft, prog[pc].op = "end"
  PROVE  /\ Heads(pc + 1) = {} /\ Meant = IF exec THEN pc ELSE pc + 1
         /\ \E m \in Heads(pc) :
              /\ m \in 1..Len(prog) /\ Opens(prog, m) /\ Script!BlockOf(pc) = m
              /\ Heads(m + 1) = {m} /\ ~Counted(m, m + 1)
              /\ prog[m].op = "while" => exec /\ prog[m].limit <= 2 /\ Counted(m, pc)
<1>1. /\ pc \in 1..Len(prog) /\ pc \in Nat /\ Len(prog) \in Nat /\ Placed
      /\ AtLine(pc, exec, loopStack, execStack, local)
  BY Facts
<1>2. Heads(pc + 1) = {} /\ Heads(pc) # {}
  BY <1>1, NoHead
<1>3. PICK m \in Heads(pc) : TRUE
  BY <1>2
<1>4. m \in 1..Len(prog) /\ Opens(prog, m) /\ Within(prog, m, pc) /\ m \in Nat
  BY <1>1, <1>3 DEF Heads, Within
<1>5. PICK q \in 1..Len(prog) : Spans(m, q) /\ m < pc /\ pc <= q
  BY <1>1, HeadSpans
<1>6. Heads(m + 1) = {m}
  <2>1. m + 1 \in Nat /\ m < m + 1 /\ m + 1 <= q
    BY <1>1, <1>4, <1>5
  <2>2. m \in Heads(m + 1)
    BY <1>5, <2>1 DEF Spans
  <2> QED BY <1>1, <2>1, <2>2, OneHead
<1>7. ~Counted(m, m + 1)
  <2>1. (m + 1)..((m + 1) - 1) = {}
    BY <1>4
  <2> QED BY <2>1 DEF Counted, Between
<1>8. Script!BlockOf(pc) = m
  BY <1>1, BlockIs
<1>9. Least(AheadOf(pc)) = pc
  <2>1. pc \in (m + 1)..q
    BY <1>1, <1>4, <1>5
  <2> QED BY <1>1, <1>5, <2>1, NextAhead
<1>10. ASSUME prog[m].op = "while" PROVE exec /\ prog[m].limit <= 2 /\ Counted(m, pc)
  <2>1. exec
    <3>1. ASSUME ~exec PROVE FALSE
      <4>1. PICK k \in Heads(pc) : prog[k].op = "if"
        BY <1>1, <3>1 DEF AtLine
      <4>2. k = m
        BY <1>1, OneHead
      <4> QED BY <1>10, <4>1, <4>2
    <3> QED BY <3>1
  <2>2. prog[m].limit <= 2 /\ "inc" \in Between(prog, m, pc)
    BY <1>1, <1>4, <1>10 DEF Placed, Flat
  <2> QED BY <2>1, <2>2 DEF Counted
<1> QED BY <1>2, <1>4, <1>6, <1>7, <1>8, <1>9, <1>10, MeantNow

LEMMA EndLoopFlat ==
  ASSUME FlatInv, EndLoop
  PROVE  AtLine(pc', exec', loopStack', execStack', local') /\ ScriptStep
<1>0. /\ pc \in 1..Len(prog) /\ prog[pc].op = "end" /\ LinesLeft /\ loopStack # <<>>
      /\ UNCHANGED <<prog, local, trace>>
  BY Facts DEF EndLoop, At, Here
<1>1. /\ pc \in Nat /\ local \in Nat /\ Placed /\ Len(prog) \in Nat
      /\ AtLine(pc, exec, loopStack, execStack, local)
  BY <1>0, Facts
<1>2. PICK m \in Heads(pc) : loopStack = <<m>>
  BY <1>0, <1>1 DEF AtLine
<1>3. PICK k \in Heads(pc) :
              /\ k \in 1..Len(prog) /\ Opens(prog, k) /\ Script!BlockOf(pc) = k
              /\ Heads(k + 1) = {k} /\ ~Counted(k, k + 1)
              /\ prog[k].op = "while" => exec /\ prog[k].limit <= 2 /\ Counted(k, pc)
  BY <1>0, EndFacts
<1>4. k = m
  BY <1>1, OneHead
<1>5. prog[m].op = "while" /\ Last(execStack) = TRUE /\ exec
  <2>1. prog[m].op = "if" => loopStack = <<>>
    BY <1>1 DEF AtLine
  <2>2. prog[m].op = "while"
    BY <1>0, <1>3, <1>4, <2>1 DEF Opens
  <2> QED BY <1>0, <1>1, <1>3, <1>4, <2>2 DEF AtLine
<1>6. local >= 1 /\ m \in Nat /\ exec = TRUE
  <2>1. Counted(m, pc)
    BY <1>3, <1>4, <1>5
  <2> QED BY <1>0, <1>1, <1>3, <1>4, <1>5, <2>1 DEF AtLine, FlatInv, LinesInv, LinesTyped
<1>7. PopLoop(loopStack) = <<>> /\ Last(loopStack) = m
  BY <1>2 DEF PopLoop, Front, Last
<1>8. Heads(pc + 1) = {} /\ Meant = pc
  BY <1>0, <1>5, EndFacts
<1>9. Meant' = pc' /\ exec' = TRUE /\ loopStack' = <<>> /\ local' = local
  <2>1. exec' = TRUE /\ loopStack' = <<>> /\ local' = local
    BY <1>0, <1>5, <1>6, <1>7 DEF EndLoop
  <2> QED BY <1>0, <1>1, <2>1, FlatKept
<1>10. Script!End /\ pc' = (IF Script!Holds(prog[m]) THEN m ELSE pc) + 1
  <2>1. pc' = (IF Script!Holds(prog[m]) THEN m ELSE pc) + 1
    BY <1>5, <1>7 DEF EndLoop, Script!Holds, EvalCond
  <2> QED BY <1>0, <1>3, <1>4, <1>5, <1>8, <1>9, <2>1 DEF Script!End, Script!Line, Script!Goto
<1>11. AtLine(m + 1, TRUE, <<>>, execStack', local)
  <2>1. Heads(m + 1) = {m} /\ ~Counted(m, m + 1) /\ m + 1 \in Nat
    BY <1>3, <1>4, <1>6
  <2> QED BY <1>1, <1>5, <1>6, <2>1 DEF AtLine
<1>12. AtLine(pc + 1, TRUE, <<>>, execStack', local)
  <2>1. pc + 1 \in Nat
    BY <1>1
  <2> QED BY <1>1, <1>8, <2>1, OutsideLine
<1>13. AtLine(pc', exec', loopStack', execStack', local')
  BY <1>9, <1>10, <1>11, <1>12
<1> QED BY <1>10, <1>13 DEF ScriptStep, Script!Next


LEMMA EndIfFlat ==
  ASSUME FlatInv, EndIf
  PROVE  AtLine(pc', exec', loopStack', execStack', local') /\ ScriptStep
<1>0. /\ pc \in 1..Len(prog) /\ prog[pc].op = "end" /\ LinesLeft /\ loopStack = <<>>
      /\ UNCHANGED <<prog, local, trace, loopStack, execStack>> /\ exec' = TRUE /\ pc' = pc + 1
  BY Facts DEF EndIf, At, Here
<1>1. /\ pc \in Nat /\ local \in Nat /\ Placed /\ Len(prog) \in Nat
      /\ AtLine(pc, exec, loopStack, execStack, local)
  BY <1>0, Facts
<1>2. Heads(pc + 1) = {} /\ Meant = IF exec THEN pc ELSE pc + 1
  BY <1>0, EndFacts
<1>3. PICK m \in Heads(pc) :
              /\ m \in 1..Len(prog) /\ Opens(prog, m) /\ Script!BlockOf(pc) = m
              /\ Heads(m + 1) = {m} /\ ~Counted(m, m + 1)
              /\ prog[m].op = "while" => exec /\ prog[m].limit <= 2 /\ Counted(m, pc)
  BY <1>0, EndFacts
<1>4. Meant' = pc + 1
  BY <1>0, <1>1, FlatKept
<1>5. ~(prog[m].op = "while" /\ Script!Holds(prog[m]))
  <2>1. ASSUME prog[m].op = "while" PROVE ~(local < prog[m].limit)
    <3>1. local >= 2 /\ prog[m].limit <= 2
      BY <1>0, <1>1, <1>3, <2>1 DEF AtLine
    <3>2. prog[m].limit \in Int
      <4>1. prog[m] \in Lines
        BY <1>1, <1>3 DEF Placed
      <4> QED BY <4>1 DEF Lines
    <3> QED BY <1>1, <3>1, <3>2
  <2> QED BY <2>1 DEF Script!Holds
<1>6. AtLine(pc + 1, TRUE, <<>>, execStack, local)
  <2>1. pc + 1 \in Nat
    BY <1>1
  <2> QED BY <1>1, <1>2, <2>1, OutsideLine
<1>7. AtLine(pc', exec', loopStack', execStack', local')
  BY <1>0, <1>6
<1>8. CASE exec
  <2>1. Script!End
    BY <1>0, <1>2, <1>3, <1>4, <1>5, <1>8 DEF Script!End, Script!Line, Script!Goto
  <2> QED BY <1>7, <2>1 DEF ScriptStep, Script!Next
<1>9. CASE ~exec
  <2>1. UNCHANGED <<prog, Meant, local, trace>>
    BY <1>0, <1>2, <1>4, <1>9
  <2> QED BY <1>7, <2>1 DEF ScriptStep
<1> QED BY <1>8, <1>9

LEMMA ElseFlat ==
  ASSUME FlatInv, Else
  PROVE  AtLine(pc', exec', loopStack', execStack', local') /\ ScriptStep
<1>0. /\ pc \in 1..Len(prog) /\ prog[pc].op = "else" /\ LinesLeft
      /\ UNCHANGED <<prog, loopStack, execStack, local, trace>>
  BY Facts DEF Else, At, Here
<1>1. /\ pc \in Nat /\ local \in Nat /\ Placed /\ Len(prog) \in Nat
      /\ AtLine(pc, exec, loopStack, execStack, local)
  BY <1>0, Facts
<1>2. PICK m \in 1..Len(prog) :
        Within(prog, m, pc) /\ prog[m].op = "if" /\ "else" \notin Between(prog, m, pc)
  BY <1>0, <1>1 DEF Placed, Flat
<1>3. m \in Heads(pc) /\ m \in Nat
  BY <1>1, <1>2 DEF Heads
<1>4. PICK q \in 1..Len(prog) : Spans(m, q) /\ m < pc /\ pc <= q
  BY <1>1, <1>3, HeadSpans
<1>5. execStack # <<>> /\ Last(execStack) = TRUE /\ loopStack = <<>>
  BY <1>1, <1>2, <1>3 DEF AtLine
<1>6. exec' = ~exec /\ pc' = pc + 1
  BY <1>5 DEF Else
<1>7. Heads(pc + 1) = Heads(pc)
  BY <1>0, <1>1, NextLine
<1>8. \A k \in Heads(pc + 1) : k = m
  BY <1>1, <1>3, <1>7, OneHead
<1>9. AtLine(pc', exec', loopStack', execStack', local')
  <2>1. AtLine(pc + 1, ~exec, <<>>, execStack, local)
    <3>1. pc + 1 \in Nat /\ m \in Heads(pc + 1)
      BY <1>1, <1>3, <1>7
    <3> QED BY <1>1, <1>2, <1>5, <1>8, <3>1 DEF AtLine
  <2> QED BY <1>0, <1>5, <1>6, <2>1
<1>10. /\ Least(AheadOf(pc)) = pc /\ Least(AheadOf(pc + 1)) = q
       /\ Script!EndOf(Script!BlockOf(pc)) = q
  <2>1. pc # q
    BY <1>0, <1>4 DEF Spans
  <2>2. pc \in (m + 1)..q /\ pc + 1 \in (m + 1)..q
    BY <1>1, <1>3, <1>4, <2>1
  <2>3. ASSUME NEW r \in (pc + 1)..(q - 1), prog[r].op = "else" PROVE FALSE
    <3>1. r \in Nat /\ r \in 1..Len(prog) /\ m < r /\ r <= q /\ pc < r
      BY <1>1, <1>3, <1>4
    <3>2. PICK k \in 1..Len(prog) :
            Within(prog, k, r) /\ prog[k].op = "if" /\ "else" \notin Between(prog, k, r)
      BY <1>1, <2>3, <3>1 DEF Placed, Flat
    <3>3. k \in Heads(r) /\ m \in Heads(r)
      BY <1>4, <3>1, <3>2 DEF Heads, Spans
    <3>4. k = m
      BY <1>1, <3>1, <3>3, OneHead
    <3>5. pc \in (m + 1)..(r - 1)
      BY <1>1, <1>3, <1>4, <3>1
    <3> QED BY <1>0, <3>2, <3>4, <3>5 DEF Between
  <2>4. Least(AheadOf(pc)) = pc
    BY <1>0, <1>1, <1>4, <2>2, NextAhead
  <2>5. Least(AheadOf(pc + 1)) = q
    <3>1. NoElse(pc + 1, q)
      BY <2>3 DEF NoElse
    <3> QED BY <1>1, <1>4, <2>2, <3>1, NextAhead
  <2>6. Script!BlockOf(pc) = m /\ Script!EndOf(m) = q
    BY <1>1, <1>3, <1>4, BlockIs, EndIs
  <2> QED BY <2>4, <2>5, <2>6
<1>11. Meant = (IF exec THEN pc ELSE pc + 1) /\ Meant' = (IF exec THEN q ELSE pc) + 1
  BY <1>0, <1>1, <1>6, <1>10, FlatKept, MeantNow
<1>12. CASE exec
  <2>1. Script!Else
    BY <1>0, <1>10, <1>11, <1>12 DEF Script!Else, Script!Line, Script!Goto
  <2> QED BY <1>9, <2>1 DEF ScriptStep, Script!Next
<1>13. CASE ~exec
  <2>1. UNCHANGED <<prog, Meant, local, trace>>
    BY <1>0, <1>11, <1>13
  <2> QED BY <1>9, <2>1 DEF ScriptStep
<1> QED BY <1>12, <1>13

LEMMA InactiveFlat ==
  ASSUME FlatInv, Inactive
  PROVE  AtLine(pc', exec', loopStack', execStack', local') /\ ScriptStep
<1>0. /\ pc \in 1..Len(prog) /\ prog[pc].op \notin {"while", "end", "if", "else"} /\ LinesLeft
      /\ UNCHANGED <<prog, exec, loopStack, execStack, local, trace>> /\ ~exec /\ pc' = pc + 1
  BY Facts DEF Inactive, Here
<1>1. /\ pc \in Nat /\ local \in Nat /\ Placed /\ Len(prog) \in Nat
      /\ AtLine(pc, exec, loopStack, execStack, local)
  BY <1>0, Facts
<1>2. PICK m \in Heads(pc) : prog[m].op = "if"
  BY <1>0, <1>1 DEF AtLine
<1>3. PICK q \in 1..Len(prog) : Spans(m, q) /\ m < pc /\ pc <= q
  BY <1>1, HeadSpans
<1>4. AheadOf(pc) = AheadOf(pc + 1)
  <2>1. pc \in (m + 1)..q
    BY <1>1, <1>3 DEF Spans
  <2> QED BY <1>0, <1>1, <1>3, <2>1, NextAhead
<1>5. Meant = Least(AheadOf(pc)) + 1 /\ Meant' = Least(AheadOf(pc + 1)) + 1
  BY <1>0, <1>1, FlatKept, MeantNow
<1>6. AtLine(pc + 1, exec, loopStack, execStack, local)
  <2>1. local >= local
    BY <1>1
  <2> QED BY <1>0, <1>1, <2>1, LineGoes
<1>7. AtLine(pc', exec', loopStack', execStack', local')
  BY <1>0, <1>6
<1> QED BY <1>0, <1>4, <1>5, <1>7 DEF ScriptStep


(* A command, which leaves the blocks alone.                               *)
LEMMA CommandFlat ==
  ASSUME FlatInv, Zero \/ Inc \/ Act \/ Bad \/ Other
  PROVE  AtLine(pc', exec', loopStack', execStack', local') /\ ScriptStep
<1>0. /\ pc \in 1..Len(prog) /\ prog[pc].op \notin {"while", "end", "if", "else"} /\ LinesLeft
      /\ UNCHANGED <<prog, exec, loopStack, execStack>> /\ exec
  <2>1. LinesLeft /\ Here.op \in {"zero", "inc", "act", "bad", "other"}
        /\ UNCHANGED <<prog, exec, loopStack, execStack>> /\ exec
    BY DEF Zero, Inc, Act, Bad, Other, Command, At
  <2> QED BY <2>1, Facts DEF Here
<1>1. /\ pc \in Nat /\ local \in Nat /\ Placed /\ Len(prog) \in Nat
      /\ AtLine(pc, exec, loopStack, execStack, local)
  BY <1>0, Facts
<1>2. Meant = pc /\ Meant' = pc'
  BY <1>0, <1>1, FlatKept, MeantNow
<1>3. CASE Zero \/ Inc \/ Act \/ Other
  <2>1. /\ pc' = pc + 1 /\ local' \in Nat
        /\ local' >= local \/ prog[pc].op = "zero"
        /\ prog[pc].op = "inc" => local' >= local + 1
    BY <1>1, <1>3 DEF Zero, Inc, Act, Other, Command, At, Here
  <2>2. AtLine(pc + 1, exec, loopStack, execStack, local')
    BY <1>0, <2>1, LineGoes
  <2>3. AtLine(pc', exec', loopStack', execStack', local')
    BY <1>0, <2>1, <2>2
  <2>4. Script!Zero \/ Script!Inc \/ Script!Act \/ Script!Other
    BY <1>0, <1>2, <1>3
       DEF Zero, Inc, Act, Other, Command, At, Here, Script!Zero, Script!Inc, Script!Act,
           Script!Other, Script!Line, Script!Goto
  <2> QED BY <2>3, <2>4 DEF ScriptStep, Script!Next
<1>4. CASE Bad
  <2>1. pc' = Len(prog) + 1 /\ UNCHANGED <<local, trace>> /\ prog[pc].op = "bad"
    BY <1>4 DEF Bad, Stop, Command, At, Here
  <2>2. Heads(Len(prog) + 1) = {}
    <3>1. ASSUME NEW m \in Heads(Len(prog) + 1) PROVE FALSE
      <4>1. Len(prog) + 1 \in Nat
        BY <1>1
      <4>2. PICK q \in 1..Len(prog) : Spans(m, q) /\ m < Len(prog) + 1 /\ Len(prog) + 1 <= q
        BY <1>1, <4>1, HeadSpans
      <4> QED BY <1>1, <4>2
    <3> QED BY <3>1
  <2>3. AtLine(Len(prog) + 1, exec, loopStack, execStack, local)
    <3>1. Len(prog) + 1 \in Nat /\ Len(prog) + 1 > Len(prog)
      BY <1>1
    <3> QED BY <1>0, <1>1, <2>2, <3>1 DEF AtLine
  <2>4. AtLine(pc', exec', loopStack', execStack', local')
    BY <1>0, <2>1, <2>3
  <2>5. Script!Bad
    BY <1>0, <1>2, <2>1 DEF Script!Bad, Script!Line, Script!Goto
  <2> QED BY <2>4, <2>5 DEF ScriptStep, Script!Next
<1> QED BY <1>3, <1>4

LEMMA FlatInit == InterpInit => LinesInv /\ (Flat(prog) => FlatInv) /\ Script!Init
<1> SUFFICES ASSUME InterpInit PROVE LinesInv /\ (Flat(prog) => FlatInv) /\ Script!Init
  OBVIOUS
<1>1. LinesInv
  BY LinesInit
<1>2. pc = 1 /\ exec = TRUE /\ loopStack = <<>> /\ local = 0 /\ trace = <<>>
  BY DEF InterpInit
<1>3. Script!Init
  BY <1>2, MeantNow DEF Script!Init
<1>4. ASSUME Flat(prog) PROVE FlatInv
  <2>1. Placed
    BY <1>1, <1>4 DEF LinesInv, LinesTyped, Placed
  <2>2. Heads(1) = {}
    BY <2>1 DEF Heads, Within, Placed
  <2>3. AtLine(1, TRUE, <<>>, execStack, 0)
    BY <2>1, <2>2, OutsideLine
  <2> QED BY <1>1, <1>2, <2>1, <2>3 DEF FlatInv
<1> QED BY <1>1, <1>3, <1>4

(* Every step of the line loop keeps the invariant, and is a step of the   *)
(* script or a stutter.                                                    *)
LEMMA FlatNext ==
  ASSUME FlatInv, [InterpNext]_interpVars
  PROVE  FlatInv' /\ [Script!Next]_(Script!script)
<1>1. LinesInv' /\ UNCHANGED prog /\ Placed
  <2>1. UNCHANGED prog
    BY DEF InterpNext, interpVars, While, EndLoop, EndIf, If, Else, Inactive, Zero, Inc, Act,
           Bad, Other, Command
  <2> QED BY <2>1, LinesStep DEF FlatInv
<1>2. AtLine(pc', exec', loopStack', execStack', local') /\ ScriptStep
  <2>1. CASE InterpNext
    BY <2>1, WhileFlat, EndLoopFlat, EndIfFlat, IfFlat, ElseFlat, InactiveFlat, CommandFlat
       DEF InterpNext
  <2>2. CASE UNCHANGED interpVars
    <3>1. UNCHANGED <<pc, exec, loopStack, execStack, local, trace, prog>>
      BY <2>2 DEF interpVars
    <3>2. AtLine(pc', exec', loopStack', execStack', local')
      BY <3>1 DEF FlatInv
    <3>3. Meant' = Meant
      BY <1>1, <3>1, FlatKept, MeantNow
    <3> QED BY <3>1, <3>2, <3>3 DEF ScriptStep
  <2> QED BY <2>1, <2>2
<1>3. FlatInv'
  BY <1>1, <1>2, FlatKept DEF FlatInv
<1>4. [Script!Next]_(Script!script)
  BY <1>2 DEF ScriptStep, Script!script
<1> QED BY <1>3, <1>4

(* A worker carries out a script whose blocks do not nest as the script    *)
(* says, whatever its length and its lines, if its loops count to two at   *)
(* most: the loop of ThreadInterpreter::run forgets a loop when it goes    *)
(* round, and leaves it after the second round.                            *)
THEOREM FlatScriptsAsWritten == InterpSpec => FlatAsWritten
<1>1. LinesInv /\ (Flat(prog) => FlatInv) /\ [InterpNext]_interpVars
        => /\ LinesInv' /\ (Flat(prog) => FlatInv)'
           /\ [Flat(prog) => Script!Next]_(Script!script)
  <2> SUFFICES ASSUME LinesInv, Flat(prog) => FlatInv, [InterpNext]_interpVars
               PROVE  /\ LinesInv' /\ (Flat(prog) => FlatInv)'
                      /\ [Flat(prog) => Script!Next]_(Script!script)
    OBVIOUS
  <2>1. LinesInv'
    BY LinesStep
  <2>2. UNCHANGED prog
    BY DEF InterpNext, interpVars, While, EndLoop, EndIf, If, Else, Inactive, Zero, Inc, Act,
           Bad, Other, Command
  <2>3. CASE Flat(prog)
    BY <2>1, <2>3, FlatNext
  <2>4. CASE ~Flat(prog)
    <3>1. ~Flat(prog)'
      BY <2>2, <2>4
    <3> QED BY <2>1, <2>4, <3>1
  <2> QED BY <2>3, <2>4
<1> QED BY FlatInit, <1>1, PTL DEF InterpSpec, FlatAsWritten

(* Where all scripts are such, the line loop implements what they mean.    *)
COROLLARY FlatScriptsImplemented ==
  ASSUME \A p \in Programs : Flat(p)
  PROVE  InterpSpec => AsWritten
<1>1. InterpInit => Flat(prog)
  BY DEF InterpInit
<1>2. Flat(prog) /\ [InterpNext]_interpVars => Flat(prog)'
  <2> SUFFICES ASSUME Flat(prog), [InterpNext]_interpVars PROVE Flat(prog)'
    OBVIOUS
  <2>1. UNCHANGED prog
    BY DEF InterpNext, interpVars, While, EndLoop, EndIf, If, Else, Inactive, Zero, Inc, Act,
           Bad, Other, Command
  <2> QED BY <2>1
<1>3. Flat(prog) /\ [Flat(prog) => Script!Next]_(Script!script)
        => [Script!Next]_(Script!script)
  OBVIOUS
<1> QED BY FlatScriptsAsWritten, <1>1, <1>2, <1>3, PTL
        DEF InterpSpec, FlatAsWritten, AsWritten, Script!Spec
===============================================================================
