--------------------------- MODULE SimpleThreading ---------------------------
(***************************************************************************)
(* The worker threads of source/simple_threading.cpp: CreateThread,        *)
(* DestroyThread and WaitForThread over the three registries s_threads,    *)
(* s_interpreters and s_stopFlags, the shared variable store, and the      *)
(* control skeleton of ThreadInterpreter::run.                             *)
(*                                                                         *)
(* s_globalMutex covers every critical section, so a section that does     *)
(* nothing another thread can see half way is one action.  Two things are  *)
(* visible half way and are split: CreateThread starts the std::thread     *)
(* before it has filled the registries, and a worker looks its stop flag   *)
(* up WITHOUT the mutex.                                                   *)
(*                                                                         *)
(* That lookup races with the insertion of CreateThread and the erasure of *)
(* DestroyThread.  A lookup that overlaps one is "torn": it finds the      *)
(* worker's own node or misses it.  To the C++ standard such a lookup is   *)
(* undefined: on a map that is rehashed under it, it may also go through   *)
(* freed memory.  The properties are about the runs in which it does not.  *)
(*                                                                         *)
(* Data left out: what a script line computes (a line is one of: it writes *)
(* a shared variable, it fails, or it touches only the worker's own state  *)
(* and thread_<id>_line, _last_get and _ws_* keys), and time.  A line may  *)
(* block for as long as it likes: WebSocketConnect to a server that does   *)
(* not answer, WebSocketDisconnect from an idle wss server, a long Sleep.  *)
(***************************************************************************)
EXTENDS Integers, FiniteSets

CONSTANTS
    Callers,   \* OS threads that call the class from outside a worker
    Waiters,   \* the callers that use WaitForThread (no built-in function does)
    MaxId,     \* bound: identifiers 1..MaxId are handed out
    Keys,      \* names scripts use with ThreadSetVar
    BeatMod,   \* bound: the heartbeat counter is kept modulo BeatMod
    Free       \* nobody holds s_globalMutex

Ids == 1..MaxId

ASSUME ThreadingAssumption ==
    /\ MaxId \in Nat \ {0}
    /\ BeatMod \in Nat \ {0}
    /\ Waiters \subseteq Callers
    /\ Free \notin Callers
    /\ Callers \cap Int = {}

VARIABLES
    lock,       \* s_globalMutex: its holder between two actions
    nextId,     \* s_nextThreadId
    threads,    \* s_threads
    interp,     \* s_interpreters
    stopFlag,   \* s_stopFlags: "absent", "clear" or "set"
    vars,       \* s_globalVars, script keys: who wrote the value last (0: unset)
    status,     \* s_globalVars["thread_<id>_status"]
    error,      \* s_globalVars["thread_<id>_error"] is set
    beat,       \* s_globalVars["thread_<id>_heartbeat"]
    cpc, arg,   \* a caller's place in the class, and the id it works on
    wpc,        \* a worker's place in the thread function
    torn        \* the stop-flag lookup under way overlapped a change of the map

registry == <<lock, nextId, threads, interp, stopFlag>>
store    == <<vars, status, error, beat>>
caller   == <<cpc, arg>>
worker   == <<wpc, torn>>
allVars  == <<registry, store, caller, worker>>

CallerPlaces == {"idle", "registering", "joining", "cleaning", "waiting"}
WorkerPlaces == {"none", "spawned", "check", "finding", "line", "exec",
                 "blocked", "beat_check", "beat_finding", "beat_due", "beat", "returning", "done"}
Lookups      == {"finding", "beat_finding"}

TypeOK ==
    /\ lock \in Callers \cup {Free}
    /\ nextId \in 1..(MaxId + 1)
    /\ threads \in SUBSET Ids /\ interp \in SUBSET Ids
    /\ stopFlag \in [Ids -> {"absent", "clear", "set"}]
    /\ vars \in [Keys -> Callers \cup Ids \cup {0}]
    /\ status \in [Ids -> {"unset", "running", "completed"}]
    /\ error \in [Ids -> BOOLEAN]
    /\ beat \in [Ids -> 0..(BeatMod - 1)]
    /\ cpc \in [Callers -> CallerPlaces]
    /\ arg \in [Callers -> Ids]
    /\ wpc \in [Ids -> WorkerPlaces]
    /\ torn \in [Ids -> BOOLEAN]

(* MainExecuteScript has called IncrementThreadCount once, before the      *)
(* script's first line; nothing else changes s_threadCount.                *)
Init ==
    /\ lock = Free /\ nextId = 1
    /\ threads = {} /\ interp = {}
    /\ stopFlag = [id \in Ids |-> "absent"]
    /\ vars = [k \in Keys |-> 0]
    /\ status = [id \in Ids |-> "unset"]
    /\ error = [id \in Ids |-> FALSE]
    /\ beat = [id \in Ids |-> 0]
    /\ cpc = [c \in Callers |-> "idle"]
    /\ arg = [c \in Callers |-> 1]
    /\ wpc = [id \in Ids |-> "none"]
    /\ torn = [id \in Ids |-> FALSE]

Goto(c, place) == cpc' = [cpc EXCEPT ![c] = place]
Step(id, place) == wpc' = [wpc EXCEPT ![id] = place]

(* An insertion into or an erasure from s_stopFlags tears every lookup     *)
(* under way.                                                              *)
TearLookups == torn' = [id \in Ids |-> torn[id] \/ wpc[id] \in Lookups]

-----------------------------------------------------------------------------
(* The callers.                                                            *)

(* CreateThread up to the construction of the std::thread, which may run   *)
(* from here on.                                                           *)
CreateSpawn(c) ==
    /\ cpc[c] = "idle" /\ lock = Free
    /\ nextId \in Ids
    /\ lock' = c
    /\ nextId' = nextId + 1
    /\ stopFlag' = [stopFlag EXCEPT ![nextId] = "clear"]
    /\ TearLookups
    /\ Step(nextId, "spawned")
    /\ Goto(c, "registering") /\ arg' = [arg EXCEPT ![c] = nextId]
    /\ UNCHANGED <<threads, interp, store>>

(* The rest of CreateThread.                                               *)
CreateRegister(c) ==
    /\ cpc[c] = "registering"
    /\ threads' = threads \cup {arg[c]}
    /\ interp' = interp \cup {arg[c]}
    /\ lock' = Free
    /\ Goto(c, "idle")
    /\ UNCHANGED <<nextId, stopFlag, store, arg, worker>>

(* DestroyThread, first section: raise the flag if there is one, take the  *)
(* std::thread out of s_threads; without one the answer is false.          *)
KeepFlag(id) == stopFlag                              \* mutant: forgets the request
RaiseFlag(id) ==
    IF stopFlag[id] = "absent" THEN stopFlag ELSE [stopFlag EXCEPT ![id] = "set"]

TakeThread(id) == threads \ {id}

DestroyRequest(c, id) ==
    /\ cpc[c] = "idle" /\ lock = Free
    /\ stopFlag' = RaiseFlag(id)
    /\ IF id \in threads
       THEN /\ threads' = TakeThread(id)
            /\ Goto(c, "joining") /\ arg' = [arg EXCEPT ![c] = id]
       ELSE UNCHANGED <<threads, caller>>
    /\ UNCHANGED <<lock, nextId, interp, store, worker>>

(* join() returns when the thread function has.                            *)
DetachInstead(id) == TRUE                             \* mutant: does not join
Joinable(id) == wpc[id] = "done"

DestroyJoin(c) ==
    /\ cpc[c] = "joining" /\ Joinable(arg[c])
    /\ Goto(c, "cleaning")
    /\ UNCHANGED <<registry, store, arg, worker>>

(* DestroyThread, second section; its answer is true.                      *)
KeepInterpreter(id) == interp                         \* mutant: erases the flag only
EraseInterpreter(id) == interp \ {id}

DestroyCleanup(c) ==
    /\ cpc[c] = "cleaning" /\ lock = Free
    /\ interp' = EraseInterpreter(arg[c])
    /\ stopFlag' = [stopFlag EXCEPT ![arg[c]] = "absent"]
    /\ TearLookups
    /\ Goto(c, "idle")
    /\ UNCHANGED <<lock, nextId, threads, store, arg, wpc>>

(* WaitForThread takes the thread out and joins it.  It ignores its        *)
(* timeout, raises no flag and cleans nothing up.                          *)
WaitTake(c, id) ==
    /\ cpc[c] = "idle" /\ lock = Free
    /\ id \in threads
    /\ threads' = threads \ {id}
    /\ Goto(c, "waiting") /\ arg' = [arg EXCEPT ![c] = id]
    /\ UNCHANGED <<lock, nextId, interp, stopFlag, store, worker>>

WaitJoin(c) ==
    /\ cpc[c] = "waiting" /\ Joinable(arg[c])
    /\ Goto(c, "idle")
    /\ UNCHANGED <<registry, store, arg, worker>>

(* ThreadSetVar from the main script.                                      *)
SetGlobalVar(c, k) ==
    /\ cpc[c] = "idle" /\ lock = Free
    /\ vars' = [vars EXCEPT ![k] = c]
    /\ UNCHANGED <<registry, status, error, beat, caller, worker>>

-----------------------------------------------------------------------------
(* The workers.                                                            *)

(* The lambda sets thread_<id>_status to "running" and calls run.          *)
WorkerStart(id) ==
    /\ wpc[id] = "spawned" /\ lock = Free
    /\ status' = [status EXCEPT ![id] = "running"]
    /\ Step(id, "check")
    /\ UNCHANGED <<registry, vars, error, beat, caller, torn>>

(* pc has reached the last line: on to the message loop.                   *)
ScriptEnd(id) ==
    /\ wpc[id] = "check"
    /\ Step(id, "beat_check")
    /\ UNCHANGED <<registry, store, caller, torn>>

(* s_stopFlags.find(m_id), in either loop, begins.                         *)
FindBegin(id) ==
    /\ \/ wpc[id] = "check" /\ Step(id, "finding")
       \/ wpc[id] = "beat_check" /\ Step(id, "beat_finding")
    /\ torn' = [torn EXCEPT ![id] = FALSE]
    /\ UNCHANGED <<registry, store, caller>>

(* What the lookup may answer: the flag is found and set.  A torn lookup   *)
(* may also miss.                                                          *)
MissMeansStop(id) ==                                  \* mutant: end() taken for a stop
    {stopFlag[id] = "set"} \cup (IF torn[id] THEN {TRUE} ELSE {})
StopSeen(id) ==
    {stopFlag[id] = "set"} \cup (IF torn[id] THEN {FALSE} ELSE {})

FindEnd(id) ==
    /\ \E stop \in StopSeen(id) :
         \/ /\ wpc[id] = "finding"
            /\ Step(id, IF stop THEN "beat_check" ELSE "line")
         \/ /\ wpc[id] = "beat_finding"
            /\ Step(id, IF stop THEN "returning" ELSE "beat_due")
    /\ torn' = [torn EXCEPT ![id] = FALSE]
    /\ UNCHANGED <<registry, store, caller>>

(* thread_<id>_line is updated under the mutex.                            *)
LineBegin(id) ==
    /\ wpc[id] = "line" /\ lock = Free
    /\ Step(id, "exec")
    /\ UNCHANGED <<registry, store, caller, torn>>

(* The line is one that waits: for a server, for a receiver that is joined *)
(* (websocket_client.cpp:140, 323), for the time to pass.  Nothing makes   *)
(* the wait end, and the worker looks at no stop flag meanwhile.           *)
ExecBlocks(id) ==
    /\ wpc[id] = "exec"
    /\ Step(id, "blocked")
    /\ UNCHANGED <<registry, store, caller, torn>>

Unblocked(id) ==
    /\ wpc[id] = "blocked"
    /\ Step(id, "check")
    /\ UNCHANGED <<registry, store, caller, torn>>

(* A line of control flow, ++, :=, ThreadGetVar, Sleep or WebSocket*.      *)
ExecLocal(id) ==
    /\ wpc[id] = "exec"
    /\ Step(id, "check")
    /\ UNCHANGED <<registry, store, caller, torn>>

ExecSetVar(id, k) ==
    /\ wpc[id] = "exec" /\ lock = Free
    /\ vars' = [vars EXCEPT ![k] = id]
    /\ Step(id, "check")
    /\ UNCHANGED <<registry, status, error, beat, caller, torn>>

(* setErrorAndStop, and the break that follows it: out of the line loop,   *)
(* into the message loop.                                                  *)
ExecError(id) ==
    /\ wpc[id] = "exec" /\ lock = Free
    /\ error' = [error EXCEPT ![id] = TRUE]
    /\ Step(id, "beat_check")
    /\ UNCHANGED <<registry, vars, status, beat, caller, torn>>

(* The message loop: every 10 ms the heartbeat is read in one critical     *)
(* section and written, one higher, in another.                            *)
BeatRead(id) ==
    /\ wpc[id] = "beat_due" /\ lock = Free
    /\ Step(id, "beat")
    /\ UNCHANGED <<registry, store, caller, torn>>

BeatSkip(id) ==
    /\ wpc[id] = "beat_due"
    /\ Step(id, "beat_check")
    /\ UNCHANGED <<registry, store, caller, torn>>

NextBeat(id) == (beat[id] + 1) % BeatMod

BeatWrite(id) ==
    /\ wpc[id] = "beat" /\ lock = Free
    /\ beat' = [beat EXCEPT ![id] = NextBeat(id)]
    /\ Step(id, "beat_check")
    /\ UNCHANGED <<registry, vars, status, error, caller, torn>>

(* run returns; the lambda sets thread_<id>_status to "completed".         *)
WorkerReturn(id) ==
    /\ wpc[id] = "returning" /\ lock = Free
    /\ status' = [status EXCEPT ![id] = "completed"]
    /\ Step(id, "done")
    /\ UNCHANGED <<registry, vars, error, beat, caller, torn>>

-----------------------------------------------------------------------------
Create(c)  == CreateSpawn(c) \/ CreateRegister(c)
Destroy(c) == (\E id \in Ids : DestroyRequest(c, id)) \/ DestroyJoin(c) \/ DestroyCleanup(c)
Wait(c)    == c \in Waiters /\ ((\E id \in Ids : WaitTake(c, id)) \/ WaitJoin(c))

CallerStep(c) ==
    Create(c) \/ Destroy(c) \/ Wait(c) \/ (\E k \in Keys : SetGlobalVar(c, k))

Exec(id) ==
    \/ ExecLocal(id) \/ (\E k \in Keys : ExecSetVar(id, k)) \/ ExecError(id)
    \/ ExecBlocks(id)

WorkerStep(id) ==
    \/ WorkerStart(id) \/ ScriptEnd(id) \/ FindBegin(id) \/ FindEnd(id)
    \/ LineBegin(id) \/ Exec(id)
    \/ BeatRead(id) \/ BeatSkip(id) \/ BeatWrite(id) \/ WorkerReturn(id)

Next ==
    \/ \E c \in Callers : CallerStep(c)
    \/ \E id \in Ids : WorkerStep(id) \/ Unblocked(id)

Spec == Init /\ [][Next]_allVars

(* The operating system schedules every thread, and a join whose thread    *)
(* has ended returns.  Nothing says that a line which waits ever ends,     *)
(* that a script does, or that anybody calls DestroyThread.                *)
Fairness ==
    /\ \A id \in Ids : WF_allVars(WorkerStep(id))
    /\ \A c \in Callers : /\ WF_allVars(CreateRegister(c))
                          /\ WF_allVars(DestroyJoin(c))
                          /\ WF_allVars(DestroyCleanup(c))
                          /\ WF_allVars(WaitJoin(c))

FairSpec == Spec /\ Fairness

-----------------------------------------------------------------------------
(* Properties.                                                             *)

Running(id) == wpc[id] \notin {"none", "spawned", "done"}

(* The thread function runs on a raw pointer to an interpreter that        *)
(* s_interpreters owns: the object is there as long as run uses it,        *)
(* although run starts before CreateThread has stored it and DestroyThread *)
(* erases it from another thread.                                          *)
InterpreterOutlivesRun == \A id \in Ids : Running(id) => id \in interp

(* Two callers never join the same std::thread (the second join is         *)
(* undefined behaviour) and never clean up after the same one.             *)
OneJoiner ==
    \A c, d \in Callers :
        /\ cpc[c] \in {"joining", "cleaning", "waiting"}
        /\ cpc[d] \in {"joining", "cleaning", "waiting"}
        /\ arg[c] = arg[d]
        => c = d

(* s_threads, s_interpreters and s_stopFlags agree whenever no call is     *)
(* under way, so no call leaves a worker half registered.  WaitForThread   *)
(* is the exception: it leaves the flag and the interpreter of a worker    *)
(* behind, but only of one that is over.                                   *)
RegistriesAgree ==
    (\A c \in Callers : cpc[c] = "idle") =>
        /\ threads \subseteq interp
        /\ interp = {id \in Ids : stopFlag[id] # "absent"}
        /\ \A id \in interp \ threads : Waiters # {} /\ wpc[id] = "done"

(* DestroyThread answers true only for a worker whose thread function is   *)
(* over, whose status reads "completed", and of which nothing is left in   *)
(* the registries.                                                         *)
DestroyedIsOver ==
    [][\A c \in Callers : (cpc[c] = "cleaning" /\ cpc'[c] = "idle") =>
          /\ wpc[arg[c]] = "done" /\ status[arg[c]] = "completed"
          /\ arg[c] \notin threads' /\ arg[c] \notin interp'
          /\ stopFlag'[arg[c]] = "absent"]_allVars

(* A worker is over only because somebody asked it to stop: neither the    *)
(* end of its script, nor an error, nor a lookup torn by the creation or   *)
(* the destruction of another worker ends it.                              *)
OverOnlyOnRequest ==
    \A id \in Ids : wpc[id] \in {"returning", "done"} => stopFlag[id] # "clear"

(* Once a worker has been destroyed the shared store holds still as far    *)
(* as it is concerned: no late status, error, heartbeat or variable.       *)
Destroyed(id) == wpc[id] # "none" /\ stopFlag[id] = "absent"
DestroyedIsSilent ==
    [][\A id \in Ids : Destroyed(id) =>
          /\ status'[id] = status[id] /\ error'[id] = error[id] /\ beat'[id] = beat[id]
          /\ \A k \in Keys : vars'[k] = id => vars[k] = id]_allVars

(* DestroyThread returns, because both loops of run look at the flag,      *)
(* unless the worker is in a line that waits for ever: then join does, too *)
(* (simple_threading.cpp:227).                                             *)
StuckInLine(id) == wpc[id] = "blocked"
DestroyReturns ==
    \A c \in Callers :
        cpc[c] = "joining" ~> (cpc[c] = "idle" \/ [](cpc[c] = "joining" /\ StuckInLine(arg[c])))

(* A worker's stage in WorkerLifecycle.                                    *)
Stage(id) ==
    CASE wpc[id] = "none" -> "none"
      [] wpc[id] = "done" -> IF stopFlag[id] = "absent" THEN "forgotten" ELSE "finished"
      [] OTHER -> IF stopFlag[id] = "set" THEN "stopping" ELSE "alive"

Lifecycle == INSTANCE WorkerLifecycle WITH
    life <- [id \in Ids |-> Stage(id)],
    held <- {id \in Ids : StuckInLine(id)}

(* Every worker goes through the stages of WorkerLifecycle, and one that   *)
(* has been asked to stop finishes unless a line of its script holds it:   *)
(* simple_threading.cpp implements the abstract specification.             *)
ImplementsLifecycle == Lifecycle!FairSpec
=============================================================================
