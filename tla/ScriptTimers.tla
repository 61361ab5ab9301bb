----------------------------- MODULE ScriptTimers -----------------------------
(***************************************************************************)
(* The script's timers: SetTimer (source/script2.cpp), the linked list of  *)
(* ScriptTimer with UpdateOrCreateTimer, Disable and DeleteTimer           *)
(* (source/script.cpp), and the passes of CheckScriptTimers over it        *)
(* (source/application.cpp).                                               *)
(*                                                                         *)
(* A pass calls script functions while it stands in the list.  These set,  *)
(* delete and re-create timers, and let further passes and other threads   *)
(* interrupt them.  All of it is on one OS thread, so the pseudo-threads   *)
(* form a stack and only the top one moves.                                *)
(*                                                                         *)
(* A ScriptTimer is named by the order of its creation, so that a pointer  *)
(* to one that was deleted can be told from a pointer to its successor.    *)
(* mPeriod and mTimeLastRun are abstracted: a timer's period may or may    *)
(* not have elapsed whenever a pass looks.  The conditions that only put   *)
(* a pass off (a paused, uninterruptible or NoTimers thread) are part of   *)
(* the choice of when a pass begins.                                       *)
(***************************************************************************)
EXTENDS Integers, Sequences, FiniteSets, SequencesExt

CONSTANTS
    Callbacks,   \* script functions used as timers
    Priorities,  \* thread priorities in use, with the default 0
    MinPriority, \* PRIORITY_MINIMUM, of the idle thread
    MaxThreads,  \* g_MaxThreadsTotal
    MaxTimers    \* bound: ScriptTimers created in a behaviour

ASSUME TimerAssumption ==
    /\ MaxThreads \in Nat /\ MaxTimers \in Nat
    /\ Priorities \subseteq Int /\ 0 \in Priorities
    /\ MinPriority \in Int /\ \A p \in Priorities : p >= MinPriority

VARIABLES
    list,     \* mFirstTimer and its chain
    timer,    \* the ScriptTimers created so far
    enabled,  \* mTimerEnabledCount
    stack     \* the pseudo-threads and passes, the bottom one first

timerVars == <<list, timer, enabled, stack>>

NoTimer == 0
TimerIds == 1..MaxTimers

(* The arguments of SetTimer: a period, and the set of the priority, which *)
(* is empty when it is left out.                                           *)
PeriodArgs == {"once", "repeat", "left out"}
PriorityArgs == {{}} \cup {{p} : p \in Priorities}

Timer == [callback : Callbacks, enabled : BOOLEAN, once : BOOLEAN, priority : Priorities,
          threads : Nat, locked : Nat]

(* A pass: its position, what it does there ("scan" the list, "run" the    *)
(* callback, "release" a timer it has deleted, whose callback object may   *)
(* have a __Delete method), the next_timer it holds a lock on, its         *)
(* thread's Priority; and, as history, the timers it has looked at, and    *)
(* whether script in it has lowered its Priority below that of the thread  *)
(* it interrupts.  A thread that is no timer's is one that runs with no    *)
(* position.                                                               *)
Frame == [pc : {"scan", "run", "release"}, at : TimerIds \cup {NoTimer},
          next : TimerIds \cup {NoTimer},
          priority : Priorities \cup {MinPriority}, seen : SUBSET TimerIds,
          lowered : BOOLEAN]

TypeOK ==
    /\ list \in Seq(TimerIds)
    /\ timer \in Seq(Timer) /\ Len(timer) <= MaxTimers
    /\ enabled \in Nat
    /\ stack \in Seq(Frame) /\ Len(stack) <= MaxThreads

Init == list = <<>> /\ timer = <<>> /\ enabled = 0 /\ stack = <<>>

Top == stack[Len(stack)]
WithTop(frame) == [stack EXCEPT ![Len(stack)] = frame]
Listed == Range(list)

ScriptRuns == stack # <<>> /\ Top.pc # "scan"
Scanning == stack # <<>> /\ Top.pc = "scan"

(* The place of a listed timer, and mNextTimer.                            *)
Place(t) == CHOOSE i \in 1..Len(list) : list[i] = t
After(t) == IF Place(t) < Len(list) THEN list[Place(t) + 1] ELSE NoTimer

-----------------------------------------------------------------------------
(* UpdateOrCreateTimer: a timer that is new, or was disabled and so is     *)
(* marked for deletion, takes the defaults for what is left out.           *)

Updated(t, cb, period, priority) ==
    LET fresh == t > Len(timer) \/ ~timer[t].enabled
        old   == IF t > Len(timer)
                   THEN [callback |-> cb, enabled |-> FALSE, once |-> FALSE,
                         priority |-> 0, threads |-> 0, locked |-> 0]
                   ELSE timer[t]
    IN  [old EXCEPT
           !.enabled = TRUE,
           !.once = IF period = "left out" /\ ~fresh THEN @ ELSE period = "once",
           !.priority = IF priority # {} THEN CHOOSE p \in priority : TRUE
                        ELSE IF fresh THEN 0 ELSE @]

Create(cb, period, priority) ==
    LET t == Len(timer) + 1
    IN  /\ t <= MaxTimers
        /\ list' = Append(list, t)
        /\ timer' = Append(timer, Updated(t, cb, period, priority))
        /\ enabled' = enabled + 1

Update(t, period, priority) ==
    /\ timer' = [timer EXCEPT ![t] = Updated(t, @.callback, period, priority)]
    /\ enabled' = IF timer[t].enabled THEN enabled ELSE enabled + 1
    /\ UNCHANGED list

(* The one listed timer of a callback.                                     *)
Finds(cb, t) == t \in Listed /\ timer[t].callback = cb

SetTimer(cb, period, priority) ==
    /\ ScriptRuns
    /\ \/ \E t \in Listed : Finds(cb, t) /\ Update(t, period, priority)
       \/ (\A t \in Listed : ~Finds(cb, t)) /\ Create(cb, period, priority)
    /\ UNCHANGED stack

-----------------------------------------------------------------------------
(* DeleteTimer.                                                            *)

Unlink(t) == RemoveAt(list, Place(t))

(* Whether a timer must stay in the list for now.                          *)
InUse(t) == timer[t].threads > 0 \/ timer[t].locked > 0
MayUnlink(t) == ~InUse(t)

CountDown(t) == IF timer[t].enabled THEN enabled - 1 ELSE enabled

DeleteTimer(t) ==
    /\ timer' = [timer EXCEPT ![t].enabled = FALSE]
    /\ enabled' = CountDown(t)
    /\ list' = IF MayUnlink(t) THEN Unlink(t) ELSE list

(* SetTimer(function, 0), by script that holds a reference to the          *)
(* function, so that no __Delete is called from here.                      *)
StopTimer(cb) ==
    /\ ScriptRuns
    /\ \E t \in Listed : Finds(cb, t) /\ DeleteTimer(t)
    /\ UNCHANGED stack

-----------------------------------------------------------------------------
(* Threads of hotkeys and other events, and the beginning of a pass.       *)

Room == Len(stack) < MaxThreads

Thread(priority) ==
    [pc |-> "run", at |-> NoTimer, next |-> NoTimer,
     priority |-> priority, seen |-> {}, lowered |-> FALSE]

EventThread(priority) ==
    /\ ~Scanning /\ Room
    /\ stack' = Append(stack, Thread(priority))
    /\ UNCHANGED <<list, timer, enabled>>

EventThreadEnds ==
    /\ ScriptRuns /\ Top.at = NoTimer /\ Top.pc = "run"
    /\ stack' = Front(stack)
    /\ UNCHANGED <<list, timer, enabled>>

(* Thread("Priority", p): the Priority of the pass's thread stays what a   *)
(* timer function has made it when the pass goes on.                       *)
BelowInterrupted(p) == Len(stack) > 1 /\ p < stack[Len(stack) - 1].priority

SetPriority(p) ==
    /\ ScriptRuns
    /\ stack' = WithTop([Top EXCEPT !.priority = p,
                                    !.lowered = @ \/ BelowInterrupted(p)])
    /\ UNCHANGED <<list, timer, enabled>>

(* g is the caller's until the pass launches a thread.  The idle thread    *)
(* has the least priority (AutoExecSection ends by giving it that).        *)
CallerPriority == IF stack = <<>> THEN MinPriority ELSE Top.priority

CheckScriptTimers ==
    /\ ~Scanning /\ enabled > 0 /\ Room
    /\ stack' = Append(stack, [Thread(CallerPriority) EXCEPT
                                 !.pc = "scan",
                                 !.at = IF list = <<>> THEN NoTimer ELSE list[1]])
    /\ UNCHANGED <<list, timer, enabled>>

-----------------------------------------------------------------------------
(* The loop of CheckScriptTimers.                                          *)

RunnableAgain(t) == timer[t].enabled /\ timer[t].priority >= Top.priority
MayRun(t) == timer[t].enabled /\ timer[t].threads = 0 /\ timer[t].priority >= Top.priority

(* A timer that may not run, or whose period has not elapsed.              *)
Skip ==
    /\ Scanning /\ Top.at # NoTimer
    /\ stack' = WithTop([Top EXCEPT !.at = After(@), !.seen = @ \cup {Top.at}])
    /\ UNCHANGED <<list, timer, enabled>>

Launch ==
    /\ Scanning /\ Top.at # NoTimer /\ MayRun(Top.at)
    /\ LET t == Top.at
       IN  /\ timer' = [timer EXCEPT ![t].threads = @ + 1,
                                     ![t].enabled = ~timer[t].once]
           /\ enabled' = IF timer[t].once THEN enabled - 1 ELSE enabled
           /\ stack' = WithTop([Top EXCEPT !.pc = "run",
                                           !.priority = timer[t].priority,
                                           !.seen = @ \cup {t}])
    /\ UNCHANGED list

EndPass ==
    /\ Scanning /\ Top.at = NoTimer
    /\ stack' = Front(stack)
    /\ UNCHANGED <<list, timer, enabled>>

(* One turn of the inner loop, at a timer that is not running here: go on  *)
(* with the pass, at resume, if it stays; else lock its successor and      *)
(* delete it.  timers is the array before the turn.                        *)
LockNext(timers, t) ==
    IF t = NoTimer THEN timers ELSE [timers EXCEPT ![t].locked = @ + 1]

StaysIfRunning(u) == u.enabled \/ u.threads > 0
StaysAnyway(u) == TRUE
Stays(u) == u.enabled \/ u.threads > 0 \/ u.locked > 0

Reap(timers, t, resume) ==
    IF Stays(timers[t])
      THEN /\ stack' = WithTop([Top EXCEPT !.pc = "scan", !.at = resume, !.next = NoTimer])
           /\ timer' = timers
           /\ UNCHANGED list
      ELSE /\ stack' = WithTop([Top EXCEPT !.pc = "release", !.at = t, !.next = After(t)])
           /\ timer' = LockNext(timers, After(t))
           /\ list' = Unlink(t)

(* The callback has returned.                                              *)
CallbackReturns ==
    /\ ScriptRuns /\ Top.pc = "run" /\ Top.at # NoTimer
    /\ Reap([timer EXCEPT ![Top.at].threads = @ - 1], Top.at, After(Top.at))
    /\ UNCHANGED enabled

(* Where the pass resumes at a timer that it did not delete after all: at  *)
(* that timer, which may be ready to run.                                  *)
ResumePastIt(t) == After(t)
ResumeAt(t) == t

(* The deleted timer is freed, and the __Delete of its callback has        *)
(* returned if it was called.                                              *)
Released ==
    /\ ScriptRuns /\ Top.pc = "release"
    /\ IF Top.next = NoTimer
         THEN /\ stack' = WithTop([Top EXCEPT !.pc = "scan", !.at = NoTimer])
              /\ UNCHANGED <<list, timer>>
         ELSE Reap([timer EXCEPT ![Top.next].locked = @ - 1], Top.next, ResumeAt(Top.next))
    /\ UNCHANGED enabled

-----------------------------------------------------------------------------
Next ==
    \/ \E cb \in Callbacks, period \in PeriodArgs, priority \in PriorityArgs :
          SetTimer(cb, period, priority)
    \/ \E cb \in Callbacks : StopTimer(cb)
    \/ \E priority \in Priorities : EventThread(priority)
    \/ EventThreadEnds
    \/ \E priority \in Priorities : SetPriority(priority)
    \/ CheckScriptTimers
    \/ Skip \/ Launch \/ EndPass
    \/ CallbackReturns \/ Released

Spec == Init /\ [][Next]_timerVars

-----------------------------------------------------------------------------
Frames == Range(stack)

(* The pointer a pass goes on from is to a timer that is still in the      *)
(* list, whatever the callbacks, the __Delete methods and the passes that  *)
(* interrupted them have deleted: the timer it runs, or next_timer while   *)
(* it releases one.                                                        *)
PositionIsLive ==
    \A f \in Frames :
        /\ f.pc # "release" => f.at \in Listed \cup {NoTimer}
        /\ f.pc = "release" => f.next \in Listed \cup {NoTimer}

(* No timer is forgotten in the list.  MsgSleep looks at the list only     *)
(* while mTimerEnabledCount is not zero, so that must be the number of     *)
(* enabled timers.  "Currently timers are disabled only when they can't be *)
(* deleted": a disabled one is run by a pass on the stack, or is where one *)
(* will go on, which then unlinks it.                                      *)
NoneForgotten ==
    /\ enabled = Cardinality({t \in Listed : timer[t].enabled})
    /\ \A t \in Listed :
          \/ timer[t].enabled
          \/ \E f \in Frames : f.pc = "run" /\ f.at = t
          \/ \E f \in Frames : f.pc = "release" /\ f.next = t

(* A pass has looked at every timer that is before its position in the     *)
(* list: deleting timers around it makes it skip none.  (A pass that ends  *)
(* as it releases the last timer misses those created meanwhile.)          *)
NoneSkipped ==
    \A f \in Frames : f.pc = "scan" => \A t \in Listed :
        \/ t \in f.seen
        \/ f.at # NoTimer /\ t >= f.at
        \/ f.at = NoTimer /\ \A u \in f.seen : t > u

(* However many passes and events lie between them on the stack, a timer   *)
(* does not interrupt itself, and a pass is above no thread of a higher    *)
(* priority than its own, unless script in that very pass has lowered its  *)
(* own priority below it: the pass compares the timers that are left with  *)
(* what the last timer function has made of g->Priority.                   *)
IsPass(f) == f.pc # "run" \/ f.at # NoTimer

InterruptsDuly ==
    \A d \in 2..Len(stack) : IsPass(stack[d]) =>
        /\ stack[d].priority >= stack[d - 1].priority \/ stack[d].lowered
        /\ stack[d].pc = "run" => \A e \in 1..(d - 1) :
              ~(stack[e].pc = "run" /\ stack[e].at = stack[d].at)
===============================================================================
