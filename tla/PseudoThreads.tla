---------------------------- MODULE PseudoThreads ----------------------------
(***************************************************************************)
(* The script's quasi-threads: g_array with the pointer g into it,         *)
(* g_nThreads, g_nPausedThreads, g_AllowInterruption and                   *)
(* g_OnExitIsRunning, as InitNewThread, ResumeUnderlyingThread             *)
(* (source/application.cpp), AutoExecSection, ExitApp, the Pause family    *)
(* (source/script.cpp), the tray's Pause item (source/script2.cpp) and the *)
(* callbacks of CallbackCreate (source/lib/CCallback.cpp) change them.     *)
(*                                                                         *)
(* All of it is on one OS thread: a quasi-thread is launched from the      *)
(* message pump of the one under it, which waits until it has ended.  The  *)
(* calls under way form a stack, and only the top one moves.  A fast       *)
(* callback is on the stack but has no element of g_array of its own.      *)
(*                                                                         *)
(* Indices of g_array are the code's, from 0.  Abstracted to a choice:     *)
(* messages that arrive, and what can only put a launch off (priorities,   *)
(* Critical, the uninterruptible period of a new thread, NoTimers,         *)
(* per-hotkey limits, a visible menu).                                     *)
(***************************************************************************)
EXTENDS Integers, Sequences, FiniteSets, SequencesExt

CONSTANTS
    MaxThreads,   \* g_MaxThreadsTotal
    MaxCalls,     \* bound: calls on the stack
    MaxPaused     \* bound: a thread is paused only while g_nPausedThreads is below it

ASSUME PseudoThreadAssumption ==
    MaxThreads \in Nat \ {0} /\ MaxCalls \in Nat /\ MaxPaused \in Nat

VARIABLES
    calls,              \* the calls under way, the idle or auto-execute one first
    g,                  \* g - g_array
    paused,             \* g_array[i].IsPaused
    nThreads, nPaused,  \* g_nThreads, g_nPausedThreads
    allowInterruption,  \* g_AllowInterruption
    onExitRunning,      \* g_OnExitIsRunning
    terminated          \* TerminateApp was called

counters == <<g, paused, nThreads, nPaused>>
ptVars == <<calls, counters, allowInterruption, onExitRunning, terminated>>

(* g_array has g_MaxThreadsTotal + TOTAL_ADDITIONAL_THREADS elements.      *)
AdditionalThreads == 2
Slots == 0..(MaxThreads + AdditionalThreads - 1)

(* What a call is for, the element of g_array its functions refer to,      *)
(* where it is ("line": in a line after which ExecUntil will look at       *)
(* IsPaused; "check": looking at it; "last": in its last line, which it    *)
(* leaves by return, throw, Exit or ExitApp), what it waits in, and what   *)
(* ExitApp or a fast callback has saved: g_AllowInterruption_prev,         *)
(* pause_after_execute.                                                    *)
Kinds == {"idle", "auto", "event", "timer", "emergency", "exit", "fast"}
Call == [kind : Kinds, slot : Nat, at : {"line", "check", "last"},
         inside : {"script", "pause", "send"}, saved : BOOLEAN]

TypeOK ==
    /\ calls \in Seq(Call) /\ calls # <<>>
    /\ g \in Slots
    /\ paused \in [Slots -> BOOLEAN]
    /\ nThreads \in Nat /\ nPaused \in Int
    /\ {allowInterruption, onExitRunning, terminated} \subseteq BOOLEAN

NewCall(kind, slot, saved) ==
    [kind |-> kind, slot |-> slot, at |-> "line", inside |-> "script", saved |-> saved]

(* AutoExecSection has counted its thread, which uses g_array[0].          *)
Init ==
    /\ calls = <<NewCall("auto", 0, FALSE)>>
    /\ g = 0 /\ paused = [s \in Slots |-> FALSE]
    /\ nThreads = 1 /\ nPaused = 0
    /\ allowInterruption = TRUE /\ onExitRunning = FALSE /\ terminated = FALSE

Top == calls[Len(calls)]
WithTop(call) == [calls EXCEPT ![Len(calls)] = call]
InScript == Top.kind # "idle" /\ Top.inside = "script"

-----------------------------------------------------------------------------
(* Launching a thread.                                                     *)

(* InitNewThread for an element of its own.                                *)
ClearState(s) == [paused EXCEPT ![s] = FALSE]

InitNewThread(kind, saved) ==
    /\ Len(calls) < MaxCalls
    /\ nThreads' = nThreads + 1
    /\ g' = g + 1
    /\ paused' = ClearState(g + 1)
    /\ calls' = Append(calls, NewCall(kind, g + 1, saved))
    /\ UNCHANGED nPaused

RoomAtLimit == nThreads <= MaxThreads                 \* mutant: > for >=
Room == nThreads < MaxThreads

(* MsgSleep: a hotkey, hotstring, menu item, GUI event, clipboard change   *)
(* or InputHook event.  The message is only taken while IsInterruptible.   *)
LaunchEvent ==
    /\ Room /\ allowInterruption
    /\ InitNewThread("event", FALSE)
    /\ UNCHANGED <<allowInterruption, onExitRunning, terminated>>

(* CheckScriptTimers launches its first timer.                             *)
NonePaused == ~(nPaused > 0)

LaunchTimer ==
    /\ NonePaused /\ Room /\ allowInterruption
    /\ InitNewThread("timer", FALSE)
    /\ UNCHANGED <<allowInterruption, onExitRunning, terminated>>

(* OnMessage monitors, callbacks that want a thread, #HotIf, WM_NOTIFY:    *)
(* these do not ask whether the thread under them is interruptible (the    *)
(* last asks for g_AllowInterruption).                                     *)
LaunchEmergency ==
    /\ Room
    /\ InitNewThread("emergency", FALSE)
    /\ UNCHANGED <<allowInterruption, onExitRunning, terminated>>

-----------------------------------------------------------------------------
(* Ending one.                                                             *)

AtLast == Top.inside = "script" /\ Top.at = "last"

KeepPointer == g                                      \* mutant: forgets --g
UnderlyingG == g - 1

ResumeUnderlyingThread ==
    /\ nThreads' = nThreads - 1
    /\ g' = UnderlyingG
    /\ UNCHANGED <<paused, nPaused>>

ThreadEnds ==
    /\ AtLast /\ Top.kind \in {"event", "timer", "emergency"}
    /\ ResumeUnderlyingThread
    /\ calls' = Front(calls)
    /\ UNCHANGED <<allowInterruption, onExitRunning, terminated>>

(* The next timer of a pass, or the next function of a MsgMonitorList,     *)
(* runs in the same thread: InitNewThread resets the element.              *)
NextFunction ==
    /\ AtLast /\ Top.kind \notin {"auto", "fast"}
    /\ paused' = ClearState(g)
    /\ calls' = WithTop([Top EXCEPT !.at = "line"])
    /\ UNCHANGED <<g, nThreads, nPaused, allowInterruption, onExitRunning, terminated>>

(* The auto-execute thread ends; its element is the idle thread's.         *)
AutoExecEnds ==
    /\ AtLast /\ Top.kind = "auto"
    /\ nThreads' = nThreads - 1
    /\ calls' = <<NewCall("idle", 0, FALSE)>>
    /\ UNCHANGED <<g, paused, nPaused, allowInterruption, onExitRunning, terminated>>

-----------------------------------------------------------------------------
(* ExitApp, called by the script, the tray, the end of the session, or     *)
(* when no thread and nothing else keeps the script running.               *)

TerminateApp ==
    /\ terminated' = TRUE
    /\ allowInterruption' = FALSE
    /\ paused' = [paused EXCEPT ![g] = FALSE]
    /\ UNCHANGED <<g, nThreads, nPaused, onExitRunning>>

(* No OnExit function is registered, or one is running.                    *)
ExitNow == TerminateApp /\ UNCHANGED calls

AlwaysRunOnExit == TRUE                               \* mutant: forgets g_OnExitIsRunning
MayRunOnExit == ~onExitRunning

ExitApp ==
    /\ MayRunOnExit
    /\ InitNewThread("exit", allowInterruption)
    /\ allowInterruption' = FALSE
    /\ onExitRunning' = TRUE
    /\ UNCHANGED terminated

(* The OnExit function refuses.  EARLY_EXIT ends the thread that called    *)
(* ExitApp, if one did.                                                    *)
LeaveInterruption == FALSE                            \* mutant: not restored
RestoredInterruption == Top.saved

ExitRefused ==
    /\ AtLast /\ Top.kind = "exit"
    /\ allowInterruption' = RestoredInterruption
    /\ ResumeUnderlyingThread
    /\ onExitRunning' = FALSE
    /\ LET rest  == Front(calls)
           under == rest[Len(rest)]
       IN  \/ calls' = rest
           \/ /\ under.kind # "idle" /\ under.inside = "script"
              /\ calls' = [rest EXCEPT ![Len(rest)].at = "last"]
    /\ UNCHANGED terminated

ExitAgreed ==
    /\ AtLast /\ Top.kind = "exit"
    /\ TerminateApp /\ UNCHANGED calls

-----------------------------------------------------------------------------
(* Fast callbacks.                                                         *)

Mark(slot, value) == paused' = [paused EXCEPT ![slot] = value]

FastCallback ==
    /\ Len(calls) < MaxCalls
    /\ calls' = Append(calls, NewCall("fast", g, paused[g]))
    /\ Mark(g, FALSE)
    /\ nPaused' = IF paused[g] THEN nPaused - 1 ELSE nPaused
    /\ UNCHANGED <<g, nThreads, allowInterruption, onExitRunning, terminated>>

UncountedAgain == nPaused                             \* mutant: forgets ++g_nPausedThreads
CountedAgain == IF Top.saved THEN nPaused + 1 ELSE nPaused

FastCallbackEnds ==
    /\ AtLast /\ Top.kind = "fast"
    /\ paused' = IF Top.saved THEN [paused EXCEPT ![g] = TRUE] ELSE paused
    /\ nPaused' = CountedAgain
    /\ calls' = Front(calls)
    /\ UNCHANGED <<g, nThreads, allowInterruption, onExitRunning, terminated>>

-----------------------------------------------------------------------------
(* Lines of script.                                                        *)

LineEnds ==
    /\ InScript /\ Top.at = "line"
    /\ calls' = WithTop([Top EXCEPT !.at = "check"])
    /\ UNCHANGED <<counters, allowInterruption, onExitRunning, terminated>>

(* while (g.IsPaused) of ExecUntil has ended.                              *)
NextLine(at) ==
    /\ InScript /\ Top.at = "check" /\ ~paused[Top.slot]
    /\ calls' = WithTop([Top EXCEPT !.at = at])
    /\ UNCHANGED <<counters, allowInterruption, onExitRunning, terminated>>

(* Pause(): PauseCurrentThread.                                            *)
PauseCurrentThread ==
    /\ InScript /\ Top.at # "check" /\ nPaused < MaxPaused
    /\ Mark(Top.slot, TRUE)
    /\ nPaused' = nPaused + 1
    /\ calls' = WithTop([Top EXCEPT !.inside = "pause"])
    /\ UNCHANGED <<g, nThreads, allowInterruption, onExitRunning, terminated>>

PauseOver ==
    /\ Top.inside = "pause" /\ ~paused[Top.slot]
    /\ calls' = WithTop([Top EXCEPT !.inside = "script"])
    /\ UNCHANGED <<counters, allowInterruption, onExitRunning, terminated>>

(* Pause(1), Pause(0), Pause(-1): PauseUnderlyingThread.                   *)
PauseUnderlyingThread(new) ==
    /\ InScript /\ Top.at # "check"
    /\ g > 0 /\ paused[g - 1] # new
    /\ new => nPaused < MaxPaused
    /\ Mark(g - 1, new)
    /\ nPaused' = IF new THEN nPaused + 1 ELSE nPaused - 1
    /\ UNCHANGED <<calls, g, nThreads, allowInterruption, onExitRunning, terminated>>

(* The Pause item of the tray menu or of the main window.                  *)
TrayPause ==
    /\ ~paused[g] => nPaused < MaxPaused
    /\ nPaused' = IF paused[g] THEN nPaused - 1 ELSE nPaused + 1
    /\ Mark(g, ~paused[g])
    /\ UNCHANGED <<calls, g, nThreads, allowInterruption, onExitRunning, terminated>>

(* SLEEP_WITHOUT_INTERRUPTION and the two dialogs that do the same.        *)
SleepWithoutInterruption ==
    /\ InScript /\ Top.at # "check"
    /\ calls' = WithTop([Top EXCEPT !.inside = "send"])
    /\ allowInterruption' = FALSE
    /\ UNCHANGED <<counters, onExitRunning, terminated>>

SleepOver ==
    /\ Top.inside = "send"
    /\ calls' = WithTop([Top EXCEPT !.inside = "script"])
    /\ allowInterruption' = TRUE
    /\ UNCHANGED <<counters, onExitRunning, terminated>>

-----------------------------------------------------------------------------
Launch == LaunchEvent \/ LaunchTimer \/ LaunchEmergency \/ ExitApp \/ FastCallback
Finish == ThreadEnds \/ NextFunction \/ AutoExecEnds \/ ExitRefused \/ ExitAgreed
          \/ FastCallbackEnds \/ ExitNow
Lines == LineEnds \/ NextLine("line") \/ NextLine("last")
         \/ SleepWithoutInterruption \/ SleepOver
Pausing == PauseCurrentThread \/ PauseOver \/ TrayPause
           \/ \E new \in BOOLEAN : PauseUnderlyingThread(new)

Next == ~terminated /\ (Launch \/ Finish \/ Lines \/ Pausing)

Spec == Init /\ [][Next]_ptVars

-----------------------------------------------------------------------------
(* Properties.                                                             *)

Depths(kind) == {d \in 1..Len(calls) : calls[d].kind = kind}

(* Whenever a call goes on, after any number of threads and callbacks      *)
(* above it, ::g points where it did when the call began, so that the      *)
(* references to *g its functions hold are to the current thread; and      *)
(* g_nThreads counts the elements in use, leaving the idle thread out.     *)
CountersFollowCalls ==
    /\ Top.slot = g
    /\ \A d \in 2..Len(calls) :
         calls[d].slot = calls[d - 1].slot + (IF calls[d].kind = "fast" THEN 0 ELSE 1)
    /\ nThreads = g + (IF calls[1].kind = "auto" THEN 1 ELSE 0)

(* script.h:39: the two additional elements of g_array are for the         *)
(* idle thread "and one so that ExitApp() can run even when #MaxThreads    *)
(* has been reached": the limit is passed only above an OnExit thread, by  *)
(* one thread, and g_array is long enough.                                 *)
ThreadLimit ==
    /\ g \in Slots
    /\ nThreads <= MaxThreads + (IF Depths("exit") = {} THEN 0 ELSE 1)

(* At most one OnExit thread runs, and g_OnExitIsRunning tells whether it  *)
(* does, although OnExit functions call ExitApp, and threads above them.   *)
OneOnExit ==
    /\ \A d, e \in Depths("exit") : d = e
    /\ onExitRunning <=> Depths("exit") # {}

(* The script never stays uninterruptible: g_AllowInterruption is FALSE    *)
(* only while a call on the stack, or an OnExit thread, will set it again. *)
InterruptionComesBack ==
    ~allowInterruption =>
        \/ terminated \/ Depths("exit") # {}
        \/ \E d \in 1..Len(calls) : calls[d].inside = "send"

PausedSlots == {s \in 0..g : paused[s]}

(* No paused thread is missing from g_nPausedThreads, whoever has paused   *)
(* and unpaused which thread in whatever order: the counter is at least    *)
(* the number of paused threads.                                           *)
PausedCounted == ~terminated => nPaused >= Cardinality(PausedSlots)
=============================================================================
