----------------------------- MODULE HookThread -----------------------------
(* Installing and removing the keyboard and mouse hooks (hook.cpp).  The main
   thread posts the set of hooks it wants to the hook thread, which it creates
   for the first of them, and waits up to half a second for an answer, for the
   hooks to be gone, or for the thread to exit.  SendInput and the debugger
   remove hooks for a while and restore them.  The hook thread may itself be
   waiting for the main thread, which evaluates #HotIf criteria for it.  Windows
   may fail to create the thread or to install a hook; it always removes one.   *)
EXTENDS Integers, Sequences, FiniteSets

CONSTANTS
  Threads,   \* hook threads that may exist at the same time (a bound)
  None,      \* the null handle
  MaxQueue,  \* bound: messages and replies not yet retrieved when a call begins
  MaxOpen    \* bound: handles open on a mutex when a call begins

ASSUME HookThreadAssumption ==
  None \notin Threads /\ MaxQueue \in Nat /\ MaxOpen \in Nat

Hooks == {"keybd", "mouse"}

VARIABLES
  hook,     \* g_KeybdHook, g_MouseHook: the thread that installed it, or None
  thread,   \* each hook thread: st, its queue, the message at hand and its result
  cur,      \* g_HookThreadID
  handle,   \* sThreadHandle
  replies,  \* AHK_CHANGE_HOOK_STATE messages in the main thread's queue
  mem,      \* kvk and the other tables the hook procedures read are allocated
  mutex,    \* the hooks whose sKeybdMutex, sMouseMutex is not NULL
  open,     \* handles this process has open on each mutex
  main,     \* the main thread: pc and the call of AddRemoveHooks it is in
  late,     \* history: a wait has timed out
  lame      \* history: a temporary change could not restore the hooks

vars == <<hook, thread, cur, handle, replies, mem, mutex, open, main, late, lame>>
mainVars   == <<cur, handle, mem, mutex, open, main, late, lame>>
threadVars == <<hook, thread, replies>>

Message == [want : SUBSET Hooks, perm : BOOLEAN]
Results == {"done", "problem"}
Places  == {"gone", "starting", "get", "ask", "keybd", "mouse", "answer"}

Active == {h \in Hooks : hook[h] # None}
Live   == {t \in Threads : thread[t].st # "gone"}
NoMessage == [want |-> {}, perm |-> FALSE]
Gone   == [st |-> "gone", queue |-> <<>>, msg |-> NoMessage, result |-> "done"]
Quiet  == [pc |-> "idle", then |-> "idle", want |-> {}, perm |-> TRUE, orig |-> {},
           restore |-> {}, result |-> "done"]

Init ==
  /\ hook = [h \in Hooks |-> None]
  /\ thread = [t \in Threads |-> Gone]
  /\ cur = None /\ handle = None
  /\ replies = <<>>
  /\ mem = FALSE
  /\ mutex = {} /\ open = [h \in Hooks |-> 0]
  /\ main = Quiet
  /\ late = FALSE /\ lame = FALSE

-----------------------------------------------------------------------------
(* The main thread: AddRemoveHooks. *)

WithinBounds ==
  /\ cur # None => Len(thread[cur].queue) <= MaxQueue
  /\ Len(replies) <= MaxQueue
  /\ \A h \in Hooks : open[h] <= MaxOpen

(* Its first lines: nothing to do, a thread to create, or a message to post. *)
Request(want, perm, then, restore) ==
  main' = IF want = Active
          THEN [Quiet EXCEPT !.pc = then, !.want = want]
          ELSE [pc |-> IF Active = {} /\ perm THEN "create" ELSE "post",
                then |-> then, want |-> want, perm |-> perm, orig |-> Active,
                restore |-> restore, result |-> "done"]

(* ChangeHookState, as all changes of hotkeys and of other users of the hooks end
   with it; it first allocates the tables.  InstallHook with force and AllDestruct
   call AddRemoveHooks as this does, with fewer hooks or none.                    *)
ChangeHookState(want) ==
  /\ main.pc = "idle" /\ WithinBounds
  /\ Active = {} => Live # Threads
  /\ mem' = (mem \/ want # {})
  /\ Request(want, TRUE, "idle", {})
  /\ UNCHANGED <<threadVars, cur, handle, mutex, open, late, lame>>

(* SendInput and the debugger take some of the hooks away ... *)
RemoveForNow(removed) ==
  /\ main.pc = "idle" /\ removed \cap Active # {} /\ WithinBounds
  /\ Request(Active \ removed, FALSE, "sending", Active)
  /\ UNCHANGED <<threadVars, cur, handle, mem, mutex, open, late, lame>>

(* ... and restore them. *)
Restore ==
  /\ main.pc = "sending"
  /\ Request(main.restore, FALSE, "idle", main.restore)
  /\ UNCHANGED <<threadVars, cur, handle, mem, mutex, open, late, lame>>

CreateThread(t) ==
  /\ main.pc = "create" /\ t \notin Live
  /\ thread' = [thread EXCEPT ![t] = [Gone EXCEPT !.st = "starting"]]
  /\ cur' = t /\ handle' = t
  /\ main' = [main EXCEPT !.pc = "post"]
  /\ UNCHANGED <<hook, replies, mem, mutex, open, late, lame>>

CreateThreadFails ==
  /\ main.pc = "create"
  /\ handle' = None
  /\ mem' = FALSE
  /\ main' = [Quiet EXCEPT !.result = "noThread"]
  /\ UNCHANGED <<threadVars, cur, mutex, open, late, lame>>

Reachable(t) == t \in Live /\ thread[t].st # "starting"

PostThreadMessage ==
  /\ main.pc = "post" /\ Reachable(cur)
  /\ thread' = [thread EXCEPT ![cur].queue =
                  Append(@, [want |-> main.want, perm |-> main.perm])]
  /\ main' = [main EXCEPT !.pc = "wait"]
  /\ UNCHANGED <<hook, replies, cur, handle, mem, mutex, open, late, lame>>

(* The message could not be posted in fifty attempts; the wait begins all the same. *)
PostGivenUp ==
  /\ main.pc = "post" /\ ~Reachable(cur)
  /\ main' = [main EXCEPT !.pc = "wait"]
  /\ UNCHANGED <<threadVars, cur, handle, mem, mutex, open, late, lame>>

(* Slips that the run must notice stand before the definitions they are of. *)
AddedAnyway == Active

(* The hooks whose mutex is created, or closed, when a permanent change is over. *)
Added == {h \in Active : h \notin main.orig}
Removed == {h \in mutex \cap main.orig : h \notin Active}

Return(result) ==
  /\ main' = [Quiet EXCEPT !.pc = main.then, !.want = main.want,
                           !.restore = IF main.then = "idle" THEN {} ELSE main.restore,
                           !.result = IF main.result = "done" THEN result ELSE main.result]
  /\ lame' = (lame \/ (~main.perm /\ main.then = "idle" /\ Active # main.restore))
  /\ IF main.perm
     THEN /\ mutex' = (mutex \cup Added) \ Removed
          /\ open' = [h \in Hooks |-> open[h] + (IF h \in Added THEN 1 ELSE 0)
                                              - (IF h \in Removed THEN 1 ELSE 0)]
     ELSE UNCHANGED <<mutex, open>>

(* A reply ends the wait, except that the thread exits if it has no hook at all. *)
Answered ==
  /\ main.pc = "wait" /\ main.want # {} /\ replies # <<>>
  /\ replies' = Tail(replies)
  /\ IF Head(replies) = "problem" /\ Active = {} /\ main.perm
     THEN /\ main' = [main EXCEPT !.want = {}, !.result = "problem"]
          /\ UNCHANGED <<mutex, open, lame>>
     ELSE Return(Head(replies))
  /\ UNCHANGED <<hook, thread, cur, handle, mem, late>>

HooksGoneUnseen ==
  /\ main.pc = "wait" /\ main.want = {} /\ ~main.perm
  /\ Return("done")
  /\ UNCHANGED <<threadVars, cur, handle, mem, late>>

HooksGoneAndFreed ==
  /\ main.pc = "wait" /\ main.want = {} /\ ~main.perm /\ Active = {}
  /\ Return("done")
  /\ mem' = FALSE
  /\ UNCHANGED <<threadVars, cur, handle, late>>

HooksGone ==
  /\ main.pc = "wait" /\ main.want = {} /\ ~main.perm /\ Active = {}
  /\ Return("done")
  /\ UNCHANGED <<threadVars, cur, handle, mem, late>>

ThreadGone ==
  /\ main.pc = "wait" /\ main.want = {} /\ main.perm
  /\ handle \notin Live
  /\ handle' = None
  /\ mem' = FALSE
  /\ Return("done")
  /\ UNCHANGED <<threadVars, cur, late>>

TimesOut ==
  /\ main.pc = "wait"
  /\ late' = TRUE
  /\ Return("late")
  /\ UNCHANGED <<threadVars, cur, handle, mem>>

(* A reply that comes too late for its call is lost in the next message loop,
   unless the next call takes it for its own.                                 *)
LateReply ==
  /\ main.pc = "idle" /\ replies # <<>>
  /\ replies' = Tail(replies)
  /\ UNCHANGED <<hook, thread, mainVars>>

(* SystemHasAnotherKeybdHook and its like, where no other process has the hook:
   it closes the handle it knows of and asks whether the mutex exists.         *)
SystemHasAnotherHook(h) == open[h] - (IF h \in mutex THEN 1 ELSE 0) > 0

-----------------------------------------------------------------------------
(* The hook thread: HookThreadProc. *)

Begin(t) ==
  /\ thread[t].st = "starting"
  /\ thread' = [thread EXCEPT ![t].st = "get"]
  /\ UNCHANGED <<hook, replies, mainVars>>

GetMessage(t) ==
  /\ thread[t].st = "get" /\ thread[t].queue # <<>>
  /\ thread' = [thread EXCEPT ![t] = [st |-> "keybd", queue |-> Tail(@.queue),
                                      msg |-> Head(@.queue), result |-> "done"]]
  /\ UNCHANGED <<hook, replies, mainVars>>

(* The keyboard hook is brought into the wanted state, then the mouse hook. *)
SetHook(t, h) ==
  /\ thread[t].st = h
  /\ \E ok \in BOOLEAN :
       LET install == h \in thread[t].msg.want /\ hook[h] = None
       IN /\ ok \/ install
          /\ hook' = [hook EXCEPT ![h] = IF h \notin thread[t].msg.want THEN None
                                         ELSE IF install /\ ok THEN t ELSE @]
          /\ thread' = [thread EXCEPT ![t].st = IF h = "keybd" THEN "mouse" ELSE "answer",
                                      ![t].result = IF ok THEN @ ELSE "problem"]
  /\ UNCHANGED <<replies, mainVars>>

MayExitKeybdOnly(t) == thread[t].msg.perm /\ hook["keybd"] = None
MayExit(t) == thread[t].msg.perm /\ Active = {}

(* The reply, which a thread that is to remove both hooks does not send, and the exit. *)
Answer(t) ==
  /\ thread[t].st = "answer"
  /\ replies' = IF thread[t].msg.want # {} THEN Append(replies, thread[t].result) ELSE replies
  /\ thread' = [thread EXCEPT ![t] = IF MayExit(t) THEN Gone
                                      ELSE [Gone EXCEPT !.st = "get", !.queue = thread[t].queue]]
  /\ UNCHANGED <<hook, mainVars>>

(* A hook procedure asks the main thread to evaluate a criterion: SendMessageTimeout. *)
AskCriterion(t) ==
  /\ thread[t].st = "get" /\ \E h \in Hooks : hook[h] = t
  /\ thread' = [thread EXCEPT ![t].st = "ask"]
  /\ UNCHANGED <<hook, replies, mainVars>>

(* A sent message is received only where the main thread calls PeekMessage. *)
CriterionEvaluated(t) ==
  /\ thread[t].st = "ask"
  /\ main.pc = "idle" \/ (main.pc = "wait" /\ main.want # {})
  /\ thread' = [thread EXCEPT ![t].st = "get"]
  /\ UNCHANGED <<hook, replies, mainVars>>

CriterionTimesOut(t) ==
  /\ thread[t].st = "ask"
  /\ thread' = [thread EXCEPT ![t].st = "get"]
  /\ UNCHANGED <<hook, replies, mainVars>>

-----------------------------------------------------------------------------
Next ==
  \/ \E hooks \in SUBSET Hooks : ChangeHookState(hooks) \/ RemoveForNow(hooks)
  \/ Restore
  \/ \E t \in Threads : CreateThread(t)
  \/ CreateThreadFails
  \/ PostThreadMessage \/ PostGivenUp
  \/ Answered \/ HooksGone \/ ThreadGone \/ TimesOut \/ LateReply
  \/ \E t \in Threads : \/ Begin(t) \/ GetMessage(t) \/ Answer(t)
                        \/ AskCriterion(t) \/ CriterionEvaluated(t) \/ CriterionTimesOut(t)
  \/ \E t \in Threads, h \in Hooks : SetHook(t, h)

Spec == Init /\ [][Next]_vars

-----------------------------------------------------------------------------
(* Every variable has its type. *)
TypeOK ==
  /\ hook \in [Hooks -> Threads \cup {None}]
  /\ thread \in [Threads -> [st : Places, queue : Seq(Message), msg : Message,
                             result : Results]]
  /\ cur \in Threads \cup {None} /\ handle \in Threads \cup {None}
  /\ replies \in Seq(Results)
  /\ mem \in BOOLEAN /\ late \in BOOLEAN /\ lame \in BOOLEAN
  /\ mutex \subseteq Hooks /\ open \in [Hooks -> Nat]
  /\ main \in [pc : {"idle", "create", "post", "wait", "sending"},
               then : {"idle", "sending"}, want : SUBSET Hooks, perm : BOOLEAN,
               orig : SUBSET Hooks, restore : SUBSET Hooks,
               result : {"done", "problem", "late", "noThread"}]

(* A call that returns without a complaint leaves exactly the hooks it was asked
   for, as long as no wait has timed out: callers such as the InputHook rely on it. *)
InEffect ==
  main.pc = "idle" /\ main.result = "done" /\ ~late => Active = main.want

(* The hook procedures never read tables that have been freed, or are not allocated. *)
TablesWhileHooked == Active # {} /\ ~late => mem

(* An installed hook has a thread that serves it, whatever times out or fails:
   otherwise Windows would wait for it at every key.                           *)
HookServed == \A h \in Active : hook[h] \in Live

(* Between two calls other instances see this one's hooks by the mutexes, and this
   one does not take itself for another instance, which would cost it SendInput.   *)
MutexesTell ==
  main.pc = "idle" /\ ~late /\ ~lame =>
    \A h \in Hooks : (open[h] > 0 <=> h \in Active) /\ ~SystemHasAnotherHook(h)
=============================================================================
