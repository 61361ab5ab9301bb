-------------------------- MODULE HookThreadProofs --------------------------
(* Proofs about HookThread: its types, and its four safety invariants, for any
   number of threads and whatever times out, is not created or not installed.
   The invariants that speak of a program in which nothing has been late rest on
   Steady, which follows one call of AddRemoveHooks from the message it posts to
   the answer.                                                                  *)
EXTENDS HookThread, TLAPS

Calling == main.pc \in {"create", "post", "wait"}
Asked   == [want |-> main.want, perm |-> main.perm]

(* The hook thread waits for messages, or for the main thread, and has none. *)
Ready(t) == thread[t].st \in {"get", "ask"} /\ thread[t].queue = <<>>
Rest == cur \in Live => Ready(cur)

(* It has not begun yet. *)
Starting == cur \in Live /\ thread[cur].st = "starting" /\ thread[cur].queue = <<>>

(* It has removed both hooks for a while but not come back to its queue, although
   the main thread has gone on.                                                 *)
Leaving == /\ cur \in Live /\ thread[cur].st \in {"mouse", "answer"}
           /\ thread[cur].msg = NoMessage /\ thread[cur].result = "done" /\ Active = {}

(* The stages of a call that waits. *)
Posted ==
  /\ cur \in Live /\ thread[cur].queue = <<Asked>> /\ replies = <<>>
  /\ main.want = {} => Active # {}
  /\ thread[cur].st \in {"get", "ask"} \/ (Leaving /\ ~main.perm)
Working ==
  /\ cur \in Live /\ thread[cur].queue = <<>> /\ replies = <<>>
  /\ thread[cur].st \in {"keybd", "mouse", "answer"} /\ thread[cur].msg = Asked
  /\ thread[cur].result = "problem" => main.want # {}
  /\ thread[cur].st = "keybd" /\ main.want = {} => Active # {}
  /\ thread[cur].st = "mouse" =>
       thread[cur].result = "problem" \/ ("keybd" \in Active <=> "keybd" \in main.want)
  /\ thread[cur].st = "answer" => thread[cur].result = "problem" \/ Active = main.want
Replied ==
  /\ main.want # {} /\ Rest /\ (main.perm /\ Active = {} => cur \notin Live)
  /\ \E p \in Results : replies = <<p>> /\ (p = "problem" \/ Active = main.want)
Removed0 ==
  /\ main.want = {} /\ replies = <<>> /\ Active = {} /\ Rest
  /\ main.perm => cur \notin Live
GivenUp == main.want # {} /\ replies = <<>> /\ (Rest \/ Starting)

(* All hooks are of the current thread, which the handle belongs to, and no other
   thread has anything to do.                                                   *)
OneThread ==
  /\ \A t \in Live : t # cur => Ready(t)
  /\ \A h \in Active : hook[h] = cur
  /\ Active # {} => handle = cur /\ cur \in Live /\ thread[cur].st # "starting"
  /\ main.pc \in {"post", "wait", "sending"} => handle = cur

(* What each place of the main thread says about the hook thread. *)
Stage ==
  /\ main.pc \in {"idle", "create"} => replies = <<>> /\ Rest
  /\ main.pc = "create" => Active = {}
  /\ main.pc = "sending" =>
       replies = <<>> /\ (Rest \/ (Leaving /\ thread[cur].queue = <<>>))
  /\ main.pc = "post" =>
       /\ replies = <<>> /\ (main.want = {} => Active # {})
       /\ \/ Rest
          \/ Leaving /\ thread[cur].queue = <<>> /\ ~main.perm
          \/ Starting
  /\ main.pc = "wait" => Posted \/ Working \/ Replied \/ Removed0 \/ GivenUp

(* A permanent change is not part of a temporary one, which restores some hooks at
   last; a call that creates a thread wants the first hooks.                     *)
Call ==
  /\ Calling /\ main.perm => main.then = "idle"
  /\ main.pc = "create" => main.perm /\ main.want # {} /\ main.orig = {}
  /\ main.pc = "sending" \/ (Calling /\ ~main.perm) => main.restore # {}
  /\ Calling /\ ~main.perm /\ main.then = "idle" => main.want = main.restore

(* The tables are there while they are used or will be. *)
Tables ==
  /\ Active # {} => mem
  /\ main.pc = "sending" => mem
  /\ Calling /\ (main.want # {} \/ ~main.perm) => mem

(* The mutexes of the hooks that are installed, or will be again. *)
Mutexes ==
  ~lame =>
    /\ mutex = IF main.pc = "idle" THEN Active
               ELSE IF Calling /\ main.perm THEN main.orig ELSE main.restore
    /\ open = [h \in Hooks |-> IF h \in mutex THEN 1 ELSE 0]

InForce == main.pc = "idle" /\ main.result = "done" => Active = main.want

Steady == OneThread /\ Stage /\ Call /\ Tables /\ Mutexes /\ InForce

(* A mutex that is known has an open handle. *)
Opened == \A h \in mutex : open[h] > 0

IInv == TypeOK /\ Opened /\ HookServed /\ (~late => Steady)

-----------------------------------------------------------------------------
(* Types. *)

ThreadState == [st : Places, queue : Seq(Message), msg : Message, result : Results]
CallState ==
  [pc : {"idle", "create", "post", "wait", "sending"},
   then : {"idle", "sending"}, want : SUBSET Hooks, perm : BOOLEAN,
   orig : SUBSET Hooks, restore : SUBSET Hooks,
   result : {"done", "problem", "late", "noThread"}]

(* What a thread and the main thread are when nothing is under way. *)
LEMMA Constants == Gone \in ThreadState /\ Quiet \in CallState /\ Active \subseteq Hooks
BY DEF Gone, Quiet, ThreadState, CallState, Places, Results, NoMessage, Message, Active

(* The initial state has its types. *)
LEMMA InitTypes == Init => TypeOK
<1> SUFFICES ASSUME Init PROVE TypeOK
  OBVIOUS
<1>1. thread \in [Threads -> ThreadState] /\ main \in CallState
  BY Constants DEF Init
<1>h. hook \in [Hooks -> Threads \cup {None}]
  BY DEF Init
<1>r. replies \in Seq(Results)
  BY DEF Init
<1>2. /\ cur \in Threads \cup {None} /\ handle \in Threads \cup {None}
      /\ mem \in BOOLEAN /\ late \in BOOLEAN /\ lame \in BOOLEAN
      /\ mutex \subseteq Hooks
  BY DEF Init
<1>o. open \in [Hooks -> Nat]
  BY DEF Init
<1>3. QED
  BY <1>1, <1>h, <1>r, <1>2, <1>o DEF TypeOK, ThreadState, CallState

(* What the first lines of AddRemoveHooks leave in the call. *)
LEMMA RequestTypes ==
  ASSUME TypeOK, NEW want \in SUBSET Hooks, NEW perm \in BOOLEAN,
         NEW then \in {"idle", "sending"}, NEW restore \in SUBSET Hooks,
         Request(want, perm, then, restore)
  PROVE  main' \in CallState
BY Constants DEF Request, CallState, Quiet

(* What the end of AddRemoveHooks does to the call and to the mutexes: a handle is
   closed only where one is open.                                               *)
LEMMA ReturnTypes ==
  ASSUME TypeOK, Opened, NEW result \in {"done", "problem", "late"}, Return(result)
  PROVE  /\ main' \in CallState /\ lame' \in BOOLEAN
         /\ mutex' \subseteq Hooks /\ open' \in [Hooks -> Nat]
         /\ \A h \in mutex' : open'[h] > 0
<1> Active \subseteq Hooks
  BY Constants
<1>1. main' \in CallState
  BY DEF Return, TypeOK, CallState, Quiet
<1>2. lame' \in BOOLEAN
  BY DEF Return, TypeOK
<1>3. CASE main.perm
  <2> Added \cap Removed = {} /\ Removed \subseteq mutex /\ Added \subseteq Hooks
    BY DEF Added, Removed
  <2>1. mutex' \subseteq Hooks /\ DOMAIN open' = Hooks
    BY <1>3 DEF Return, TypeOK
  <2>2. \A h \in Hooks : open'[h] = open[h] + (IF h \in Added THEN 1 ELSE 0)
                                            - (IF h \in Removed THEN 1 ELSE 0)
    BY <1>3 DEF Return
  <2>3. ASSUME NEW h \in Hooks PROVE open'[h] \in Nat
    <3>1. open[h] \in Nat /\ (h \in Removed => open[h] > 0)
      BY DEF TypeOK, Opened
    <3>2. QED
      BY <2>2, <3>1
  <2>4. open' \in [Hooks -> Nat]
    BY <1>3, <2>3 DEF Return
  <2>5. \A h \in mutex' : open'[h] > 0
    BY <1>3, <2>2 DEF Return, TypeOK, Opened
  <2>6. QED
    BY <1>1, <1>2, <2>1, <2>4, <2>5
<1>4. CASE ~main.perm
  BY <1>1, <1>2, <1>4 DEF Return, TypeOK, Opened
<1>5. QED
  BY <1>3, <1>4

(* Every step keeps the types, and that a mutex that is known has an open handle. *)
LEMMA NextTypes == TypeOK /\ Opened /\ [Next]_vars => TypeOK' /\ Opened'
<1> SUFFICES ASSUME TypeOK, Opened, [Next]_vars PROVE TypeOK' /\ Opened'
  OBVIOUS
<1> Active \subseteq Hooks /\ Gone \in ThreadState /\ Quiet \in CallState
  BY Constants
<1> USE DEF threadVars, mainVars
<1>a. main \in CallState /\ thread \in [Threads -> ThreadState]
  BY DEF TypeOK, CallState, ThreadState
<1>b. ASSUME NEW t \in Threads, NEW s \in ThreadState, thread' = [thread EXCEPT ![t] = s],
             main' = main, UNCHANGED <<cur, handle, mem, mutex, open, late, lame>>,
             hook' \in [Hooks -> Threads \cup {None}], replies' \in Seq(Results)
      PROVE  TypeOK' /\ Opened'
  <2>1. thread' \in [Threads -> ThreadState]
    BY <1>a, <1>b
  <2>2. QED
    BY <1>b, <2>1 DEF TypeOK, Opened, ThreadState
<1>c. ASSUME UNCHANGED <<hook, thread>>, main' \in CallState, replies' \in Seq(Results),
             cur' \in Threads \cup {None}, handle' \in Threads \cup {None},
             mem' \in BOOLEAN, late' \in BOOLEAN, lame' \in BOOLEAN,
             mutex' \subseteq Hooks, open' \in [Hooks -> Nat],
             \A h \in mutex' : open'[h] > 0
      PROVE  TypeOK' /\ Opened'
  BY <1>c DEF TypeOK, Opened, CallState
<1>1. ASSUME NEW hooks \in SUBSET Hooks, ChangeHookState(hooks) PROVE TypeOK' /\ Opened'
  <2>1. main' \in CallState
    <3> DEFINE none == {}
    <3>1. none \in SUBSET Hooks /\ Request(hooks, TRUE, "idle", none)
      BY <1>1 DEF ChangeHookState
    <3>2. QED
      BY <3>1, RequestTypes
  <2>2. QED
    BY <1>1, <1>c, <2>1 DEF ChangeHookState, TypeOK, Opened
<1>2. ASSUME NEW hooks \in SUBSET Hooks, RemoveForNow(hooks) PROVE TypeOK' /\ Opened'
  <2>1. main' \in CallState
    BY <1>2, RequestTypes DEF RemoveForNow
  <2>2. QED
    BY <1>2, <1>c, <2>1 DEF RemoveForNow, TypeOK, Opened
<1>3. ASSUME Restore PROVE TypeOK' /\ Opened'
  <2>1. main' \in CallState
    BY <1>3, <1>a, RequestTypes DEF Restore, CallState
  <2>2. QED
    BY <1>3, <1>c, <2>1 DEF Restore, TypeOK, Opened
<1>4. ASSUME NEW t \in Threads, CreateThread(t) PROVE TypeOK' /\ Opened'
  <2>1. [Gone EXCEPT !.st = "starting"] \in ThreadState
    BY DEF ThreadState, Places, Results
  <2>2. thread' \in [Threads -> ThreadState]
    BY <1>4, <1>a, <2>1 DEF CreateThread
  <2>3. main' \in CallState
    BY <1>4, <1>a DEF CreateThread, CallState
  <2>4. QED
    BY <1>4, <2>2, <2>3 DEF CreateThread, TypeOK, Opened, ThreadState, CallState
<1>5. ASSUME CreateThreadFails PROVE TypeOK' /\ Opened'
  <2>1. main' \in CallState
    BY <1>5 DEF CreateThreadFails, CallState
  <2>2. QED
    BY <1>5, <1>c, <2>1 DEF CreateThreadFails, TypeOK, Opened
<1>6. ASSUME PostThreadMessage PROVE TypeOK' /\ Opened'
  <2>1. cur \in Threads /\ [want |-> main.want, perm |-> main.perm] \in Message
    BY <1>6, <1>a DEF PostThreadMessage, Reachable, Live, CallState, Message
  <2> DEFINE m == [want |-> main.want, perm |-> main.perm]
  <2>a. thread[cur].queue \in Seq(Message) /\ m \in Message
    BY <1>a, <2>1 DEF ThreadState
  <2>b. Append(thread[cur].queue, m) \in Seq(Message)
    BY <2>a
  <2>2. [thread[cur] EXCEPT !.queue = Append(thread[cur].queue, m)] \in ThreadState
    BY <1>a, <2>1, <2>b DEF ThreadState
  <2>3. thread' \in [Threads -> ThreadState]
    BY <1>6, <1>a, <2>1, <2>2 DEF PostThreadMessage
  <2>4. main' \in CallState
    BY <1>6, <1>a DEF PostThreadMessage, CallState
  <2>5. QED
    BY <1>6, <2>3, <2>4 DEF PostThreadMessage, TypeOK, Opened, ThreadState, CallState
<1>7. ASSUME PostGivenUp PROVE TypeOK' /\ Opened'
  <2>1. main' \in CallState
    BY <1>7, <1>a DEF PostGivenUp, CallState
  <2>2. QED
    BY <1>7, <1>c, <2>1 DEF PostGivenUp, TypeOK, Opened
<1>8. ASSUME Answered PROVE TypeOK' /\ Opened'
  <2>1. replies' \in Seq(Results)
    BY <1>8 DEF Answered, TypeOK
  <2>2. CASE Return("problem") \/ Return("done")
    BY <1>8, <1>c, <2>1, <2>2, ReturnTypes DEF Answered, TypeOK, Opened
  <2>3. CASE /\ main' = [main EXCEPT !.want = {}, !.result = "problem"]
             /\ UNCHANGED <<mutex, open, lame>>
    <3>1. main' \in CallState
      BY <1>a, <2>3 DEF CallState
    <3>2. QED
      BY <1>8, <1>c, <2>1, <2>3, <3>1 DEF Answered, TypeOK, Opened
  <2>4. Head(replies) \in {"problem", "done"}
    BY <1>8 DEF Answered, TypeOK, Results
  <2>5. CASE Head(replies) = "problem" /\ Active = {} /\ main.perm
    BY <1>8, <2>3, <2>5 DEF Answered
  <2>6. CASE ~(Head(replies) = "problem" /\ Active = {} /\ main.perm)
    BY <1>8, <2>2, <2>4, <2>6 DEF Answered
  <2>7. QED
    BY <2>5, <2>6
<1>9. ASSUME HooksGone PROVE TypeOK' /\ Opened'
  BY <1>9, <1>c, ReturnTypes DEF HooksGone, TypeOK
<1>10. ASSUME ThreadGone PROVE TypeOK' /\ Opened'
  BY <1>10, <1>c, ReturnTypes DEF ThreadGone, TypeOK
<1>11. ASSUME TimesOut PROVE TypeOK' /\ Opened'
  BY <1>11, <1>c, ReturnTypes DEF TimesOut, TypeOK
<1>12. ASSUME LateReply PROVE TypeOK' /\ Opened'
  <2>1. replies' \in Seq(Results)
    BY <1>12 DEF LateReply, TypeOK
  <2>2. QED
    BY <1>12, <1>a, <1>c, <2>1 DEF LateReply, TypeOK, Opened
<1>13. ASSUME NEW t \in Threads,
              \/ Begin(t) \/ AskCriterion(t) \/ CriterionEvaluated(t) \/ CriterionTimesOut(t)
       PROVE TypeOK' /\ Opened'
  <2>1. PICK p \in Places : thread' = [thread EXCEPT ![t] = [thread[t] EXCEPT !.st = p]]
    BY <1>13 DEF Begin, AskCriterion, CriterionEvaluated, CriterionTimesOut, Places
  <2>2. [thread[t] EXCEPT !.st = p] \in ThreadState
    BY <1>a DEF ThreadState
  <2>3. QED
    BY <1>13, <1>b, <2>1, <2>2
       DEF Begin, AskCriterion, CriterionEvaluated, CriterionTimesOut, TypeOK
<1>14. ASSUME NEW t \in Threads, GetMessage(t) PROVE TypeOK' /\ Opened'
  <2>1. thread[t].queue \in Seq(Message) /\ thread[t].queue # <<>>
    BY <1>14, <1>a DEF GetMessage, ThreadState
  <2>2. [st |-> "keybd", queue |-> Tail(thread[t].queue), msg |-> Head(thread[t].queue),
         result |-> "done"] \in ThreadState
    BY <2>1 DEF ThreadState, Places, Results
  <2>3. QED
    BY <1>14, <1>b, <2>2 DEF GetMessage, TypeOK
<1>15. ASSUME NEW t \in Threads, Answer(t) PROVE TypeOK' /\ Opened'
  <2>1. [Gone EXCEPT !.st = "get", !.queue = thread[t].queue] \in ThreadState
    BY <1>a DEF ThreadState, Places, Results
  <2>2. replies' \in Seq(Results)
    BY <1>15, <1>a DEF Answer, TypeOK, ThreadState
  <2>3. QED
    BY <1>15, <1>b, <2>1, <2>2 DEF Answer, TypeOK
<1>16. ASSUME NEW t \in Threads, NEW h \in Hooks, SetHook(t, h) PROVE TypeOK' /\ Opened'
  <2>1. PICK ok \in BOOLEAN :
          thread' = [thread EXCEPT ![t] =
            [[thread[t] EXCEPT !.st = IF h = "keybd" THEN "mouse" ELSE "answer"]
                        EXCEPT !.result = IF ok THEN @ ELSE "problem"]]
    BY <1>16, <1>a DEF SetHook, ThreadState
  <2>2. [[thread[t] EXCEPT !.st = IF h = "keybd" THEN "mouse" ELSE "answer"]
                    EXCEPT !.result = IF ok THEN @ ELSE "problem"] \in ThreadState
    BY <1>a DEF ThreadState, Places, Results
  <2>3. hook' \in [Hooks -> Threads \cup {None}]
    BY <1>16 DEF SetHook, TypeOK
  <2>4. QED
    BY <1>16, <1>b, <2>1, <2>2, <2>3 DEF SetHook, TypeOK
<1>17. CASE UNCHANGED vars
  BY <1>17 DEF vars, TypeOK, Opened
<1>18. QED
  BY <1>1, <1>2, <1>3, <1>4, <1>5, <1>6, <1>7, <1>8, <1>9, <1>10, <1>11, <1>12, <1>13,
     <1>14, <1>15, <1>16, <1>17 DEF Next

-----------------------------------------------------------------------------
(* A hook that is installed has its thread. *)

(* A thread ends only when no hook is installed at all. *)
LEMMA ServedNext == TypeOK /\ HookServed /\ [Next]_vars => HookServed'
<1> SUFFICES ASSUME TypeOK, HookServed, [Next]_vars PROVE HookServed'
  OBVIOUS
<1> USE DEF HookServed, Active, Live, threadVars, mainVars
<1>1. CASE UNCHANGED <<hook, thread>>
  BY <1>1
<1>2. ASSUME NEW t \in Threads, CreateThread(t) PROVE HookServed'
  BY <1>2 DEF CreateThread, TypeOK
<1>3. CASE PostThreadMessage
  BY <1>3 DEF PostThreadMessage, TypeOK
<1>4. ASSUME NEW t \in Threads,
             \/ Begin(t) \/ GetMessage(t) \/ AskCriterion(t) \/ CriterionEvaluated(t)
             \/ CriterionTimesOut(t)
      PROVE  HookServed'
  <2>1. hook' = hook /\ \A u \in Threads : thread[u].st # "gone" => thread'[u].st # "gone"
    <3>1. CASE GetMessage(t)
      BY <3>1 DEF GetMessage, TypeOK
    <3>2. CASE Begin(t)
      BY <3>2 DEF Begin, TypeOK
    <3>5. CASE AskCriterion(t)
      BY <3>5 DEF AskCriterion, TypeOK
    <3>3. CASE CriterionEvaluated(t)
      BY <3>3 DEF CriterionEvaluated, TypeOK
    <3>6. CASE CriterionTimesOut(t)
      BY <3>6 DEF CriterionTimesOut, TypeOK
    <3>4. QED
      BY <1>4, <3>1, <3>2, <3>3, <3>5, <3>6
  <2>2. QED
    BY <2>1
<1>5. ASSUME NEW t \in Threads, Answer(t) PROVE HookServed'
  BY <1>5 DEF Answer, MayExit, TypeOK
<1>6. ASSUME NEW t \in Threads, NEW h \in Hooks, SetHook(t, h) PROVE HookServed'
  <2>1. /\ thread[t].st # "gone" /\ thread'[t].st # "gone"
        /\ \A u \in Threads : u # t => thread'[u] = thread[u]
        /\ \A g \in Hooks : hook'[g] \in {hook[g], None, t}
    BY <1>6 DEF SetHook, TypeOK, Hooks
  <2>2. QED
    BY <2>1
<1>7. QED
  BY <1>1, <1>2, <1>3, <1>4, <1>5, <1>6
     DEF Next, vars, ChangeHookState, RemoveForNow, Restore, CreateThreadFails, PostGivenUp,
         Answered, HooksGone, ThreadGone, TimesOut, LateReply

-----------------------------------------------------------------------------
(* A call without delays. *)

(* The mutexes after a call: those of the hooks that are installed.  After the
   first half of a temporary change they are left for the second.               *)
LEMMA ReturnMutexes ==
  ASSUME TypeOK, Mutexes, main.pc \in {"post", "wait"}, main.perm => main.then = "idle",
         NEW result, Return(result), UNCHANGED hook
  PROVE  Mutexes'
<1> SUFFICES ASSUME ~lame' PROVE Mutexes'
  BY DEF Mutexes
<1>1. ~lame /\ Calling /\ Active' = Active /\ Active \subseteq Hooks /\ mutex \subseteq Hooks
  BY DEF Return, Calling, Active, TypeOK
<1>2. CASE main.perm
  <2>1. mutex = main.orig /\ open = [h \in Hooks |-> IF h \in mutex THEN 1 ELSE 0]
    BY <1>1, <1>2 DEF Mutexes
  <2>2. Added = Active \ mutex /\ Removed = mutex \ Active
    BY <1>1, <2>1 DEF Added, Removed
  <2>3. mutex' = Active
    BY <1>1, <1>2, <2>2 DEF Return
  <2>4. open' = [h \in Hooks |-> IF h \in Active THEN 1 ELSE 0]
    <3>1. \A h \in Hooks : open[h] + (IF h \in Added THEN 1 ELSE 0)
                               - (IF h \in Removed THEN 1 ELSE 0)
                         = IF h \in Active THEN 1 ELSE 0
      BY <2>1, <2>2
    <3>2. QED
      BY <1>2, <3>1 DEF Return
  <2>5. main'.pc = "idle"
    BY <1>2 DEF Return, Quiet
  <2>6. QED
    BY <1>1, <2>3, <2>4, <2>5 DEF Mutexes
<1>3. CASE ~main.perm
  <2>1. mutex = main.restore /\ open = [h \in Hooks |-> IF h \in mutex THEN 1 ELSE 0]
    BY <1>1, <1>3 DEF Mutexes
  <2>2. UNCHANGED <<mutex, open>> /\ main'.pc = main.then
    BY <1>3 DEF Return, Quiet
  <2>3. main.then = "idle" => mutex = Active
    BY <1>3, <2>1 DEF Return
  <2>4. main.then = "sending" => main'.restore = main.restore
    BY DEF Return, Quiet
  <2>5. main.then \in {"idle", "sending"}
    BY DEF TypeOK
  <2>6. QED
    BY <1>1, <2>1, <2>2, <2>3, <2>4, <2>5 DEF Mutexes, Calling
<1>4. QED
  BY <1>2, <1>3

(* Every step of a program in which nothing is late. *)
LEMMA SteadyNext == TypeOK /\ HookServed /\ Steady /\ ~late' /\ [Next]_vars => Steady'
<1> SUFFICES ASSUME TypeOK, HookServed, Steady, ~late', [Next]_vars PROVE Steady'
  OBVIOUS
<1>1. ASSUME NEW hooks \in SUBSET Hooks, ChangeHookState(hooks) PROVE Steady'
  <2>1. OneThread' /\ Call' /\ Tables' /\ Mutexes' /\ InForce'
    BY <1>1 DEF ChangeHookState, Request, Quiet, Steady, OneThread, Ready, Active, Live,
       Call, Calling, Tables, Mutexes, InForce, Stage, threadVars, mainVars, TypeOK
  <2>2. Stage'
    BY <1>1 DEF ChangeHookState, Request, Quiet, Steady, Stage, Posted, Working, Replied,
       Removed0, GivenUp, Rest, Starting, Leaving, Ready, Asked, Active, Live, OneThread,
       HookServed, threadVars, mainVars, TypeOK
  <2>3. QED
    BY <2>1, <2>2 DEF Steady
<1>2. ASSUME NEW hooks \in SUBSET Hooks, RemoveForNow(hooks) PROVE Steady'
  <2>1. OneThread' /\ Call' /\ Tables' /\ Mutexes' /\ InForce'
    BY <1>2 DEF RemoveForNow, Request, Quiet, Steady, OneThread, Ready, Active, Live,
       Call, Calling, Tables, Mutexes, InForce, Stage, threadVars, mainVars, TypeOK
  <2>2. Stage'
    BY <1>2 DEF RemoveForNow, Request, Quiet, Steady, Stage, Posted, Working, Replied,
       Removed0, GivenUp, Rest, Starting, Leaving, Ready, Asked, Active, Live, OneThread,
       HookServed, threadVars, mainVars, TypeOK
  <2>3. QED
    BY <2>1, <2>2 DEF Steady
<1>3. ASSUME Restore PROVE Steady'
  <2>1. OneThread' /\ Call' /\ Tables' /\ Mutexes' /\ InForce'
    BY <1>3 DEF Restore, Request, Quiet, Steady, OneThread, Ready, Active, Live, Call,
       Calling, Tables, Mutexes, InForce, Stage, threadVars, mainVars, TypeOK
  <2>2. Stage'
    BY <1>3 DEF Restore, Request, Quiet, Steady, Stage, Posted, Working, Replied,
       Removed0, GivenUp, Rest, Starting, Leaving, Ready, Asked, Active, Live, OneThread,
       HookServed, Call, Calling, threadVars, mainVars, TypeOK
  <2>3. QED
    BY <2>1, <2>2 DEF Steady
<1>4. ASSUME NEW t \in Threads, CreateThread(t) PROVE Steady'
  <2>1. OneThread' /\ Call' /\ Tables' /\ Mutexes' /\ InForce'
    BY <1>4 DEF CreateThread, Gone, Steady, OneThread, Ready, Active, Live, Stage, Rest,
       Call, Calling, Tables, Mutexes, InForce, threadVars, mainVars, TypeOK
  <2>2. Stage'
    <3>1. cur' = t /\ thread'[t] = [Gone EXCEPT !.st = "starting"] /\ hook' = hook
      BY <1>4 DEF CreateThread, TypeOK
    <3>2. thread'[t].st = "starting" /\ thread'[t].queue = <<>>
      BY <3>1 DEF Gone
    <3>3. Starting'
      BY <3>1, <3>2 DEF Starting, Live
    <3>4. main'.pc = "post" /\ main'.want = main.want /\ main.want # {} /\ replies' = <<>>
      BY <1>4 DEF CreateThread, Steady, Stage, Call, TypeOK
    <3>5. QED
      BY <3>3, <3>4 DEF Stage
  <2>3. QED
    BY <2>1, <2>2 DEF Steady
<1>5. ASSUME CreateThreadFails PROVE Steady'
  <2>1. OneThread' /\ Call' /\ Tables' /\ Mutexes' /\ InForce'
    BY <1>5 DEF CreateThreadFails, Quiet, Steady, OneThread, Ready, Active, Live, Stage,
       Call, Calling, Tables, Mutexes, InForce, threadVars, mainVars, TypeOK
  <2>2. Stage'
    BY <1>5 DEF CreateThreadFails, Quiet, Steady, Stage, Posted, Working, Replied,
       Removed0, GivenUp, Rest, Starting, Leaving, Ready, Asked, Active, Live, OneThread,
       HookServed, threadVars, mainVars, TypeOK
  <2>3. QED
    BY <2>1, <2>2 DEF Steady
<1>6. ASSUME PostThreadMessage PROVE Steady'
  <2>1. OneThread' /\ Call' /\ Tables' /\ Mutexes' /\ InForce'
    BY <1>6 DEF PostThreadMessage, Reachable, Steady, OneThread, Ready, Active, Live,
       Call, Calling, Tables, Mutexes, InForce, Stage, threadVars, mainVars, TypeOK
  <2>2. Stage'
    <3>1. /\ cur \in Live /\ thread[cur].st # "starting" /\ replies = <<>>
          /\ main.want = {} => Active # {}
          /\ thread[cur].queue = <<>>
          /\ thread[cur].st \in {"get", "ask"} \/ (Leaving /\ ~main.perm)
      BY <1>6 DEF PostThreadMessage, Reachable, Steady, Stage, Rest, Starting, Ready
    <3>2. Append(<<>>, Asked) = <<Asked>>
      OBVIOUS
    <3>3. /\ main'.pc = "wait" /\ main'.want = main.want /\ main'.perm = main.perm
          /\ UNCHANGED <<hook, replies, cur>>
      BY <1>6 DEF PostThreadMessage, TypeOK
    <3>4. Asked' = Asked /\ Active' = Active
      BY <3>3 DEF Asked, Active
    <3>5. thread' = [thread EXCEPT ![cur].queue = <<Asked>>] /\ cur \in Threads
      BY <1>6, <3>1, <3>2 DEF PostThreadMessage, Asked, Live
    <3>6. /\ thread'[cur].queue = <<Asked>> /\ thread'[cur].st = thread[cur].st
          /\ thread'[cur].msg = thread[cur].msg /\ thread'[cur].result = thread[cur].result
      BY <3>5 DEF TypeOK
    <3>7. cur \in Live' /\ (Leaving => Leaving')
      BY <3>1, <3>3, <3>4, <3>5, <3>6 DEF Live, Leaving
    <3>8. Posted'
      BY <3>1, <3>3, <3>4, <3>6, <3>7 DEF Posted
    <3>9. QED
      BY <3>3, <3>8 DEF Stage
  <2>3. QED
    BY <2>1, <2>2 DEF Steady
<1>7. ASSUME PostGivenUp PROVE Steady'
  <2>1. OneThread' /\ Call' /\ Tables' /\ Mutexes' /\ InForce'
    BY <1>7 DEF PostGivenUp, Reachable, Steady, OneThread, Ready, Active, Live, Call,
       Calling, Tables, Mutexes, InForce, Stage, threadVars, mainVars, TypeOK
  <2>2. Stage'
    BY <1>7 DEF PostGivenUp, Reachable, Steady, Stage, Posted, Working, Replied,
       Removed0, GivenUp, Rest, Starting, Leaving, Ready, Asked, Active, Live, OneThread,
       HookServed, threadVars, mainVars, TypeOK
  <2>3. QED
    BY <2>1, <2>2 DEF Steady
<1>8. ASSUME Answered PROVE Steady'
  <2>a. replies \in Seq(Results) /\ replies # <<>> /\ main.pc = "wait" /\ main.want # {}
    BY <1>8 DEF Answered, TypeOK
  <2>b. /\ Replied /\ Head(replies) \in Results /\ replies' = <<>>
        /\ Head(replies) = "problem" \/ Active = main.want
    BY <1>8, <2>a DEF Answered, Steady, Stage, Posted, Working, Replied, Removed0, GivenUp
  <2>c. Active' = Active /\ (Rest' <=> Rest) /\ UNCHANGED <<hook, thread, cur, handle, mem, late>>
    BY <1>8 DEF Answered, Active, Rest, Ready, Live
  <2>d. \/ Return(Head(replies))
        \/ /\ Head(replies) = "problem" /\ Active = {} /\ main.perm
           /\ main' = [main EXCEPT !.want = {}, !.result = "problem"]
           /\ UNCHANGED <<mutex, open, lame>>
    BY <1>8 DEF Answered
  <2>1. OneThread' /\ Call' /\ Tables'
    BY <1>8 DEF Answered, Return, Quiet, Steady, OneThread, Ready, Active, Live, Call,
       Calling, Tables, threadVars, mainVars, TypeOK
  <2>2. Stage'
    <3>1. CASE Return(Head(replies))
      <4>1. main'.pc = main.then /\ main.then \in {"idle", "sending"}
        BY <3>1 DEF Return, Quiet, TypeOK
      <4>2. QED
        BY <2>b, <2>c, <4>1 DEF Replied, Stage
    <3>2. CASE /\ Head(replies) = "problem" /\ Active = {} /\ main.perm
               /\ main' = [main EXCEPT !.want = {}, !.result = "problem"]
      <4>1. main'.pc = "wait" /\ main'.want = {} /\ main'.perm
        BY <2>a, <3>2 DEF TypeOK
      <4>2. cur \notin Live
        BY <2>b, <3>2 DEF Replied
      <4>3. QED
        BY <2>b, <2>c, <3>2, <4>1, <4>2 DEF Replied, Stage, Removed0, Live
    <3>3. QED
      BY <2>d, <3>1, <3>2
  <2>3. Mutexes'
    <3>1. CASE Return(Head(replies))
      BY <2>a, <2>c, <3>1, ReturnMutexes DEF Steady, Call, Calling
    <3>2. CASE /\ main' = [main EXCEPT !.want = {}, !.result = "problem"]
               /\ UNCHANGED <<mutex, open, lame>>
      BY <2>a, <2>c, <3>2 DEF Steady, Mutexes, Calling, TypeOK
    <3>3. QED
      BY <2>d, <3>1, <3>2
  <2>4. InForce'
    <3>1. CASE Return(Head(replies))
      <4>1. main'.want = main.want /\ (main'.result = "done" => main.result = "done")
        BY <3>1, <2>b DEF Return, Quiet, Results
      <4>3. main'.result = "done" => Head(replies) = "done"
        BY <3>1, <4>1 DEF Return, Quiet
      <4>4. QED
        BY <2>b, <2>c, <4>1, <4>3 DEF InForce
    <3>2. CASE main' = [main EXCEPT !.want = {}, !.result = "problem"]
      BY <2>a, <3>2 DEF InForce, TypeOK
    <3>3. QED
      BY <2>d, <3>1, <3>2
  <2>5. QED
    BY <2>1, <2>2, <2>3, <2>4 DEF Steady
<1>9. ASSUME HooksGone PROVE Steady'
  <2>1. OneThread' /\ Call' /\ Tables' /\ InForce'
    BY <1>9 DEF HooksGone, Return, Quiet, Steady, OneThread, Ready, Active, Live, Call,
       Calling, Tables, InForce, Stage, threadVars, mainVars, TypeOK
  <2>2. Stage'
    BY <1>9 DEF HooksGone, Return, Quiet, Steady, Stage, Posted, Working, Replied,
       Removed0, GivenUp, Rest, Starting, Leaving, Ready, Asked, Active, Live, OneThread,
       HookServed, Call, Calling, Results, NoMessage, threadVars, mainVars, TypeOK
  <2>3. Mutexes'
    BY <1>9, ReturnMutexes DEF HooksGone, Steady, Call, Calling, threadVars
  <2>4. QED
    BY <2>1, <2>2, <2>3 DEF Steady
<1>10. ASSUME ThreadGone PROVE Steady'
  <2>1. OneThread' /\ Call' /\ Tables' /\ InForce'
    BY <1>10 DEF ThreadGone, Return, Quiet, Steady, OneThread, Ready, Active, Live, Call,
       Calling, Tables, InForce, Stage, threadVars, mainVars, TypeOK
  <2>2. Stage'
    BY <1>10 DEF ThreadGone, Return, Quiet, Steady, Stage, Posted, Working, Replied,
       Removed0, GivenUp, Rest, Starting, Leaving, Ready, Asked, Active, Live, OneThread,
       HookServed, threadVars, mainVars, TypeOK
  <2>3. Mutexes'
    BY <1>10, ReturnMutexes DEF ThreadGone, Steady, Call, Calling, threadVars
  <2>4. QED
    BY <2>1, <2>2, <2>3 DEF Steady
<1>11. ASSUME LateReply PROVE Steady'
  <2>1. OneThread' /\ Call' /\ Tables' /\ Mutexes' /\ InForce'
    BY <1>11 DEF LateReply, Steady, OneThread, Ready, Active, Live, Call, Calling,
       Tables, Mutexes, InForce, Stage, threadVars, mainVars, TypeOK
  <2>2. Stage'
    BY <1>11 DEF LateReply, Steady, Stage, Posted, Working, Replied, Removed0, GivenUp,
       Rest, Starting, Leaving, Ready, Asked, Active, Live, OneThread, HookServed,
       threadVars, mainVars, TypeOK
  <2>3. QED
    BY <2>1, <2>2 DEF Steady
<1>12. ASSUME NEW t \in Threads, Begin(t) PROVE Steady'
  <2>1. OneThread' /\ Call' /\ Tables' /\ Mutexes' /\ InForce'
    BY <1>12 DEF Begin, Steady, OneThread, Ready, Active, Live, Call, Calling, Tables,
       Mutexes, InForce, Stage, threadVars, mainVars, TypeOK
  <2>2. Stage'
    BY <1>12 DEF Begin, Steady, Stage, Posted, Working, Replied, Removed0, GivenUp, Rest,
       Starting, Leaving, Ready, Asked, Active, Live, OneThread, HookServed, threadVars,
       mainVars, TypeOK
  <2>3. QED
    BY <2>1, <2>2 DEF Steady
<1>13. ASSUME NEW t \in Threads, GetMessage(t) PROVE Steady'
  <2>1. OneThread' /\ Call' /\ Tables' /\ Mutexes' /\ InForce'
    BY <1>13 DEF GetMessage, Steady, OneThread, Ready, Active, Live, Call, Calling,
       Tables, Mutexes, InForce, Stage, threadVars, mainVars, TypeOK
  <2>2. Stage'
    BY <1>13 DEF GetMessage, Steady, Stage, Posted, Working, Replied, Removed0, GivenUp,
       Rest, Starting, Leaving, Ready, Asked, Active, Live, OneThread, HookServed,
       threadVars, mainVars, TypeOK
  <2>3. QED
    BY <2>1, <2>2 DEF Steady
<1>14. ASSUME NEW t \in Threads, Answer(t) PROVE Steady'
  <2>a. t = cur /\ main.pc \in {"sending", "post", "wait"} /\ cur \in Live
    BY <1>14 DEF Answer, Steady, OneThread, Stage, Ready, Rest, Live, TypeOK
  <2>b. /\ main' = main /\ UNCHANGED <<cur, handle, mem, mutex, open, lame>>
        /\ \A u \in Threads : u # cur => thread'[u] = thread[u]
    BY <1>14, <2>a DEF Answer, mainVars, TypeOK
  <2>c. \/ Leaving
        \/ Working /\ main.pc = "wait"
    BY <1>14, <2>a DEF Answer, Steady, Stage, Posted, Working, Replied, Removed0, GivenUp,
                     Rest, Starting, Ready
  <2>1. OneThread' /\ Call' /\ Tables' /\ Mutexes' /\ InForce'
    BY <1>14, <2>a, <2>b, <2>c DEF Answer, MayExit, Gone, NoMessage, Steady, OneThread,
       Ready, Active, Live, Call, Calling, Tables, Mutexes, InForce, Stage, threadVars,
       mainVars, TypeOK
  <2>2. Stage'
    <3>1. CASE Leaving
      <4>1. /\ thread' = [thread EXCEPT ![cur] = [Gone EXCEPT !.st = "get",
                                                 !.queue = thread[cur].queue]]
            /\ replies' = replies /\ hook' = hook
        BY <1>14, <2>a, <3>1 DEF Answer, MayExit, Leaving, NoMessage
      <4>2. thread'[cur].st = "get" /\ thread'[cur].queue = thread[cur].queue
        BY <2>a, <4>1 DEF Live, TypeOK, Gone
      <4>3. /\ thread[cur].queue = <<>> => Rest'
            /\ Posted => Posted'
        BY <2>a, <2>b, <4>1, <4>2 DEF Rest, Ready, Posted, Live, Asked, Active
      <4>4. ~Replied /\ ~Removed0 /\ ~GivenUp
        BY <2>a, <3>1 DEF Replied, Removed0, GivenUp, Rest, Starting, Ready, Leaving
      <4>5. CASE Working /\ main.pc = "wait"
        <5>1. main.want = {} /\ ~main.perm /\ Active = {} /\ replies = <<>>
          BY <3>1, <4>5 DEF Working, Leaving, Asked, NoMessage, TypeOK
        <5>2. Removed0'
          BY <2>b, <4>1, <4>3, <4>5, <5>1 DEF Removed0, Working, Active
        <5>3. QED
          BY <2>b, <4>5, <5>2 DEF Stage
      <4>6. CASE ~(Working /\ main.pc = "wait")
        BY <1>14, <2>a, <2>b, <3>1, <4>1, <4>3, <4>4, <4>6
           DEF Answer, Steady, Stage, Rest, Ready, Starting, Active, Leaving
      <4>7. QED
        BY <4>5, <4>6
    <3>2. CASE Working /\ main.pc = "wait"
      <4>1. /\ thread[cur].msg = Asked /\ thread[cur].st = "answer" /\ hook' = hook
            /\ Active' = Active /\ replies = <<>>
            /\ thread[cur].result = "problem" \/ Active = main.want
        BY <1>14, <2>a, <3>2 DEF Answer, Working, Active
      <4>2. /\ thread'[cur].st \in {"gone", "get"} /\ thread'[cur].queue = <<>>
            /\ main.perm /\ Active = {} => thread'[cur].st = "gone"
        BY <1>14, <2>a, <3>2, <4>1 DEF Answer, MayExit, Gone, Live, TypeOK, Working, Asked
      <4>3. Rest' /\ (main.perm /\ Active = {} => cur \notin Live')
        BY <2>a, <2>b, <4>2 DEF Rest, Ready, Live
      <4>4. CASE main.want = {}
        <5>1. Active = {}
          BY <3>2, <4>1, <4>4 DEF Working
        <5>2. replies' = <<>>
          BY <1>14, <2>a, <4>1, <4>4 DEF Answer, Asked
        <5>3. Removed0'
          BY <2>b, <4>1, <4>3, <4>4, <5>1, <5>2 DEF Removed0
        <5>4. QED
          BY <2>b, <3>2, <5>3 DEF Stage
      <4>5. CASE main.want # {}
        <5>1. replies' = <<thread[cur].result>> /\ thread[cur].result \in Results
          BY <1>14, <2>a, <4>1, <4>5 DEF Answer, Asked, Live, TypeOK
        <5>2. Replied'
          BY <2>b, <4>1, <4>3, <4>5, <5>1 DEF Replied
        <5>3. QED
          BY <2>b, <3>2, <5>2 DEF Stage
      <4>6. QED
        BY <4>4, <4>5
    <3>3. QED
      BY <2>c, <3>1, <3>2
  <2>3. QED
    BY <2>1, <2>2 DEF Steady
<1>15. ASSUME NEW t \in Threads, AskCriterion(t) PROVE Steady'
  <2>1. OneThread' /\ Call' /\ Tables' /\ Mutexes' /\ InForce'
    BY <1>15 DEF AskCriterion, Steady, OneThread, Ready, Active, Live, Call, Calling,
       Tables, Mutexes, InForce, Stage, threadVars, mainVars, TypeOK
  <2>2. Stage'
    BY <1>15 DEF AskCriterion, Steady, Stage, Posted, Working, Replied, Removed0,
       GivenUp, Rest, Starting, Leaving, Ready, Asked, Active, Live, OneThread,
       HookServed, threadVars, mainVars, TypeOK
  <2>3. QED
    BY <2>1, <2>2 DEF Steady
<1>16. ASSUME NEW t \in Threads, CriterionEvaluated(t) PROVE Steady'
  <2>1. OneThread' /\ Call' /\ Tables' /\ Mutexes' /\ InForce'
    BY <1>16 DEF CriterionEvaluated, Steady, OneThread, Ready, Active, Live, Call,
       Calling, Tables, Mutexes, InForce, Stage, threadVars, mainVars, TypeOK
  <2>2. Stage'
    BY <1>16 DEF CriterionEvaluated, Steady, Stage, Posted, Working, Replied, Removed0,
       GivenUp, Rest, Starting, Leaving, Ready, Asked, Active, Live, OneThread,
       HookServed, threadVars, mainVars, TypeOK
  <2>3. QED
    BY <2>1, <2>2 DEF Steady
<1>17. ASSUME NEW t \in Threads, CriterionTimesOut(t) PROVE Steady'
  <2>1. OneThread' /\ Call' /\ Tables' /\ Mutexes' /\ InForce'
    BY <1>17 DEF CriterionTimesOut, Steady, OneThread, Ready, Active, Live, Call,
       Calling, Tables, Mutexes, InForce, Stage, threadVars, mainVars, TypeOK
  <2>2. Stage'
    BY <1>17 DEF CriterionTimesOut, Steady, Stage, Posted, Working, Replied, Removed0,
       GivenUp, Rest, Starting, Leaving, Ready, Asked, Active, Live, OneThread,
       HookServed, threadVars, mainVars, TypeOK
  <2>3. QED
    BY <2>1, <2>2 DEF Steady
<1>18. ASSUME NEW t \in Threads, NEW h \in Hooks, SetHook(t, h) PROVE Steady'
  <2>a. t = cur /\ main.pc \in {"sending", "post", "wait"} /\ cur \in Live
    BY <1>18 DEF SetHook, Hooks, Steady, OneThread, Stage, Ready, Rest, Live, TypeOK
  <2>b. /\ main' = main /\ UNCHANGED <<cur, handle, mem, mutex, open, lame>>
        /\ \A u \in Threads : u # cur => thread'[u] = thread[u]
    BY <1>18, <2>a DEF SetHook, Hooks, mainVars, TypeOK
  <2>c. \/ Leaving
        \/ Working /\ main.pc = "wait"
    BY <1>18, <2>a DEF SetHook, Hooks, Steady, Stage, Posted, Working, Replied, Removed0, GivenUp,
                     Rest, Starting, Ready
  <2>d. /\ thread[cur].st = h /\ thread'[cur].queue = thread[cur].queue
        /\ thread'[cur].msg = thread[cur].msg
        /\ thread'[cur].st = IF h = "keybd" THEN "mouse" ELSE "answer"
        /\ cur \in Live' /\ replies' = replies
    BY <1>18, <2>a DEF SetHook, Live, TypeOK
  <2>t. h \in DOMAIN hook /\ cur \in Threads /\ cur # None /\ thread[cur].result \in Results
    BY <2>a, HookThreadAssumption DEF Live, TypeOK, HookThreadAssumption
  <2>e. /\ \A g \in Hooks : g # h => hook'[g] = hook[g]
        /\ h \notin thread[cur].msg.want =>
             hook'[h] = None /\ thread'[cur].result = thread[cur].result
        /\ h \in thread[cur].msg.want =>
             \/ hook'[h] # None /\ thread'[cur].result = thread[cur].result
             \/ thread'[cur].result = "problem"
        /\ hook'[h] \in {None, cur, hook[h]}
    <3> DEFINE install == h \in thread[cur].msg.want /\ hook[h] = None
    <3>1. PICK ok \in BOOLEAN :
            /\ ok \/ install
            /\ hook' = [hook EXCEPT ![h] = IF h \notin thread[cur].msg.want THEN None
                                          ELSE IF install /\ ok THEN cur ELSE @]
            /\ thread' = [thread EXCEPT
                 ![cur].st = IF h = "keybd" THEN "mouse" ELSE "answer",
                 ![cur].result = IF ok THEN @ ELSE "problem"]
      BY <1>18, <2>a DEF SetHook
    <3>2. thread'[cur].result = IF ok THEN thread[cur].result ELSE "problem"
      BY <2>t, <3>1 DEF TypeOK
    <3>3. hook'[h] = IF h \notin thread[cur].msg.want THEN None
                     ELSE IF install /\ ok THEN cur ELSE hook[h]
      BY <2>t, <3>1
    <3>4. \A g \in Hooks : g # h => hook'[g] = hook[g]
      BY <2>t, <3>1 DEF TypeOK
    <3>5. QED
      BY <2>t, <3>1, <3>2, <3>3, <3>4
  <2>f. Leaving => hook' = hook /\ thread'[cur].result = "done" /\ h = "mouse" /\ Leaving'
    <3> SUFFICES ASSUME Leaving
                 PROVE  hook' = hook /\ thread'[cur].result = "done" /\ h = "mouse" /\ Leaving'
      OBVIOUS
    <3>1. h = "mouse" /\ thread[cur].msg.want = {} /\ hook[h] = None
      BY <2>d DEF Leaving, NoMessage, Active, Hooks
    <3>2. hook' = hook
      BY <1>18, <2>a, <3>1 DEF SetHook, TypeOK
    <3>3. thread'[cur].result = "done"
      BY <2>e, <3>1 DEF Leaving
    <3>4. QED
      BY <2>b, <2>d, <3>1, <3>2, <3>3 DEF Leaving, Active
  <2>1. Call' /\ Mutexes' /\ InForce'
    BY <1>18, <2>a, <2>b, <2>c DEF SetHook, Hooks, NoMessage, Steady, Call, Calling,
       Active, Mutexes, InForce, Stage, threadVars, mainVars, TypeOK
  <2>2. OneThread'
    <3>1. \A u \in Live' : u # cur' => Ready(u)'
      BY <2>b DEF Steady, OneThread, Ready, Live
    <3>2. \A g \in Active' : hook'[g] = cur'
      BY <2>b, <2>e DEF Steady, OneThread, Active
    <3>3. handle' = cur'
      BY <2>a, <2>b DEF Steady, OneThread
    <3>4. QED
      BY <2>b, <2>d, <3>1, <3>2, <3>3 DEF OneThread
  <2>3. Stage'
    <3>1. CASE Leaving
      <4>1. Active = {} /\ Active' = {} /\ Leaving'
        BY <2>f, <3>1 DEF Leaving
      <4>2. /\ ~Rest /\ ~Starting
        BY <2>a, <3>1 DEF Rest, Starting, Ready, Leaving
      <4>3. Posted => Posted'
        BY <2>b, <2>d, <3>1, <4>1 DEF Posted, Asked, Leaving
      <4>4. Working => Working'
        <5> SUFFICES ASSUME Working PROVE Working'
          OBVIOUS
        <5>1. main.want = {} /\ h = "mouse" /\ thread'[cur].result = "done"
          BY <2>f, <3>1 DEF Working, Asked, Leaving, NoMessage
        <5>2. QED
          BY <2>b, <2>d, <4>1, <5>1 DEF Working, Asked
      <4>5. QED
        BY <2>a, <2>b, <2>d, <4>1, <4>2, <4>3, <4>4
           DEF Steady, Stage, Replied, Removed0, GivenUp
    <3>2. CASE Working /\ main.pc = "wait"
      <4>1. Asked' = Asked /\ thread[cur].msg = Asked /\ Asked.want = main.want
        BY <2>b, <3>2 DEF Asked, Working
      <4>2. thread'[cur].result = "problem" => main.want # {}
        BY <2>e, <3>2, <4>1 DEF Working
      <4>3. h = "keybd" =>
              thread'[cur].result = "problem" \/ ("keybd" \in Active' <=> "keybd" \in main.want)
        BY <2>e, <4>1 DEF Active, Hooks
      <4>4. h = "mouse" => thread'[cur].result = "problem" \/ Active' = main.want
        <5> SUFFICES ASSUME h = "mouse", thread'[cur].result # "problem"
                     PROVE  Active' = main.want
          OBVIOUS
        <5>1. thread[cur].result # "problem"
          BY <2>e, <4>1
        <5>2. "keybd" \in Active <=> "keybd" \in main.want
          BY <2>d, <3>2, <5>1 DEF Working
        <5>3. "keybd" \in Active' <=> "keybd" \in main.want
          BY <2>e, <5>2 DEF Active, Hooks
        <5>4. "mouse" \in Active' <=> "mouse" \in main.want
          BY <2>e, <4>1 DEF Active, Hooks
        <5>5. Active' \subseteq Hooks /\ main.want \subseteq Hooks
          BY DEF Active, TypeOK
        <5>6. \A g \in Hooks : g \in Active' <=> g \in main.want
          BY <5>3, <5>4 DEF Hooks
        <5>7. QED
          BY <5>5, <5>6
      <4>5. Working'
        BY <2>b, <2>d, <3>2, <4>1, <4>2, <4>3, <4>4 DEF Working, Hooks
      <4>6. QED
        BY <2>b, <3>2, <4>5 DEF Stage
    <3>3. QED
      BY <2>c, <3>1, <3>2
  <2>4. Tables'
    <3>1. CASE Leaving
      BY <2>b, <2>f, <3>1 DEF Steady, Tables, Calling, Active, Leaving
    <3>2. CASE Working /\ main.pc = "wait"
      <4>1. Active' # {} => Active # {} \/ main.want # {}
        BY <2>b, <2>e, <3>2 DEF Active, Working, Asked
      <4>2. QED
        BY <2>b, <3>2, <4>1 DEF Steady, Tables, Calling
    <3>3. QED
      BY <2>c, <3>1, <3>2
  <2>5. QED
    BY <2>1, <2>2, <2>3, <2>4 DEF Steady
<1>19. CASE TimesOut
  BY <1>19 DEF TimesOut
<1>20. CASE UNCHANGED vars
  BY <1>20 DEF vars, Steady, Stage, Posted, Working, Replied, Removed0, GivenUp, Rest, Starting, Leaving, Ready, Asked, Active, Live, OneThread, Call, Calling, Tables, Mutexes, InForce
<1>21. QED
  BY <1>1, <1>2, <1>3, <1>4, <1>5, <1>6, <1>7, <1>8, <1>9, <1>10, <1>11, <1>12, <1>13, <1>14, <1>15, <1>16, <1>17, <1>18, <1>19, <1>20 DEF Next

-----------------------------------------------------------------------------
(* The theorems. *)

(* The initial state: no hook, no thread, no call. *)
LEMMA InitIInv == Init => IInv
<1> SUFFICES ASSUME Init PROVE IInv
  OBVIOUS
<1>1. TypeOK
  BY InitTypes
<1>2. Active = {} /\ Live = {} /\ replies = <<>> /\ mutex = {}
  BY DEF Init, Active, Live, Gone
<1>3. main.pc = "idle" /\ main.want = {}
  BY DEF Init, Quiet
<1>4. Opened /\ HookServed
  BY <1>2 DEF Opened, HookServed
<1>5. OneThread /\ Stage
  BY <1>2, <1>3 DEF OneThread, Stage, Rest
<1>6. Call /\ Tables /\ InForce
  BY <1>2, <1>3 DEF Call, Tables, InForce, Calling
<1>7. Mutexes
  BY <1>2, <1>3 DEF Init, Mutexes
<1>8. QED
  BY <1>1, <1>4, <1>5, <1>6, <1>7 DEF IInv, Steady

(* Nothing that has been late becomes timely again. *)
LEMMA LateStays == TypeOK /\ [Next]_vars /\ ~late' => ~late
<1> SUFFICES ASSUME TypeOK, [Next]_vars, late PROVE late'
  BY DEF TypeOK
<1> USE DEF threadVars, mainVars
<1>1. CASE \/ \E hooks \in SUBSET Hooks : ChangeHookState(hooks) \/ RemoveForNow(hooks)
           \/ Restore \/ (\E t \in Threads : CreateThread(t)) \/ CreateThreadFails
           \/ PostThreadMessage \/ PostGivenUp
  BY <1>1 DEF ChangeHookState, RemoveForNow, Restore, CreateThread, CreateThreadFails,
              PostThreadMessage, PostGivenUp
<1>2. CASE Answered \/ HooksGone \/ ThreadGone \/ TimesOut \/ LateReply
  BY <1>2 DEF Answered, HooksGone, ThreadGone, TimesOut, LateReply
<1>3. CASE \E t \in Threads : \/ Begin(t) \/ GetMessage(t) \/ Answer(t)
                              \/ AskCriterion(t) \/ CriterionEvaluated(t) \/ CriterionTimesOut(t)
  BY <1>3 DEF Begin, GetMessage, Answer, AskCriterion, CriterionEvaluated, CriterionTimesOut
<1>4. CASE \E t \in Threads, h \in Hooks : SetHook(t, h)
  BY <1>4 DEF SetHook
<1>5. CASE UNCHANGED vars
  BY <1>5 DEF vars
<1>6. QED
  BY <1>1, <1>2, <1>3, <1>4, <1>5 DEF Next

(* IInv is inductive. *)
LEMMA Inductive == Spec => []IInv
<1>1. IInv /\ [Next]_vars => IInv'
  <2> SUFFICES ASSUME IInv, [Next]_vars PROVE IInv'
    OBVIOUS
  <2>1. TypeOK' /\ Opened'
    BY NextTypes DEF IInv
  <2>2. HookServed'
    BY ServedNext DEF IInv
  <2>3. ~late' => Steady'
    BY SteadyNext, LateStays DEF IInv
  <2>4. QED
    BY <2>1, <2>2, <2>3 DEF IInv
<1>2. QED
  BY <1>1, InitIInv, PTL DEF Spec

(* Every variable of AddRemoveHooks and HookThreadProc has its type; no handle on a
   mutex is closed that is not open.                                            *)
THEOREM TypeCorrect == Spec => []TypeOK
<1>1. IInv => TypeOK
  BY DEF IInv
<1>2. QED
  BY <1>1, Inductive, PTL

(* Whatever times out or fails, a hook that HookThreadProc has installed has a
   thread to serve it.                                                          *)
THEOREM HooksServed == Spec => []HookServed
<1>1. IInv => HookServed
  BY DEF IInv
<1>2. QED
  BY <1>1, Inductive, PTL

(* A call of AddRemoveHooks without complaint has left exactly the hooks it was
   asked for, as long as nothing has been late.                                 *)
THEOREM CallTakesEffect == Spec => []InEffect
<1>1. IInv => InEffect
  BY DEF IInv, Steady, InForce, InEffect
<1>2. QED
  BY <1>1, Inductive, PTL

(* FreeHookMem never frees tables a hook procedure may still read, as long as
   nothing has been late.                                                       *)
THEOREM TablesStay == Spec => []TablesWhileHooked
<1>1. IInv => TablesWhileHooked
  BY DEF IInv, Steady, Tables, TablesWhileHooked
<1>2. QED
  BY <1>1, Inductive, PTL

(* Between two calls the mutexes tell other instances exactly which hooks this one
   has, as long as nothing has been late and the hooks have been restored.      *)
THEOREM MutexesExact == Spec => []MutexesTell
<1>1. IInv => MutexesTell
  <2> SUFFICES ASSUME IInv, main.pc = "idle", ~late, ~lame, NEW h \in Hooks
               PROVE  (open[h] > 0 <=> h \in Active) /\ ~SystemHasAnotherHook(h)
    BY DEF MutexesTell
  <2>1. mutex = Active /\ open = [g \in Hooks |-> IF g \in mutex THEN 1 ELSE 0]
    BY DEF IInv, Steady, Mutexes
  <2>2. open[h] = IF h \in mutex THEN 1 ELSE 0
    BY <2>1
  <2>3. QED
    BY <2>1, <2>2 DEF SystemHasAnotherHook
<1>2. QED
  BY <1>1, Inductive, PTL
=============================================================================
