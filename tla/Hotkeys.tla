------------------------------- MODULE Hotkeys -------------------------------
(***************************************************************************)
(* From a key press to the threads of a hotkey: the hook thread decides    *)
(* whether a hotkey fires (source/hook.cpp, CriterionFiringIsCertain of    *)
(* source/hotkey.cpp) and posts a message, the main thread finds the       *)
(* variant and launches, buffers or drops it (MsgSleep of                  *)
(* source/application.cpp, PerformInNewThreadMadeByCaller), and scripts    *)
(* suspend hotkeys, turn variants on and off and change their options      *)
(* meanwhile (Hotkey::Dynamic).                                            *)
(*                                                                         *)
(* The hook thread runs beside the main thread.  The criterion of a #HotIf *)
(* expression is script, so the hook thread sends it to the main thread    *)
(* and waits, but not for ever; the main thread evaluates it whenever it   *)
(* looks at its messages, on top of what it is doing.  The same criterion  *)
(* is evaluated by the main thread itself for a press that came without a  *)
(* variant.                                                                *)
(*                                                                         *)
(* Whether a window criterion holds, and what an expression returns, is    *)
(* left open.  Left out: alt-tab hotkeys, other hotkeys with the same key, *)
(* input levels, hotstrings, and threads that are not of hotkeys.  Which   *)
(* hotkeys need the hook is a constant.                                    *)
(***************************************************************************)
EXTENDS Integers, Sequences, FiniteSets, SequencesExt, FiniteSetsExt

CONSTANTS
    HotkeyNames,   \* hotkeys
    Variants,      \* the variants of all hotkeys
    VariantsOf,    \* [HotkeyNames -> Seq(Variants)], mFirstVariant and so on
    Criterion,     \* [Variants -> {"none", "window", "expr"}], mHotCriterion
    NoVariant,     \* a variant pointer that is NULL
    HookHotkeys,   \* hotkeys that need the hook; the others are registered
    MaxThreadsOf,  \* [Variants -> 1..255], mMaxThreads when the script begins
    Buffered,      \* variants that begin with mMaxThreadsBuffer
    Exempt,        \* variants that begin with mSuspendExempt
    MaxThreads,    \* g_MaxThreadsTotal
    MaxPresses,    \* bound: presses that reach the program
    MaxSwitches    \* bound: Suspend, and Hotkey with On, Off or an option

ASSUME HotkeyAssumption ==
    /\ HookHotkeys \subseteq HotkeyNames
    /\ VariantsOf \in [HotkeyNames -> Seq(Variants) \ {<<>>}]
    /\ IsFiniteSet(Variants)
    /\ \A v \in Variants : \E hk \in HotkeyNames : v \in ToSet(VariantsOf[hk])
    /\ \A hk1, hk2 \in HotkeyNames :
         ToSet(VariantsOf[hk1]) \cap ToSet(VariantsOf[hk2]) # {} => hk1 = hk2
    /\ Criterion \in [Variants -> {"none", "window", "expr"}]
    /\ NoVariant \notin Variants
    /\ MaxThreadsOf \in [Variants -> 1..255]
    /\ Buffered \subseteq Variants /\ Exempt \subseteq Variants
    /\ MaxThreads \in 1..255 /\ MaxPresses \in Nat /\ MaxSwitches \in Nat

VARIABLES
    enabled,     \* mEnabled of each variant
    suspended,   \* g_IsSuspended
    active,      \* hotkeys that are registered, or in the hook's tables
    option,      \* the options of each variant: T, B and S
    existing,    \* mExistingThreads of each variant
    ticket,      \* mRunAgainAfterFinished of each variant
    queue,       \* the hotkey messages posted to g_hWnd
    stack,       \* what the main thread is doing, outermost first
    hook,        \* what the hook thread is doing
    pressed,     \* history: messages each hotkey's presses have led to
    launched,    \* history: threads each hotkey has been given
    switches     \* bound: changes made by scripts

scriptVars == <<enabled, suspended, active, option, switches>>
threadVars == <<existing, ticket>>
historyVars == <<pressed, launched>>
hkVars == <<scriptVars, threadVars, historyVars, queue, stack, hook>>

(* A message: the hotkey, the index of the variant the hook has chosen, or *)
(* 0, and, as history, the variant whose criterion the hook found true.    *)
Message == [hk : HotkeyNames, variant : Nat,
            held : Variants \cup {NoVariant}]

(* mMaxThreads, mMaxThreadsBuffer and mSuspendExempt of a variant.         *)
Options == [max : 1..255, buffered : BOOLEAN, exempt : BOOLEAN]

(* What is on the main thread's stack: a thread of a variant, with, as     *)
(* history, the variant's mMaxThreads when the thread began; a search      *)
(* for the variant to fire, at the i-th one, with the best so far; an      *)
(* evaluation of a criterion for the hook, the search beneath it or nobody *)
(* (any more); the dialog about too many hotkeys.                          *)
Frame == [kind : {"thread"}, v : Variants, held : Variants \cup {NoVariant},
          limit : 1..255]
    \cup [kind : {"search"}, hk : HotkeyNames, i : Nat \ {0},
          best : Variants \cup {NoVariant}]
    \cup [kind : {"eval"}, v : Variants, asker : {"hook", "search", "nobody"}]
    \cup [kind : {"dialog"}]

(* The hook thread is idle, at the i-th variant of a hotkey, or waits for  *)
(* its criterion, which the main thread has begun to evaluate or not.      *)
Hook == [at : {"idle"}]
    \cup [at : {"checking", "asking", "evaluating"}, hk : HotkeyNames,
          i : Nat \ {0}, best : Variants \cup {NoVariant}]

(* The state has its types.                                                *)
TypeOK ==
    /\ enabled \in [Variants -> BOOLEAN] /\ suspended \in BOOLEAN
    /\ active \in [HotkeyNames -> BOOLEAN] /\ option \in [Variants -> Options]
    /\ existing \in [Variants -> Nat]
    /\ ticket \in [Variants -> BOOLEAN]
    /\ queue \in Seq(Message) /\ stack \in Seq(Frame) /\ hook \in Hook
    /\ pressed \in [HotkeyNames -> Nat] /\ launched \in [HotkeyNames -> Nat]
    /\ switches \in Nat

Idle == [at |-> "idle"]

Init ==
    /\ enabled = [v \in Variants |-> TRUE] /\ suspended = FALSE
    /\ active = [hk \in HotkeyNames |-> TRUE]
    /\ option = [v \in Variants |-> [max |-> MaxThreadsOf[v], buffered |-> v \in Buffered,
                                     exempt |-> v \in Exempt]]
    /\ existing = [v \in Variants |-> 0] /\ ticket = [v \in Variants |-> FALSE]
    /\ queue = <<>> /\ stack = <<>> /\ hook = Idle
    /\ pressed = [hk \in HotkeyNames |-> 0] /\ launched = [hk \in HotkeyNames |-> 0]
    /\ switches = 0

-----------------------------------------------------------------------------
(* Helpers.                                                                *)
VariantSet(hk) == ToSet(VariantsOf[hk])
Owner(v) == CHOOSE hk \in HotkeyNames : v \in VariantSet(hk)

(* A hotkey is to be in effect, by ManifestAllHotkeysHotstringsHooks.      *)
InEffect(hk, on, susp) ==
    /\ susp => \E v \in VariantSet(hk) : option[v].exempt
    /\ \E v \in VariantSet(hk) : on[v]

(* CriterionAllowsFiring's first tests of a variant.                       *)
Eligible(v) == enabled[v] /\ (suspended => option[v].exempt)

Top == Last(stack)
TopIs(kind) == stack # <<>> /\ Top.kind = kind

(* g_nThreads, as far as hotkeys have a part in it.                        *)
Threads == Quantify(DOMAIN stack, LAMBDA n : stack[n].kind # "search")
Room == Threads < MaxThreads

(* The pseudo-thread on top can be interrupted by a hotkey: a criterion is *)
(* critical, and the dialog clears g_AllowInterruption.                    *)
Interruptible == stack = <<>> \/ TopIs("thread")

(* The main thread looks at its messages, so that a message sent to it is  *)
(* taken; it does not while it searches.                                   *)
Pumping == ~TopIs("search")

Post(hk, variant, held) ==
    queue' = Append(queue, [hk |-> hk, variant |-> variant, held |-> held])
Counted(hk) == pressed' = [pressed EXCEPT ![hk] = @ + 1]
MorePresses == FoldFunctionOnSet(LAMBDA a, b : a + b, 0, pressed, HotkeyNames) < MaxPresses

-----------------------------------------------------------------------------
(* The system and the hook thread.                                         *)

(* The system posts WM_HOTKEY for a registered hotkey.                     *)
SystemPosts(hk) ==
    /\ hk \notin HookHotkeys /\ active[hk] /\ MorePresses
    /\ Post(hk, 0, NoVariant) /\ Counted(hk)
    /\ UNCHANGED <<scriptVars, threadVars, stack, hook, launched>>

(* A key of a hotkey in the hook's tables is pressed.                      *)
Press(hk) ==
    /\ hook = Idle /\ hk \in HookHotkeys /\ active[hk] /\ MorePresses
    /\ hook' = [at |-> "checking", hk |-> hk, i |-> 1, best |-> NoVariant]
    /\ UNCHANGED <<scriptVars, threadVars, historyVars, queue, stack>>

(* A variant without criterion that can fire is reason enough to post,     *)
(* unless the variants differ in what they do with the key, which is left  *)
(* open: the main thread looks again for the variant to fire.              *)
CertainAnyway ==
    /\ hook.at = "checking" /\ hook.i = 1
    /\ \E v \in VariantSet(hook.hk) : Criterion[v] = "none" /\ Eligible(v)
    /\ Post(hook.hk, 0, NoVariant) /\ Counted(hook.hk)
    /\ hook' = Idle
    /\ UNCHANGED <<scriptVars, threadVars, stack, launched>>

(* The hook thread passes its choice on only if an expression chose it.    *)
PostedIndex(hk, v, i) == IF v # NoVariant /\ Criterion[v] = "expr" THEN i ELSE 0

(* The hook thread looks at the next variant.                              *)
HookChecks ==
    /\ hook.at = "checking"
    /\ LET vs == VariantsOf[hook.hk]
           v == vs[hook.i]
       IN
       \/ /\ hook.i > Len(vs) /\ hook.best = NoVariant
          /\ hook' = Idle /\ UNCHANGED <<queue, pressed>>
       \/ /\ hook.i > Len(vs) /\ hook.best # NoVariant
          /\ Post(hook.hk, 0, NoVariant) /\ Counted(hook.hk) /\ hook' = Idle
       \/ /\ hook.i <= Len(vs) /\ ~Eligible(v)
          /\ hook' = [hook EXCEPT !.i = @ + 1] /\ UNCHANGED <<queue, pressed>>
       \/ /\ hook.i <= Len(vs) /\ Eligible(v) /\ Criterion[v] = "none"
          /\ hook' = [hook EXCEPT !.i = @ + 1, !.best = v] /\ UNCHANGED <<queue, pressed>>
       \/ /\ hook.i <= Len(vs) /\ Eligible(v) /\ Criterion[v] = "window"
          /\ \/ Post(hook.hk, PostedIndex(hook.hk, v, hook.i), v) /\ Counted(hook.hk) /\ hook' = Idle
             \/ hook' = [hook EXCEPT !.i = @ + 1] /\ UNCHANGED <<queue, pressed>>
       \/ /\ hook.i <= Len(vs) /\ Eligible(v) /\ Criterion[v] = "expr"
          /\ hook' = [hook EXCEPT !.at = "asking"] /\ UNCHANGED <<queue, pressed>>
    /\ UNCHANGED <<scriptVars, threadVars, stack, launched>>

(* The answer of a criterion reaches the hook thread.                      *)
HookAnswered(true) ==
    LET v == VariantsOf[hook.hk][hook.i] IN
    IF true
    THEN Post(hook.hk, PostedIndex(hook.hk, v, hook.i), v) /\ Counted(hook.hk) /\ hook' = Idle
    ELSE hook' = [hook EXCEPT !.at = "checking", !.i = @ + 1] /\ UNCHANGED <<queue, pressed>>

(* The main thread takes the question: it begins to evaluate, or answers   *)
(* no at once when there are too many threads.                             *)
BeginEval ==
    /\ hook.at = "asking" /\ Pumping
    /\ \/ /\ Room
          /\ stack' = Append(stack, [kind |-> "eval", v |-> VariantsOf[hook.hk][hook.i],
                                     asker |-> "hook"])
          /\ hook' = [hook EXCEPT !.at = "evaluating"] /\ UNCHANGED <<queue, pressed>>
       \/ /\ ~Room /\ HookAnswered(FALSE) /\ UNCHANGED stack
    /\ UNCHANGED <<scriptVars, threadVars, launched>>

(* g_HotExprTimeout is over before the answer: the variant does not fire,  *)
(* and an evaluation under way goes on for nobody.                         *)
HookTimesOut ==
    /\ hook.at \in {"asking", "evaluating"}
    /\ HookAnswered(FALSE)
    /\ stack' = [n \in DOMAIN stack |->
                   IF stack[n].kind = "eval" /\ stack[n].asker = "hook"
                   THEN [stack[n] EXCEPT !.asker = "nobody"] ELSE stack[n]]
    /\ UNCHANGED <<scriptVars, threadVars, launched>>

-----------------------------------------------------------------------------
(* The main thread takes a message.                                        *)

(* PerformIsAllowed is denied: the variant has all its threads.            *)
AtLimitUnseen(v) == existing[v] > option[v].max
AtLimit(v) == existing[v] >= option[v].max

(* PerformInNewThreadMadeByCaller: a thread of v on top of the others, or, *)
(* after too many hotkeys in too short a time, the dialog, which takes all *)
(* tickets back and drops the press.                                       *)
Perform(under, hk, v, held) ==
    \/ /\ stack' = Append(under, [kind |-> "thread", v |-> v, held |-> held,
                                  limit |-> option[v].max])
       /\ existing' = [existing EXCEPT ![v] = @ + 1]
       /\ launched' = [launched EXCEPT ![hk] = @ + 1]
       /\ UNCHANGED ticket
    \/ /\ stack' = Append(under, [kind |-> "dialog"])
       /\ ticket' = [w \in Variants |-> FALSE]
       /\ UNCHANGED <<existing, launched>>

(* RunAgainAfterFinished.                                                  *)
RunAgain(v) == ticket' = [ticket EXCEPT ![v] = @ \/ option[v].buffered]

(* What becomes of a press whose variant is v: it is buffered when v has   *)
(* all its threads, dropped when the program has, or v's priority is too   *)
(* low, and performed otherwise.                                           *)
Fire(under, hk, v, held) ==
    \/ AtLimit(v) /\ RunAgain(v) /\ stack' = under /\ UNCHANGED <<existing, launched>>
    \/ ~AtLimit(v) /\ stack' = under /\ UNCHANGED <<existing, ticket, launched>>
    \/ ~AtLimit(v) /\ Room /\ Perform(under, hk, v, held)

(* The variant at an index a message has brought.                          *)
NextVariantAt(hk, index) == VariantsOf[hk][(index % Len(VariantsOf[hk])) + 1]
VariantAt(hk, index) == VariantsOf[hk][index]

(* The next message: with a variant it fires, without one the search for   *)
(* the variant begins.                                                     *)
TakeMessage ==
    /\ queue # <<>> /\ Interruptible
    /\ LET m == Head(queue) IN
       IF m.variant # 0
       THEN Fire(stack, m.hk, VariantAt(m.hk, m.variant), m.held)
       ELSE /\ stack' = Append(stack, [kind |-> "search", hk |-> m.hk, i |-> 1, best |-> NoVariant])
            /\ UNCHANGED <<threadVars, launched>>
    /\ queue' = Tail(queue)
    /\ UNCHANGED <<scriptVars, hook, pressed>>

(* The search goes past a variant that does not fire, or notes the one     *)
(* without a criterion.                                                    *)
Past == stack' = [stack EXCEPT ![Len(stack)].i = @ + 1]
Noted(v) ==
    stack' = [stack EXCEPT ![Len(stack)] =
                [kind |-> "search", hk |-> Top.hk, i |-> Top.i + 1, best |-> v]]

(* CriterionAllowsFiring on the main thread, one variant at a time.  An    *)
(* expression is sent to the thread's own window and evaluated there.      *)
Search ==
    /\ TopIs("search")
    /\ LET vs == VariantsOf[Top.hk]
           v == vs[Top.i]
           more == Top.i <= Len(vs)
       IN
       \/ ~more /\ Top.best = NoVariant /\ stack' = Front(stack) /\ UNCHANGED <<threadVars, launched>>
       \/ ~more /\ Top.best # NoVariant /\ Fire(Front(stack), Top.hk, Top.best, NoVariant)
       \/ more /\ ~Eligible(v) /\ Past /\ UNCHANGED <<threadVars, launched>>
       \/ more /\ Eligible(v) /\ Criterion[v] = "none" /\ Noted(v) /\ UNCHANGED <<threadVars, launched>>
       \/ more /\ Eligible(v) /\ Criterion[v] = "window" /\ Fire(Front(stack), Top.hk, v, v)
       \/ more /\ Eligible(v) /\ Criterion[v] = "window" /\ Past /\ UNCHANGED <<threadVars, launched>>
       \/ more /\ Eligible(v) /\ Criterion[v] = "expr" /\ ~Room /\ Past /\ UNCHANGED <<threadVars, launched>>
       \/ /\ more /\ Eligible(v) /\ Criterion[v] = "expr" /\ Room
          /\ stack' = Append(stack, [kind |-> "eval", v |-> v, asker |-> "search"])
          /\ UNCHANGED <<threadVars, launched>>
    /\ UNCHANGED <<scriptVars, pressed, queue, hook>>

(* An evaluation returns and whoever asked has the answer; the search      *)
(* fires the variant or goes on.                                           *)
EvalReturns ==
    /\ TopIs("eval")
    /\ LET under == Front(stack)
           search == Last(under)
       IN
       \E true \in BOOLEAN :
          \/ /\ Top.asker = "hook" /\ HookAnswered(true)
             /\ stack' = under /\ UNCHANGED <<threadVars, launched>>
          \/ /\ Top.asker = "nobody" /\ stack' = under
             /\ UNCHANGED <<threadVars, launched, queue, hook, pressed>>
          \/ /\ Top.asker = "search" /\ true
             /\ Fire(Front(under), search.hk, Top.v, Top.v) /\ UNCHANGED <<queue, hook, pressed>>
          \/ /\ Top.asker = "search" /\ ~true
             /\ stack' = [under EXCEPT ![Len(under)].i = @ + 1]
             /\ UNCHANGED <<threadVars, launched, queue, hook, pressed>>
    /\ UNCHANGED scriptVars

-----------------------------------------------------------------------------
(* The threads of hotkeys and what scripts do.                             *)

(* The ticket of a variant when one of its threads ends: it is used up, or *)
(* lost when the thread failed.                                            *)
TicketLeftOnFailure(v, failed) == ticket[v] /\ failed
TicketLeft(v, failed) == ticket[v]
TicketAfter(v, failed) == FALSE

(* A thread ends.  A ticket that is not too old posts the hotkey again,    *)
(* without the variant.                                                    *)
ThreadEnds ==
    /\ TopIs("thread")
    /\ LET v == Top.v IN
       \E failed, old \in BOOLEAN :
          /\ existing' = [existing EXCEPT ![v] = @ - 1]
          /\ ticket' = [ticket EXCEPT ![v] = TicketAfter(v, failed)]
          /\ IF ticket[v] /\ ~failed /\ ~old
             THEN Post(Owner(v), 0, NoVariant)
             ELSE UNCHANGED queue
    /\ stack' = Front(stack)
    /\ UNCHANGED <<scriptVars, historyVars, hook>>

(* The dialog is answered.                                                 *)
DialogEnds ==
    /\ TopIs("dialog")
    /\ stack' = Front(stack)
    /\ UNCHANGED <<scriptVars, threadVars, historyVars, queue, hook>>

(* ManifestAllHotkeysHotstringsHooks: a registered hotkey that is no       *)
(* longer in effect is unregistered and its tickets are cancelled.         *)
Manifest(on, susp, kept) ==
    LET leaves(hk) == hk \notin HookHotkeys /\ active[hk] /\ ~InEffect(hk, on, susp) IN
    /\ active' = [hk \in HotkeyNames |-> InEffect(hk, on, susp)]
    /\ ticket' = [v \in Variants |-> kept[v] /\ ~leaves(Owner(v))]

MaySwitch ==
    /\ switches < MaxSwitches /\ switches' = switches + 1
    /\ ~TopIs("search")

(* Suspend, by a script, the tray menu or a timer.                         *)
Suspend ==
    /\ MaySwitch
    /\ suspended' = ~suspended
    /\ Manifest(enabled, ~suspended, ticket)
    /\ UNCHANGED <<enabled, option, existing, historyVars, queue, stack, hook>>

(* Hotkey "On" and "Off" of a variant.                                     *)
TurnOnOrOff(v) ==
    /\ MaySwitch
    /\ LET on == [enabled EXCEPT ![v] = ~@]
           kept == [ticket EXCEPT ![v] = @ /\ on[v]]
       IN enabled' = on /\ Manifest(on, suspended, kept)
    /\ UNCHANGED <<suspended, option, existing, historyVars, queue, stack, hook>>

(* Hotkey with the option T, B or S.  Threads that run are left alone, and *)
(* what is in effect is not looked at again.                               *)
SetOption(v) ==
    /\ MaySwitch
    /\ \/ \E max \in 1..MaxThreads : option' = [option EXCEPT ![v].max = max]
       \/ \E on \in BOOLEAN : option' = [option EXCEPT ![v].buffered = on]
       \/ \E on \in BOOLEAN : option' = [option EXCEPT ![v].exempt = on]
    /\ UNCHANGED <<enabled, suspended, active, threadVars, historyVars, queue, stack, hook>>

Next ==
    \/ \E hk \in HotkeyNames : SystemPosts(hk)
    \/ \E hk \in HotkeyNames : Press(hk)
    \/ CertainAnyway
    \/ HookChecks
    \/ BeginEval
    \/ HookTimesOut
    \/ TakeMessage
    \/ Search
    \/ EvalReturns
    \/ ThreadEnds
    \/ DialogEnds
    \/ Suspend
    \/ \E v \in Variants : TurnOnOrOff(v) \/ SetOption(v)

Spec == Init /\ [][Next]_hkVars

-----------------------------------------------------------------------------
(* Properties.                                                             *)

ThreadsOf(v) == Quantify(DOMAIN stack, LAMBDA n : stack[n].kind = "thread" /\ stack[n].v = v)
Waiting(hk) == Quantify(DOMAIN queue, LAMBDA n : queue[n].hk = hk)
Tickets(hk) == Cardinality({v \in VariantSet(hk) : ticket[v]})

(* A ticket to run again belongs to a thread that is still to end and will *)
(* use it up; one without a thread would make the hotkey fire long after   *)
(* the key was pressed.                                                    *)
TicketHasThread == \A v \in Variants : ticket[v] => ThreadsOf(v) > 0

(* A thread of a variant began only while fewer were running than the      *)
(* variant's limit at that moment, whatever Hotkey has made of the limit   *)
(* since: those beneath it and itself are within it.  A limit is at most   *)
(* 255, so that the byte mExistingThreads does not run over.               *)
BegunWithinLimit ==
    \A n \in DOMAIN stack : stack[n].kind = "thread" =>
        Cardinality({m \in 1..n : stack[m].kind = "thread" /\ stack[m].v = stack[n].v})
            <= stack[n].limit

(* A variant with a criterion runs only for a press for which that very    *)
(* criterion was found true, by the hook thread or by the main thread.     *)
CriterionHeld ==
    \A n \in DOMAIN stack :
        stack[n].kind = "thread" /\ Criterion[stack[n].v] # "none" => stack[n].held = stack[n].v

(* Buffering never multiplies presses: the threads a hotkey has been       *)
(* given, the messages on their way and the tickets that will become       *)
(* messages are no more than the times it was pressed.                     *)
RunsPerPress ==
    \A hk \in HotkeyNames : launched[hk] + Waiting(hk) + Tickets(hk) <= pressed[hk]
==============================================================================
