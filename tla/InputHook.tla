----------------------------- MODULE InputHook -----------------------------
(* InputHook objects (input_object.cpp, lib/input.cpp): the chain g_input of
   active inputs, changed by the main thread and walked by the keyboard hook's
   thread at every key (hook.cpp), the messages AHK_INPUT_END and AHK_INPUT_CHAR
   between the two, the timeout timer, and the reference which InputStart adds
   and the handling of AHK_INPUT_END releases.  AHK_INPUT_KEYDOWN and _KEYUP are
   handled as AHK_INPUT_CHAR is and stand under the same name; what a key does to
   an input's text is only whether it ends the input, whether the script is
   notified and whether the key stays visible to older inputs.  An input has one
   Timeout, or none, throughout: the script may set it again, to the same value. *)
EXTENDS Integers, Sequences, FiniteSets

CONSTANTS
  Inputs,      \* the InputHook objects of the script, by their address
  None,        \* the null pointer; no timer
  HasOnEnd,    \* the inputs with an OnEnd function
  HasOnChar,   \* the inputs with an OnChar or OnKeyDown function
  Discarded,   \* the inputs the script lets go of and creates anew
  TimeoutOf,   \* input_type::Timeout in ticks, 0 when there is none; never changed
  MaxThreads,  \* callbacks that may run one over another (g_MaxThreadsTotal)
  MaxQueue,    \* bound: messages queued when a key or a Stop begins
  MaxRefs      \* bound: references an input holds for its starts

ASSUME InputsAssumption ==
  /\ None \notin Inputs /\ None \notin Nat
  /\ HasOnEnd \subseteq Inputs /\ HasOnChar \subseteq Inputs /\ Discarded \subseteq Inputs
  /\ TimeoutOf \in [Inputs -> Nat]
  /\ MaxThreads \in Nat /\ MaxQueue \in Nat \ {0} /\ MaxRefs \in Nat \ {0}

VARIABLES
  gInput,  \* g_input: the newest input of the chain
  prev,    \* input_type::Prev: the next older input
  active,  \* the inputs whose Status is INPUT_IN_PROGRESS
  refs,    \* AddRefs of InputStart not yet released
  held,    \* the inputs the script itself refers to
  frames,  \* the callbacks that run, the newest last: messages
  queue,   \* the main thread's message queue
  main,    \* the main thread: pc and the input it works on; of a running InputTimeout,
           \* its place in the chain, new_timer_period and the pc it returns to
  synced,  \* sHookSyncd
  hook,    \* the hook thread: pc, its place in the chain, messages to post
  left,    \* ticks until TimeoutAt of an input in progress
  timer,   \* ticks until WM_TIMER of the input timer, None when it is killed
  twice,   \* history: an input was ended that had ended already
  lost     \* history: the timer was killed while a start waited for the hook

vars == <<gInput, prev, active, refs, held, frames, queue, main, synced, hook,
          left, timer, twice, lost>>
scriptVars == <<held, frames>>
timerVars  == <<left, timer, lost>>

Msg == [kind : {"end", "char"}, input : Inputs]
EndOf(i)  == [kind |-> "end", input |-> i]
CharOf(i) == [kind |-> "char", input |-> i]

(* The inputs that a walk from x meets: the least set that holds x and the next
   older one of each of its inputs.                                           *)
Closed(S) == \A p \in S : prev[p] \in S \cup {None}
Onward(x) == {i \in Inputs : \A S \in SUBSET Inputs : Closed(S) /\ x \in S \cup {None} => i \in S}

InChain(i) == i \in Onward(gInput)

FramesOf(i) == {k \in DOMAIN frames : frames[k].input = i}

(* mRefCount of the object: its starts, the script's variables and the
   parameters of its running callbacks.                                       *)
RefCount(i) == refs[i] + Cardinality(FramesOf(i)) + (IF i \in held THEN 1 ELSE 0)

(* An object whose count has come to zero is deleted.  One that is deleted
   while something still points to it ends the model: what follows is undefined. *)
Dangling == {i \in Inputs : /\ RefCount(i) <= 0
                            /\ \/ InChain(i)
                               \/ i \in held
                               \/ FramesOf(i) # {}
                               \/ hook.at = i}

MainAt(pc) == main.pc = pc /\ Dangling = {}
HookAt(pc) == hook.pc = pc /\ Dangling = {}
At(pc, i) == [pc |-> pc, input |-> i, at |-> None, period |-> 0, ret |-> pc]

(* The script can call a method of an input it refers to. *)
HasRef(i) == i \in held \/ FramesOf(i) # {}

Init ==
  /\ gInput = None
  /\ prev = [i \in Inputs |-> None]
  /\ active = {}
  /\ refs = [i \in Inputs |-> 0]
  /\ held = Inputs
  /\ frames = <<>>
  /\ queue = <<>>
  /\ main = At("script", None)
  /\ synced = TRUE
  /\ hook = [pc |-> "idle", at |-> None, posts |-> <<>>]
  /\ left = [i \in Inputs |-> 0]
  /\ timer = None
  /\ twice = FALSE
  /\ lost = FALSE

-----------------------------------------------------------------------------
(* Pieces of the handlers. *)

(* Slips that the runs must notice; no specification uses them. *)
KeepLinked(i) == UNCHANGED <<gInput, prev>>
SetOnlyIfRunning(i) ==
  /\ left' = [left EXCEPT ![i] = TimeoutOf[i]]
  /\ timer' = IF timer # None /\ TimeoutOf[i] < timer THEN TimeoutOf[i] ELSE timer
  /\ UNCHANGED lost
ReleaseAtOnce(i) ==
  /\ frames' = IF i \in HasOnEnd /\ Len(frames) < MaxThreads THEN Append(frames, EndOf(i)) ELSE frames
  /\ refs' = [refs EXCEPT ![i] = @ - 1]

(* InputFindLink and *found = aInput->Prev. *)
Unlink(i) ==
  IF gInput = i
  THEN gInput' = prev[i] /\ UNCHANGED prev
  ELSE /\ prev' = [p \in Inputs |-> IF InChain(p) /\ prev[p] = i THEN prev[i] ELSE prev[p]]
       /\ UNCHANGED gInput

(* SetTimeoutTimer: the timer is set only when it has to come earlier. *)
SetTimeoutTimer(i) ==
  /\ left' = [left EXCEPT ![i] = TimeoutOf[i]]
  /\ LET set == timer = None \/ TimeoutOf[i] < timer
     IN /\ timer' = IF set THEN TimeoutOf[i] ELSE timer
        /\ lost'  = (lost /\ ~set)

(* EndByReason without the message it posts; TimeoutAt has no reader from here on. *)
EndByReason(i) ==
  /\ active' = active \ {i}
  /\ left' = [left EXCEPT ![i] = 0]
  /\ twice'  = (twice \/ i \notin active)

(* What follows InputUnlinkIfStopped: OnEnd is called in a new thread, or the
   object is released here, for want of the function, of a thread or of priority. *)
CallOnEnd(i) ==
  \/ /\ i \in HasOnEnd
     /\ Len(frames) < MaxThreads
     /\ frames' = Append(frames, EndOf(i))
     /\ UNCHANGED refs
  \/ /\ refs' = [refs EXCEPT ![i] = @ - 1]
     /\ UNCHANGED frames

-----------------------------------------------------------------------------
(* The script, on the main thread. *)

(* InputStart of an input that is not in the chain, or was never. *)
Start(i) ==
  /\ MainAt("script") /\ HasRef(i) /\ i \notin active /\ ~InChain(i)
  /\ refs[i] < MaxRefs
  /\ refs' = [refs EXCEPT ![i] = @ + 1]
  /\ IF TimeoutOf[i] > 0 THEN SetTimeoutTimer(i) ELSE UNCHANGED timerVars
  /\ prev' = [prev EXCEPT ![i] = gInput]
  /\ active' = active \cup {i}
  /\ gInput' = i
  /\ UNCHANGED <<scriptVars, queue, main, synced, hook, twice>>

(* InputStart of an input whose AHK_INPUT_END is still in the queue: it is taken
   out of the chain, and the hook must have left it before it is linked again.   *)
Restart(i) ==
  /\ MainAt("script") /\ HasRef(i) /\ i \notin active /\ InChain(i)
  /\ refs[i] < MaxRefs
  /\ refs' = [refs EXCEPT ![i] = @ + 1]
  /\ IF TimeoutOf[i] > 0 THEN SetTimeoutTimer(i) ELSE UNCHANGED timerVars
  /\ Unlink(i)
  /\ main' = At("startWait", i)
  /\ synced' = FALSE
  /\ UNCHANGED <<active, scriptVars, queue, hook, twice>>

RestartLink ==
  /\ MainAt("startWait") /\ synced
  /\ prev' = [prev EXCEPT ![main.input] = gInput]
  /\ active' = active \cup {main.input}
  /\ gInput' = main.input
  /\ main' = At("script", None)
  /\ UNCHANGED <<refs, scriptVars, queue, synced, hook, timerVars, twice>>

(* InputObject::Stop tests InProgress, then ends the input. *)
StopTest(i) ==
  /\ MainAt("script") /\ HasRef(i) /\ i \in active /\ Len(queue) < MaxQueue
  /\ main' = At("stop", i)
  /\ UNCHANGED <<gInput, prev, active, refs, scriptVars, queue, synced, hook, timerVars, twice>>

StopWithoutMessage ==
  /\ MainAt("stop")
  /\ EndByReason(main.input)
  /\ main' = At("script", None)
  /\ UNCHANGED <<gInput, prev, refs, scriptVars, queue, synced, hook, timer, lost>>

Stop ==
  /\ MainAt("stop")
  /\ EndByReason(main.input)
  /\ queue' = Append(queue, EndOf(main.input))
  /\ main' = At("script", None)
  /\ UNCHANGED <<gInput, prev, refs, scriptVars, synced, hook, timer, lost>>

(* set_Timeout while the input is in progress. *)
SetTimeout(i) ==
  /\ MainAt("script") /\ HasRef(i) /\ i \in active /\ TimeoutOf[i] > 0
  /\ SetTimeoutTimer(i)
  /\ UNCHANGED <<gInput, prev, active, refs, scriptVars, queue, main, synced, hook, twice>>

(* The script drops its reference, or makes a new object where a deleted one was. *)
Discard(i) ==
  /\ MainAt("script") /\ i \in held \cap Discarded
  /\ held' = held \ {i}
  /\ UNCHANGED <<gInput, prev, active, refs, frames, queue, main, synced, hook, timerVars, twice>>

Create(i) ==
  /\ MainAt("script") /\ RefCount(i) <= 0
  /\ held' = held \cup {i}
  /\ prev' = [prev EXCEPT ![i] = None]
  /\ active' = active \ {i}
  /\ UNCHANGED <<gInput, refs, frames, queue, main, synced, hook, timerVars, twice>>

(* The newest callback returns; OnEnd's reference is then released. *)
CallbackReturns ==
  /\ MainAt("script") /\ frames # <<>>
  /\ LET f == frames[Len(frames)]
     IN refs' = IF f.kind = "end" THEN [refs EXCEPT ![f.input] = @ - 1] ELSE refs
  /\ frames' = SubSeq(frames, 1, Len(frames) - 1)
  /\ UNCHANGED <<gInput, prev, active, held, queue, main, synced, hook, timerVars, twice>>

-----------------------------------------------------------------------------
(* MsgSleep on the main thread. *)

DropAny ==
  /\ MainAt("script") /\ queue # <<>>
  /\ queue' = Tail(queue)
  /\ UNCHANGED <<gInput, prev, active, refs, scriptVars, main, synced, hook, timerVars, twice>>

(* A message about an input that is not in the chain is dropped. *)
DispatchStale ==
  /\ MainAt("script") /\ queue # <<>> /\ ~InChain(Head(queue).input)
  /\ queue' = Tail(queue)
  /\ UNCHANGED <<gInput, prev, active, refs, scriptVars, main, synced, hook, timerVars, twice>>

DoNotWait ==
  /\ MainAt("script") /\ queue # <<>> /\ Head(queue).kind = "end"
  /\ LET i == Head(queue).input
     IN /\ InChain(i) /\ i \notin active
        /\ Unlink(i)
        /\ main' = At("endWait", i)
  /\ synced' = TRUE
  /\ queue' = Tail(queue)
  /\ UNCHANGED <<active, refs, scriptVars, hook, timerVars, twice>>

(* InputRelease of an input that has stopped: unlinked, then WaitHookIdle. *)
DispatchEnd ==
  /\ MainAt("script") /\ queue # <<>> /\ Head(queue).kind = "end"
  /\ LET i == Head(queue).input
     IN /\ InChain(i) /\ i \notin active
        /\ Unlink(i)
        /\ main' = At("endWait", i)
  /\ synced' = FALSE
  /\ queue' = Tail(queue)
  /\ UNCHANGED <<active, refs, scriptVars, hook, timerVars, twice>>

EndUnlinked ==
  /\ MainAt("endWait") /\ synced
  /\ prev' = [prev EXCEPT ![main.input] = None]
  /\ CallOnEnd(main.input)
  /\ main' = At("script", None)
  /\ UNCHANGED <<gInput, active, held, queue, synced, hook, timerVars, twice>>

(* InputRelease of an input that was started again meanwhile: it stays linked. *)
DispatchEndOfRestarted ==
  /\ MainAt("script") /\ queue # <<>> /\ Head(queue).kind = "end"
  /\ LET i == Head(queue).input
     IN InChain(i) /\ i \in active /\ CallOnEnd(i)
  /\ queue' = Tail(queue)
  /\ UNCHANGED <<gInput, prev, active, held, main, synced, hook, timerVars, twice>>

(* OnChar or OnKeyDown; dropped when no thread or priority is left for it. *)
DispatchChar ==
  /\ MainAt("script") /\ queue # <<>> /\ Head(queue).kind = "char"
  /\ InChain(Head(queue).input)
  /\ \/ Len(frames) < MaxThreads /\ frames' = Append(frames, Head(queue))
     \/ UNCHANGED frames
  /\ queue' = Tail(queue)
  /\ UNCHANGED <<gInput, prev, active, refs, held, main, synced, hook, timerVars, twice>>

-----------------------------------------------------------------------------
(* InputTimeout, called by any message pump, that of WaitHookIdle included. *)

Tick ==
  /\ Dangling = {}
  /\ (timer # None /\ timer > 0) \/ \E i \in Inputs : left[i] > 0
  /\ left' = [i \in Inputs |-> IF left[i] > 0 THEN left[i] - 1 ELSE 0]
  /\ timer' = IF timer # None /\ timer > 0 THEN timer - 1 ELSE timer
  /\ UNCHANGED <<gInput, prev, active, refs, scriptVars, queue, main, synced, hook,
                 lost, twice>>

TimerFires ==
  /\ MainAt("script") \/ MainAt("startWait") \/ MainAt("endWait")
  /\ timer = 0
  /\ main' = [main EXCEPT !.pc = "timer", !.ret = main.pc, !.at = gInput, !.period = 0]
  /\ UNCHANGED <<gInput, prev, active, refs, scriptVars, queue, synced, hook, timerVars, twice>>

(* One turn of its loop that ends nothing: a remaining time may be the least. *)
TimerPasses ==
  /\ MainAt("timer") /\ main.at # None
  /\ LET counts == TimeoutOf[main.at] > 0 /\ main.at \in active
         time   == left[main.at]
         least  == counts /\ (time < main.period \/ main.period = 0)
     IN /\ counts => time > 0
        /\ main' = [main EXCEPT !.at = prev[main.at], !.period = IF least THEN time ELSE @]
  /\ UNCHANGED <<gInput, prev, active, refs, scriptVars, queue, synced, hook, timerVars, twice>>

(* The test of a turn finds the input due; EndByTimeout is another step. *)
TimerFindsDue ==
  /\ MainAt("timer") /\ main.at # None
  /\ TimeoutOf[main.at] > 0 /\ main.at \in active /\ left[main.at] = 0
  /\ main' = [main EXCEPT !.pc = "timerEnd"]
  /\ UNCHANGED <<gInput, prev, active, refs, scriptVars, queue, synced, hook, timerVars, twice>>

EndByTimeout ==
  /\ MainAt("timerEnd")
  /\ EndByReason(main.at)
  /\ queue' = Append(queue, EndOf(main.at))
  /\ main' = [main EXCEPT !.pc = "timer", !.at = prev[main.at]]
  /\ UNCHANGED <<gInput, prev, refs, scriptVars, synced, hook, timer, lost>>

(* The timer is set to the least time left, or killed. *)
TimerReturns ==
  /\ MainAt("timer") /\ main.at = None
  /\ timer' = IF main.period > 0 THEN main.period ELSE None
  /\ lost' = (main.period = 0 /\ (lost \/ main.ret = "startWait"))
  /\ main' = [At(main.ret, main.input) EXCEPT !.ret = main.ret]
  /\ UNCHANGED <<gInput, prev, active, refs, scriptVars, queue, synced, hook, left, twice>>

-----------------------------------------------------------------------------
(* The hook thread: one walk over the chain for a key that goes down. *)

(* CollectInputHook begins.  CollectInput has walked the chain before it, for
   transcription only, and its walk for a key that goes up, which may notify the
   script and hide the key from older inputs but ends none, is one of those that
   follow.                                                                    *)
KeyDown ==
  /\ HookAt("idle") /\ gInput # None /\ Len(queue) < MaxQueue
  /\ hook' = [hook EXCEPT !.pc = "walk", !.at = gInput]
  /\ UNCHANGED <<gInput, prev, active, refs, scriptVars, queue, main, synced, timerVars, twice>>

(* The walk goes on at an input, or is over at the end of the chain. *)
WalkTo(i) ==
  IF i = None
  THEN hook' = [pc |-> "idle", at |-> None, posts |-> <<>>]
  ELSE hook' = [pc |-> "walk", at |-> i, posts |-> <<>>]

(* The test of InProgress. *)
HookTest ==
  /\ HookAt("walk")
  /\ IF hook.at \in active
     THEN hook' = [hook EXCEPT !.pc = "collect"]
     ELSE WalkTo(prev[hook.at])
  /\ UNCHANGED <<gInput, prev, active, refs, scriptVars, queue, main, synced, timerVars, twice>>

(* The key is collected: it may end the input, the script may be notified. *)
HookCollect ==
  /\ HookAt("collect")
  /\ \E ends, notify \in BOOLEAN :
       /\ notify => hook.at \in HasOnChar
       /\ IF ends THEN EndByReason(hook.at) ELSE UNCHANGED <<active, left, twice>>
       /\ hook' = [hook EXCEPT !.pc = "post",
                     !.posts = (IF ends THEN <<EndOf(hook.at)>> ELSE <<>>)
                            \o (IF notify THEN <<CharOf(hook.at)>> ELSE <<>>)]
  /\ UNCHANGED <<gInput, prev, refs, scriptVars, queue, main, synced, timer, lost>>

HookPost ==
  /\ HookAt("post") /\ hook.posts # <<>>
  /\ queue' = Append(queue, Head(hook.posts))
  /\ hook' = [hook EXCEPT !.posts = Tail(@)]
  /\ UNCHANGED <<gInput, prev, active, refs, scriptVars, main, synced, timerVars, twice>>

(* A key the input has suppressed is not offered to older ones. *)
HookNext ==
  /\ HookAt("post") /\ hook.posts = <<>>
  /\ \E visible \in BOOLEAN : WalkTo(IF visible THEN prev[hook.at] ELSE None)
  /\ UNCHANGED <<gInput, prev, active, refs, scriptVars, queue, main, synced, timerVars, twice>>

(* AHK_HOOK_SYNC is retrieved between two keys. *)
HookSync ==
  /\ HookAt("idle") /\ ~synced
  /\ synced' = TRUE
  /\ UNCHANGED <<gInput, prev, active, refs, scriptVars, queue, main, hook, timerVars, twice>>

-----------------------------------------------------------------------------
HookWalks == HookTest \/ HookCollect \/ HookPost \/ HookNext
MainWorks == \/ RestartLink \/ Stop \/ EndUnlinked
             \/ TimerPasses \/ TimerFindsDue \/ EndByTimeout \/ TimerReturns
Dispatch  == DispatchStale \/ DispatchEnd \/ DispatchEndOfRestarted \/ DispatchChar

Next ==
  \/ \E i \in Inputs : \/ Start(i) \/ Restart(i) \/ StopTest(i)
                       \/ SetTimeout(i) \/ Discard(i) \/ Create(i)
  \/ CallbackReturns
  \/ RestartLink \/ Stop \/ EndUnlinked
  \/ DispatchStale \/ DispatchEnd \/ DispatchEndOfRestarted \/ DispatchChar
  \/ Tick \/ TimerFires \/ TimerPasses \/ TimerFindsDue \/ EndByTimeout \/ TimerReturns
  \/ KeyDown \/ HookTest \/ HookCollect \/ HookPost \/ HookNext
  \/ HookSync

(* Both threads go on with what they are in the middle of, and the main thread
   comes back to its message loop again and again: Dispatch is enabled only
   between the calls the script makes.  AHK_HOOK_SYNC is retrieved although
   further keys come: GetMessage returns posted messages between them.         *)
Fairness ==
  /\ WF_vars(HookWalks) /\ WF_vars(MainWorks)
  /\ SF_vars(Dispatch) /\ SF_vars(HookSync)

Spec == Init /\ [][Next]_vars /\ Fairness

-----------------------------------------------------------------------------
MainStates ==
  [pc : {"script", "startWait", "endWait", "stop", "timer", "timerEnd"},
   input : Inputs \cup {None}, at : Inputs \cup {None}, period : Nat,
   ret : {"script", "startWait", "endWait", "stop"}]
HookStates ==
  [pc : {"idle", "walk", "collect", "post"}, at : Inputs \cup {None}, posts : Seq(Msg)]

(* Every variable has its type. *)
TypeOK ==
  /\ gInput \in Inputs \cup {None}
  /\ prev \in [Inputs -> Inputs \cup {None}]
  /\ active \subseteq Inputs /\ held \subseteq Inputs
  /\ refs \in [Inputs -> Int]
  /\ frames \in Seq(Msg) /\ queue \in Seq(Msg)
  /\ main \in MainStates /\ hook \in HookStates
  /\ left \in [Inputs -> Nat] /\ timer \in Nat \cup {None}
  /\ synced \in BOOLEAN /\ twice \in BOOLEAN /\ lost \in BOOLEAN

(* The chain ends (it never loops back on itself) and holds every input that is
   in progress, so that each key reaches each of them: the purpose of unlinking
   an input before InputStart links it anew.                                   *)
ChainHoldsActive ==
  /\ gInput = None \/ \E i \in Inputs : InChain(i) /\ prev[i] = None
  /\ \A i \in active : InChain(i)

(* The hook's place in the chain is never an input whose link the main thread has
   already cut, so that the rest of the chain would miss the key: the hook stands in the
   chain, or the main thread still waits for it to leave the input.              *)
HookPlaceLinked ==
  hook.at # None => \/ InChain(hook.at)
                    \/ /\ main.input = hook.at /\ ~synced
                       /\ \/ main.pc \in {"startWait", "endWait"}
                          \/ main.ret \in {"startWait", "endWait"}

(* An input that stopped but is still in the chain has its AHK_INPUT_END under way,
   so it cannot stay there, keep the script running and never call OnEnd.          *)
EndAnnounced ==
  \A i \in Inputs : InChain(i) /\ i \notin active =>
    \/ \E k \in DOMAIN queue : queue[k] = EndOf(i)
    \/ \E k \in DOMAIN hook.posts : hook.posts[k] = EndOf(i)

(* The timer runs while an input with a timeout is in progress, unless InputTimeout
   ran while the start of an input waited for the hook, with the input unlinked.   *)
TimerCovers ==
  (\E i \in active : TimeoutOf[i] > 0) => timer # None \/ lost

(* An object is deleted under the chain, the hook or the script only after some input
   was ended twice, by the two threads, between one start and the next.           *)
AliveUnlessEndedTwice == Dangling # {} => twice

(* What the comment of InputStart says: "Keep the object alive while it is active,
   even if the script discards it."                                               *)
AliveWhileActive == \A i \in active : RefCount(i) > 0

(* To its script each input is what InputLife says: no end is lost or told twice,
   and no callback of an input comes when it is off.  An input is over while it has
   stopped but is linked, and while it waits, unlinked, for the hook to leave it;
   an end is on its way in the queue, in the hook's hands or in InputRelease.     *)
Waiting(i) == main.input = i /\ main.ret \in {"startWait", "endWait"}
Stage(i) == IF i \in active THEN "on" ELSE IF InChain(i) \/ Waiting(i) THEN "over" ELSE "off"
Ends(i) == Cardinality({k \in DOMAIN queue : queue[k] = EndOf(i)})
             + Cardinality({k \in DOMAIN hook.posts : hook.posts[k] = EndOf(i)})
             + (IF main.input = i /\ main.ret = "endWait" THEN 1 ELSE 0)
Life == INSTANCE InputLife WITH stage <- [i \in Inputs |-> Stage(i)],
                                ends <- [i \in Inputs |-> Ends(i)]
ImplementsLife == Life!Spec

(* An input that has stopped leaves the chain or is started again. *)
EndedLeaves ==
  \A i \in Inputs :
    (InChain(i) /\ i \notin active) ~> (~InChain(i) \/ i \in active \/ Dangling # {})
=============================================================================
