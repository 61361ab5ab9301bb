# A verification project for ahk-v2-mt

ahk-v2-mt is a fork of AutoHotkey v2 that adds worker OS threads
(`ThreadCreate` and its relatives) and a WebSocket client to the interpreter.
This directory holds TLA+ modules that model the parts of it in which the order
of events matters, TLC configurations that check them on small instances, and
TLAPS proofs for every value of the constants.  Paths below are relative to the
repository; `source/` is omitted where a file name is unique.

## 1. The system and its parts

Two kinds of concurrency meet in the program.

* **OS threads.**  The script runs on the main thread.  `ThreadCreate` starts
  further `std::thread`s, each of which runs a small line interpreter of its own
  (`ThreadInterpreter::run`).  A WebSocket connection has a receiving thread.  A
  keyboard and mouse hook has a thread as well.
* **Pseudo-threads.**  On the main thread, hotkeys, timers, message monitors,
  callbacks and exit functions interrupt each other.  A pseudo-thread is launched
  from the message pump of the one below it, which waits on the C++ stack until it
  is over.  Nothing runs in parallel, but any structure a function is walking may
  be changed by the functions it calls.

| Component | State | Operations | Talks to | What makes it correct |
|---|---|---|---|---|
| SimpleThreading (`simple_threading.cpp`) | `s_threads`, `s_interpreters`, `s_stopFlags`, `s_globalVars`, `s_nextThreadId`, one mutex | CreateThread, DestroyThread, WaitForThread, SetGlobalVar; the heartbeat of a worker | built-ins and workers, by the maps and the mutex | no use of a freed interpreter; one join per thread; a stop request is obeyed; silence after DestroyThread |
| ThreadInterpreter (same file) | `lines`, `pc`, `loopStack`, `execStack`, `exec`, `locals` | one step per line | writes shared variables, calls WebSocketClient | the stacks stay in step; the lines do what they say |
| Threading built-ins (`simple_threading_api.cpp`) | none | ThreadCreate, ThreadDestroy, ThreadSetVar, ThreadGetVar, ThreadCount | SimpleThreading | results are what the documentation says, and outlive the call |
| WebSocketClient (`websocket_client.cpp`) | `m_connected`, `m_running`, `m_socket`, `m_hWebSocket`, `m_thread`, `m_messageQueue` | connect (ws and wss), disconnect, send_message, receive_message, two receive loops | main script, workers, its receiver, a server | one connection; messages in order, none twice; disconnect returns and leaves nothing behind |
| Message monitors (`script2.cpp`, `script.h`, `script_object.cpp`, `application.cpp`) | `mMonitor`, `mCount`, the chain of `MsgMonitorInstance` | add, delete, dispose, `MsgMonitor`, `MsgMonitorList::Call` | script functions called from a pass | passes survive changes of the array; nobody skipped or called twice; limits exact |
| Timers (`script.cpp`, `application.cpp`, `script2.cpp`) | the list of `ScriptTimer`, `mTimerEnabledCount`, `g->CurrentTimer` | SetTimer, UpdateOrCreateTimer, DeleteTimer, CheckScriptTimers | pseudo-threads | no pass stands on a freed timer; none forgotten or skipped; a timer does not interrupt itself |
| Pseudo-threads (`application.cpp`, `script.cpp`, `lib/CCallback.cpp`) | `g_array`, `g`, `g_nThreads`, `g_nPausedThreads`, `g_AllowInterruption`, `g_OnExitIsRunning` | InitNewThread, ResumeUnderlyingThread, Pause, ExitApp, fast callbacks | everything on the main thread | counters follow the C++ stack; `g_array` is never overrun; interruption comes back |
| Message loop (`application.cpp`) | the Windows queue, the uninterruptible timer | MsgSleep | launches all of the above | a message is neither lost nor run at a wrong moment |
| Hook thread (`hook.cpp`) | `g_KeybdHook`, `g_MouseHook`, `sThreadHandle`, the key tables, two named mutexes | AddRemoveHooks, HookThreadProc, the removal of hooks for SendInput and the debugger | main thread by messages, other instances by the mutexes | a call's hooks are in effect when it returns; tables live while they are read; every hook is served |
| Hotkeys (`hotkey.cpp`, `hook.cpp`, `application.cpp`) | per variant `mEnabled`, `mExistingThreads`, `mRunAgainAfterFinished`; `g_IsSuspended` | choice of a variant, criteria, PerformInNewThreadMadeByCaller, Suspend, Hotkey On/Off and its options T, B and S | hook thread by posted messages and SendMessageTimeout | a criterion held for what runs; a press is neither multiplied nor kept for later |
| InputHook (`lib/input.cpp`, `input_object.cpp`, `hook.cpp`) | the chain `g_input`, `Status`, `TimeoutAt`, references | Start, Stop, Timeout, InputTimeout, InputRelease, the hook's walk | hook thread by the chain and by messages | the chain is whole whenever the hook walks it; an ended input is announced; an active one is alive |
| Objects (`script_object*.cpp`), variables (`var.cpp`) | reference counts, sorted fields | Array, Map, `__Delete` | the evaluator | containers behave as maps and sequences; no object used after its end |
| Debugger, GUI, menus, COM, DllCall, files, clipboard, windows, strings, loader | | | | see `PROJECT.json`, which lists every component with a reason |
| Lobby server (`server/server.js`) | players, rounds | one handler per message | WebSocket clients | a round ends for everyone |

Hard to test, and therefore the aim of the project: unlocked lookups in a map
another thread changes; two calls for the same worker between two critical
sections; a join that waits for a thread that waits for something else; a
transport that splits and joins frames; limits and priorities a
script changes under what runs; arrays and lists that change under
several nested walks; counters that many paths increment and decrement; flags
that are saved, set, and restored around arbitrary script.  `PROJECT.json` has
them line by line under `hazards`.

## 2. Modules

| Module | Models | State and actions against the code |
|---|---|---|
| `WorkerLifecycle` | what SimpleThreading promises of a worker: it starts, goes on until asked to stop, finishes, is forgotten | abstract: one stage per worker |
| `SimpleThreading` | the class and the skeleton of `ThreadInterpreter::run` | the three maps are sets and a function; a caller's place is `cpc`, a worker's `wpc`.  One action per critical section, except where somebody can see it half way: CreateThread spawns before it registers, and a worker's `s_stopFlags.find` runs without the mutex.  `torn` says that this lookup overlapped an insertion or an erasure; it may then miss its node.  A line of a worker's script may wait for as long as it likes (`blocked`) |
| `SimpleThreadingApi` | ThreadGetVar, and ThreadDestroy with the reading of its parameter | composes with `SimpleThreading`; `got` is what the script was given |
| `WorkerScript` | what the script of a worker means: blocks nest, an `end` closes the innermost, a loop goes round while its condition holds | abstract: the next line, the variable and the acts done; no stacks |
| `WorkerInterp` | the line loop of `run` with its two stacks | a line is a record with an `op`; the trace is the list of commands carried out; while `exec` is false the line meant next (`Meant`) is the one after the next `else` or `end` |
| `MCWorkerInterp` | scripts for it | all scripts up to a length |
| `WorkerProofs` | | proofs about `SimpleThreading` and `WorkerInterp` |
| `WebSocketChannel` | what the script can rely on of WebSocketReceive: a lossy channel, which hands out frames or pieces of them in the order they were sent, none twice, one connection after another | abstract: the frames sent on each connection, control frames among them, and what the script has taken |
| `WebSocketClient` | one client, its callers, its receiving threads, the network and the server | only the queue is under `m_mutex`, so connect and disconnect are one action per shared access; a caller's place is `pc`, a receiver's `rx`.  The stream is a sequence of segments, two per frame, of which the handshake's recv may swallow some and each later recv returns any prefix; `requests` are the WinHTTP handles besides `m_hWebSocket` |
| `WebSocketClientProofs` | | proofs |
| `MsgMonitorList` | the monitors and the stack of passes over them | a pass has the fields of `MsgMonitorInstance` with the monitor it waits for; adding, deleting and disposing shift the indices of every pass as the code does.  `autoExec` is TRUE up to the `--g_nThreads` of the auto-execute section, after which no thread counts when the program is idle |
| `MsgMonitorListProofs` | | proofs |
| `ScriptTimers` | the timer list and the stack of passes over it | a pass has its position, the `next_timer` it has locked and its priority; deletion unlinks or postpones as `DeleteTimer` does.  A timer's function may change its own thread's priority (`SetPriority`), and with it what the pass compares with; `lowered` is the history of that |
| `MCScriptTimers` | | symmetry of the callbacks |
| `ScriptTimersProofs` | | proofs |
| `PseudoThreads` | the stack of calls over `g_array` | one element of `calls` per C++ activation that launches or is a thread; `Next` has one action per launch, end, pause and exit path |
| `PseudoThreadsProofs` | | proofs |
| `InputLife` | what an InputHook promises its script: an end is told once, and no callback comes when the input is off | abstract: one stage per input, its ends not told yet, the callbacks that run |
| `InputHook` | the chain of inputs, the main thread with its message queue and input timer, the hook thread | `main.pc` is where the main thread waits or works (`startWait` and `endWait` are WaitHookIdle inside InputStart and InputRelease), `hook.at` the input the hook's loop has reached; the chain `g_input` is the least set that holds its head and what every member links to; a test of `InProgress` and what follows it are separate steps wherever the other thread can come between |
| `MCInputHook` | | the timeouts of two inputs |
| `InputHookProofs` | | proofs |
| `HookThread` | AddRemoveHooks with its callers, and HookThreadProc | `main` is the call under way with the arguments it was given, `thread` each hook thread with its queue; one action per exit of the waiting loop.  Nothing in it is specific to a key |
| `HookThreadProofs` | | proofs |
| `Hotkeys` | a press from the hook or the system to the thread it launches | `hook` is the variant the hook thread looks at or asks about, `stack` what the main thread does: threads of hotkeys, a search for the variant, evaluations of criteria on top of them, the warning dialog.  `option` has each variant's T, B and S as Hotkey last set them, `active` the hotkeys that can be pressed at all; a frame keeps the `limit` it began with |
| `MCHotkeys` | | two hotkeys with four variants |
| `HotkeysProofs` | | proofs |

What the modules leave out is data: the values a script computes, the text of
messages and addresses, message filters and time.  A timer may be due whenever
a pass looks; a message may arrive whenever the pump is called.

## 3. What is checked

Twelve runs.  Nine pass; the last three find the one property they name violated.

| Run | Instance | Distinct states | What it shows |
|---|---|---|---|
| `SimpleThreading` | two callers, one also using WaitForThread; two workers; heartbeat modulo 2 | 131 thousand | the interpreter outlives its run, the registries agree between calls, DestroyThread answers true only of a worker that is over and returns unless the worker's line blocks for ever, and the class implements `WorkerLifecycle` with its fairness: no torn lookup ends a worker, and one that is asked to stop does unless it is stuck in a line |
| `WorkerInterp` | every script of up to five lines with conditions `i < 0` and `i < 2` | 80 thousand | the stacks never underflow, whatever the nesting; a script whose blocks do not nest and whose loops count to two at most (`Flat`; more than half of the states are of such scripts) is carried out as `WorkerScript` says |
| `WebSocketClient` | one script thread, ws and wss, two connections, two frames (texts or control frames) in any split of the stream, a server that may hang up | 1.1 million | no `std::terminate`, nothing left after disconnect, no receiver reads the connection of another, a hang-up is noticed, disconnect returns (for wss: once the server has hung up); the client implements `WebSocketChannel`: nothing is handed out twice or out of order, whatever TCP makes of the frames |
| `MsgMonitorList` | two messages, monitors' limits 1 and 3, `g_MaxThreadsTotal` 2, three registrations; OnMessage and event lists; before and after the end of the auto-execute section | 1.5 million | every pass keeps its place, instance counts are exact and at most `g_MaxThreadsTotal`, and no monitor is skipped by a pass under which only older monitors are deleted |
| `MCScriptTimers` | three callbacks, two priorities, which functions may change, three threads, three timers, callbacks symmetric | 3.7 million | positions are live, none forgotten or skipped, none re-entered, or run above a more urgent thread unless a function of that pass has lowered its own priority |
| `PseudoThreads` | `#MaxThreads 2`, four calls deep, two pauses counted | 8.7 million | the counters follow the stack, the limit holds, interruption comes back, no paused thread uncounted |
| `MCInputHook` | two inputs: one with OnEnd and OnChar, which the script may drop and create anew; the other with a timeout of one tick; one callback at a time | 667 thousand | the chain ends and holds every active input, the hook never stands at an input that was cut off behind its back, an ended input leaves the chain or starts again, the timeout timer runs while it is needed, and an object dies too early only after a double end; the two threads together implement `InputLife`: no end is lost or told twice |
| `HookThread` | both hooks, two hook threads, one mutex handle too many | 6.4 million | a call's hooks are in effect, the tables live, every hook is served, and the mutexes tell the truth |
| `MCHotkeys` | a hook hotkey with an expression, a window and a plain variant, a registered one with a window variant of two threads; three presses, two switches (Suspend, Hotkey with On, Off, T, B or S), three threads | 3.2 million | no thread begins above its variant's limit of that moment, a variant runs only for a press its criterion held for, a ticket to run again belongs to a running thread, and a press is never multiplied |
| `SimpleThreadingApiGet` | one caller, two workers | violated | ThreadGetVar returns a buffer it has deleted |
| `WorkerInterpCount` | a loop that counts to three | violated | the body runs twice |
| `MCInputHookAlive` | as `MCInputHook` | violated | an input ended by both threads is released twice, and the object of a later start is deleted while it is active |

Every property of a passing run has a mutant in `PROJECT.json`: a plausible
slip in one mapped definition (a flag not raised, a thread detached instead of
joined, an index not moved, a limit off by one) that makes TLC report it.

**Why the bounds are enough.**  Two workers are needed for one to tear the other's
lookup, two callers for two calls on the same worker; a third of either adds no
new pair of steps.  Two connections are needed for a reconnection, two frames on
all of them for order, for a read that spans frames and for one that spans a
reconnection.  A monitor's function runs only while fewer than `MaxThreads`
threads do, and a pass that may not launch is still a pass: at two, three passes
nest once nothing counts for the idle program, and with three registrations a pass
can be interrupted by one that deletes what a third has just called.  `MaxThreads`
of two is also where the counts before and after the auto-execute section differ
by a whole nested call.  Three timers give a position, a next and a new one; three
threads a pass interrupted by another that is itself interrupted.  Four calls
allow auto-execute, event, OnExit and one above it, or a fast callback between two
threads.  `MaxPaused` is a bound of the model: a thread is paused only while the
counter is below it, and at two a thread can be counted twice.  `BeatMod` and
`MaxTrace` bound the heartbeat and the number of acts followed.  Two inputs give
the chain a first and a last element, so that one is unlinked before, at and
behind the hook's place; `MaxQueue` counts the messages queued when a key or a
Stop begins, so the queue itself grows to three; two references let an input be
started while its end is under way; one callback gives the two outcomes of its
launch.  Two hook threads are one that should have gone and one that replaced it;
`MaxQueue = 0` and `MaxOpen = 1` begin a call with at most the leftover of the
last one.  Three variants of one hotkey give the search a variant to skip, to ask
for and to fall back on; three presses fill a variant's two threads and buffer or
post one; with two switches its limit is lowered under both and raised again;
three threads let an evaluation stand on a thread on a thread.

**Deadlock.**  `SimpleThreading` is checked for deadlock.  The other passing runs
set `CHECK_DEADLOCK FALSE` because their systems do stop: a script's lines are
done, the process terminates, the bounded supply of connections, registrations,
timers and presses runs out, and in `HookThread` and `InputHook` the bounds on
queues and handles, or a deleted object, can keep a call from beginning.

**Fairness.**  The operating system schedules every thread, so worker steps,
receiver steps and the continuation of a call under way are weakly fair.  In
`SimpleThreading` a line that blocks need never go on (`Unblocked` is not fair):
WebSocketConnect to a silent server and WebSocketDisconnect of an idle wss
connection do not (`websocket_client.cpp:140`, `websocket_client.cpp:323`).
`DestroyReturns` and the fairness of `WorkerLifecycle` have that exception, and no
other; a `Sleep` that ends only delays DestroyThread.  In `InputHook` both threads go
on with what they are in the middle of; the main thread comes back to its message
loop again and again, but not while a script calls Start and Stop, and the hook
thread retrieves AHK_HOOK_SYNC between two keys, but not during one: these two are
strongly fair, because keys and scripts disable them again and again and
GetMessage returns posted messages in between all the same.  Nothing is assumed
of anybody who starts a call, of scripts, of callbacks, of keys or of the server.
The other modules of the main thread and `HookThread` state safety only: what the
code promises there depends on how long a script runs.

## 4. What is proved

All theorems hold for every value of the constants under the named assumptions
of the modules (`ThreadingAssumption`, `ProgramAssumption`, `ClientAssumption`,
`PseudoThreadAssumption`, `HookThreadAssumption`, `HotkeyAssumption`,
`TimerAssumption`, `MonitorAssumption`, `InputsAssumption`), which TLC evaluates in
the runs.

* **`WorkerProofs`**, on `SimpleThreading`: `TypeCorrect`, `InterpreterSafe`,
  `JoinedOnce`, `Agreement`, `EndsOnRequest`, the action properties `DestroySound`
  and `SilentOnceDestroyed`, and `Refinement` (`Spec => Lifecycle!Spec`).  None of
  them is inductive: they speak of a worker, while the reason is where the callers
  are.  `Inv` adds that the mutex is held between two actions only by a
  CreateThread whose worker has a flag but is not registered (`LockInv`); that a
  caller past the removal from `s_threads` works on a worker still in the other
  two maps (`LeavingInv`); that no two calls work on the same worker
  (`UniqueInv`); that identifiers not handed out are nowhere (`FreshInv`); what
  each place of a worker says about its flag and its interpreter (`WorkerInv`);
  and why a flag is there (`AgreeInv`).  Worker steps and caller steps are two
  lemmas, split by action.  On `WorkerInterp`: `StacksAlwaysMatch`, for scripts of
  any length and nesting, closed or not (`loopStack` has no more entries than
  `execStack` and each is the line of a `while`, so that no `back()` is taken of
  an empty vector; which loops are on it is not said, since a loop that goes round
  loses its entry), and `FlatScriptsAsWritten` (with `FlatScriptsImplemented`):
  the loop implements `WorkerScript` for scripts of any length whose blocks do not
  nest and whose loops count to two at most.  Both conditions are bugs of the loop
  (section 5), not bounds.  `AtLine` says where the line loop can be: an inactive
  line is in an `if`; `loopStack` is the loop around the line or empty; and when
  it is empty in a loop, this is the loop's second round, which only the variable
  remembers, so that the condition has to fail at the `end`.  `EndIs`, `BlockIs`,
  `ElsesAre` and `NextAhead` compare the blocks that `WorkerScript` looks for with
  the searches of the code: in such a script the depth of a block is one up to its
  end, which gives both without induction over the lines.
* **`PseudoThreadsProofs`**: `TypeCorrect`, `CountersFollow`, `WithinLimit`,
  `OneExitThread`, `InterruptionReturns`, `NoPausedUncounted`, for every
  `#MaxThreads` and depth.  `IInv` describes the stack call by call: each one's
  element of `g_array` is the last one's or the next (`Chain`); the limit held
  when each call began and was passed only above an OnExit thread (`Limited`); one
  of them is an exit (`OneExit`); and an exit that will restore FALSE stands above
  a call that will set TRUE (`Restores`), without which `InterruptionComesBack`
  would not survive a refused exit.  Three lemmas say what moving the top call,
  pushing one and popping one do to such a stack; each action cites one.
  `PausedCounted` is kept because the set of paused elements below `g` loses at
  most the one element that a step takes out of the count, and gains at most the
  one it counts.
* **`HookThreadProofs`**: `TypeCorrect`, `HooksServed`, `CallTakesEffect`,
  `TablesStay`, `MutexesExact`, for any number of hook threads and any bounds.
  `HookServed` needs no help but the types: a thread exits only when no hook is
  left.  The others are about a program in which no wait has timed out, and none
  is inductive: whether the hooks are those asked for when a reply is taken
  depends on what the hook thread had done when it sent it.  `Steady` follows a
  request through its stages (`Posted`, `Working`, `Replied`, `Removed0`,
  `GivenUp`), says that all hooks belong to the current thread and that the others
  have nothing to do (`OneThread`), that a temporary change may go on while the
  thread has yet to come back to its queue (`Leaving`), and which hooks have their
  tables and mutexes at each place of the call.  It is kept as long as the next
  state is not late, and lateness is never taken back (`LateStays`).
* **`WebSocketClientProofs`**: `TypeCorrect` for any callers; `NoTerminate`,
  `QuietAfterDisconnect`, `OwnStream` and `ChannelImplemented`
  (`Spec => Channel!Spec`) where one thread uses the client.  The assumption is the
  point: with two callers both can pass the test of `m_connected`, and the second
  assignment to a joinable `m_thread` terminates the program.  `OneCallerInv`
  says for each place of the caller whether a receiver is running and which
  transport is open (`Place`); one lemma says that a step of a receiver or of the
  server leaves the caller's place as it is.  Nothing is assumed of the reads: the
  stream is cut anywhere, texts and control frames alike.  `StreamInv` ties the
  network to the queue: what is on its way on a connection is in the order sent
  (`OnTheWay`); what has been received, delivered or still queued, is in order and
  repeats nothing (`InOrder`), and stems from before what is still on its way
  (`Stems`); and a connection not yet opened is newer than all of them.  Pieces of
  one frame may be two messages, which is where the abstract channel is lossy
  rather than first in, first out.
* **`HotkeysProofs`**: `LimitsHeld`, `TicketsHaveThreads`, `CriterionAlways`,
  `NoRunWithoutPress`, for any hotkeys, criteria, limits and number of presses,
  with limits that Hotkey's T option changes while threads run (so that a variant
  may well have more threads than its limit: `LimitsHeld` is about the limit a
  thread began with).  `IInv` says that `mExistingThreads` is the number of the
  variant's frames on the stack (`ThreadsCounted`), which keeps a ticket with its
  thread; that a message that names a variant carries its criterion
  (`QueueSound`); that the hook thread waits for at most the one evaluation that
  will answer it (`HookSound`) and an evaluation for a search stands on that
  search (`StackSound`), so that no answer reaches the wrong question, and that
  each thread, with those of its variant beneath it, is within the limit it began
  with (`Within`); and that the searches under way count as runs too (`Balanced`):
  without them a message taken off the queue would be lost to the sum.  `Count`
  and its lemmas for a push, a pop and a replacement carry the counting, and one
  lemma (`Fires`) covers the three places a press fires.
* **`ScriptTimersProofs`**: `TypeCorrect`, `PositionsLive`, `NeverForgotten`,
  `NeverSkipped`, `AlwaysDuly` (with the exception of a pass whose own function
  has lowered its priority), for any callbacks, priorities, number of timers and
  depth of interruption.  `Good` ties the list to the stack: the list is in the
  order of creation (`Ordered`); `mExistingThreads` and `mDeleteLocked` of a listed
  timer are the numbers of frames that run it and of frames that hold it as
  `next_timer` (`Told`), so what a frame needs cannot be unlinked; a frame has
  looked at everything before the place where it stands or will go on
  (`FrameSound`), below the top too, where other passes unlink timers around it;
  and a disabled timer is in use (`NoneIdle`).  `Good` takes the stack, the timers,
  the list and the count as arguments, with the timers that are for a moment idle
  but listed, so that a step is a few of the moves `Pop`, `Push`, `Switch`,
  `Reaped`, `Created` and `Settle`.
* **`MsgMonitorListProofs`**: `TypeCorrect` (`instance_count` is never above
  `g_MaxThreadsTotal`, so that a byte holds it; it can be equal once the
  auto-execute section has ended), `AlwaysTracks`, `CountsExact`,
  `OlderNeverSkipped`, for any messages, limits, nesting and number of
  registrations.  A pass that waits stands on the monitor it has called unless it
  is marked, and for OnMessage it is marked only when that monitor is gone
  (`Pointed`); without the second half a stale mark would leave a call counted.
  `Looked` says that what was there at the start and has not been looked at lies
  between the place where the pass goes on (`First`) and its `count`, and that
  nothing from `First` on has been looked at; it holds as long as no newer monitor
  was deleted, the exception the code's comment makes.  `LastAdded`, `FirstAdded`,
  `OneDeleted` and `AllDisposed` take one pass through a change of the array,
  `LookedOn` through a step of its own.

* **`InputHookProofs`**: `TypeCorrect`, `ChainWhole`, `PlaceLinked`,
  `EndsAnnounced`, `TimerAlways`, `AliveTillTwice` and `InputsLive`
  (`Spec => Life!Spec`), for any inputs, timeouts, queues and number of callbacks.
  `ChainInv` says that the links from `g_input` make a list that ends and in which
  nobody is linked to twice (`ListFrom`), and holds every active input; `Linked`,
  `HeadUnlinked` and `LaterUnlinked` are lemmas on any such list, without
  induction over its length: a walk is the least set closed under the links, so a
  set that is closed holds it.  `MainInv` says that an input the main thread has
  unlinked and waits with still links into the chain, `HookInv` that the hook's
  place does too: this is why the hook, wherever an input is cut off behind its
  back, finds its way to the end.  `PassInv` is for the timeout: a pass of
  InputTimeout that has found nothing to wait for so far has every input with a
  timeout ahead of it, links that are added meanwhile included.  `CountInv` has
  the reason why an object lives: an input has a reference for each release it is
  still to get (one when it ends, one for each AHK_INPUT_END on its way, posted or
  collected, one for each OnEnd that runs), until one is ended twice.  For
  `InputLife` an input is over while it has stopped but is linked, and while it
  waits, unlinked, for the hook to leave it; its ends not told yet are the
  AHK_INPUT_ENDs in the queue and in the hook's hands, and the one InputRelease is
  busy with.  A message moves from one of these places to the next without being
  counted twice or missed (`TimesPut`, `TimesTaken`), and the hook collects a key
  only for an input that is not off, by `HookPlaceLinked`.  The one fact `Inv`
  does not give is that what Stop has tested stays linked until it ends it
  (`StopInv`).  `EndsAnnounced` is the half of this that a stopped input depends
  on: its end is on the way.  A double end is two ends here, and only the first is
  told to a script that has not started the input again.

**Only model-checked.**  Liveness and fairness (`DestroyReturns`,
`CloseNoticed`, `DisconnectReturns`, `EndedLeaves`, the fairness
part of `ImplementsLifecycle`), which need ENABLED.

## 5. Where code and documentation disagree

The three violated runs, quoted with their lines under `findings`.  The models
brought out further ones that have no run of their own:

* A read is taken for a frame (`websocket_client.cpp:245`): two frames in one read
  give one message, and a frame in two reads none, or a piece of it
  (`docs/API.md:124`: "Next message as a string, or empty string if none
  available").  `WebSocketChannel` is lossy for this reason; that frames get lost
  is in the model and is no property.
* `opcode` and `fin` are decoded and never used (`websocket_client.cpp:198`), so a
  Ping or Close frame with a payload is queued like a message
  (`websocket_client.cpp:254`), and a Close frame does not end the loop.
* The one recv of the handshake (`websocket_client.cpp:140`) may return the first
  frames along with the answer, and throws them away.
* `m_hRequest` is nulled, not closed, after the upgrade
  (`websocket_client.cpp:424`), and a wss connection that fails leaves the handles
  made so far to be overwritten by the next (`websocket_client.cpp:386`).  A ws
  connection's disconnect closes them.  That these handles leak is in the model
  (`requests`) and is no property; `DisconnectedIsQuiet` speaks of the socket,
  `m_hWebSocket` and the receiver.
* A line of a worker that blocks for ever (`websocket_client.cpp:140`,
  `websocket_client.cpp:323`) blocks a DestroyThread of it for ever in the join
  (`simple_threading.cpp:227`); `docs/API.md:71` promises an answer.
* That the line loop ends for a script whose `while` never fails is owed to the
  pop that the run `WorkerInterpCount` is about (`simple_threading.cpp:104`): the
  second `end` no longer finds its loop.  It is not stated as a property.
* A timer's function may lower its thread's priority with `Thread("Priority", n)`
  (`script2.cpp:2613`), and the pass that launched it goes on with the lowered value
  (`application.cpp:1555`), so that it runs timers less urgent than the thread it
  interrupts.  `InterruptsDuly` leaves such a pass out by `lowered`.
* Hotkey's T option lowers a variant's limit below the threads it has
  (`hotkey.cpp:1221`), and those go on.
* A monitor that is deleted lowers the count of every pass, also of one that began
  before it was added (`script.h:1953`), so that the pass ends one monitor early;
  `script2.cpp:2817` says deletion allows "any remaining monitors of that message
  to be called".  `OlderNoneSkipped` leaves such a pass out by `newerGone`.
* `g->CurrentTimer` is set (`application.cpp:1627`) and not cleared when the timer
  is unlinked and deleted; `script2.cpp:2519` takes a null value for "the timer
  has been deleted".
* A thread paused by the tray or from above in its last line ends while it is
  paused and is not counted out of `g_nPausedThreads` (`application.cpp:1913`):
  the consequence `script.cpp:12006` names, that timers "would forever be
  disabled".
* `AddRemoveHooks` asserts in a comment that no thread handle is there when it
  creates a thread, except after a timeout (`hook.cpp:3937`).  A restore that fails
  leaves a thread without hooks as well, and the next permanent change creates a
  second one and forgets the handle of the first.
* The loop that waits for a temporary removal calls no PeekMessage
  (`hook.cpp:4069`), so a hook thread that is asking the main thread for a
  criterion cannot go on and the wait lasts its half second.  Restore then finds
  the hooks still there and returns at once, and the removal that is still queued
  takes them away for good.  A reply that comes late is taken by the next call for
  its own.  The theorems are therefore about a program that was never late.
* A permanent change that creates a mutex again overwrites the handle it has
  (`hook.cpp:4113`), which happens after a restore that failed.
* `InputTimeout` that runs inside WaitHookIdle of a restart finds the chain without
  the input that is being restarted and kills the timer just set for it
  (`application.cpp:2063`): the input never times out.  `TimerCovers` leaves this
  out by `lost`.
* Started, stopped, started and stopped again before the first AHK_INPUT_END is
  handled, an input keeps a reference for ever: the second message finds it out of
  the chain (`lib/input.cpp:503`).
* An OnChar notification posted before the end of an input and handled after it is
  dropped (`application.cpp:801`).
* Tickets to run again are cancelled only inside the test of `mIsRegistered`
  (`hotkey.cpp:244`), so that a hook hotkey that is suspended keeps its ticket;
  `hotkey.cpp:250` says "Applies to all hotkey types, not just registered ones".
* A variant posted with its index fires although it was disabled or suspended since
  (`application.cpp:863`); the comment at `hotkey.cpp:599` says that aborting "seems
  like the best choice" then, and it does so for the other criteria.
* `ThreadDestroy(tid)` with `tid` a variable reads the parameter as an integer
  and answers false (`simple_threading_api.cpp:41`, against `docs/API.md:71`).
* `ThreadCount()` returns a counter that creation and destruction leave alone
  (`simple_threading.cpp:202`, `docs/API.md:74`).
* A worker whose script has failed goes on to the heartbeat loop
  (`simple_threading.cpp:188`, `docs/API.md:147`: "The thread stops").
* The `end` of an inner block sets `exec` although the block around it is not to
  run (`simple_threading.cpp:109`, `docs/API.md:50`); this is why
  `Flat` asks for scripts without nested blocks.
* The Quick Start script is written with braces and parentheses the line loop
  does not read (`docs/API.md:12`).
* `connect` tests `m_connected` long before it sets it, so the main script and a
  worker can both connect (`websocket_client.cpp:262`, `docs/API.md:149`).
* `disconnect` of an idle wss connection joins a receiver that waits for the
  server before the handles are closed (`websocket_client.cpp:323`); the property
  `DisconnectReturns` is stated with that exception.
* wss connections are made (`websocket_client.cpp:272`) although
  `docs/API.md:110` says they are not supported.
* After a monitor of an event has deleted itself, the mark stays, and
  `IsRunning` answers no for the rest of the pass (`script_object.cpp:2794`,
  `script2.cpp:2847`).
* A timer deleted and set again during a pass can be run twice by it
  (`application.cpp:1550`, `application.cpp:1508`).
* A thread paused by the tray that calls `Pause` in the same line is counted twice
  (`script.cpp:12000`, `script.cpp:11986`); this is why `PausedCounted` is an
  inequality.
* A timer that pauses the thread beneath it does not stop its own pass
  (`application.cpp:1540`, `application.cpp:1533`).
* An OnExit function that uses `Send` becomes interruptible
  (`application.h:44`, `script.cpp:1267`).

## 6. Not modelled, and the plan

Not modelled:

* System calls (files, registry, clipboard, windows, sound, drives), COM and
  DllCall, text and number functions, the GUI's controls, the sending of keys.
  Their state is outside the program, or they are sequential.
* The loader and the evaluator, objects and variables: sequential code on the
  memory of one thread, of which only what other components see is modelled.  The
  life of an object whose `__Delete` makes new references, and Array and Map
  against a reference, would be the first to add.
* PCRE: vendored.
* Of modelled components: `send_message` and the status variables of
  `websocket_api.cpp`; hotstrings, alt-tab hotkeys, input levels, and the
  recognition of prefix keys in the hook procedures; KeyOpt of an InputHook, and a
  script that changes its Timeout (an input has the same one all along; key-down,
  key-up and character notifications stand as one message); Critical, `Thread`
  settings other than Priority, and the uninterruptible period; filtering and
  requeueing in MsgSleep; the destruction of static members while workers run
  (`simple_threading.cpp:9`).  A `find` in an unordered map while another thread
  inserts or erases is undefined; `SimpleThreading` reduces it to finding the node
  or not, and a rehash or a freed node that crashes the lookup is outside the
  model.  In `Hotkeys`, a question that times out before the main thread takes it
  is not evaluated afterwards, and the warning dialog does not exit.
* `server/server.js`, which is not part of the program: a player who is not ready and
  disconnects may leave only ready ones, and nobody is told (`server.js:77`).

The definitions map about two lines in a hundred of the implementation.  Most of
the repository is the loader, the GUI, wrappers of system calls and PCRE, which
have no interleavings to explore and no invariants a model would add to the code.

Modules were written in the order of section 2.  What would come next: abstract
specifications that `HookThread` and `Hotkeys` implement, as `SimpleThreading`,
`WorkerInterp`, `WebSocketClient` and `InputHook` do theirs; object lifetimes; the
lobby server.

## 7. Running it

    tlc -workers 2 -config SimpleThreading.cfg SimpleThreading
    tlc -workers 2 -config WorkerInterp.cfg MCWorkerInterp
    tlc -workers 2 -config MCScriptTimers.cfg MCScriptTimers
    tlc -workers 2 -config MCInputHook.cfg MCInputHook
    tlapm WorkerProofs.tla

`PROJECT.json` names the module of each configuration.  The longest runs and
proof modules take a few minutes.
