---------------------------- MODULE MsgMonitorList ----------------------------
(***************************************************************************)
(* The array of message monitors and its iterators: MsgMonitorList and     *)
(* MsgMonitorInstance (source/script.h, source/script2.cpp), the pass of   *)
(* MsgMonitor (source/application.cpp) that calls every OnMessage monitor  *)
(* of a message, and the passes of MsgMonitorList::Call                    *)
(* (source/script_object.cpp) for OnExit, OnClipboardChange and GUI        *)
(* events.                                                                 *)
(*                                                                         *)
(* A pass walks an array that changes under it: while it waits for a       *)
(* monitor's function, the script adds monitors at either end, deletes     *)
(* any, and takes messages that start passes of their own.  All of this is *)
(* on one OS thread, so the passes under way form a stack and only the top *)
(* one moves.                                                              *)
(*                                                                         *)
(* Indices are the code's, from 0.  Each registration has an id of its     *)
(* own, so that a monitor deleted and registered again is another one.     *)
(* The growth of the array is left out.                                    *)
(***************************************************************************)
EXTENDS Integers, Sequences, FiniteSets, SequencesExt

CONSTANTS
    Msgs,          \* messages
    MaxInstances,  \* OnMessage's MaxThreads values in use
    Kinds,         \* the lists looked at, a subset of {"OnMessage", "Event"}
    MaxThreads,    \* g_MaxThreadsTotal; for "Event", bound on the nesting of passes
    MaxIds         \* bound: registrations in a behaviour

ASSUME MonitorAssumption ==
    /\ MaxThreads \in Nat \ {0} /\ MaxIds \in Nat
    /\ MaxInstances \subseteq Nat \ {0}
    /\ Kinds \subseteq {"OnMessage", "Event"}

VARIABLES
    kind,       \* "OnMessage" for g_MsgMonitor, "Event" for the lists of Call
    monitors,   \* mMonitor: [id, msg, instances, max]
    stack,      \* mTop and its chain, outermost pass first
    nextId,     \* the id of the next registration
    autoExec    \* the auto-execute section has not ended

monVars == <<kind, monitors, stack, nextId, autoExec>>

NoId == 0
Ids == 1..MaxIds

Monitor == [id : Ids, msg : Msgs, instances : 0..MaxThreads, max : MaxInstances]

(* A pass: the code's MsgMonitorInstance, the monitor whose function it is *)
(* waiting for, and three history fields: the monitors registered when the *)
(* pass began, in order, those it has looked at, and whether a monitor     *)
(* registered since it began has been deleted under it.                    *)
Pass == [msg : Msgs, index : Int, count : Int, deleted : BOOLEAN,
         current : Ids \cup {NoId}, start : Seq(Ids), seen : Seq(Ids), newerGone : BOOLEAN]

TypeOK ==
    /\ kind \in Kinds
    /\ monitors \in Seq(Monitor)
    /\ stack \in Seq(Pass)
    /\ nextId \in 1..(MaxIds + 1)
    /\ autoExec \in BOOLEAN

Init ==
    /\ kind \in Kinds /\ monitors = <<>> /\ stack = <<>>
    /\ nextId = 1 /\ autoExec = TRUE

Top == stack[Len(stack)]
IdsOf(mons) == [i \in 1..Len(mons) |-> mons[i].id]
Present == Range(IdsOf(monitors))

(* The script runs: no pass is under way, or the top one has called a      *)
(* monitor's function.                                                     *)
ScriptRuns == stack # <<>> => Top.current # NoId

(* g_nThreads: the auto-execute thread, while it runs, and one for each    *)
(* function called.  Threads of other kinds, when there are any, leave     *)
(* less room: PassBy.                                                      *)
Threads == (IF autoExec THEN 1 ELSE 0)
           + Cardinality({d \in DOMAIN stack : stack[d].current # NoId})

OnEachPass(Change(_)) == [d \in 1..Len(stack) |-> Change(stack[d])]
WithTop(pass) == [stack EXCEPT ![Len(stack)] = pass]

-----------------------------------------------------------------------------
(* The auto-execute section ends: AutoExecSection takes its thread off     *)
(* g_nThreads, which is 0 from then on when the script is idle.            *)
AutoExecEnds ==
    /\ autoExec /\ stack = <<>>
    /\ autoExec' = FALSE
    /\ UNCHANGED <<kind, monitors, stack, nextId>>

(* OnMessage(msg, function, MaxThreads), or OnEvent etc., for a function   *)
(* that is not registered.                                                 *)

NewMonitor(m, max) == [id |-> nextId, msg |-> m, instances |-> 0, max |-> max]

AddLast(m, max) ==
    /\ ScriptRuns /\ nextId \in Ids
    /\ monitors' = Append(monitors, NewMonitor(m, max))
    /\ nextId' = nextId + 1
    /\ UNCHANGED <<kind, autoExec, stack>>

(* AddInternal moves the array up one and every pass with it.              *)
MoveUp(p) == [p EXCEPT !.index = @ + 1, !.count = @ + 1]

AddFirst(m, max) ==
    /\ ScriptRuns /\ nextId \in Ids
    /\ monitors' = <<NewMonitor(m, max)>> \o monitors
    /\ stack' = OnEachPass(MoveUp)
    /\ nextId' = nextId + 1
    /\ UNCHANGED <<kind, autoExec>>

(* OnMessage(msg, function, MaxThreads) for a function that is registered  *)
(* changes its limit.                                                      *)
SetMaxInstances(i, max) ==
    /\ ScriptRuns
    /\ monitors' = [monitors EXCEPT ![i].max = max]
    /\ UNCHANGED <<kind, autoExec, stack, nextId>>

(* MsgMonitorInstance::Delete for the monitor at index mon.                *)
ForgetDeleted(p, mon) ==                              \* mutant: never sets deleted
    [p EXCEPT !.index = IF @ >= mon /\ @ >= 0 THEN @ - 1 ELSE @, !.count = @ - 1]
StrictShift(p, mon) ==                                \* mutant: > for >=
    [p EXCEPT !.deleted = @ \/ (p.index = mon),
              !.index = IF @ > mon THEN @ - 1 ELSE @,
              !.count = @ - 1]
PassDelete(p, mon) ==
    [p EXCEPT !.deleted = @ \/ (p.index = mon /\ p.index >= 0),
              !.index = IF @ >= mon /\ @ >= 0 THEN @ - 1 ELSE @,
              !.count = @ - 1]

NoteNewer(p, id) == [p EXCEPT !.newerGone = @ \/ id \notin Range(p.start)]

(* OnMessage(msg, function, 0): MsgMonitorList::Delete.                    *)
Delete(i) ==
    /\ ScriptRuns
    /\ stack' = OnEachPass(LAMBDA p : NoteNewer(PassDelete(p, i - 1), monitors[i].id))
    /\ monitors' = RemoveAt(monitors, i)
    /\ UNCHANGED <<kind, autoExec, nextId>>

(* Dispose: the list's owner goes away while the passes are under way.     *)
(* Only a GUI or a control is disposed of before the program ends.         *)
DisposePass(p) == [p EXCEPT !.count = 0, !.deleted = TRUE]

Dispose ==
    /\ kind = "Event" /\ ScriptRuns /\ stack # <<>>
    /\ monitors' = <<>>
    /\ stack' = OnEachPass(DisposePass)
    /\ UNCHANGED <<kind, autoExec, nextId>>

-----------------------------------------------------------------------------
(* A pass.                                                                 *)

(* A message arrives: the constructor of MsgMonitorInstance.  Every pass   *)
(* of MsgMonitor but the top one has a thread, so only the passes of Call  *)
(* meet the bound.                                                         *)
Begin(m) ==
    /\ ScriptRuns /\ monitors # <<>>
    /\ Len(stack) <= MaxThreads
    /\ stack' = Append(stack, [msg |-> m, index |-> 0, count |-> Len(monitors),
                               deleted |-> FALSE, current |-> NoId,
                               start |-> IdsOf(monitors), seen |-> <<>>,
                               newerGone |-> FALSE])
    /\ UNCHANGED <<kind, autoExec, monitors, nextId>>

Looking == stack # <<>> /\ Top.current = NoId /\ Top.index < Top.count

(* The monitor the top pass has come to.                                   *)
Here == monitors[Top.index + 1]

Look(pass) == [pass EXCEPT !.seen = Append(@, Here.id)]

(* It is for another message, or MsgMonitor declines to launch its thread: *)
(* too many threads, too many of this monitor, or the thread under it has  *)
(* a priority above zero.                                                  *)
PassBy ==
    /\ Looking
    /\ Here.msg # Top.msg \/ kind = "OnMessage"
    /\ stack' = WithTop([Look(Top) EXCEPT !.index = @ + 1])
    /\ UNCHANGED <<kind, autoExec, monitors, nextId>>

OneThreadMore == Threads <= MaxThreads /\ Here.instances < Here.max  \* mutant: <= for <
MayLaunch == Threads < MaxThreads /\ Here.instances < Here.max

Call ==
    /\ Looking
    /\ Here.msg = Top.msg
    /\ kind = "OnMessage" => MayLaunch
    /\ stack' = WithTop([Look(Top) EXCEPT !.current = Here.id])
    /\ monitors' = IF kind = "OnMessage"
                   THEN [monitors EXCEPT ![Top.index + 1].instances = @ + 1]
                   ELSE monitors
    /\ UNCHANGED <<kind, autoExec, nextId>>

(* The function returns.  MsgMonitor counts the instance out, unless the   *)
(* monitor has been deleted, and clears the mark; Call does neither.       *)
CountOutAlways ==                                     \* mutant: ignores the mark
    Top.index + 1 \in DOMAIN monitors /\ monitors[Top.index + 1].instances > 0
CountOut == ~Top.deleted /\ monitors[Top.index + 1].instances > 0

ClearMark(p) == IF kind = "OnMessage" THEN [p EXCEPT !.deleted = FALSE] ELSE p

Return(stop) ==
    /\ stack # <<>> /\ Top.current # NoId
    /\ monitors' = IF kind = "OnMessage" /\ CountOut
                   THEN [monitors EXCEPT ![Top.index + 1].instances = @ - 1]
                   ELSE monitors
    /\ stack' = IF stop THEN Front(stack)
                ELSE WithTop([ClearMark(Top) EXCEPT !.index = @ + 1, !.current = NoId])
    /\ UNCHANGED <<kind, autoExec, nextId>>

End ==
    /\ stack # <<>> /\ Top.current = NoId /\ Top.index >= Top.count
    /\ stack' = Front(stack)
    /\ UNCHANGED <<kind, autoExec, monitors, nextId>>

-----------------------------------------------------------------------------
Script ==
    \/ \E m \in Msgs, max \in MaxInstances : AddLast(m, max) \/ AddFirst(m, max)
    \/ \E i \in 1..Len(monitors) : Delete(i)
    \/ \E i \in 1..Len(monitors), max \in MaxInstances : SetMaxInstances(i, max)
    \/ Dispose
    \/ AutoExecEnds
    \/ \E m \in Msgs : Begin(m)

Next == Script \/ PassBy \/ Call \/ (\E stop \in BOOLEAN : Return(stop)) \/ End

Spec == Init /\ [][Next]_monVars

-----------------------------------------------------------------------------
(* Properties.                                                             *)

(* A pass never runs off the array, and while it waits for a function its  *)
(* index stays on the monitor it called, however the array has moved;      *)
(* once that monitor is gone, the pass is marked.                          *)
IndexTracks ==
    \A d \in 1..Len(stack) :
        LET p == stack[d] IN
        /\ p.count <= Len(monitors)
        /\ p.index < p.count => p.index + 1 \in DOMAIN monitors \/ p.index = -1
        /\ p.current # NoId /\ ~p.deleted =>
             p.index + 1 \in DOMAIN monitors /\ monitors[p.index + 1].id = p.current
        /\ p.current # NoId /\ p.current \notin Present => p.deleted

(* application.cpp:1828: "Zero should be impossible due to the "deleted"   *)
(* check."  A monitor's instance_count is the number of its functions      *)
(* under way, so no call is counted out of another monitor, and the limit  *)
(* on its threads works.                                                   *)
InstancesExact ==
    kind = "OnMessage" =>
        \A i \in 1..Len(monitors) :
            monitors[i].instances =
                Cardinality({d \in 1..Len(stack) : stack[d].current = monitors[i].id})

(* script2.cpp:2817: "This allows a message monitor to delete older        *)
(* message monitors while still allowing any remaining monitors of that    *)
(* message to be called".  A pass under which no newer monitor has been    *)
(* deleted has looked, when it comes to its end, at every monitor that was *)
(* registered when it began and still is, at each once.                    *)
OlderNoneSkipped ==
    \A p \in Range(stack) : p.current = NoId /\ p.index >= p.count /\ ~p.newerGone =>
        /\ Range(p.start) \cap Present \subseteq Range(p.seen)
        /\ IsInjective(p.seen)
===============================================================================
