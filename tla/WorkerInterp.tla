----------------------------- MODULE WorkerInterp -----------------------------
(***************************************************************************)
(* How a worker thread runs its script: the line loop of                   *)
(* ThreadInterpreter::run (source/simple_threading.cpp) with its two       *)
(* stacks, loopStack and execStack, and its flag exec.  What the lines     *)
(* mean is in WorkerScript.                                                *)
(*                                                                         *)
(* A line is a record with an op.  The script has one local variable; a    *)
(* condition compares it with a number.  Every command the loop carries    *)
(* out without touching locals or control flow (Sleep, ThreadSetVar,       *)
(* WebSocketSend...) is an "act", and the trace is the sequence of the     *)
(* line numbers of the acts.  The stop flag is in SimpleThreading.         *)
(***************************************************************************)
EXTENDS Integers, Sequences, FiniteSets, SequencesExt

CONSTANTS
    Programs,   \* the scripts that are run
    MaxTrace    \* bound: acts that are followed

Ops == {"while", "if", "else", "end", "zero", "inc", "act", "bad", "other"}

(* A while or an if has the condition "i < limit".                         *)
Line(op, limit) == [op |-> op, limit |-> limit]
Lines == [op : Ops, limit : Int]

ASSUME ProgramAssumption == Programs \subseteq Seq(Lines) /\ MaxTrace \in Nat

VARIABLES
    prog,        \* lines
    pc,          \* pc, from 1
    exec,        \* whether the block is active
    loopStack, execStack,
    local,       \* locals: the variable, 0 when it is not there yet
    trace,       \* the acts done
    failed        \* thread_<id>_error has been set

interpVars == <<prog, pc, exec, loopStack, execStack, local, trace, failed>>

InterpInit ==
    /\ prog \in Programs
    /\ pc = 1 /\ exec = TRUE
    /\ loopStack = <<>> /\ execStack = <<>>
    /\ local = 0 /\ trace = <<>> /\ failed = FALSE

LinesLeft == pc <= Len(prog) /\ Len(trace) < MaxTrace
Here == prog[pc]
At(op) == LinesLeft /\ Here.op = op

(* evalCond of "i < limit": a name that is not in locals counts 0.         *)
EvalCond(line) == local < line.limit

Least(S) == CHOOSE p \in S : \A q \in S : p <= q

Stop == pc' = Len(prog) + 1       \* break: the message loop follows

-----------------------------------------------------------------------------
(* The search for the end of a loop whose condition fails: "while" counts  *)
(* up, "end" down; an "if" is passed over, but its "end" is not.           *)
Count(first, last, op) == Cardinality({q \in first..last : prog[q].op = op})
LoopDepth(first, last) == Count(first, last, "while") - Count(first, last, "end")
SkipLine(p) == p + 1                                  \* mutant: skips nothing but the while
SkipLoop(p) ==
    LET ends == {q \in (p + 1)..Len(prog) : LoopDepth(p, q) = 0}
    IN  IF ends = {} THEN Len(prog) + 1 ELSE Least(ends) + 1

While ==
    /\ At("while")
    /\ IF exec /\ EvalCond(Here)
       THEN /\ loopStack' = Append(loopStack, pc)
            /\ execStack' = Append(execStack, exec)
            /\ pc' = pc + 1
       ELSE /\ pc' = IF exec THEN SkipLoop(pc) ELSE pc + 1
            /\ UNCHANGED <<loopStack, execStack>>
    /\ UNCHANGED <<prog, exec, local, trace, failed>>

(* An "end" goes to the innermost loop under way if there is one, which    *)
(* loses its entries on both stacks, whether it goes on or not.            *)
KeepLoop(s) == s                                      \* mutant: no pop_back
PopLoop(s) == Front(s)

EndLoop ==
    /\ At("end") /\ loopStack # <<>>
    /\ loopStack' = PopLoop(loopStack)
    /\ execStack' = Front(execStack)
    /\ IF Last(execStack) /\ EvalCond(prog[Last(loopStack)])
       THEN pc' = Last(loopStack) + 1 /\ UNCHANGED exec
       ELSE pc' = pc + 1 /\ exec' = Last(execStack)
    /\ UNCHANGED <<prog, local, trace, failed>>

(* Any other "end" makes the code after it active.                         *)
EndIf ==
    /\ At("end") /\ loopStack = <<>>
    /\ exec' = TRUE /\ pc' = pc + 1
    /\ UNCHANGED <<prog, loopStack, execStack, local, trace, failed>>

If ==
    /\ At("if")
    /\ execStack' = Append(execStack, exec)
    /\ exec' = (exec /\ EvalCond(Here))
    /\ pc' = pc + 1
    /\ UNCHANGED <<prog, loopStack, local, trace, failed>>

(* An "else" flips exec if the block around was active, which is what the  *)
(* last entry of execStack says; without an entry it is an error.          *)
Else ==
    /\ At("else")
    /\ IF execStack = <<>>
       THEN failed' = TRUE /\ Stop /\ UNCHANGED exec
       ELSE exec' = (Last(execStack) /\ ~exec) /\ pc' = pc + 1 /\ UNCHANGED failed
    /\ UNCHANGED <<prog, loopStack, execStack, local, trace>>

Inactive ==
    /\ LinesLeft /\ Here.op \notin {"while", "end", "if", "else"} /\ ~exec
    /\ pc' = pc + 1
    /\ UNCHANGED <<prog, exec, loopStack, execStack, local, trace, failed>>

Command(op) == At(op) /\ exec /\ UNCHANGED <<prog, exec, loopStack, execStack>>

Inc ==
    /\ Command("inc")
    /\ local' = local + 1 /\ pc' = pc + 1
    /\ UNCHANGED <<trace, failed>>

(* An assignment of a literal.                                             *)
Zero ==
    /\ Command("zero")
    /\ local' = 0 /\ pc' = pc + 1
    /\ UNCHANGED <<trace, failed>>

Act ==
    /\ Command("act")
    /\ trace' = Append(trace, pc) /\ pc' = pc + 1
    /\ UNCHANGED <<local, failed>>

(* A call of a function that is not supported.                             *)
Bad ==
    /\ Command("bad")
    /\ failed' = TRUE /\ Stop
    /\ UNCHANGED <<local, trace>>

(* A line that is none of these, such as a brace, and an assignment whose  *)
(* right side is no literal, such as "i := i + 1": nothing happens.        *)
Other ==
    /\ Command("other")
    /\ pc' = pc + 1
    /\ UNCHANGED <<local, trace, failed>>

InterpNext == While \/ EndLoop \/ EndIf \/ If \/ Else \/ Inactive \/ Zero \/ Inc
        \/ Act \/ Bad \/ Other

InterpSpec == InterpInit /\ [][InterpNext]_interpVars

(* The worker's thread runs, and no line of its script waits for ever.     *)
InterpFairSpec == InterpSpec /\ WF_interpVars(InterpNext)

-----------------------------------------------------------------------------
(* Properties.                                                             *)

(* loopStack.back() and execStack.back() are never taken of an empty       *)
(* vector: there are no more loops on loopStack than blocks on execStack,  *)
(* and each entry of loopStack is the line of a loop.  Which loops are on  *)
(* it is not said: the end of a loop that goes round takes the entry off.  *)
StacksMatch ==
    /\ Len(loopStack) <= Len(execStack)
    /\ \A i \in 1..Len(loopStack) : prog[loopStack[i]].op = "while"

(* A script whose blocks are closed and do not nest, and whose loops go    *)
(* round at most twice: they count up to two at most.                      *)
Opens(p, n) == p[n].op \in {"while", "if"}
Between(p, m, n) == {p[k].op : k \in (m + 1)..(n - 1)}
Within(p, m, n) == Opens(p, m) /\ m < n /\ Between(p, m, n) \cap {"while", "if", "end"} = {}
Flat(p) ==
    \A n \in 1..Len(p) :
        /\ Opens(p, n) => \E q \in 1..Len(p) : Within(p, n, q) /\ p[q].op = "end"
        /\ p[n].op = "end" => \E m \in 1..Len(p) : Within(p, m, n)
        /\ p[n].op = "else" =>
             \E m \in 1..Len(p) : Within(p, m, n) /\ p[m].op = "if" /\ "else" \notin Between(p, m, n)
        /\ p[n].op = "while" =>
             /\ p[n].limit <= 2
             /\ \A q \in 1..Len(p) : Within(p, n, q) /\ p[q].op = "end" =>
                  "inc" \in Between(p, n, q) /\ "zero" \notin Between(p, n, q)

(* The worker does what its script says: the acts of the script, in the    *)
(* script's order, and no others.  While exec is false the line loop is    *)
(* on its way to the line after the next "else" or "end".                  *)
Ahead == {q \in pc..Len(prog) : prog[q].op \in {"else", "end"}}
Meant == IF exec THEN pc ELSE Least(Ahead) + 1
Script == INSTANCE WorkerScript WITH at <- Meant
AsWritten == Script!Spec

(* The same of the scripts whose blocks do not nest.                       *)
FlatAsWritten == Script!Init /\ [][Flat(prog) => Script!Next]_(Script!script)
===============================================================================
