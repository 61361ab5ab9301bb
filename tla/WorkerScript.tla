----------------------------- MODULE WorkerScript -----------------------------
(***************************************************************************)
(* What the script of a worker means: while and if blocks nest, each "end" *)
(* closes the innermost of them, and a loop goes round as long as its      *)
(* condition holds.  docs/API.md:50 promises this of                       *)
(* ThreadInterpreter::run (source/simple_threading.cpp).  A step carries   *)
(* out one line; there are no stacks, the blocks are found by looking for  *)
(* their ends.                                                             *)
(***************************************************************************)
EXTENDS Integers, Sequences, FiniteSets

VARIABLES
    prog,     \* the lines
    at,       \* the number of the next line to carry out
    local,    \* the script's variable
    trace     \* the acts done

script == <<prog, at, local, trace>>

Least(S) == CHOOSE p \in S : \A q \in S : p <= q
Greatest(S) == CHOOSE p \in S : \A q \in S : q <= p

Opens(p) == prog[p].op \in {"while", "if"}

(* The block that line p opens is closed by the first line at which as     *)
(* many blocks have been closed as opened.                                 *)
Depth(p, q) == Cardinality({r \in p..q : Opens(r)}) - Cardinality({r \in p..q : prog[r].op = "end"})
EndOf(p) == Least({q \in p..Len(prog) : Depth(p, q) = 0})

(* The line that opens the block around q.                                 *)
Around(q) == {p \in 1..(q - 1) : Opens(p) /\ EndOf(p) >= q}
BlockOf(q) == Greatest(Around(q))

ElseOf(p) == {q \in (p + 1)..EndOf(p) : prog[q].op = "else" /\ BlockOf(q) = p}

Holds(line) == local < line.limit

(* The line of the step, and where it goes on.                             *)
Line(op) == at \in 1..Len(prog) /\ prog[at].op = op /\ UNCHANGED prog
Goto(p)  == at' = p

Init == at = 1 /\ local = 0 /\ trace = <<>>

While ==
    /\ Line("while")
    /\ Goto((IF Holds(prog[at]) THEN at ELSE EndOf(at)) + 1)
    /\ UNCHANGED <<local, trace>>

If ==
    /\ Line("if")
    /\ Goto((IF Holds(prog[at]) THEN at ELSE Least(ElseOf(at) \cup {EndOf(at)})) + 1)
    /\ UNCHANGED <<local, trace>>

(* Reached from above: the rest of the block is for the other case.        *)
Else ==
    /\ Line("else")
    /\ Goto(EndOf(BlockOf(at)) + 1)
    /\ UNCHANGED <<local, trace>>

End ==
    /\ Line("end")
    /\ LET head == BlockOf(at)
       IN  Goto((IF prog[head].op = "while" /\ Holds(prog[head]) THEN head ELSE at) + 1)
    /\ UNCHANGED <<local, trace>>

Zero == Line("zero") /\ local' = 0 /\ Goto(at + 1) /\ UNCHANGED trace
Inc  == Line("inc") /\ local' = local + 1 /\ Goto(at + 1) /\ UNCHANGED trace
Act  == Line("act") /\ trace' = Append(trace, at) /\ Goto(at + 1) /\ UNCHANGED local
Other == Line("other") /\ Goto(at + 1) /\ UNCHANGED <<local, trace>>

(* A function that workers do not support stops the script.                *)
Bad == Line("bad") /\ Goto(Len(prog) + 1) /\ UNCHANGED <<local, trace>>

Next == While \/ If \/ Else \/ End \/ Zero \/ Inc \/ Act \/ Other \/ Bad

Spec == Init /\ [][Next]_script
===============================================================================
