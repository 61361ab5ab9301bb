---------------------------- MODULE MCWorkerInterp ----------------------------
(***************************************************************************)
(* Scripts for WorkerInterp: every script of at most MaxLines lines whose  *)
(* blocks are closed, with the conditions "i < limit", and those of one    *)
(* line more without lines that fail.                                      *)
(***************************************************************************)
EXTENDS WorkerInterp

CONSTANTS MaxLines, Limits, Shape

Plain == {Line(op, 0) : op \in {"inc", "act"}}
Failing == {Line(op, 0) : op \in {"zero", "bad", "other"}}
Heads(op) == {Line(op, n) : n \in Limits}
Else1 == <<Line("else", 0)>>
End1 == <<Line("end", 0)>>

(* The scripts of n lines, for n from 0 to the length: the lines given, and *)
(* blocks made of shorter scripts.                                         *)
ScriptsUpTo(lines, length) ==
    LET of(all, n) == all[n + 1]
        Longer(all, n) ==
          {<<l>> \o s : l \in lines, s \in of(all, n - 1)}
          \cup UNION {{<<h>> \o b \o End1 \o s :
                        h \in Heads("while") \cup Heads("if"), b \in of(all, k), s \in of(all, n - 2 - k)} :
                     k \in 0..(n - 2)}
          \cup UNION {{<<h>> \o b \o Else1 \o c \o End1 \o s :
                        h \in Heads("if"), b \in of(all, kj[1]), c \in of(all, kj[2]),
                        s \in of(all, n - 3 - kj[1] - kj[2])} :
                     kj \in {q \in (0..n) \X (0..n) : q[1] + q[2] <= n - 3}}
    IN  FoldLeft(LAMBDA all, n : Append(all, {s : s \in Longer(all, n)}),
                 <<{<<>>}>>, [n \in 1..length |-> n])
AllScripts(lines, length) == UNION Range(Tail(ScriptsUpTo(lines, length)))

(* A loop that counts to three.                                            *)
CountToThree ==
    <<Line("zero", 0), Line("while", 3), Line("act", 0),
      Line("inc", 0), Line("end", 0)>>

MCPrograms ==
    CASE Shape = "count" -> {CountToThree}
      [] Shape = "all" ->
           AllScripts(Plain, MaxLines + 1) \cup AllScripts(Plain \cup Failing, MaxLines)
===============================================================================
