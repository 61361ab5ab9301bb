--------------------------- MODULE InputHookProofs ---------------------------
(* Proofs about InputHook, for any set of inputs and any timeouts.  The inductive
   invariant says of the chain g_input that it is a list without repetitions that
   ends, of each of the two threads where it may stand in the chain, and of each
   input how many of its references are still to be released.  The last part
   shows that InputHook implements InputLife.                                    *)
EXTENDS InputHook, SequenceTheorems, FiniteSetTheorems, TLAPS

-----------------------------------------------------------------------------
(* The inductive invariant. *)

(* What a walk meets, with the links q in place of prev. *)
ClosedIn(q, S) == \A p \in S : q[p] \in S \cup {None}
From(q, x) ==
  {i \in Inputs : \A S \in SUBSET Inputs : ClosedIn(q, S) /\ x \in S \cup {None} => i \in S}

(* The links q make a list from x: nobody is linked to twice, or to x, and it ends. *)
ListFrom(q, x) ==
  /\ q \in [Inputs -> Inputs \cup {None}] /\ x \in Inputs \cup {None}
  /\ \A a, b \in From(q, x) : q[a] = q[b] /\ q[a] # None => a = b
  /\ \A a \in From(q, x) : q[a] # x \/ x = None
  /\ x = None \/ \E a \in From(q, x) : q[a] = None

ChainInv ==
  /\ ListFrom(prev, gInput)
  /\ \A i \in active : InChain(i)

(* The input that the main thread has taken out of the chain while it waits for
   the hook.                                                                     *)
Waits == main.ret \in {"startWait", "endWait"}

MainInv ==
  /\ main.pc \notin {"timer", "timerEnd"} => main.ret = main.pc
  /\ main.ret = "stop" => main.pc = "stop"
  /\ main.ret # "script" => main.input \in Inputs
  /\ Waits => /\ ~InChain(main.input)
              /\ prev[main.input] # None => InChain(prev[main.input])

HookInv ==
  /\ hook.pc = "idle" <=> hook.at = None
  /\ hook.pc # "post" => hook.posts = <<>>
  /\ HookPlaceLinked

(* A pass of InputTimeout that has found no time left so far has all inputs that
   count before it; until it returns the timer is not killed.                    *)
Covered(i) == TimeoutOf[i] > 0 => timer # None \/ lost
PassInv ==
  /\ main.pc \in {"timer", "timerEnd"} =>
       /\ timer # None
       /\ main.at # None => InChain(main.at)
       /\ main.period = 0 => \A i \in active : TimeoutOf[i] > 0 => i \in Onward(main.at)
  /\ main.pc = "timerEnd" => main.at # None
  /\ main.ret = "startWait" => Covered(main.input)
  /\ \A i \in active : Covered(i)

(* How often m is among the messages s. *)
Times(s, m) == Cardinality({k \in 1..Len(s) : s[k] = m})

(* The releases an input has yet to get: one when it ends, one for each
   AHK_INPUT_END on its way, one for each OnEnd that runs.                       *)
Owed(i) == Times(queue, EndOf(i)) + Times(hook.posts, EndOf(i)) + Times(frames, EndOf(i))
             + (IF i \in active THEN 1 ELSE 0)
             + (IF Waits /\ main.input = i THEN 1 ELSE 0)
CountInv == twice \/ \A i \in Inputs : refs[i] >= Owed(i)

Inv == /\ TypeOK /\ ChainInv /\ MainInv /\ HookInv /\ PassInv
       /\ EndAnnounced /\ CountInv

-----------------------------------------------------------------------------
(* Lists. *)

(* A walk meets what it starts at and, of each input it meets, the next one. *)
LEMMA FromMeets ==
  ASSUME NEW q \in [Inputs -> Inputs \cup {None}], NEW x \in Inputs \cup {None}
  PROVE  /\ From(q, x) \in SUBSET Inputs
         /\ ClosedIn(q, From(q, x))
         /\ x \in From(q, x) \cup {None}
  BY DEF From, ClosedIn

(* It meets nothing else. *)
LEMMA FromLeast ==
  ASSUME NEW q, NEW x, NEW S \in SUBSET Inputs, ClosedIn(q, S), x \in S \cup {None}
  PROVE  From(q, x) \subseteq S
  BY DEF From

(* Each input of a list is its first or has another one before it. *)
LEMMA HasBefore ==
  ASSUME NEW q, NEW x, ListFrom(q, x), NEW i \in From(q, x), i # x
  PROVE  \E p \in From(q, x) : p # i /\ q[p] = i
<1> DEFINE S == From(q, x) \ {i}
<1>1. /\ q \in [Inputs -> Inputs \cup {None}] /\ x \in Inputs \cup {None}
      /\ S \in SUBSET Inputs /\ x \in S \cup {None}
  BY FromMeets DEF ListFrom
<1>2. ~ClosedIn(q, S)
  <2>1. ~(From(q, x) \subseteq S)
    OBVIOUS
  <2> HIDE DEF S
  <2>2. QED
    BY <1>1, <2>1, FromLeast
<1>3. QED
  BY <1>1, <1>2, FromMeets DEF ClosedIn

(* Links that differ outside a list only. *)
LEMMA OutsideChanged ==
  ASSUME NEW q, NEW x, ListFrom(q, x), NEW r \in [Inputs -> Inputs \cup {None}],
         \A p \in From(q, x) : r[p] = q[p]
  PROVE  From(r, x) = From(q, x) /\ ListFrom(r, x)
<1> DEFINE C == From(q, x)
           D == From(r, x)
<1>1. /\ q \in [Inputs -> Inputs \cup {None}] /\ x \in Inputs \cup {None}
      /\ C \in SUBSET Inputs /\ ClosedIn(q, C) /\ x \in C \cup {None}
      /\ D \in SUBSET Inputs /\ ClosedIn(r, D) /\ x \in D \cup {None}
  BY FromMeets DEF ListFrom
<1>2. D \subseteq C
  <2>1. ClosedIn(r, C)
    BY <1>1 DEF ClosedIn
  <2>2. QED
    BY <1>1, <2>1, FromLeast
<1>3. C \subseteq D
  <2>1. ClosedIn(q, C \cap D)
    BY <1>1 DEF ClosedIn
  <2>2. (C \cap D) \in SUBSET Inputs /\ x \in (C \cap D) \cup {None}
    BY <1>1
  <2>3. C \subseteq C \cap D
    BY <2>1, <2>2, FromLeast
  <2>4. QED
    BY <2>3
<1>4. C = D
  BY <1>2, <1>3
<1>5. QED
  BY <1>1, <1>4 DEF ListFrom

(* InputStart puts an input at the head of the list. *)
LEMMA Linked ==
  ASSUME NEW q, NEW x, ListFrom(q, x), NEW i \in Inputs \ From(q, x)
  PROVE  /\ From([q EXCEPT ![i] = x], i) = From(q, x) \cup {i}
         /\ ListFrom([q EXCEPT ![i] = x], i)
<1> DEFINE r == [q EXCEPT ![i] = x]
           C == From(q, x)
           D == From(r, i)
<1>1. /\ q \in [Inputs -> Inputs \cup {None}] /\ x \in Inputs \cup {None}
      /\ r \in [Inputs -> Inputs \cup {None}] /\ i \in Inputs /\ i # None
      /\ r[i] = x /\ \A p \in Inputs \ {i} : r[p] = q[p]
  BY InputsAssumption DEF ListFrom
<1>2. /\ C \in SUBSET Inputs /\ ClosedIn(q, C) /\ x \in C \cup {None}
      /\ D \in SUBSET Inputs /\ ClosedIn(r, D) /\ i \in D
  BY <1>1, FromMeets
<1> HIDE DEF r
<1>3. D \subseteq C \cup {i}
  <2>1. ClosedIn(r, C \cup {i}) /\ C \cup {i} \in SUBSET Inputs /\ i \in (C \cup {i}) \cup {None}
    BY <1>1, <1>2 DEF ClosedIn
  <2>2. QED
    BY <2>1, FromLeast
<1>4. C \subseteq D
  <2>1. ClosedIn(q, C \cap D)
    BY <1>1, <1>2 DEF ClosedIn
  <2>2. (C \cap D) \in SUBSET Inputs /\ x \in (C \cap D) \cup {None}
    BY <1>1, <1>2 DEF ClosedIn
  <2>3. C \subseteq C \cap D
    BY <2>1, <2>2, FromLeast
  <2>4. QED
    BY <2>3
<1>5. D = C \cup {i}
  BY <1>2, <1>3, <1>4
<1>10. /\ \A p, s \in C : q[p] = q[s] /\ q[p] # None => p = s
       /\ \A p \in C : q[p] # x \/ x = None
       /\ x = None \/ \E p \in C : q[p] = None
  BY DEF ListFrom
<1>11. \A p \in C : p \in Inputs /\ p # i /\ q[p] \in C \cup {None} /\ r[p] = q[p]
  BY <1>1, <1>2 DEF ClosedIn
<1> HIDE DEF C, D
<1>6. ASSUME NEW p \in D, NEW s \in D, r[p] = r[s], r[p] # None
      PROVE  p = s
  <2>1. CASE p = i /\ s \in C
    BY <1>1, <1>6, <1>10, <1>11, <2>1
  <2>2. CASE p \in C /\ s = i
    BY <1>1, <1>6, <1>10, <1>11, <2>2
  <2>3. CASE p \in C /\ s \in C
    BY <1>6, <1>10, <1>11, <2>3
  <2>4. QED
    BY <1>5, <2>1, <2>2, <2>3
<1>7. \A p \in D : r[p] # i
  BY <1>1, <1>2, <1>5, <1>11 DEF C
<1>8. \E p \in D : r[p] = None
  <2>1. CASE x = None
    BY <1>1, <1>5, <2>1
  <2>2. CASE x # None
    BY <1>5, <1>10, <1>11, <2>2
  <2>3. QED
    BY <2>1, <2>2
<1>9. QED
  BY <1>1, <1>5, <1>6, <1>7, <1>8 DEF ListFrom, r, C, D

(* The head of the list is taken out. *)
LEMMA HeadUnlinked ==
  ASSUME NEW q, NEW x \in Inputs, ListFrom(q, x)
  PROVE  From(q, q[x]) = From(q, x) \ {x} /\ ListFrom(q, q[x])
<1> DEFINE C == From(q, x)
           y == q[x]
           D == From(q, y)
<1>1. /\ q \in [Inputs -> Inputs \cup {None}] /\ y \in Inputs \cup {None} /\ x # None
      /\ C \in SUBSET Inputs /\ ClosedIn(q, C) /\ x \in C
      /\ D \in SUBSET Inputs /\ ClosedIn(q, D) /\ y \in D \cup {None}
  BY FromMeets, InputsAssumption DEF ListFrom
<1>2. \A p \in C : q[p] # x
  BY <1>1 DEF ListFrom
<1>3. D \subseteq C \ {x}
  <2>1. ClosedIn(q, C \ {x}) /\ C \ {x} \in SUBSET Inputs /\ y \in (C \ {x}) \cup {None}
    BY <1>1, <1>2 DEF ClosedIn
  <2>2. QED
    BY <2>1, FromLeast
<1>4. C \subseteq D \cup {x}
  <2>1. ClosedIn(q, D \cup {x}) /\ D \cup {x} \in SUBSET Inputs /\ x \in (D \cup {x}) \cup {None}
    BY <1>1 DEF ClosedIn
  <2>2. QED
    BY <2>1, FromLeast
<1>5. D = C \ {x}
  BY <1>3, <1>4
<1> HIDE DEF C, D, y
<1>6. \A p, s \in D : q[p] = q[s] /\ q[p] # None => p = s
  BY <1>5 DEF ListFrom, C
<1>7. \A p \in D : q[p] # y \/ y = None
  BY <1>1, <1>5 DEF ListFrom, C, y
<1>8. y = None \/ \E p \in D : q[p] = None
  BY <1>1, <1>5 DEF ListFrom, C, y
<1>9. QED
  BY <1>1, <1>5, <1>6, <1>7, <1>8 DEF ListFrom, C, D, y

(* Another input of the list is taken out. *)
Without(q, C, i) == [p \in Inputs |-> IF p \in C /\ q[p] = i THEN q[i] ELSE q[p]]

LEMMA LaterUnlinked ==
  ASSUME NEW q, NEW x, ListFrom(q, x), NEW i \in From(q, x), i # x
  PROVE  /\ From(Without(q, From(q, x), i), x) = From(q, x) \ {i}
         /\ ListFrom(Without(q, From(q, x), i), x)
         /\ Without(q, From(q, x), i)[i] = q[i]
         /\ q[i] \in (From(q, x) \ {i}) \cup {None}
<1> DEFINE C == From(q, x)
           r == Without(q, C, i)
           D == From(r, x)
<1>1. /\ q \in [Inputs -> Inputs \cup {None}] /\ x \in Inputs \cup {None}
      /\ C \in SUBSET Inputs /\ ClosedIn(q, C) /\ x \in C \cup {None} /\ i \in Inputs /\ i # None
  BY FromMeets, InputsAssumption DEF ListFrom
<1>2. PICK before \in C : before # i /\ q[before] = i
  BY HasBefore
<1>3. \A p \in C : q[p] = i => p = before
  BY <1>1, <1>2 DEF ListFrom
<1>4. q[i] # i /\ q[i] \in (C \ {i}) \cup {None}
  BY <1>1, <1>2, <1>3 DEF ClosedIn
<1>5. r \in [Inputs -> Inputs \cup {None}] /\ r[i] = q[i] /\ r[before] = q[i]
      /\ \A p \in Inputs \ {before} : r[p] = q[p]
  BY <1>1, <1>2, <1>3, <1>4 DEF Without
<1> HIDE DEF r, C
<1>6. D \in SUBSET Inputs /\ ClosedIn(r, D) /\ x \in D \cup {None}
  BY <1>1, <1>5, FromMeets
<1>7. D \subseteq C \ {i}
  <2>1. ClosedIn(r, C \ {i})
    BY <1>1, <1>2, <1>3, <1>4, <1>5 DEF ClosedIn
  <2>2. C \ {i} \in SUBSET Inputs /\ x \in (C \ {i}) \cup {None}
    BY <1>1
  <2>3. QED
    BY <2>1, <2>2, FromLeast
<1>8. before \in D
  <2>1. SUFFICES ASSUME before \notin D PROVE FALSE
    OBVIOUS
  <2>2. ClosedIn(q, D)
    BY <1>3, <1>5, <1>6, <2>1 DEF ClosedIn
  <2>3. C \subseteq D
    BY <1>6, <2>2, FromLeast DEF C
  <2>4. QED
    BY <1>2, <2>1, <2>3
<1>9. C \subseteq D \cup {i}
  <2>1. ClosedIn(q, D \cup {i})
    BY <1>1, <1>2, <1>3, <1>5, <1>6, <1>8 DEF ClosedIn
  <2>2. D \cup {i} \in SUBSET Inputs /\ x \in (D \cup {i}) \cup {None}
    BY <1>1, <1>6
  <2>3. QED
    BY <2>1, <2>2, FromLeast DEF C
<1>10. D = C \ {i}
  BY <1>7, <1>9
<1> HIDE DEF D
<1>11. \A p, s \in D : r[p] = r[s] /\ r[p] # None => p = s
  <2>1. \A p, s \in C : q[p] = q[s] /\ q[p] # None => p = s
    BY DEF ListFrom, C
  <2>2. ASSUME NEW p \in D, NEW s \in D, r[p] = r[s], r[p] # None
        PROVE  p = s
    <3>1. /\ p \in C /\ s \in C /\ i \in C
          /\ p \in Inputs /\ s \in Inputs /\ p # i /\ s # i
      BY <1>1, <1>10 DEF C
    <3>2. CASE p = before
      BY <1>1, <1>5, <2>1, <2>2, <3>1, <3>2
    <3>3. CASE s = before
      BY <1>1, <1>5, <2>1, <2>2, <3>1, <3>3
    <3>4. CASE p # before /\ s # before
      BY <1>5, <2>1, <2>2, <3>1, <3>4
    <3>5. QED
      BY <3>2, <3>3, <3>4
  <2>3. QED
    BY <2>2
<1>12. \A p \in D : r[p] # x \/ x = None
  <2>1. \A p \in C : q[p] # x \/ x = None
    BY DEF ListFrom, C
  <2>2. ASSUME NEW p \in D PROVE r[p] # x \/ x = None
    <3>1. p \in C /\ p \in Inputs /\ i \in C
      BY <1>1, <1>10 DEF C
    <3>2. CASE p = before
      BY <1>5, <2>1, <3>1, <3>2
    <3>3. CASE p # before
      BY <1>5, <2>1, <3>1, <3>3
    <3>4. QED
      BY <3>2, <3>3
  <2>3. QED
    BY <2>2
<1>13. x = None \/ \E p \in D : r[p] = None
  <2>1. x = None \/ \E p \in C : q[p] = None
    BY DEF ListFrom, C
  <2>2. QED
    BY <1>1, <1>2, <1>5, <1>10, <2>1
<1>14. From(r, x) = C \ {i} /\ ListFrom(r, x)
  BY <1>1, <1>5, <1>10, <1>11, <1>12, <1>13 DEF ListFrom, D
<1>15. QED
  BY <1>4, <1>5, <1>14 DEF r, C

-----------------------------------------------------------------------------
(* Types. *)

(* A message is posted. *)
LEMMA Posted == \A s \in Seq(Msg) : \A m \in Msg : Append(s, m) \in Seq(Msg)
  OBVIOUS

(* The messages about an input. *)
LEMMA MsgTypes == \A i \in Inputs : EndOf(i) \in Msg /\ CharOf(i) \in Msg
  BY DEF Msg, EndOf, CharOf


(* What the main thread's and the hook thread's place are made of. *)
Calls == {"script", "startWait", "endWait", "stop"}

LEMMA MainAtIs ==
  ASSUME NEW p \in Calls, NEW i \in Inputs \cup {None}
  PROVE  /\ At(p, i) \in MainStates
         /\ At(p, i).pc = p /\ At(p, i).input = i /\ At(p, i).at = None
         /\ At(p, i).period = 0 /\ At(p, i).ret = p
  BY DEF At, MainStates, Calls

LEMMA MainParts ==
  ASSUME NEW m \in MainStates
  PROVE  /\ m.pc \in Calls \cup {"timer", "timerEnd"} /\ m.ret \in Calls
         /\ m.input \in Inputs \cup {None} /\ m.at \in Inputs \cup {None} /\ m.period \in Nat
  BY DEF MainStates, Calls

LEMMA HookParts ==
  ASSUME NEW h \in HookStates
  PROVE  /\ h.pc \in {"idle", "walk", "collect", "post"} /\ h.at \in Inputs \cup {None}
         /\ h.posts \in Seq(Msg)
  BY DEF HookStates

(* What the steps of InputTimeout do to the main thread's place. *)
LEMMA FiresEffect ==
  ASSUME TypeOK, TimerFires
  PROVE  /\ main' \in MainStates
         /\ main'.pc = "timer" /\ main'.input = main.input /\ main'.at = gInput
         /\ main'.period = 0 /\ main'.ret = main.pc
         /\ main.pc \in {"script", "startWait", "endWait"} /\ timer = 0
<1>1. /\ main \in MainStates /\ gInput \in Inputs \cup {None}
      /\ main.pc \in {"script", "startWait", "endWait"} /\ timer = 0
      /\ main' = [main EXCEPT !.pc = "timer", !.ret = main.pc, !.at = gInput, !.period = 0]
  BY DEF TypeOK, TimerFires, MainAt
<1>2. QED
  BY <1>1 DEF MainStates

LEMMA PassesEffect ==
  ASSUME TypeOK, TimerPasses
  PROVE  /\ main' \in MainStates
         /\ main'.pc = "timer" /\ main'.input = main.input /\ main'.at = prev[main.at]
         /\ main'.ret = main.ret
         /\ main.pc = "timer" /\ main.at \in Inputs /\ main.at # None
         /\ main'.period = 0 => main.period = 0 /\ ~(TimeoutOf[main.at] > 0 /\ main.at \in active)
<1> DEFINE n == IF /\ TimeoutOf[main.at] > 0 /\ main.at \in active
                   /\ left[main.at] < main.period \/ main.period = 0
                THEN left[main.at] ELSE main.period
<1>1. /\ main \in MainStates /\ prev \in [Inputs -> Inputs \cup {None}] /\ left \in [Inputs -> Nat]
      /\ main.pc = "timer" /\ main.at # None
      /\ main' = [main EXCEPT !.at = prev[main.at], !.period = n]
      /\ TimeoutOf[main.at] > 0 /\ main.at \in active => left[main.at] > 0
  BY DEF TypeOK, TimerPasses, MainAt
<1>2. main.at \in Inputs /\ main.period \in Nat
  BY <1>1, MainParts
<1>3. prev[main.at] \in Inputs \cup {None} /\ left[main.at] \in Nat
  BY <1>1, <1>2
<1>4. n \in Nat /\ (n = 0 => main.period = 0 /\ ~(TimeoutOf[main.at] > 0 /\ main.at \in active))
  BY <1>1, <1>2, <1>3
<1> HIDE DEF n
<1>5. /\ main' \in MainStates /\ main'.period = n
      /\ main'.pc = "timer" /\ main'.input = main.input /\ main'.at = prev[main.at]
      /\ main'.ret = main.ret
  BY <1>1, <1>3, <1>4 DEF MainStates
<1>6. QED
  BY <1>1, <1>2, <1>4, <1>5

LEMMA FindsDueEffect ==
  ASSUME TypeOK, TimerFindsDue
  PROVE  /\ main' \in MainStates
         /\ main'.pc = "timerEnd" /\ main'.input = main.input /\ main'.at = main.at
         /\ main'.period = main.period /\ main'.ret = main.ret
         /\ main.pc = "timer" /\ main.at # None
<1>1. /\ main \in MainStates /\ main.pc = "timer" /\ main.at # None
      /\ main' = [main EXCEPT !.pc = "timerEnd"]
  BY DEF TypeOK, TimerFindsDue, MainAt
<1>2. QED
  BY <1>1 DEF MainStates

LEMMA EndByTimeoutEffect ==
  ASSUME TypeOK, EndByTimeout, main.at # None
  PROVE  /\ main' \in MainStates
         /\ main'.pc = "timer" /\ main'.input = main.input /\ main'.at = prev[main.at]
         /\ main'.period = main.period /\ main'.ret = main.ret
         /\ main.pc = "timerEnd" /\ main.at \in Inputs
<1>1. /\ main \in MainStates /\ prev \in [Inputs -> Inputs \cup {None}] /\ main.pc = "timerEnd"
      /\ main' = [main EXCEPT !.pc = "timer", !.at = prev[main.at]]
  BY DEF TypeOK, EndByTimeout, MainAt
<1>2. main.at \in Inputs /\ prev[main.at] \in Inputs \cup {None}
  BY <1>1, MainParts
<1>3. QED
  BY <1>1, <1>2 DEF MainStates

LEMMA TimerReturnsEffect ==
  ASSUME TypeOK, TimerReturns
  PROVE  /\ main' \in MainStates
         /\ main'.pc = main.ret /\ main'.input = main.input /\ main'.at = None
         /\ main'.period = 0 /\ main'.ret = main.ret
         /\ main.pc = "timer" /\ main.at = None
<1>1. /\ main \in MainStates /\ main.pc = "timer" /\ main.at = None
      /\ main' = [At(main.ret, main.input) EXCEPT !.ret = main.ret]
  BY DEF TypeOK, TimerReturns, MainAt
<1>2. QED
  BY <1>1 DEF MainStates, At

(* What the steps of the hook thread do to its place. *)
LEMMA HookAtIs ==
  ASSUME NEW p \in {"idle", "walk", "collect", "post"}, NEW x \in Inputs \cup {None}, NEW s \in Seq(Msg)
  PROVE  /\ [pc |-> p, at |-> x, posts |-> s] \in HookStates
         /\ [pc |-> p, at |-> x, posts |-> s].pc = p
         /\ [pc |-> p, at |-> x, posts |-> s].at = x
         /\ [pc |-> p, at |-> x, posts |-> s].posts = s
  BY DEF HookStates

LEMMA WalkEffect ==
  ASSUME NEW x \in Inputs \cup {None}, WalkTo(x)
  PROVE  /\ hook' \in HookStates /\ hook'.at = x /\ hook'.posts = <<>>
         /\ hook'.pc = IF x = None THEN "idle" ELSE "walk"
<1>1. <<>> \in Seq(Msg)
  OBVIOUS
<1>2. CASE x = None
  <2>1. hook' = [pc |-> "idle", at |-> x, posts |-> <<>>]
    BY <1>2 DEF WalkTo
  <2>2. QED
    BY <1>1, <1>2, <2>1, HookAtIs
<1>3. CASE x # None
  <2>1. hook' = [pc |-> "walk", at |-> x, posts |-> <<>>]
    BY <1>3 DEF WalkTo
  <2>2. QED
    BY <1>1, <1>3, <2>1, HookAtIs
<1>4. QED
  BY <1>2, <1>3

LEMMA KeyDownEffect ==
  ASSUME TypeOK, KeyDown
  PROVE  /\ hook' \in HookStates /\ hook'.pc = "walk" /\ hook'.at = gInput
         /\ hook'.posts = hook.posts /\ hook.pc = "idle" /\ gInput # None
<1>1. /\ hook \in HookStates /\ gInput \in Inputs \cup {None} /\ hook.pc = "idle" /\ gInput # None
      /\ hook' = [hook EXCEPT !.pc = "walk", !.at = gInput]
  BY DEF TypeOK, KeyDown, HookAt
<1>2. QED
  BY <1>1 DEF HookStates

LEMMA TestEffect ==
  ASSUME TypeOK, HookTest, hook.at \in active
  PROVE  /\ hook' \in HookStates /\ hook'.pc = "collect" /\ hook'.at = hook.at
         /\ hook'.posts = hook.posts /\ hook.pc = "walk"
<1>1. /\ hook \in HookStates /\ hook.pc = "walk" /\ hook' = [hook EXCEPT !.pc = "collect"]
  BY DEF TypeOK, HookTest, HookAt
<1>2. QED
  BY <1>1 DEF HookStates

LEMMA CollectEffect ==
  ASSUME TypeOK, HookCollect, hook.at \in Inputs
  PROVE  \E ends, notify \in BOOLEAN :
           /\ IF ends THEN EndByReason(hook.at) ELSE UNCHANGED <<active, left, twice>>
           /\ hook' \in HookStates /\ hook'.pc = "post" /\ hook'.at = hook.at
           /\ hook'.posts = (IF ends THEN <<EndOf(hook.at)>> ELSE <<>>)
                              \o (IF notify THEN <<CharOf(hook.at)>> ELSE <<>>)
<1>1. PICK ends \in BOOLEAN, notify \in BOOLEAN :
        /\ IF ends THEN EndByReason(hook.at) ELSE UNCHANGED <<active, left, twice>>
        /\ hook' = [hook EXCEPT !.pc = "post",
                     !.posts = (IF ends THEN <<EndOf(hook.at)>> ELSE <<>>)
                            \o (IF notify THEN <<CharOf(hook.at)>> ELSE <<>>)]
  BY DEF HookCollect
<1> DEFINE s == (IF ends THEN <<EndOf(hook.at)>> ELSE <<>>)
                   \o (IF notify THEN <<CharOf(hook.at)>> ELSE <<>>)
<1>2. s \in Seq(Msg)
  BY MsgTypes
<1>3. hook \in HookStates /\ hook' = [hook EXCEPT !.pc = "post", !.posts = s]
  BY <1>1 DEF TypeOK
<1> HIDE DEF s
<1>4. hook' \in HookStates /\ hook'.pc = "post" /\ hook'.at = hook.at /\ hook'.posts = s
  BY <1>2, <1>3 DEF HookStates
<1>5. QED
  BY <1>1, <1>4 DEF s

LEMMA PostEffect ==
  ASSUME TypeOK, HookPost
  PROVE  /\ hook' \in HookStates /\ hook'.pc = "post" /\ hook'.at = hook.at
         /\ hook'.posts = Tail(hook.posts) /\ hook.pc = "post" /\ hook.posts # <<>>
         /\ hook.posts \in Seq(Msg)
         /\ queue' = Append(queue, Head(hook.posts)) /\ Head(hook.posts) \in Msg
<1>1. /\ hook \in HookStates /\ hook.pc = "post" /\ hook.posts # <<>>
      /\ hook' = [hook EXCEPT !.posts = Tail(@)] /\ queue' = Append(queue, Head(hook.posts))
  BY DEF TypeOK, HookPost, HookAt
<1>2. hook.posts \in Seq(Msg)
  BY <1>1, HookParts
<1>3. Tail(hook.posts) \in Seq(Msg) /\ Head(hook.posts) \in Msg
  BY <1>1, <1>2
<1>4. hook' \in HookStates /\ hook'.pc = "post" /\ hook'.at = hook.at /\ hook'.posts = Tail(hook.posts)
  BY <1>1, <1>3 DEF HookStates
<1>5. QED
  BY <1>1, <1>2, <1>3, <1>4

(* The variables outside the two threads' places. *)
RestOK ==
  /\ gInput \in Inputs \cup {None}
  /\ prev \in [Inputs -> Inputs \cup {None}]
  /\ active \subseteq Inputs /\ held \subseteq Inputs
  /\ refs \in [Inputs -> Int]
  /\ frames \in Seq(Msg) /\ queue \in Seq(Msg)
  /\ left \in [Inputs -> Nat] /\ timer \in Nat \cup {None}
  /\ synced \in BOOLEAN /\ twice \in BOOLEAN /\ lost \in BOOLEAN

(* In its calls the main thread works on an input, and the hook in its walk. *)
LEMMA PlacesAre ==
  ASSUME TypeOK, MainInv, HookInv, PassInv
  PROVE  /\ main.pc \in {"startWait", "endWait", "stop"} => main.input \in Inputs
         /\ main.pc = "timerEnd" => main.at \in Inputs
         /\ hook.pc # "idle" => hook.at \in Inputs
<1>1. main \in MainStates /\ hook \in HookStates
  BY DEF TypeOK
<1>2. main.at \in Inputs \cup {None} /\ hook.at \in Inputs \cup {None}
  BY <1>1, MainParts, HookParts
<1>3. QED
  BY <1>2 DEF MainInv, HookInv, PassInv

LEMMA InitTypes == Init => TypeOK
<1>1. ASSUME Init PROVE RestOK
  <2>1. frames \in Seq(Msg) /\ queue \in Seq(Msg)
    BY <1>1 DEF Init
  <2>2. /\ prev \in [Inputs -> Inputs \cup {None}] /\ refs \in [Inputs -> Int]
        /\ left \in [Inputs -> Nat]
    BY <1>1 DEF Init
  <2>3. QED
    BY <1>1, <2>1, <2>2 DEF Init, RestOK
<1>2. ASSUME Init PROVE main \in MainStates
  BY <1>2, MainAtIs DEF Init, Calls
<1>3. ASSUME Init PROVE hook \in HookStates
  <2>1. <<>> \in Seq(Msg)
    OBVIOUS
  <2>2. QED
    BY <1>3, <2>1 DEF Init, HookStates
<1>4. QED
  BY <1>1, <1>2, <1>3 DEF RestOK, TypeOK

(* The pieces of the handlers keep the types. *)
LEMMA PieceTypes ==
  ASSUME TypeOK, NEW i \in Inputs
  PROVE  /\ SetTimeoutTimer(i) =>
              left' \in [Inputs -> Nat] /\ timer' \in Nat \cup {None} /\ lost' \in BOOLEAN
         /\ Unlink(i) => gInput' \in Inputs \cup {None} /\ prev' \in [Inputs -> Inputs \cup {None}]
         /\ EndByReason(i) => active' \subseteq Inputs /\ left' \in [Inputs -> Nat] /\ twice' \in BOOLEAN
         /\ CallOnEnd(i) => refs' \in [Inputs -> Int] /\ frames' \in Seq(Msg)
<1> USE DEF TypeOK
<1>1. TimeoutOf[i] \in Nat
  BY InputsAssumption
<1>2. ASSUME SetTimeoutTimer(i)
      PROVE  left' \in [Inputs -> Nat] /\ timer' \in Nat \cup {None} /\ lost' \in BOOLEAN
  BY <1>1, <1>2 DEF SetTimeoutTimer
<1>3. ASSUME Unlink(i)
      PROVE  gInput' \in Inputs \cup {None} /\ prev' \in [Inputs -> Inputs \cup {None}]
  BY <1>3 DEF Unlink
<1>4. ASSUME EndByReason(i)
      PROVE  active' \subseteq Inputs /\ left' \in [Inputs -> Nat] /\ twice' \in BOOLEAN
  BY <1>4 DEF EndByReason
<1>5. ASSUME CallOnEnd(i)
      PROVE  refs' \in [Inputs -> Int] /\ frames' \in Seq(Msg)
  <2>1. refs' \in [Inputs -> Int]
    BY <1>5 DEF CallOnEnd
  <2>2. EndOf(i) \in Msg /\ frames \in Seq(Msg) /\ (frames' = Append(frames, EndOf(i)) \/ frames' = frames)
    BY <1>5, MsgTypes DEF CallOnEnd
  <2>3. frames' \in Seq(Msg)
    BY <2>2, Posted
  <2>4. QED
    BY <2>1, <2>3
<1>6. QED
  BY <1>2, <1>3, <1>4, <1>5

(* Every step keeps the types. *)
LEMMA StepTypes ==
  ASSUME TypeOK, MainInv, HookInv, PassInv, [Next]_vars
  PROVE  TypeOK'
<1>0. /\ RestOK /\ main \in MainStates /\ hook \in HookStates
      /\ TimeoutOf \in [Inputs -> Nat] /\ None \notin Nat /\ None \notin Inputs
      /\ "script" \in Calls /\ "startWait" \in Calls /\ "endWait" \in Calls /\ "stop" \in Calls
  BY InputsAssumption DEF TypeOK, RestOK, Calls
<1>a. SUFFICES RestOK' /\ main' \in MainStates /\ hook' \in HookStates
  BY DEF TypeOK, RestOK
<1> USE DEF scriptVars, timerVars, MainAt, HookAt
<1>1. ASSUME NEW i \in Inputs, Start(i) \/ SetTimeout(i) PROVE RestOK' /\ main' \in MainStates /\ hook' \in HookStates
  <2>1. left' \in [Inputs -> Nat] /\ timer' \in Nat \cup {None} /\ lost' \in BOOLEAN
    BY <1>0, <1>1, PieceTypes DEF RestOK, Start, SetTimeout
  <2>4. ASSUME Start(i)
        PROVE  /\ gInput' \in Inputs \cup {None} /\ prev' \in [Inputs -> Inputs \cup {None}]
               /\ active' \subseteq Inputs /\ refs' \in [Inputs -> Int]
    <3>1. /\ prev' = [prev EXCEPT ![i] = gInput] /\ refs' = [refs EXCEPT ![i] = @ + 1]
          /\ active' = active \cup {i} /\ gInput' = i
      BY <2>4 DEF Start
    <3>2. /\ prev' \in [Inputs -> Inputs \cup {None}] /\ refs' \in [Inputs -> Int]
      BY <1>0, <3>1 DEF RestOK
    <3>3. QED
      BY <1>0, <3>1, <3>2 DEF RestOK
  <2>2. gInput' \in Inputs \cup {None} /\ prev' \in [Inputs -> Inputs \cup {None}]
        /\ active' \subseteq Inputs /\ refs' \in [Inputs -> Int]
    BY <1>0, <1>1, <2>4 DEF RestOK, SetTimeout
  <2>3. QED
    BY <1>0, <1>1, <2>1, <2>2 DEF RestOK, Start, SetTimeout
<1>2. ASSUME NEW i \in Inputs, Restart(i) PROVE RestOK' /\ main' \in MainStates /\ hook' \in HookStates
  <2>1. left' \in [Inputs -> Nat] /\ timer' \in Nat \cup {None} /\ lost' \in BOOLEAN
    BY <1>0, <1>2, PieceTypes DEF RestOK, Restart
  <2>2. gInput' \in Inputs \cup {None} /\ prev' \in [Inputs -> Inputs \cup {None}]
        /\ refs' \in [Inputs -> Int]
    BY <1>0, <1>2, PieceTypes DEF RestOK, Restart
  <2>3. main' \in MainStates
    BY <1>0, <1>2, MainAtIs DEF Restart
  <2>4. QED
    BY <1>0, <1>2, <2>1, <2>2, <2>3 DEF RestOK, Restart
<1>3. ASSUME NEW i \in Inputs, StopTest(i) PROVE RestOK' /\ main' \in MainStates /\ hook' \in HookStates
  BY <1>0, <1>3, MainAtIs DEF RestOK, StopTest
<1>4. ASSUME NEW i \in Inputs, Discard(i) \/ Create(i) PROVE RestOK' /\ main' \in MainStates /\ hook' \in HookStates
  BY <1>0, <1>4 DEF RestOK, Discard, Create
<1>5. CASE CallbackReturns
  <2>1. frames \in Seq(Msg) /\ frames # <<>> /\ frames' = SubSeq(frames, 1, Len(frames) - 1)
    BY <1>0, <1>5 DEF RestOK, CallbackReturns
  <2>2. frames' \in Seq(Msg)
    BY <2>1
  <2>5. refs' = refs \/ refs' = [refs EXCEPT ![frames[Len(frames)].input] = @ - 1]
    BY <1>5 DEF CallbackReturns
  <2>3. refs' \in [Inputs -> Int]
    BY <1>0, <2>5 DEF RestOK
  <2>4. QED
    BY <1>0, <1>5, <2>2, <2>3 DEF RestOK, CallbackReturns
<1>6. CASE RestartLink
  <2>1. main.input \in Inputs
    BY <1>6, PlacesAre DEF RestartLink
  <2>2. main' \in MainStates
    BY <1>0, <1>6, MainAtIs DEF RestartLink
  <2>3. QED
    BY <1>0, <1>6, <2>1, <2>2 DEF RestOK, RestartLink
<1>7. CASE Stop
  <2>1. main.input \in Inputs
    BY <1>7, PlacesAre DEF Stop
  <2>2. main' \in MainStates
    BY <1>0, <1>7, MainAtIs DEF Stop
  <2>3. active' \subseteq Inputs /\ left' \in [Inputs -> Nat] /\ twice' \in BOOLEAN
    BY <1>7, <2>1, PieceTypes DEF Stop
  <2>4. queue' \in Seq(Msg)
    BY <1>0, <1>7, <2>1, MsgTypes DEF Stop, RestOK
  <2>5. QED
    BY <1>0, <1>7, <2>2, <2>3, <2>4 DEF RestOK, Stop
<1>8. CASE EndUnlinked
  <2>1. main.input \in Inputs
    BY <1>8, PlacesAre DEF EndUnlinked
  <2>2. main' \in MainStates
    BY <1>0, <1>8, MainAtIs DEF EndUnlinked
  <2>3. refs' \in [Inputs -> Int] /\ frames' \in Seq(Msg)
    BY <1>8, <2>1, PieceTypes DEF EndUnlinked
  <2>4. QED
    BY <1>0, <1>8, <2>2, <2>3 DEF RestOK, EndUnlinked
<1>9. CASE DispatchStale \/ DispatchChar
  <2>3. /\ queue \in Seq(Msg) /\ queue # <<>> /\ queue' = Tail(queue) /\ frames \in Seq(Msg)
        /\ frames' = frames \/ frames' = Append(frames, Head(queue))
    BY <1>0, <1>9 DEF DispatchStale, DispatchChar, RestOK
  <2>1. queue' \in Seq(Msg) /\ frames' \in Seq(Msg)
    BY <2>3
  <2>2. QED
    BY <1>0, <1>9, <2>1 DEF RestOK, DispatchStale, DispatchChar
<1>10. CASE DispatchEnd \/ DispatchEndOfRestarted
  <2>1. queue \in Seq(Msg) /\ queue # <<>> /\ queue' = Tail(queue)
    BY <1>0, <1>10 DEF DispatchEnd, DispatchEndOfRestarted, RestOK
  <2>2. Head(queue).input \in Inputs /\ queue' \in Seq(Msg)
    <3>1. Head(queue) \in Msg /\ queue' \in Seq(Msg)
      BY <2>1
    <3>2. QED
      BY <3>1 DEF Msg
  <2>3. CASE DispatchEnd
    <3>1. gInput' \in Inputs \cup {None} /\ prev' \in [Inputs -> Inputs \cup {None}]
      BY <2>2, <2>3, PieceTypes DEF DispatchEnd
    <3>2. main' \in MainStates
      BY <1>0, <2>2, <2>3, MainAtIs DEF DispatchEnd
    <3>3. QED
      BY <1>0, <2>2, <2>3, <3>1, <3>2 DEF RestOK, DispatchEnd
  <2>4. CASE DispatchEndOfRestarted
    <3>1. refs' \in [Inputs -> Int] /\ frames' \in Seq(Msg)
      BY <2>2, <2>4, PieceTypes DEF DispatchEndOfRestarted
    <3>2. QED
      BY <1>0, <2>2, <2>4, <3>1 DEF RestOK, DispatchEndOfRestarted
  <2>5. QED
    BY <1>10, <2>3, <2>4
<1>12. CASE Tick
  <2>1. left' \in [Inputs -> Nat] /\ timer' \in Nat \cup {None}
    BY <1>0, <1>12 DEF Tick, RestOK
  <2>2. QED
    BY <1>0, <1>12, <2>1 DEF Tick, RestOK
<1>13. CASE TimerFires \/ TimerFindsDue \/ TimerPasses
  <2>1. main' \in MainStates
    BY <1>13, FiresEffect, FindsDueEffect, PassesEffect
  <2>2. QED
    BY <1>0, <1>13, <2>1 DEF TimerFires, TimerFindsDue, TimerPasses, RestOK
<1>15. CASE EndByTimeout
  <2>1. main.at \in Inputs
    BY <1>15, PlacesAre DEF EndByTimeout
  <2>2. main' \in MainStates
    BY <1>0, <1>15, <2>1, EndByTimeoutEffect
  <2>3. active' \subseteq Inputs /\ left' \in [Inputs -> Nat] /\ twice' \in BOOLEAN
    BY <1>15, <2>1, PieceTypes DEF EndByTimeout
  <2>4. queue' \in Seq(Msg)
    BY <1>0, <1>15, <2>1, MsgTypes DEF EndByTimeout, RestOK
  <2>5. QED
    BY <1>0, <1>15, <2>2, <2>3, <2>4 DEF RestOK, EndByTimeout
<1>16. CASE TimerReturns
  <2>1. main' \in MainStates /\ main.period \in Nat
    BY <1>0, <1>16, TimerReturnsEffect, MainParts
  <2>2. QED
    BY <1>0, <1>16, <2>1 DEF RestOK, TimerReturns
<1>17. CASE KeyDown \/ HookSync
  BY <1>0, <1>17, KeyDownEffect DEF KeyDown, HookSync, RestOK
<1>18. CASE HookTest \/ HookNext
  <2>1. hook.at \in Inputs
    BY <1>18, PlacesAre DEF HookTest, HookNext
  <2>2. prev[hook.at] \in Inputs \cup {None}
    BY <1>0, <2>1 DEF RestOK
  <2>3. hook' \in HookStates
    BY <1>18, <2>2, TestEffect, WalkEffect DEF HookTest, HookNext
  <2>4. QED
    BY <1>0, <1>18, <2>3 DEF HookTest, HookNext, RestOK
<1>19. CASE HookCollect
  <2>1. hook.at \in Inputs
    BY <1>19, PlacesAre DEF HookCollect
  <2>2. hook' \in HookStates /\ (EndByReason(hook.at) \/ UNCHANGED <<active, left, twice>>)
    BY <1>19, <2>1, CollectEffect
  <2>3. active' \subseteq Inputs /\ left' \in [Inputs -> Nat] /\ twice' \in BOOLEAN
    BY <1>0, <2>1, <2>2, PieceTypes DEF RestOK
  <2>4. QED
    BY <1>0, <1>19, <2>2, <2>3 DEF HookCollect, RestOK
<1>20. CASE HookPost
  <2>3. queue \in Seq(Msg) /\ Head(hook.posts) \in Msg /\ queue' = Append(queue, Head(hook.posts))
    BY <1>0, <1>20, PostEffect DEF RestOK
  <2>1. queue' \in Seq(Msg) /\ hook' \in HookStates
    BY <1>20, <2>3, PostEffect
  <2>2. QED
    BY <1>0, <1>20, <2>1 DEF HookPost, RestOK
<1>21. CASE UNCHANGED vars
  BY <1>0, <1>21 DEF vars, RestOK
<1>22. QED
  BY <1>1, <1>2, <1>3, <1>4, <1>5, <1>6, <1>7, <1>8, <1>9, <1>10, <1>12, <1>13,
     <1>15, <1>16, <1>17, <1>18, <1>19, <1>20, <1>21 DEF Next

-----------------------------------------------------------------------------
(* The chain. *)

Chain == From(prev, gInput)

LEMMA ChainIs ==
  /\ \A i : InChain(i) <=> i \in Chain
  /\ \A i : InChain(i)' <=> i \in Chain'
  BY DEF InChain, Onward, Closed, Chain, From, ClosedIn

LEMMA ChainSame ==
  ASSUME ListFrom(prev, gInput), UNCHANGED <<gInput, prev>>
  PROVE  Chain' = Chain /\ ListFrom(prev', gInput')
  BY DEF Chain, From, ClosedIn

(* *found = aInput->Prev, wherever in the chain the link was found. *)
LEMMA ChainUnlinked ==
  ASSUME ListFrom(prev, gInput), NEW i \in Chain, Unlink(i)
  PROVE  /\ Chain' = Chain \ {i} /\ ListFrom(prev', gInput')
         /\ prev'[i] \in Chain' \cup {None}
<1>1. Chain' = From(prev', gInput')
  BY DEF Chain, From, ClosedIn
<1>2. /\ prev \in [Inputs -> Inputs \cup {None}] /\ gInput \in Inputs \cup {None}
      /\ Chain \in SUBSET Inputs /\ i \in Inputs /\ i # None
  BY FromMeets, InputsAssumption DEF ListFrom, Chain
<1>3. CASE gInput = i
  <2>1. prev' = prev /\ gInput' = prev[i]
    BY <1>3 DEF Unlink
  <2>2. From(prev, prev[i]) = Chain \ {i} /\ ListFrom(prev, prev[i])
    BY <1>2, <1>3, HeadUnlinked DEF Chain
  <2>3. prev[i] \in From(prev, prev[i]) \cup {None}
    BY <1>2, FromMeets
  <2>4. QED
    BY <1>1, <2>1, <2>2, <2>3
<1>4. CASE gInput # i
  <2>1. gInput' = gInput /\ prev' = Without(prev, Chain, i)
    BY <1>4, ChainIs DEF Unlink, Without
  <2>2. /\ From(Without(prev, Chain, i), gInput) = Chain \ {i}
        /\ ListFrom(Without(prev, Chain, i), gInput)
        /\ Without(prev, Chain, i)[i] = prev[i] /\ prev[i] \in (Chain \ {i}) \cup {None}
    BY <1>4, LaterUnlinked DEF Chain
  <2>3. QED
    BY <1>1, <2>1, <2>2
<1>5. QED
  BY <1>3, <1>4

LEMMA ChainLinked ==
  ASSUME ListFrom(prev, gInput), NEW i \in Inputs, i \notin Chain,
         prev' = [prev EXCEPT ![i] = gInput], gInput' = i
  PROVE  Chain' = Chain \cup {i} /\ ListFrom(prev', gInput')
<1>1. Chain' = From(prev', gInput')
  BY DEF Chain, From, ClosedIn
<1>2. i \in Inputs \ From(prev, gInput)
  BY DEF Chain
<1>3. /\ From([prev EXCEPT ![i] = gInput], i) = From(prev, gInput) \cup {i}
      /\ ListFrom([prev EXCEPT ![i] = gInput], i)
  BY <1>2, Linked
<1>4. QED
  BY <1>1, <1>3 DEF Chain

LEMMA ChainReset ==
  ASSUME ListFrom(prev, gInput), NEW i \in Inputs, i \notin Chain,
         prev' = [prev EXCEPT ![i] = None], gInput' = gInput
  PROVE  Chain' = Chain /\ ListFrom(prev', gInput')
<1>1. Chain' = From(prev', gInput')
  BY DEF Chain, From, ClosedIn
<1>2. /\ prev \in [Inputs -> Inputs \cup {None}] /\ Chain \in SUBSET Inputs
  BY FromMeets DEF ListFrom, Chain
<1>3. prev' \in [Inputs -> Inputs \cup {None}] /\ \A p \in Chain : prev'[p] = prev[p]
  BY <1>2
<1>4. QED
  BY <1>1, <1>3, OutsideChanged DEF Chain

(* Nothing points to the object that InputObject::Create puts in place of a
   deleted one.                                                              *)
LEMMA CreateFresh ==
  ASSUME NEW i \in Inputs, Create(i)
  PROVE  i \notin Chain /\ hook.at # i /\ FramesOf(i) = {}
  BY ChainIs DEF Create, MainAt, Dangling

(* The places of the main thread in which the chain is changed. *)
LEMMA WaitPlaces ==
  ASSUME MainInv
  PROVE  /\ main.pc \in {"startWait", "endWait"} => Waits /\ main.input \in Inputs
         /\ main.pc = "script" \/ main.pc = "stop" => ~Waits
  BY DEF MainInv, Waits

(* The steps that change the chain; no other makes an input active. *)
ChainStays == UNCHANGED <<gInput, prev>> /\ active' \subseteq active

LEMMA ChainSteps ==
  ASSUME TypeOK, [Next]_vars
  PROVE  \/ \E i \in Inputs : Start(i) \/ Restart(i) \/ Create(i)
         \/ RestartLink \/ EndUnlinked \/ DispatchEnd
         \/ ChainStays
<1> USE DEF ChainStays, scriptVars, timerVars
<1>1. ASSUME NEW i \in Inputs, StopTest(i) \/ SetTimeout(i) \/ Discard(i) PROVE ChainStays
  BY <1>1 DEF StopTest, SetTimeout, Discard
<1>2. CASE CallbackReturns \/ Stop
  BY <1>2 DEF CallbackReturns, Stop, EndByReason
<1>3. CASE DispatchStale \/ DispatchEndOfRestarted \/ DispatchChar
  BY <1>3 DEF DispatchStale, DispatchEndOfRestarted, DispatchChar
<1>4. CASE Tick \/ TimerFires \/ TimerPasses \/ TimerFindsDue \/ EndByTimeout \/ TimerReturns
  BY <1>4 DEF Tick, TimerFires, TimerPasses, TimerFindsDue, EndByTimeout, TimerReturns, EndByReason
<1>5. CASE KeyDown \/ HookTest \/ HookCollect \/ HookPost \/ HookNext \/ HookSync
  BY <1>5 DEF KeyDown, HookTest, HookCollect, HookPost, HookNext, HookSync, EndByReason
<1>6. CASE UNCHANGED vars
  BY <1>6 DEF vars
<1>7. QED
  BY <1>1, <1>2, <1>3, <1>4, <1>5, <1>6 DEF Next

(* The chain stays a list of all that is active. *)
LEMMA StepChain ==
  ASSUME TypeOK, ChainInv, MainInv, [Next]_vars
  PROVE  ChainInv'
<1>0. ListFrom(prev, gInput) /\ active \subseteq Chain /\ Chain \subseteq Inputs
  <2>1. Chain \in SUBSET Inputs
    BY FromMeets DEF ChainInv, ListFrom, Chain
  <2>2. active \subseteq Chain
    BY ChainIs DEF TypeOK, ChainInv
  <2>3. QED
    BY <2>1, <2>2 DEF ChainInv
<1>a. SUFFICES ListFrom(prev', gInput') /\ active' \subseteq Chain'
  <2>1. ListFrom(prev, gInput)' <=> ListFrom(prev', gInput')
    BY DEF ListFrom, From, ClosedIn
  <2>2. QED
    BY <2>1, ChainIs DEF ChainInv
<1>1. ASSUME NEW i \in Inputs, Start(i) PROVE ListFrom(prev', gInput') /\ active' \subseteq Chain'
  <2>1. i \notin Chain /\ prev' = [prev EXCEPT ![i] = gInput] /\ gInput' = i /\ active' = active \cup {i}
    BY <1>1, ChainIs DEF Start
  <2>2. QED
    BY <1>0, <2>1, ChainLinked
<1>2. ASSUME NEW i \in Inputs, Restart(i) PROVE ListFrom(prev', gInput') /\ active' \subseteq Chain'
  <2>1. i \in Chain /\ Unlink(i) /\ i \notin active /\ active' = active
    BY <1>2, ChainIs DEF Restart
  <2>2. QED
    BY <1>0, <2>1, ChainUnlinked
<1>3. ASSUME NEW i \in Inputs, Create(i) PROVE ListFrom(prev', gInput') /\ active' \subseteq Chain'
  <2>1. i \notin Chain /\ prev' = [prev EXCEPT ![i] = None] /\ gInput' = gInput /\ active' = active \ {i}
    BY <1>3, CreateFresh DEF Create
  <2>2. QED
    BY <1>0, <2>1, ChainReset
<1>4. CASE RestartLink
  <2>1. main.input \in Inputs /\ main.input \notin Chain
    BY <1>4, WaitPlaces, ChainIs DEF RestartLink, MainAt, MainInv
  <2>2. /\ prev' = [prev EXCEPT ![main.input] = gInput] /\ gInput' = main.input
        /\ active' = active \cup {main.input}
    BY <1>4 DEF RestartLink
  <2>3. QED
    BY <1>0, <2>1, <2>2, ChainLinked
<1>5. CASE EndUnlinked
  <2>1. main.input \in Inputs /\ main.input \notin Chain
    BY <1>5, WaitPlaces, ChainIs DEF EndUnlinked, MainAt, MainInv
  <2>2. prev' = [prev EXCEPT ![main.input] = None] /\ gInput' = gInput /\ active' = active
    BY <1>5 DEF EndUnlinked
  <2>3. QED
    BY <1>0, <2>1, <2>2, ChainReset
<1>6. CASE DispatchEnd
  <2>1. PICK i : InChain(i) /\ Unlink(i) /\ i \notin active
    BY <1>6 DEF DispatchEnd
  <2>2. active' = active
    BY <1>6 DEF DispatchEnd
  <2>3. QED
    BY <1>0, <2>1, <2>2, ChainIs, ChainUnlinked
<1>7. CASE ChainStays
  BY <1>0, <1>7, ChainSame DEF ChainStays
<1>8. QED
  BY <1>1, <1>2, <1>3, <1>4, <1>5, <1>6, <1>7, ChainSteps

-----------------------------------------------------------------------------
(* The main thread's place. *)

(* What MainInv says of a place m. *)
PlaceOK(m) ==
  /\ m.pc \notin {"timer", "timerEnd"} => m.ret = m.pc
  /\ m.ret = "stop" => m.pc = "stop"
  /\ m.ret # "script" => m.input \in Inputs

(* The input it waits for is out of the chain, and what it points to is in. *)
OutOfChain(i) == i \notin Chain /\ prev[i] \in Chain \cup {None}

LEMMA MainInvIs ==
  /\ MainInv <=> PlaceOK(main) /\ (Waits => OutOfChain(main.input))
  /\ MainInv' <=> PlaceOK(main') /\ (Waits' => OutOfChain(main.input)')
<1>1. MainInv <=> PlaceOK(main) /\ (Waits => OutOfChain(main.input))
  BY ChainIs DEF MainInv, PlaceOK, OutOfChain
<1>2. MainInv' <=> PlaceOK(main') /\ (Waits' => OutOfChain(main.input)')
  BY ChainIs DEF MainInv, PlaceOK, OutOfChain
<1>3. QED
  BY <1>1, <1>2

(* A place At(p, i) is one of no pass of InputTimeout. *)
LEMMA AtPlace ==
  ASSUME NEW p \in Calls, NEW i \in Inputs \cup {None}, p = "script" \/ i \in Inputs
  PROVE  PlaceOK(At(p, i))
  BY MainAtIs DEF PlaceOK, Calls

(* Going through the passes of InputTimeout keeps the place. *)
LEMMA TimerPlaces ==
  ASSUME TypeOK, MainInv, PassInv,
         TimerFires \/ TimerPasses \/ TimerFindsDue \/ EndByTimeout \/ TimerReturns
  PROVE  /\ PlaceOK(main') /\ main'.input = main.input /\ main'.ret = main.ret
         /\ UNCHANGED <<gInput, prev, synced, hook>> /\ active' \subseteq active
<1>1. UNCHANGED <<gInput, prev, synced, hook>> /\ active' \subseteq active
  BY DEF TimerFires, TimerPasses, TimerFindsDue, EndByTimeout, TimerReturns, EndByReason
<1>2. PlaceOK(main)
  BY MainInvIs
<1>3. CASE TimerFires
  BY <1>1, <1>2, <1>3, FiresEffect DEF PlaceOK
<1>4. CASE TimerPasses
  BY <1>1, <1>2, <1>4, PassesEffect DEF PlaceOK
<1>5. CASE TimerFindsDue
  BY <1>1, <1>2, <1>5, FindsDueEffect DEF PlaceOK
<1>6. CASE EndByTimeout
  <2>1. main.at # None
    BY <1>6 DEF EndByTimeout, MainAt, PassInv
  <2>2. QED
    BY <1>1, <1>2, <1>6, <2>1, EndByTimeoutEffect DEF PlaceOK
<1>7. CASE TimerReturns
  BY <1>1, <1>2, <1>7, TimerReturnsEffect DEF PlaceOK
<1>8. QED
  BY <1>3, <1>4, <1>5, <1>6, <1>7

(* The steps by kind, as far as the chain and the threads' places go. *)
Begins(i) == Start(i) \/ Create(i) \/ SetTimeout(i) \/ Discard(i)
Handles   == CallbackReturns \/ DispatchStale \/ DispatchEndOfRestarted \/ DispatchChar
TimerStep == TimerFires \/ TimerPasses \/ TimerFindsDue \/ EndByTimeout \/ TimerReturns
HookStep  == KeyDown \/ HookTest \/ HookCollect \/ HookPost \/ HookNext \/ HookSync

LEMMA Kinds ==
  ASSUME [Next]_vars
  PROVE  \/ \E i \in Inputs : Begins(i) \/ Restart(i) \/ StopTest(i)
         \/ Handles \/ RestartLink \/ Stop \/ EndUnlinked \/ DispatchEnd
         \/ Tick \/ TimerStep \/ HookStep \/ UNCHANGED vars
  BY DEF Next, Begins, Handles, TimerStep, HookStep

LEMMA KindsKeep ==
  /\ \A i \in Inputs : Begins(i) => /\ main.pc = "script" /\ UNCHANGED <<main, synced, hook>>
                                    /\ ListFrom(prev, gInput) => Chain \subseteq Chain'
  /\ Handles => main.pc = "script" /\ UNCHANGED <<main, synced, hook, gInput, prev, active, timerVars>>
  /\ Tick => UNCHANGED <<main, synced, hook, gInput, prev, active>>
  /\ HookStep => UNCHANGED <<main, gInput, prev, timer, lost, refs, frames>> /\ active' \subseteq active
  /\ UNCHANGED vars => UNCHANGED <<main, synced, hook, gInput, prev, active, timer, lost>>
<1> USE DEF scriptVars, timerVars
<1>1. ASSUME NEW i \in Inputs, Begins(i)
      PROVE  /\ main.pc = "script" /\ UNCHANGED <<main, synced, hook>>
             /\ ListFrom(prev, gInput) => Chain \subseteq Chain'
  <2>1. main.pc = "script" /\ UNCHANGED <<main, synced, hook>>
    BY <1>1 DEF Begins, Start, Create, SetTimeout, Discard, MainAt
  <2>2. ASSUME ListFrom(prev, gInput), Start(i) PROVE Chain \subseteq Chain'
    BY <2>2, ChainLinked, ChainIs DEF Start
  <2>3. ASSUME ListFrom(prev, gInput), Create(i) PROVE Chain \subseteq Chain'
    BY <2>3, ChainReset, CreateFresh DEF Create
  <2>4. ASSUME ListFrom(prev, gInput), SetTimeout(i) \/ Discard(i) PROVE Chain \subseteq Chain'
    BY <2>4, ChainSame DEF SetTimeout, Discard
  <2>5. QED
    BY <1>1, <2>1, <2>2, <2>3, <2>4 DEF Begins
<1>2. ASSUME Handles
      PROVE  main.pc = "script" /\ UNCHANGED <<main, synced, hook, gInput, prev, active, timerVars>>
  BY <1>2 DEF Handles, CallbackReturns, DispatchStale, DispatchEndOfRestarted, DispatchChar, MainAt
<1>3. ASSUME Tick PROVE UNCHANGED <<main, synced, hook, gInput, prev, active>>
  BY <1>3 DEF Tick
<1>4. ASSUME HookStep
      PROVE  UNCHANGED <<main, gInput, prev, timer, lost, refs, frames>> /\ active' \subseteq active
  BY <1>4 DEF HookStep, KeyDown, HookTest, HookCollect, HookPost, HookNext, HookSync, EndByReason
<1>5. UNCHANGED vars => UNCHANGED <<main, synced, hook, gInput, prev, active, timer, lost>>
  BY DEF vars
<1>6. QED
  BY <1>1, <1>2, <1>3, <1>4, <1>5

(* The main thread's place is kept by every step. *)
LEMMA StepMain ==
  ASSUME TypeOK, ChainInv, MainInv, HookInv, PassInv, [Next]_vars
  PROVE  MainInv'
<1>0. ListFrom(prev, gInput) /\ PlaceOK(main) /\ (Waits => OutOfChain(main.input))
  BY MainInvIs DEF ChainInv
<1>a. SUFFICES PlaceOK(main') /\ (Waits' => OutOfChain(main.input)')
  BY MainInvIs
<1> DEFINE Goal == PlaceOK(main') /\ (Waits' => OutOfChain(main.input)')
<1>c. ASSUME UNCHANGED <<gInput, prev>>, main'.input = main.input, main'.ret = main.ret, PlaceOK(main')
      PROVE  Goal
  BY <1>0, <1>c, ChainSame DEF Waits, OutOfChain
<1>1. ASSUME NEW i \in Inputs, Begins(i) PROVE Goal
  BY <1>0, <1>1, KindsKeep, WaitPlaces DEF Waits
<1>2. ASSUME NEW i \in Inputs, Restart(i) PROVE Goal
  <2>1. i \in Chain /\ Unlink(i) /\ main' = At("startWait", i)
    BY <1>2, ChainIs DEF Restart
  <2>2. i \notin Chain' /\ prev'[i] \in Chain' \cup {None}
    BY <1>0, <2>1, ChainUnlinked
  <2>3. main'.input = i /\ PlaceOK(main')
    BY <2>1, MainAtIs, AtPlace DEF Calls
  <2>4. QED
    BY <2>2, <2>3 DEF OutOfChain
<1>3. ASSUME NEW i \in Inputs, StopTest(i) PROVE Goal
  <2>1. main' = At("stop", i)
    BY <1>3 DEF StopTest
  <2>2. QED
    BY <2>1, MainAtIs, AtPlace DEF Calls, Waits
<1>4. CASE Handles
  BY <1>0, <1>4, KindsKeep, WaitPlaces DEF Waits
<1>5. CASE RestartLink \/ Stop \/ EndUnlinked
  <2>1. main' = At("script", None)
    BY <1>5 DEF RestartLink, Stop, EndUnlinked
  <2>2. QED
    BY <2>1, MainAtIs, AtPlace DEF Calls, Waits
<1>6. CASE DispatchEnd
  <2>1. PICK i : InChain(i) /\ Unlink(i) /\ main' = At("endWait", i)
    BY <1>6 DEF DispatchEnd
  <2>2. i \in Chain /\ i \in Inputs
    BY <2>1, ChainIs DEF InChain, Onward
  <2>3. i \notin Chain' /\ prev'[i] \in Chain' \cup {None}
    BY <1>0, <2>1, <2>2, ChainUnlinked
  <2>4. main'.input = i /\ PlaceOK(main')
    BY <2>1, <2>2, MainAtIs, AtPlace DEF Calls
  <2>5. QED
    BY <2>3, <2>4 DEF OutOfChain
<1>7. CASE TimerStep
  BY <1>7, <1>c, TimerPlaces DEF TimerStep
<1>8. CASE Tick \/ HookStep \/ UNCHANGED vars
  BY <1>0, <1>8, <1>c, KindsKeep
<1>9. QED
  BY <1>1, <1>2, <1>3, <1>4, <1>5, <1>6, <1>7, <1>8, Kinds

-----------------------------------------------------------------------------
(* The hook thread's place. *)

HookOK(h) == (h.pc = "idle" <=> h.at = None) /\ (h.pc # "post" => h.posts = <<>>)

(* It stands in the chain, or at the input whose leaving the main thread awaits. *)
Linked1(x) == x = None \/ x \in Chain \/ (Waits /\ main.input = x /\ ~synced)

LEMMA HookInvIs ==
  /\ MainInv => (HookInv <=> HookOK(hook) /\ Linked1(hook.at))
  /\ MainInv' => (HookInv' <=> HookOK(hook') /\ Linked1(hook.at)')
<1>1. MainInv => (HookInv <=> HookOK(hook) /\ Linked1(hook.at))
  BY ChainIs DEF MainInv, HookInv, HookPlaceLinked, HookOK, Linked1, Waits
<1>2. MainInv' => (HookInv' <=> HookOK(hook') /\ Linked1(hook.at)')
  BY ChainIs DEF MainInv, HookInv, HookPlaceLinked, HookOK, Linked1, Waits
<1>3. QED
  BY <1>1, <1>2

(* From where the hook stands the next older input is in the chain too. *)
LEMMA NextLinked ==
  ASSUME ListFrom(prev, gInput), Waits => OutOfChain(main.input), NEW x \in Inputs, Linked1(x)
  PROVE  prev[x] \in Chain \cup {None} /\ prev[x] \in Inputs \cup {None}
<1>1. /\ prev \in [Inputs -> Inputs \cup {None}] /\ ClosedIn(prev, Chain)
  BY FromMeets DEF ListFrom, Chain
<1>2. x # None
  BY InputsAssumption
<1>3. QED
  BY <1>1, <1>2 DEF ClosedIn, Linked1, OutOfChain

(* The hook's place is kept by every step. *)
LEMMA StepHook ==
  ASSUME TypeOK, ChainInv, MainInv, HookInv, PassInv, MainInv', [Next]_vars
  PROVE  HookInv'
<1>0. /\ ListFrom(prev, gInput) /\ PlaceOK(main) /\ (Waits => OutOfChain(main.input))
      /\ HookOK(hook) /\ Linked1(hook.at)
  BY MainInvIs, HookInvIs DEF ChainInv
<1> DEFINE Goal == HookOK(hook') /\ Linked1(hook.at)'
<1>a. SUFFICES Goal
  BY HookInvIs
<1>b. ASSUME hook' = hook, ~Waits \/ synced, Chain \subseteq Chain' PROVE Goal
  BY <1>0, <1>b DEF Linked1
<1>c. ASSUME hook' = hook, ~Waits, NEW i \in Chain, Unlink(i),
             main'.input = i, Waits', ~synced'
      PROVE  Goal
  <2>1. Chain' = Chain \ {i}
    BY <1>0, <1>c, ChainUnlinked
  <2>2. QED
    BY <1>0, <1>c, <2>1 DEF Linked1
<1>d. ASSUME HookOK(hook'), UNCHANGED <<gInput, prev, synced>>, Linked1(hook'.at),
             main'.input = main.input, main'.ret = main.ret
      PROVE  Goal
  <2>1. Chain' = Chain
    BY <1>0, <1>d, ChainSame
  <2>2. QED
    BY <1>d, <2>1 DEF Linked1, Waits
<1>1. ASSUME NEW i \in Inputs, Begins(i) PROVE Goal
  BY <1>0, <1>1, <1>b, KindsKeep, WaitPlaces
<1>2. ASSUME NEW i \in Inputs, Restart(i) PROVE Goal
  <2>1. /\ i \in Chain /\ Unlink(i) /\ main' = At("startWait", i) /\ ~synced' /\ hook' = hook
        /\ main.pc = "script"
    BY <1>2, ChainIs DEF Restart, MainAt
  <2>2. main'.input = i /\ Waits'
    BY <2>1 DEF At, Waits
  <2>3. QED
    BY <1>c, <2>1, <2>2, WaitPlaces
<1>3. CASE DispatchEnd
  <2>1. PICK i : /\ InChain(i) /\ Unlink(i) /\ main' = At("endWait", i)
    BY <1>3 DEF DispatchEnd
  <2>2. i \in Chain /\ ~synced' /\ hook' = hook /\ main.pc = "script"
    BY <1>3, <2>1, ChainIs DEF DispatchEnd, MainAt
  <2>3. main'.input = i /\ Waits'
    BY <2>1 DEF At, Waits
  <2>4. QED
    BY <1>c, <2>1, <2>2, <2>3, WaitPlaces
<1>4. CASE RestartLink \/ EndUnlinked
  <2>1. synced /\ hook' = hook /\ main.input \in Inputs /\ main.input \notin Chain
    BY <1>0, <1>4, WaitPlaces DEF RestartLink, EndUnlinked, MainAt, OutOfChain
  <2>2. CASE RestartLink
    <3>1. prev' = [prev EXCEPT ![main.input] = gInput] /\ gInput' = main.input
      BY <2>2 DEF RestartLink
    <3>2. QED
      BY <1>0, <1>b, <2>1, <3>1, ChainLinked
  <2>3. CASE EndUnlinked
    <3>1. prev' = [prev EXCEPT ![main.input] = None] /\ gInput' = gInput
      BY <2>3 DEF EndUnlinked
    <3>2. QED
      BY <1>0, <1>b, <2>1, <3>1, ChainReset
  <2>4. QED
    BY <1>4, <2>2, <2>3
<1>5. CASE Stop \/ \E i \in Inputs : StopTest(i)
  <2>1. UNCHANGED <<gInput, prev, hook>> /\ (main.pc = "script" \/ main.pc = "stop")
    BY <1>5 DEF Stop, StopTest, MainAt
  <2>2. QED
    BY <1>0, <1>b, <2>1, ChainSame, WaitPlaces
<1>6. CASE Handles \/ Tick \/ UNCHANGED vars
  BY <1>0, <1>6, <1>d, KindsKeep
<1>7. CASE TimerStep
  BY <1>0, <1>7, <1>d, TimerPlaces DEF TimerStep
<1>8. CASE HookSync
  <2>1. hook' = hook /\ hook.pc = "idle" /\ UNCHANGED <<gInput, prev>>
    BY <1>8 DEF HookSync, HookAt
  <2>2. QED
    BY <1>0, <2>1 DEF HookOK, Linked1
<1>9. CASE KeyDown \/ HookTest \/ HookCollect \/ HookPost \/ HookNext
  <2>0. UNCHANGED <<gInput, prev, main, synced>>
    BY <1>9 DEF KeyDown, HookTest, HookCollect, HookPost, HookNext
  <2>1. SUFFICES HookOK(hook') /\ Linked1(hook'.at)
    BY <1>d, <2>0
  <2>2. ASSUME NEW x \in Chain \cup {None}, x \in Inputs \cup {None}, WalkTo(x)
        PROVE  HookOK(hook') /\ Linked1(hook'.at)
    BY <2>2, WalkEffect DEF HookOK, Linked1
  <2>3. CASE KeyDown
    <3>1. gInput \in Chain
      BY <2>3, FromMeets, KeyDownEffect DEF ListFrom, Chain, ChainInv
    <3>2. QED
      BY <1>0, <2>3, <3>1, KeyDownEffect DEF HookOK, Linked1
  <2>4. ASSUME HookTest \/ HookNext
        PROVE  hook.at \in Inputs /\ prev[hook.at] \in Chain \cup {None}
                 /\ prev[hook.at] \in Inputs \cup {None}
    <3>1. hook.at \in Inputs
      BY <2>4, PlacesAre DEF HookTest, HookNext, HookAt
    <3>2. QED
      BY <1>0, <3>1, NextLinked
  <2>5. CASE HookTest
    <3>1. CASE hook.at \in active
      BY <1>0, <2>5, <3>1, TestEffect DEF HookOK
    <3>2. CASE hook.at \notin active
      BY <2>2, <2>4, <2>5, <3>2 DEF HookTest
    <3>3. QED
      BY <3>1, <3>2
  <2>6. CASE HookNext
    <3>1. WalkTo(prev[hook.at]) \/ WalkTo(None)
      BY <2>6 DEF HookNext
    <3>2. QED
      BY <2>2, <2>4, <2>6, <3>1
  <2>7. CASE HookCollect
    <3>1. hook.at \in Inputs /\ hook.pc = "collect"
      BY <2>7, PlacesAre DEF HookCollect, HookAt
    <3>2. hook'.pc = "post" /\ hook'.at = hook.at
      BY <2>7, <3>1, CollectEffect
    <3>3. QED
      BY <1>0, <3>1, <3>2 DEF HookOK
  <2>8. CASE HookPost
    BY <1>0, <2>8, PostEffect DEF HookOK
  <2>9. QED
    BY <1>9, <2>3, <2>5, <2>6, <2>7, <2>8
<1>10. QED
  BY <1>1, <1>2, <1>3, <1>4, <1>5, <1>6, <1>7, <1>8, <1>9, Kinds DEF HookStep

-----------------------------------------------------------------------------
(* The timer. *)

LEMMA OnwardIs == \A x : Onward(x) = From(prev, x) /\ Onward(x)' = From(prev', x)
  BY DEF Onward, Closed, From, ClosedIn

(* A walk that passes x meets the rest of what a walk from x meets. *)
LEMMA OnwardNext ==
  ASSUME prev \in [Inputs -> Inputs \cup {None}], NEW x \in Inputs
  PROVE  From(prev, x) \subseteq From(prev, prev[x]) \cup {x}
<1> DEFINE S == From(prev, prev[x]) \cup {x}
<1>1. /\ From(prev, prev[x]) \in SUBSET Inputs
      /\ ClosedIn(prev, From(prev, prev[x])) /\ prev[x] \in From(prev, prev[x]) \cup {None}
  BY FromMeets
<1>2. ClosedIn(prev, S) /\ S \in SUBSET Inputs /\ x \in S \cup {None}
  BY <1>1 DEF ClosedIn
<1> HIDE DEF S
<1>3. From(prev, x) \subseteq S
  BY <1>2, FromLeast
<1>4. QED
  BY <1>3 DEF S

(* SetTimeoutTimer leaves the timer running. *)
LEMMA TimerSet ==
  ASSUME NEW i \in Inputs, SetTimeoutTimer(i)
  PROVE  timer' # None
  BY InputsAssumption DEF SetTimeoutTimer

(* A pass has not gone by an input that counts without finding its time. *)
PassOK(m) ==
  /\ m.pc \in {"timer", "timerEnd"} =>
       /\ timer # None
       /\ m.at # None => m.at \in Chain
       /\ m.period = 0 => \A i \in active : TimeoutOf[i] > 0 => i \in From(prev, m.at)
  /\ m.pc = "timerEnd" => m.at # None
Start1(m) == m.ret = "startWait" => Covered(m.input)

LEMMA PassInvIs ==
  /\ PassInv <=> PassOK(main) /\ Start1(main) /\ \A i \in active : Covered(i)
  /\ PassInv' <=> PassOK(main)' /\ Start1(main)' /\ \A i \in active' : Covered(i)'
<1>1. PassInv <=> PassOK(main) /\ Start1(main) /\ \A i \in active : Covered(i)
  BY ChainIs, OnwardIs DEF PassInv, PassOK, Start1
<1>2. /\ (main'.at # None => InChain(main.at)') <=> (main'.at # None => main'.at \in Chain')
      /\ Onward(main.at)' = From(prev', main'.at)
  BY ChainIs DEF InChain, Onward, Closed, From, ClosedIn, Chain
<1>3. PassInv' <=> PassOK(main)' /\ Start1(main)' /\ \A i \in active' : Covered(i)'
  BY <1>2 DEF PassInv, PassOK, Start1, From, ClosedIn
<1>4. QED
  BY <1>1, <1>3

(* What InputTimeout knows while it goes through the chain is kept by every step. *)
LEMMA StepPass ==
  ASSUME TypeOK, ChainInv, MainInv, HookInv, PassInv, [Next]_vars
  PROVE  PassInv'
<1>0. /\ ListFrom(prev, gInput) /\ PlaceOK(main) /\ active \subseteq Chain /\ active \subseteq Inputs
      /\ PassOK(main) /\ Start1(main) /\ \A i \in active : Covered(i)
      /\ TimeoutOf \in [Inputs -> Nat] /\ None \notin Nat /\ main \in MainStates
      /\ timer \in Nat \cup {None} /\ prev \in [Inputs -> Inputs \cup {None}]
  <2>1. active \subseteq Chain
    BY ChainIs DEF ChainInv
  <2>2. QED
    BY <2>1, MainInvIs, PassInvIs, InputsAssumption DEF TypeOK, ChainInv
<1> DEFINE Goal == PassOK(main)' /\ Start1(main)' /\ \A i \in active' : Covered(i)'
<1>a. SUFFICES Goal
  BY PassInvIs
<1>b. ASSUME main'.pc \in Calls PROVE PassOK(main)'
  BY <1>b DEF PassOK, Calls
<1>c. ASSUME UNCHANGED <<timer, lost>> PROVE \A i : Covered(i) => Covered(i)'
  BY <1>c DEF Covered
<1>d. ASSUME timer' # None PROVE \A i : Covered(i)'
  BY <1>d DEF Covered
<1>e. ASSUME NEW p \in {"script", "stop", "endWait"}, main' = At(p, main'.input),
             UNCHANGED <<timer, lost>>, active' \subseteq active
      PROVE  Goal
  <2>1. main'.pc \in Calls /\ main'.ret # "startWait"
    BY <1>e DEF At, Calls
  <2>2. \A i \in active' : Covered(i)'
    BY <1>0, <1>c, <1>e
  <2>3. QED
    BY <1>b, <2>1, <2>2 DEF Start1
<1>f. ASSUME UNCHANGED <<timer, lost, main, gInput, prev>>, active' \subseteq active PROVE Goal
  <2>1. Chain' = Chain
    BY <1>0, <1>f, ChainSame
  <2>2. PassOK(main)' /\ Start1(main)'
    BY <1>0, <1>f, <2>1 DEF PassOK, Start1, Covered
  <2>3. QED
    BY <1>0, <1>c, <1>f, <2>2
<1>g. ASSUME main.pc = "script", main' = main PROVE PassOK(main)' /\ Start1(main)'
  BY <1>0, <1>g DEF PassOK, Start1, PlaceOK
<1>1. ASSUME NEW i \in Inputs, Begins(i) PROVE Goal
  <2>1. PassOK(main)' /\ Start1(main)'
    BY <1>1, <1>g, KindsKeep
  <2>2. CASE timer' # None
    BY <1>d, <2>1, <2>2
  <2>3. CASE timer' = None
    <3>1. UNCHANGED <<timer, lost>> /\ (active' \subseteq active \/ (active' = active \cup {i} /\ ~(TimeoutOf[i] > 0)))
      BY <1>1, <2>3, TimerSet DEF Begins, Start, SetTimeout, Create, Discard, timerVars
    <3>2. \A j \in active' : Covered(j)'
      BY <1>0, <1>c, <3>1 DEF Covered
    <3>3. QED
      BY <2>1, <3>2
  <2>4. QED
    BY <2>2, <2>3
<1>2. ASSUME NEW i \in Inputs, Restart(i) PROVE Goal
  <2>1. main' = At("startWait", i) /\ active' = active
    BY <1>2 DEF Restart
  <2>2. main'.pc \in Calls /\ main'.input = i
    BY <2>1, MainAtIs DEF Calls
  <2>3. CASE timer' # None
    BY <1>b, <1>d, <2>2, <2>3 DEF Start1, Covered
  <2>4. CASE timer' = None
    <3>1. UNCHANGED <<timer, lost>> /\ ~(TimeoutOf[i] > 0)
      BY <1>2, <2>4, TimerSet DEF Restart, timerVars
    <3>2. Start1(main)'
      BY <2>2, <3>1 DEF Start1, Covered
    <3>3. QED
      BY <1>0, <1>b, <1>c, <2>1, <2>2, <3>1, <3>2
  <2>5. QED
    BY <2>3, <2>4
<1>3. ASSUME NEW i \in Inputs, StopTest(i) PROVE Goal
  <2>1. main' = At("stop", i) /\ UNCHANGED <<timer, lost, active>>
    BY <1>3 DEF StopTest, timerVars
  <2>2. QED
    BY <1>e, <2>1, MainAtIs DEF Calls
<1>4. CASE Stop \/ EndUnlinked
  <2>1. main' = At("script", None) /\ UNCHANGED <<timer, lost>> /\ active' \subseteq active
    BY <1>4 DEF Stop, EndUnlinked, EndByReason, timerVars
  <2>2. QED
    BY <1>e, <2>1, MainAtIs DEF Calls
<1>5. CASE DispatchEnd
  <2>1. PICK i : InChain(i) /\ main' = At("endWait", i)
    BY <1>5 DEF DispatchEnd
  <2>2. UNCHANGED <<timer, lost, active>> /\ i \in Inputs
    BY <1>5, <2>1 DEF DispatchEnd, timerVars, InChain, Onward
  <2>3. QED
    BY <1>e, <2>1, <2>2, MainAtIs DEF Calls
<1>6. CASE RestartLink
  <2>1. /\ main.ret = "startWait" /\ main' = At("script", None) /\ UNCHANGED <<timer, lost>>
        /\ active' = active \cup {main.input}
    BY <1>0, <1>6 DEF RestartLink, MainAt, PlaceOK, timerVars
  <2>2. main'.pc \in Calls /\ Start1(main)'
    BY <2>1, MainAtIs DEF Calls, Start1
  <2>3. \A j \in active' : Covered(j)
    BY <1>0, <2>1 DEF Start1
  <2>4. QED
    BY <1>b, <1>c, <2>1, <2>2, <2>3
<1>7. CASE Handles \/ HookStep \/ UNCHANGED vars
  BY <1>7, <1>f, KindsKeep DEF timerVars
<1>8. CASE Tick
  <2>1. UNCHANGED <<main, gInput, prev, active, lost>> /\ (timer' = None <=> timer = None)
    BY <1>0, <1>8 DEF Tick
  <2>2. \A i : Covered(i) => Covered(i)'
    BY <2>1 DEF Covered
  <2>3. Chain' = Chain
    BY <1>0, <2>1, ChainSame
  <2>4. PassOK(main)' /\ Start1(main)'
    BY <1>0, <2>1, <2>3 DEF PassOK, Start1, Covered
  <2>5. QED
    BY <1>0, <2>1, <2>2, <2>4
<1>9. CASE TimerStep
  <2>0. /\ Chain' = Chain /\ prev' = prev /\ active' \subseteq active
        /\ main'.input = main.input /\ main'.ret = main.ret
    BY <1>0, <1>9, TimerPlaces, ChainSame DEF TimerStep
  <2>a. ASSUME UNCHANGED <<timer, lost>> PROVE Start1(main)' /\ \A i \in active' : Covered(i)'
    BY <1>0, <1>c, <2>0, <2>a DEF Start1
  <2>1. CASE TimerFires
    <3>1. PassOK(main)'
      <4>1. /\ main'.pc = "timer" /\ main'.at = gInput /\ timer' = timer /\ timer = 0
        BY <2>1, FiresEffect DEF TimerFires, timerVars
      <4>2. gInput # None => gInput \in Chain
        BY <1>0, FromMeets DEF ListFrom, Chain
      <4>3. active' \subseteq From(prev, gInput)
        BY <1>0, <2>0 DEF Chain
      <4>4. QED
        BY <1>0, <2>0, <4>1, <4>2, <4>3 DEF PassOK
    <3>2. QED
      BY <2>1, <2>a, <3>1 DEF TimerFires, timerVars
  <2>2. ASSUME NEW x \in Inputs, main.at = x, main.pc \in {"timer", "timerEnd"},
               main'.pc = "timer", main'.at = prev[x], timer' = timer,
               main'.period = 0 => main.period = 0, x \notin active' \/ ~(TimeoutOf[x] > 0) \/ main'.period # 0
        PROVE  PassOK(main)'
    <3>1. x # None /\ x \in Chain /\ timer # None
      BY <1>0, <2>2, InputsAssumption DEF PassOK
    <3>2. prev[x] # None => prev[x] \in Chain
      BY <1>0, <3>1, FromMeets DEF ListFrom, Chain, ClosedIn
    <3>3. ASSUME main'.period = 0, NEW i \in active', TimeoutOf[i] > 0 PROVE i \in From(prev, prev[x])
      <4>1. i \in From(prev, x) /\ i # x
        BY <1>0, <2>0, <2>2, <3>3 DEF PassOK
      <4>2. QED
        BY <1>0, <4>1, OnwardNext
    <3>4. QED
      BY <2>0, <2>2, <3>1, <3>2, <3>3 DEF PassOK
  <2>3. CASE TimerPasses
    <3>1. UNCHANGED <<timer, lost, active>>
      BY <2>3 DEF TimerPasses, timerVars
    <3>2. PassOK(main)'
      BY <2>2, <2>3, <3>1, PassesEffect
    <3>3. QED
      BY <2>a, <3>1, <3>2
  <2>4. CASE TimerFindsDue
    <3>1. UNCHANGED <<timer, lost, active>>
      BY <2>4 DEF TimerFindsDue, timerVars
    <3>2. PassOK(main)'
      BY <1>0, <2>0, <2>4, <3>1, FindsDueEffect DEF PassOK
    <3>3. QED
      BY <2>a, <3>1, <3>2
  <2>5. CASE EndByTimeout
    <3>1. UNCHANGED <<timer, lost>> /\ main.at \notin active' /\ main.at # None
      BY <1>0, <2>5 DEF EndByTimeout, EndByReason, MainAt, PassOK
    <3>2. PassOK(main)'
      BY <2>2, <2>5, <3>1, EndByTimeoutEffect
    <3>3. QED
      BY <2>a, <3>1, <3>2
  <2>6. CASE TimerReturns
    <3>1. /\ main'.pc = main.ret /\ main.at = None /\ main.pc = "timer"
          /\ timer' = (IF main.period > 0 THEN main.period ELSE None)
          /\ lost' = (main.period = 0 /\ (lost \/ main.ret = "startWait"))
          /\ main.period \in Nat /\ main.ret \in Calls
      BY <1>0, <2>6, TimerReturnsEffect, MainParts DEF TimerReturns
    <3>2. PassOK(main)'
      BY <1>b, <3>1
    <3>3. CASE main.period > 0
      <4>1. timer' # None
        BY <1>0, <3>1, <3>3
      <4>2. QED
        BY <1>d, <3>2, <4>1 DEF Start1
    <3>4. CASE main.period = 0
      <4>1. \A i \in active : ~(TimeoutOf[i] > 0)
        <5>1. From(prev, None) = {}
          <6>1. ClosedIn(prev, {}) /\ {} \in SUBSET Inputs /\ None \in {} \cup {None}
            BY DEF ClosedIn
          <6>2. From(prev, None) \subseteq {}
            BY <6>1, FromLeast
          <6>3. QED
            BY <6>2
        <5>2. \A i \in active : TimeoutOf[i] > 0 => i \in From(prev, None)
          BY <1>0, <3>1, <3>4 DEF PassOK
        <5>3. QED
          BY <5>1, <5>2
      <4>2. \A i \in active' : Covered(i)'
        BY <2>0, <4>1 DEF Covered
      <4>3. main.ret = "startWait" => lost'
        BY <3>1, <3>4
      <4>4. Start1(main)'
        BY <2>0, <4>3 DEF Start1, Covered
      <4>5. QED
        BY <3>2, <4>2, <4>4
    <3>5. QED
      BY <3>1, <3>3, <3>4
  <2>7. QED
    BY <1>9, <2>1, <2>3, <2>4, <2>5, <2>6 DEF TimerStep
<1>10. QED
  BY <1>1, <1>2, <1>3, <1>4, <1>5, <1>6, <1>7, <1>8, <1>9, Kinds

-----------------------------------------------------------------------------
(* Messages in a queue. *)

LEMMA Messages ==
  /\ \A i, j : EndOf(i) = EndOf(j) <=> i = j
  /\ \A i, j : EndOf(i) # CharOf(j)
  /\ \A m \in Msg : m.kind = "end" => m = EndOf(m.input)
  /\ \A m \in Msg : m.kind = "char" => m = CharOf(m.input)
  /\ \A m \in Msg : m.input \in Inputs
<1>1. \A i, j : EndOf(i) = EndOf(j) <=> i = j
  <2>1. \A i : EndOf(i).input = i
    BY DEF EndOf
  <2>2. QED
    BY <2>1
<1>2. \A i, j : EndOf(i) # CharOf(j)
  <2>1. \A i : EndOf(i).kind = "end" /\ CharOf(i).kind = "char"
    BY DEF EndOf, CharOf
  <2>2. ASSUME NEW i, NEW j, EndOf(i) = CharOf(j) PROVE FALSE
    <3>1. EndOf(i).kind = "end" /\ EndOf(i).kind = "char"
      BY <2>1, <2>2
    <3>2. QED
      BY <3>1
  <2>3. QED
    BY <2>2
<1>3. \A m \in Msg : /\ m.input \in Inputs
                     /\ m.kind = "end" => m = EndOf(m.input)
                     /\ m.kind = "char" => m = CharOf(m.input)
  BY DEF Msg, EndOf, CharOf
<1>4. QED
  BY <1>1, <1>2, <1>3

(* Whether m is among the messages s. *)
Among(s, m) == \E k \in 1..Len(s) : s[k] = m

LEMMA AmongAppend ==
  ASSUME NEW s \in Seq(Msg), NEW x \in Msg, NEW m
  PROVE  Among(Append(s, x), m) <=> Among(s, m) \/ x = m
<1>1. /\ Len(s) \in Nat /\ Len(Append(s, x)) = Len(s) + 1 /\ Append(s, x)[Len(s) + 1] = x
      /\ \A j \in 1..Len(s) : Append(s, x)[j] = s[j]
  BY AppendProperties
<1>2. \A j \in 1..(Len(s) + 1) : j \in 1..Len(s) \/ j = Len(s) + 1
  BY <1>1
<1>3. (Len(s) + 1) \in 1..(Len(s) + 1) /\ \A j \in 1..Len(s) : j \in 1..(Len(s) + 1)
  BY <1>1
<1>4. QED
  BY <1>1, <1>2, <1>3 DEF Among

LEMMA AmongTail ==
  ASSUME NEW s \in Seq(Msg), s # <<>>, NEW m, Among(s, m)
  PROVE  Head(s) = m \/ Among(Tail(s), m)
<1>1. /\ Len(s) \in Nat /\ Len(Tail(s)) = Len(s) - 1 /\ Head(s) = s[1]
      /\ \A j \in 1..(Len(s) - 1) : Tail(s)[j] = s[j + 1]
  BY HeadTailProperties
<1>2. PICK k \in 1..Len(s) : s[k] = m
  BY DEF Among
<1>3. CASE k = 1
  BY <1>1, <1>2, <1>3
<1>4. CASE k # 1
  <2>1. k - 1 \in 1..(Len(s) - 1) /\ (k - 1) + 1 = k
    BY <1>1, <1>4
  <2>2. Tail(s)[k - 1] = m
    BY <1>1, <1>2, <2>1
  <2>3. QED
    BY <1>1, <2>1, <2>2 DEF Among
<1>5. QED
  BY <1>3, <1>4

(* The positions of m among the messages s, and how many they are. *)
Spots(s, m) == {k \in 1..Len(s) : s[k] = m}

LEMMA SpotsFinite ==
  ASSUME NEW s \in Seq(Msg), NEW m
  PROVE  /\ IsFiniteSet(Spots(s, m)) /\ Times(s, m) \in Nat
         /\ Times(s, m) = Cardinality(Spots(s, m))
         /\ Among(s, m) => Times(s, m) >= 1
<1>1. Len(s) \in Nat
  OBVIOUS
<1>2. IsFiniteSet(1..Len(s))
  BY <1>1, FS_Interval
<1>3. Spots(s, m) \in SUBSET (1..Len(s))
  BY DEF Spots
<1>4. IsFiniteSet(Spots(s, m)) /\ Cardinality(Spots(s, m)) \in Nat
  BY <1>2, <1>3, FS_Subset, FS_CardinalityType
<1>5. Times(s, m) = Cardinality(Spots(s, m))
  BY DEF Times, Spots
<1>6. Among(s, m) => Spots(s, m) # {}
  BY DEF Among, Spots
<1>7. Spots(s, m) # {} => Cardinality(Spots(s, m)) # 0
  BY <1>4, FS_EmptySet
<1>8. QED
  BY <1>4, <1>5, <1>6, <1>7

LEMMA TimesEmpty == \A m : Times(<<>>, m) = 0
<1>1. ASSUME NEW m PROVE Times(<<>>, m) = 0
  <2>1. {k \in 1..0 : <<>>[k] = m} = {}
    OBVIOUS
  <2>2. QED
    BY <2>1, FS_EmptySet DEF Times
<1>2. QED
  BY <1>1

LEMMA TimesAppend ==
  ASSUME NEW s \in Seq(Msg), NEW x \in Msg, NEW m
  PROVE  Times(Append(s, x), m) = Times(s, m) + (IF x = m THEN 1 ELSE 0)
<1> DEFINE r == Append(s, x)
<1>1. /\ r \in Seq(Msg) /\ Len(s) \in Nat /\ Len(r) = Len(s) + 1 /\ r[Len(s) + 1] = x
      /\ \A j \in 1..Len(s) : r[j] = s[j]
  BY AppendProperties
<1> HIDE DEF r
<1>2. (Len(s) + 1) \in 1..(Len(s) + 1) /\ \A j \in 1..Len(s) : j \in 1..(Len(s) + 1)
  BY <1>1
<1>3. ASSUME NEW j \in Spots(r, m)
      PROVE  j \in Spots(s, m) \/ (j = Len(s) + 1 /\ x = m)
  <2>1. j \in 1..(Len(s) + 1) /\ r[j] = m
    BY <1>1, <1>3 DEF Spots
  <2>2. j \in 1..Len(s) \/ j = Len(s) + 1
    BY <1>1, <2>1
  <2>3. QED
    BY <1>1, <2>1, <2>2 DEF Spots
<1>4. Spots(s, m) \subseteq Spots(r, m) /\ (x = m => Len(s) + 1 \in Spots(r, m))
  BY <1>1, <1>2 DEF Spots
<1>5. Spots(r, m) = IF x = m THEN Spots(s, m) \cup {Len(s) + 1} ELSE Spots(s, m)
  BY <1>3, <1>4
<1>6. Len(s) + 1 \notin Spots(s, m)
  BY <1>1 DEF Spots
<1>7. IsFiniteSet(Spots(s, m)) /\ Times(s, m) = Cardinality(Spots(s, m)) /\ Times(s, m) \in Nat
      /\ Times(r, m) = Cardinality(Spots(r, m))
  BY <1>1, SpotsFinite
<1>8. Cardinality(Spots(s, m) \cup {Len(s) + 1}) = Cardinality(Spots(s, m)) + 1
  BY <1>6, <1>7, FS_AddElement
<1>9. QED
  BY <1>5, <1>7, <1>8 DEF r

LEMMA TimesTail ==
  ASSUME NEW s \in Seq(Msg), s # <<>>, NEW m
  PROVE  Times(Tail(s), m) = Times(s, m) - (IF Head(s) = m THEN 1 ELSE 0)
<1> DEFINE r == Tail(s)
           T == Spots(s, m) \ {1}
           f == [k \in Spots(r, m) |-> k + 1]
<1>1. /\ r \in Seq(Msg) /\ Len(s) \in Nat /\ Len(s) >= 1 /\ Len(r) = Len(s) - 1 /\ Head(s) = s[1]
      /\ \A j \in 1..(Len(s) - 1) : r[j] = s[j + 1]
  BY HeadTailProperties
<1> HIDE DEF r
<1>2. f \in Bijection(Spots(r, m), T)
  <2>1. ASSUME NEW k \in Spots(r, m) PROVE k \in Nat /\ k + 1 \in T
    <3>1. k \in 1..(Len(s) - 1) /\ r[k] = m
      BY <1>1 DEF Spots
    <3>2. k \in Nat /\ k + 1 \in 1..Len(s) /\ k + 1 # 1 /\ s[k + 1] = r[k]
      BY <1>1, <3>1
    <3>3. QED
      BY <3>1, <3>2 DEF Spots
  <2>2. f \in [Spots(r, m) -> T]
    BY <2>1
  <2>3. \A j, k \in Spots(r, m) : f[j] = f[k] => j = k
    BY <2>1
  <2>4. ASSUME NEW k \in T PROVE \E j \in Spots(r, m) : f[j] = k
    <3>1. k \in 1..Len(s) /\ k # 1 /\ s[k] = m
      BY DEF Spots
    <3>2. k - 1 \in 1..(Len(s) - 1) /\ (k - 1) + 1 = k
      BY <1>1, <3>1
    <3>3. k - 1 \in Spots(r, m)
      BY <1>1, <3>1, <3>2 DEF Spots
    <3>4. QED
      BY <3>2, <3>3
  <2>5. QED
    BY <2>2, <2>3, <2>4 DEF Bijection, Injection, IsInjective, Surjection
<1>3. IsFiniteSet(Spots(s, m)) /\ Times(s, m) = Cardinality(Spots(s, m)) /\ Times(s, m) \in Nat
      /\ Times(r, m) = Cardinality(Spots(r, m)) /\ Times(r, m) \in Nat
      /\ IsFiniteSet(Spots(r, m))
  BY <1>1, SpotsFinite
<1>4. Cardinality(T) = IF 1 \in Spots(s, m) THEN Cardinality(Spots(s, m)) - 1
                                             ELSE Cardinality(Spots(s, m))
  BY <1>3, FS_RemoveElement
<1> HIDE DEF f, T
<1>5. Cardinality(Spots(r, m)) = Cardinality(T)
  BY <1>2, <1>3, FS_Bijection DEF ExistsBijection
<1>6. Head(s) = m <=> 1 \in Spots(s, m)
  BY <1>1 DEF Spots
<1>7. QED
  BY <1>3, <1>4, <1>5, <1>6 DEF r

LEMMA TimesFront ==
  ASSUME NEW s \in Seq(Msg), s # <<>>, NEW m
  PROVE  Times(SubSeq(s, 1, Len(s) - 1), m) = Times(s, m) - (IF s[Len(s)] = m THEN 1 ELSE 0)
<1> DEFINE r == SubSeq(s, 1, Len(s) - 1)
           x == s[Len(s)]
<1>1. Len(s) \in Nat \ {0} /\ Len(s) - 1 \in Nat
  OBVIOUS
<1>2. /\ r \in Seq(Msg) /\ Len(r) = Len(s) - 1 /\ \A j \in 1..(Len(s) - 1) : r[j] = s[j]
  <2>1. \A j \in 1..(Len(s) - 1) : s[j] \in Msg
    BY <1>1
  <2>2. /\ r \in Seq(Msg) /\ Len(r) = IF 1 <= Len(s) - 1 THEN (Len(s) - 1) - 1 + 1 ELSE 0
        /\ \A j \in 1..((Len(s) - 1) - 1 + 1) : r[j] = s[1 + j - 1]
    BY <1>1, <2>1, SubSeqProperties
  <2> HIDE DEF r
  <2>a. \A n \in Nat \ {0} : (IF 1 <= n - 1 THEN (n - 1) - 1 + 1 ELSE 0) = n - 1 /\ (n - 1) - 1 + 1 = n - 1
    OBVIOUS
  <2>b. \A j \in Nat : 1 + j - 1 = j
    OBVIOUS
  <2>3. (Len(s) - 1) - 1 + 1 = Len(s) - 1 /\ Len(r) = Len(s) - 1
    BY <1>1, <2>2, <2>a
  <2>4. \A j \in 1..(Len(s) - 1) : r[j] = s[j]
    <3>1. \A j \in 1..(Len(s) - 1) : r[j] = s[1 + j - 1]
      <4>1. 1..((Len(s) - 1) - 1 + 1) = 1..(Len(s) - 1)
        BY <2>3
      <4>2. \A j \in 1..((Len(s) - 1) - 1 + 1) : r[j] = s[1 + j - 1]
        BY <2>2
      <4>3. QED
        BY ONLY <4>1, <4>2
    <3>2. 1..(Len(s) - 1) \subseteq Nat
      BY <1>1
    <3>3. QED
      BY <2>b, <3>1, <3>2
  <2>5. QED
    BY <2>2, <2>3, <2>4
<1>3. x \in Msg
  BY <1>1
<1> HIDE DEF r, x
<1>4. Append(r, x) = s
  <2>1. /\ Append(r, x) \in Seq(Msg) /\ Len(Append(r, x)) = Len(s)
        /\ Append(r, x)[Len(s)] = x /\ \A j \in 1..(Len(s) - 1) : Append(r, x)[j] = r[j]
    BY <1>1, <1>2, <1>3, AppendProperties
  <2>2. \A j \in 1..Len(s) : Append(r, x)[j] = s[j]
    BY <1>1, <1>2, <2>1 DEF x
  <2>3. QED
    BY <2>1, <2>2, SeqEqual
<1>5. Times(s, m) = Times(r, m) + (IF x = m THEN 1 ELSE 0)
  <2>1. Times(Append(r, x), m) = Times(r, m) + (IF x = m THEN 1 ELSE 0)
    BY <1>2, <1>3, TimesAppend
  <2>2. QED
    BY <1>4, <2>1
<1>6. Times(r, m) \in Nat
  BY <1>2, SpotsFinite
<1>7. QED
  BY <1>5, <1>6 DEF r, x

-----------------------------------------------------------------------------
(* The announcement of an input's end. *)

(* AHK_INPUT_END of input i is in the queue, or the hook is about to post it. *)
Announced(i) == Among(queue, EndOf(i)) \/ Among(hook.posts, EndOf(i))

LEMMA AnnouncedIs ==
  /\ TypeOK => (EndAnnounced <=> \A i \in Chain : i \notin active => Announced(i))
  /\ TypeOK' => (EndAnnounced' <=> \A i \in Chain' : i \notin active' => Announced(i)')
<1>1. ASSUME TypeOK
      PROVE  EndAnnounced <=> \A i \in Chain : i \notin active => Announced(i)
  <2>1. hook \in HookStates /\ queue \in Seq(Msg)
    BY <1>1 DEF TypeOK
  <2>2. DOMAIN queue = 1..Len(queue) /\ DOMAIN hook.posts = 1..Len(hook.posts)
    BY <2>1, HookParts
  <2>3. \A i : InChain(i) <=> i \in Chain
    BY ChainIs
  <2>4. \A i \in Chain : i \in Inputs
    BY DEF Chain, From
  <2>5. QED
    BY <2>2, <2>3, <2>4 DEF EndAnnounced, Announced, Among
<1>2. ASSUME TypeOK'
      PROVE  EndAnnounced' <=> \A i \in Chain' : i \notin active' => Announced(i)'
  <2>1. hook' \in HookStates /\ queue' \in Seq(Msg)
    BY <1>2 DEF TypeOK, MainStates, HookStates, Msg
  <2>2. DOMAIN queue' = 1..Len(queue') /\ DOMAIN hook'.posts = 1..Len(hook'.posts)
    BY <2>1, HookParts
  <2>3. \A i : InChain(i)' <=> i \in Chain'
    BY ChainIs
  <2>4. \A i \in Chain' : i \in Inputs
    BY DEF Chain, From
  <2>5. QED
    BY <2>2, <2>3, <2>4 DEF EndAnnounced, Announced, Among, EndOf
<1>3. QED
  BY <1>1, <1>2

(* What HookCollect leaves to post. *)
LEMMA Collected ==
  ASSUME TypeOK, HookCollect, hook.at \in Inputs
  PROVE  \E ends \in BOOLEAN :
           /\ IF ends THEN EndByReason(hook.at) ELSE UNCHANGED <<active, left, twice>>
           /\ \A i \in Inputs :
                Times(hook'.posts, EndOf(i)) = IF ends /\ i = hook.at THEN 1 ELSE 0
           /\ ends => Among(hook'.posts, EndOf(hook.at))
<1> DEFINE e == EndOf(hook.at)
           c == CharOf(hook.at)
<1>1. PICK ends \in BOOLEAN, notify \in BOOLEAN :
        /\ IF ends THEN EndByReason(hook.at) ELSE UNCHANGED <<active, left, twice>>
        /\ hook'.posts = (IF ends THEN <<e>> ELSE <<>>) \o (IF notify THEN <<c>> ELSE <<>>)
  BY CollectEffect
<1>2. e \in Msg /\ c \in Msg /\ (\A i \in Inputs : (EndOf(i) = e <=> i = hook.at) /\ EndOf(i) # c)
  BY MsgTypes, Messages
<1> DEFINE p == IF ends THEN Append(<<>>, e) ELSE <<>>
<1>3. hook'.posts = IF notify THEN Append(p, c) ELSE p
  <2>1. CASE ends /\ notify
    BY <1>1, <2>1
  <2>2. CASE ends /\ ~notify
    BY <1>1, <2>2
  <2>3. CASE ~ends /\ notify
    BY <1>1, <2>3
  <2>4. CASE ~ends /\ ~notify
    BY <1>1, <2>4
  <2>5. QED
    BY <2>1, <2>2, <2>3, <2>4
<1> HIDE DEF e, c
<1>4. <<>> \in Seq(Msg) /\ Append(<<>>, e) \in Seq(Msg)
  BY <1>2
<1>5. p \in Seq(Msg)
  BY <1>4
<1>6. \A i \in Inputs : Times(p, EndOf(i)) = IF ends /\ i = hook.at THEN 1 ELSE 0
  <2>1. ASSUME NEW i \in Inputs
        PROVE  Times(Append(<<>>, e), EndOf(i)) = IF i = hook.at THEN 1 ELSE 0
    <3>1. /\ Times(Append(<<>>, e), EndOf(i)) = Times(<<>>, EndOf(i)) + (IF e = EndOf(i) THEN 1 ELSE 0)
          /\ Times(<<>>, EndOf(i)) = 0
      BY <1>2, <1>4, TimesAppend, TimesEmpty
    <3>2. QED
      BY <1>2, <3>1
  <2>2. QED
    BY <2>1, TimesEmpty
<1>7. ends => Among(p, e)
  BY <1>2, <1>4, AmongAppend
<1> HIDE DEF p
<1>8. \A i \in Inputs : Times(Append(p, c), EndOf(i)) = Times(p, EndOf(i))
  <2>1. ASSUME NEW i \in Inputs PROVE Times(Append(p, c), EndOf(i)) = Times(p, EndOf(i))
    <3>1. /\ Times(Append(p, c), EndOf(i)) = Times(p, EndOf(i)) + (IF c = EndOf(i) THEN 1 ELSE 0)
          /\ Times(p, EndOf(i)) \in Nat
      BY <1>2, <1>5, TimesAppend, SpotsFinite
    <3>2. QED
      BY <1>2, <3>1
  <2>2. QED
    BY <2>1
<1>9. Among(p, e) => Among(Append(p, c), e)
  BY <1>2, <1>5, AmongAppend
<1>10. /\ \A i \in Inputs : Times(hook'.posts, EndOf(i)) = IF ends /\ i = hook.at THEN 1 ELSE 0
       /\ ends => Among(hook'.posts, e)
  BY <1>3, <1>6, <1>7, <1>8, <1>9
<1>11. QED
  BY <1>1, <1>10 DEF e

(* Every step keeps the announcement of an end that has not been handled. *)
LEMMA StepAnnounced ==
  ASSUME TypeOK, TypeOK', ChainInv, MainInv, HookInv, PassInv, EndAnnounced, [Next]_vars
  PROVE  EndAnnounced'
<1>0. /\ ListFrom(prev, gInput) /\ queue \in Seq(Msg) /\ hook \in HookStates /\ hook.posts \in Seq(Msg)
      /\ \A i \in Chain : i \notin active => Announced(i)
      /\ \A i \in Chain : i \in Inputs
  BY AnnouncedIs, HookParts DEF TypeOK, ChainInv, Chain, From
<1>a. SUFFICES ASSUME NEW j \in Chain', j \notin active' PROVE Announced(j)'
  BY AnnouncedIs
<1>b. /\ Announced(j)' <=> Among(queue', EndOf(j)) \/ Among(hook'.posts, EndOf(j))
      /\ Announced(j) <=> Among(queue, EndOf(j)) \/ Among(hook.posts, EndOf(j))
  BY DEF Announced, Among, EndOf
<1>c. ~Among(<<>>, EndOf(j))
  BY DEF Among
<1> HIDE DEF Announced
<1> USE DEF scriptVars, timerVars
<1>d. ASSUME queue' = queue, hook'.posts = hook.posts \/ hook.posts = <<>>, j \in Chain \ active
      PROVE  Announced(j)'
  BY <1>0, <1>b, <1>c, <1>d
<1>e. ASSUME NEW m \in Msg, queue' = Append(queue, m), hook' = hook, j \in Chain \ active \/ m = EndOf(j)
      PROVE  Announced(j)'
  <2>1. Among(queue', EndOf(j)) <=> Among(queue, EndOf(j)) \/ m = EndOf(j)
    BY <1>0, <1>e, AmongAppend
  <2>2. QED
    BY <1>0, <1>b, <1>e, <2>1
<1>f. ASSUME queue # <<>>, queue' = Tail(queue), hook' = hook, j \in Chain \ active, Head(queue) # EndOf(j)
      PROVE  Announced(j)'
  <2>1. Among(queue, EndOf(j)) => Among(queue', EndOf(j))
    BY <1>0, <1>f, AmongTail
  <2>2. QED
    BY <1>0, <1>b, <1>f, <2>1
<1>1. ASSUME NEW i \in Inputs, Start(i) PROVE Announced(j)'
  <2>1. Chain' = Chain \cup {i} /\ active' = active \cup {i} /\ UNCHANGED <<queue, hook>>
    BY <1>0, <1>1, ChainLinked, ChainIs DEF Start
  <2>2. QED
    BY <1>a, <1>d, <2>1
<1>2. ASSUME NEW i \in Inputs, Restart(i) PROVE Announced(j)'
  <2>1. Chain' = Chain \ {i} /\ UNCHANGED <<active, queue, hook>>
    BY <1>0, <1>2, ChainUnlinked, ChainIs DEF Restart
  <2>2. QED
    BY <1>a, <1>d, <2>1
<1>3. ASSUME NEW i \in Inputs, Create(i) PROVE Announced(j)'
  <2>1. i \notin Chain /\ Chain' = Chain /\ active' = active \ {i} /\ UNCHANGED <<queue, hook>>
    BY <1>0, <1>3, ChainReset, CreateFresh DEF Create
  <2>2. QED
    BY <1>a, <1>d, <2>1
<1>4. CASE RestartLink
  <2>1. main.input \in Inputs /\ main.input \notin Chain
    BY <1>4, WaitPlaces, ChainIs DEF RestartLink, MainAt, MainInv
  <2>2. /\ prev' = [prev EXCEPT ![main.input] = gInput] /\ gInput' = main.input
        /\ active' = active \cup {main.input} /\ UNCHANGED <<queue, hook>>
    BY <1>4 DEF RestartLink
  <2>3. Chain' = Chain \cup {main.input}
    BY <1>0, <2>1, <2>2, ChainLinked
  <2>4. QED
    BY <1>a, <1>d, <2>2, <2>3
<1>5. CASE EndUnlinked
  <2>1. main.input \in Inputs /\ main.input \notin Chain
    BY <1>5, WaitPlaces, ChainIs DEF EndUnlinked, MainAt, MainInv
  <2>2. /\ prev' = [prev EXCEPT ![main.input] = None] /\ gInput' = gInput
        /\ UNCHANGED <<active, queue, hook>>
    BY <1>5 DEF EndUnlinked
  <2>3. Chain' = Chain
    BY <1>0, <2>1, <2>2, ChainReset
  <2>4. QED
    BY <1>a, <1>d, <2>2, <2>3
<1>6. CASE DispatchEnd
  <2>1. PICK i : i = Head(queue).input /\ InChain(i) /\ Unlink(i) /\ i \notin active
    BY <1>6 DEF DispatchEnd
  <2>2. queue # <<>> /\ queue' = Tail(queue) /\ UNCHANGED <<active, hook>>
    BY <1>6 DEF DispatchEnd
  <2>3. Chain' = Chain \ {i}
    BY <1>0, <2>1, ChainIs, ChainUnlinked
  <2>4. Head(queue) = EndOf(i)
    <3>1. Head(queue) \in Msg /\ Head(queue).kind = "end"
      BY <1>0, <1>6, <2>2 DEF DispatchEnd
    <3>2. QED
      BY <2>1, <3>1, Messages
  <2>5. EndOf(i) # EndOf(j)
    BY <1>a, <2>3, Messages
  <2>6. QED
    BY <1>a, <1>f, <2>2, <2>3, <2>4, <2>5
<1>g. ASSUME UNCHANGED <<gInput, prev>> PROVE Chain' = Chain
  BY <1>0, <1>g, ChainSame
<1>7. ASSUME NEW i \in Inputs, StopTest(i) \/ SetTimeout(i) \/ Discard(i) PROVE Announced(j)'
  <2>1. UNCHANGED <<gInput, prev, active, queue, hook>>
    BY <1>7 DEF StopTest, SetTimeout, Discard
  <2>2. QED
    BY <1>a, <1>d, <1>g, <2>1
<1>8. CASE Stop \/ EndByTimeout
  <2>1. PICK x : /\ x \in Inputs /\ EndByReason(x) /\ queue' = Append(queue, EndOf(x))
                 /\ UNCHANGED <<gInput, prev, hook>>
    BY <1>8, PlacesAre DEF Stop, EndByTimeout, MainAt
  <2>2. active' = active \ {x}
    BY <2>1 DEF EndByReason
  <2>3. EndOf(x) \in Msg
    BY <2>1, MsgTypes
  <2>4. QED
    BY <1>a, <1>e, <1>g, <2>1, <2>2, <2>3
<1>9. CASE DispatchStale \/ DispatchEndOfRestarted \/ DispatchChar
  <2>1. queue # <<>> /\ queue' = Tail(queue) /\ UNCHANGED <<gInput, prev, active, hook>>
    BY <1>9 DEF DispatchStale, DispatchEndOfRestarted, DispatchChar
  <2>2. j \in Chain \ active
    BY <1>a, <1>g, <2>1
  <2>3. Head(queue) \in Msg
    BY <1>0, <2>1
  <2>4. Head(queue).input = j => Head(queue).kind = "char"
    BY <1>9, <2>2, ChainIs DEF DispatchStale, DispatchEndOfRestarted, DispatchChar
  <2>5. EndOf(j).input = j /\ EndOf(j).kind = "end"
    BY DEF EndOf
  <2>6. Head(queue) # EndOf(j)
    BY <2>4, <2>5
  <2>7. QED
    BY <1>f, <2>1, <2>2, <2>6
<1>10. CASE CallbackReturns \/ Tick \/ TimerFires \/ TimerPasses \/ TimerFindsDue \/ TimerReturns
            \/ HookSync \/ UNCHANGED vars
  <2>1. UNCHANGED <<gInput, prev, active, queue, hook>>
    BY <1>10 DEF CallbackReturns, Tick, TimerFires, TimerPasses, TimerFindsDue, TimerReturns,
                 HookSync, vars
  <2>2. QED
    BY <1>a, <1>d, <1>g, <2>1
<1>11. CASE KeyDown \/ HookTest \/ HookNext
  <2>1. UNCHANGED <<gInput, prev, active, queue>>
    BY <1>11 DEF KeyDown, HookTest, HookNext
  <2>2. hook.posts = <<>>
    BY <1>11 DEF KeyDown, HookTest, HookNext, HookAt, HookInv
  <2>3. QED
    BY <1>a, <1>d, <1>g, <2>1, <2>2
<1>12. CASE HookCollect
  <2>0. hook.at \in Inputs
    BY <1>12, PlacesAre DEF HookCollect, HookAt
  <2>1. PICK ends \in BOOLEAN :
           /\ IF ends THEN EndByReason(hook.at) ELSE UNCHANGED <<active, left, twice>>
           /\ ends => Among(hook'.posts, EndOf(hook.at))
    BY <1>12, <2>0, Collected
  <2>2. active' = active \/ (active' = active \ {hook.at} /\ ends)
    BY <2>1 DEF EndByReason
  <2>3. UNCHANGED <<gInput, prev, queue>> /\ hook.posts = <<>>
    BY <1>12 DEF HookCollect, HookAt, HookInv
  <2>4. CASE j = hook.at /\ ends
    BY <1>b, <2>1, <2>4
  <2>5. CASE ~(j = hook.at /\ ends)
    BY <1>a, <1>d, <1>g, <2>2, <2>3, <2>5
  <2>6. QED
    BY <2>4, <2>5
<1>13. CASE HookPost
  <2>1. /\ hook'.posts = Tail(hook.posts) /\ hook.posts # <<>>
        /\ queue' = Append(queue, Head(hook.posts)) /\ Head(hook.posts) \in Msg
        /\ UNCHANGED <<gInput, prev, active>>
    BY <1>13, PostEffect DEF HookPost
  <2>2. Announced(j)
    BY <1>0, <1>a, <1>g, <2>1
  <2>3. Among(queue', EndOf(j)) <=> Among(queue, EndOf(j)) \/ Head(hook.posts) = EndOf(j)
    BY <1>0, <2>1, AmongAppend
  <2>4. Among(hook.posts, EndOf(j)) => Head(hook.posts) = EndOf(j) \/ Among(hook'.posts, EndOf(j))
    BY <1>0, <2>1, AmongTail
  <2>5. QED
    BY <1>b, <2>2, <2>3, <2>4
<1>14. QED
  BY <1>1, <1>2, <1>3, <1>4, <1>5, <1>6, <1>7, <1>8, <1>9, <1>10, <1>11, <1>12, <1>13 DEF Next

-----------------------------------------------------------------------------
(* The references of an input. *)

(* The thread at place m has taken input i out of the chain and waits. *)
WaitsFor(m, i) == m.ret \in {"startWait", "endWait"} /\ m.input = i
One(b) == IF b THEN 1 ELSE 0

LEMMA CountIs ==
  /\ CountInv <=> \/ twice
                  \/ \A i \in Inputs :
                       refs[i] >= Times(queue, EndOf(i)) + Times(hook.posts, EndOf(i))
                                    + Times(frames, EndOf(i))
                                    + One(i \in active) + One(WaitsFor(main, i))
  /\ CountInv' <=> \/ twice'
                   \/ \A i \in Inputs :
                        refs'[i] >= Times(queue', EndOf(i)) + Times(hook'.posts, EndOf(i))
                                      + Times(frames', EndOf(i))
                                      + One(i \in active') + One(WaitsFor(main', i))
  BY DEF CountInv, Owed, Times, Waits, WaitsFor, One, EndOf

(* A message is put into a queue or taken from it. *)
LEMMA TimesPut ==
  ASSUME NEW s \in Seq(Msg), NEW x \in Msg, NEW i
  PROVE  Times(Append(s, x), EndOf(i)) = Times(s, EndOf(i)) + One(x = EndOf(i))
  BY TimesAppend DEF One

LEMMA TimesTaken ==
  ASSUME NEW s \in Seq(Msg), s # <<>>, NEW i
  PROVE  Times(Tail(s), EndOf(i)) = Times(s, EndOf(i)) - One(Head(s) = EndOf(i))
  BY TimesTail DEF One

(* After a history that ended an input twice nothing is said of references. *)
LEMMA TwiceStays == [Next]_vars /\ twice => twice'
<1> USE DEF scriptVars, timerVars
<1>1. ASSUME twice, NEW i \in Inputs,
             Start(i) \/ Restart(i) \/ StopTest(i) \/ SetTimeout(i) \/ Discard(i) \/ Create(i)
      PROVE  twice'
  BY <1>1 DEF Start, Restart, StopTest, SetTimeout, Discard, Create
<1>2. ASSUME twice, CallbackReturns \/ RestartLink \/ Stop \/ EndUnlinked
                    \/ DispatchStale \/ DispatchEnd \/ DispatchEndOfRestarted \/ DispatchChar
      PROVE  twice'
  BY <1>2 DEF CallbackReturns, RestartLink, Stop, EndUnlinked, DispatchStale, DispatchEnd,
              DispatchEndOfRestarted, DispatchChar, EndByReason
<1>3. ASSUME twice, Tick \/ TimerFires \/ TimerPasses \/ TimerFindsDue \/ EndByTimeout \/ TimerReturns
      PROVE  twice'
  BY <1>3 DEF Tick, TimerFires, TimerPasses, TimerFindsDue, EndByTimeout, TimerReturns, EndByReason
<1>4. ASSUME twice, KeyDown \/ HookTest \/ HookCollect \/ HookPost \/ HookNext \/ HookSync
                    \/ UNCHANGED vars
      PROVE  twice'
  BY <1>4 DEF KeyDown, HookTest, HookCollect, HookPost, HookNext, HookSync, EndByReason, vars
<1>5. QED
  BY <1>1, <1>2, <1>3, <1>4 DEF Next


(* The thread that waits, as it goes on from one place to another. *)
LEMMA WaitsAre ==
  ASSUME NEW j \in Inputs
  PROVE  /\ \A m : One(WaitsFor(m, j)) \in {0, 1}
         /\ MainInv /\ main.pc \in {"script", "stop"} => One(WaitsFor(main, j)) = 0
         /\ MainInv /\ main.pc \in {"startWait", "endWait"} =>
              One(WaitsFor(main, j)) = One(j = main.input)
         /\ \A i \in Inputs \cup {None} :
              /\ \A p \in {"script", "stop"} : One(WaitsFor(At(p, i), j)) = 0
              /\ \A p \in {"startWait", "endWait"} : One(WaitsFor(At(p, i), j)) = One(j = i)
<1>1. \A m : One(WaitsFor(m, j)) \in {0, 1}
  BY DEF One
<1>2. ASSUME MainInv, main.pc \in {"script", "stop"} PROVE One(WaitsFor(main, j)) = 0
  BY <1>2 DEF MainInv, WaitsFor, One
<1>3. ASSUME MainInv, main.pc \in {"startWait", "endWait"}
      PROVE  One(WaitsFor(main, j)) = One(j = main.input)
  BY <1>3 DEF MainInv, WaitsFor, One
<1>4. ASSUME NEW i \in Inputs \cup {None}, NEW p \in {"script", "stop"}
      PROVE  One(WaitsFor(At(p, i), j)) = 0
  BY MainAtIs DEF Calls, WaitsFor, One
<1>5. ASSUME NEW i \in Inputs \cup {None}, NEW p \in {"startWait", "endWait"}
      PROVE  One(WaitsFor(At(p, i), j)) = One(j = i)
  BY MainAtIs DEF Calls, WaitsFor, One
<1>6. QED
  BY <1>1, <1>2, <1>3, <1>4, <1>5

(* Each step leaves input j a reference for each release it is still to get. *)
LEMMA StepCount ==
  ASSUME TypeOK, TypeOK', ChainInv, MainInv, HookInv, PassInv, CountInv, [Next]_vars
  PROVE  CountInv'
<1>0. /\ queue \in Seq(Msg) /\ hook.posts \in Seq(Msg) /\ frames \in Seq(Msg)
      /\ queue' \in Seq(Msg) /\ hook'.posts \in Seq(Msg) /\ frames' \in Seq(Msg)
      /\ refs \in [Inputs -> Int] /\ refs' \in [Inputs -> Int] /\ main \in MainStates
  <2>1. hook \in HookStates /\ hook' \in HookStates
    BY DEF TypeOK, HookStates, Msg
  <2>2. QED
    BY <2>1, HookParts DEF TypeOK, Msg
<1>a. SUFFICES ASSUME NEW j \in Inputs, ~twice'
               PROVE  refs'[j] >= Times(queue', EndOf(j)) + Times(hook'.posts, EndOf(j))
                                    + Times(frames', EndOf(j))
                                    + One(j \in active') + One(WaitsFor(main', j))
  BY CountIs
<1> DEFINE e == EndOf(j)
           r == refs[j]     r2 == refs'[j]
           q == Times(queue, e)       q2 == Times(queue', e)
           p == Times(hook.posts, e)  p2 == Times(hook'.posts, e)
           f == Times(frames, e)      f2 == Times(frames', e)
           a == One(j \in active)     a2 == One(j \in active')
           w == One(WaitsFor(main, j))  w2 == One(WaitsFor(main', j))
<1>1. /\ r \in Int /\ q \in Nat /\ p \in Nat /\ f \in Nat /\ a \in Nat /\ w \in Nat
      /\ r2 \in Int /\ q2 \in Nat /\ p2 \in Nat /\ f2 \in Nat /\ a2 \in Nat /\ w2 \in Nat
  BY <1>0, SpotsFinite DEF One
<1>2. r >= q + p + f + a + w
  BY <1>a, CountIs, TwiceStays
<1>3. /\ queue' = queue => q2 = q
      /\ hook'.posts = hook.posts => p2 = p
      /\ frames' = frames => f2 = f
      /\ active' = active => a2 = a
      /\ main' = main => w2 = w
      /\ refs' = refs => r2 = r
  OBVIOUS
<1>4. /\ \A x : One(x) \in {0, 1}
      /\ \A i : active' = active \cup {i} /\ i \notin active => a2 = a + One(j = i)
      /\ \A i : active' = active \cup {i} => a2 <= a + One(j = i)
      /\ \A i : active' = active \ {i} => a2 <= a
      /\ \A i : EndByReason(i) => a2 = a - One(j = i)
  <2>1. ASSUME NEW i, active' = active \cup {i}
        PROVE  a2 <= a + One(j = i) /\ (i \notin active => a2 = a + One(j = i))
    BY <2>1 DEF One
  <2>2. ASSUME NEW i, active' = active \ {i} PROVE a2 <= a /\ (i \in active => a2 = a - One(j = i))
    BY <2>2 DEF One
  <2>3. \A i : EndByReason(i) => active' = active \ {i} /\ i \in active
    BY <1>a DEF EndByReason
  <2>4. \A x : One(x) \in {0, 1}
    BY DEF One
  <2> HIDE DEF a, a2
  <2>5. QED
    BY <2>1, <2>2, <2>3, <2>4
<1>5. \A i \in Inputs : One(EndOf(i) = e) = One(j = i)
  BY Messages DEF One
<1>6. \A i \in Inputs : One(CharOf(i) = e) = 0
  BY Messages DEF One
<1>7. /\ \A i \in Inputs : refs' = [refs EXCEPT ![i] = @ + 1] => r2 = r + One(j = i)
      /\ \A i \in Inputs : refs' = [refs EXCEPT ![i] = @ - 1] => r2 = r - One(j = i)
  BY <1>0, <1>1 DEF One
<1>8. /\ \A m \in Msg : queue' = Append(queue, m) => q2 = q + One(m = e)
      /\ \A m \in Msg : frames' = Append(frames, m) => f2 = f + One(m = e)
      /\ queue # <<>> /\ queue' = Tail(queue) => q2 = q - One(Head(queue) = e) /\ Head(queue) \in Msg
  <2>1. ASSUME NEW m \in Msg, queue' = Append(queue, m) PROVE q2 = q + One(m = e)
    BY <1>0, <2>1, TimesPut
  <2>2. ASSUME NEW m \in Msg, frames' = Append(frames, m) PROVE f2 = f + One(m = e)
    BY <1>0, <2>2, TimesPut
  <2>3. ASSUME queue # <<>>, queue' = Tail(queue)
        PROVE  q2 = q - One(Head(queue) = e) /\ Head(queue) \in Msg
    <3>1. Head(queue) \in Msg
      BY <1>0, <2>3
    <3>2. Times(Tail(queue), e) = Times(queue, e) - One(Head(queue) = e)
      BY <1>0, <2>3, TimesTaken
    <3>3. QED
      BY <2>3, <3>1, <3>2
  <2> HIDE DEF e, q, q2, f, f2
  <2>4. QED
    BY <2>1, <2>2, <2>3
<1>w. /\ main.pc \in {"script", "stop"} => w = 0
      /\ main.pc \in {"startWait", "endWait"} => w = One(j = main.input)
      /\ \A i \in Inputs \cup {None} :
           /\ main' = At("script", i) \/ main' = At("stop", i) => w2 = 0
           /\ main' = At("startWait", i) \/ main' = At("endWait", i) => w2 = One(j = i)
      /\ main'.ret = main.ret /\ main'.input = main.input => w2 = w
  BY WaitsAre DEF WaitsFor, One
<1> HIDE DEF e, r, q, p, f, a, w, r2, q2, p2, f2, a2, w2
<1>9. ASSUME NEW i \in Inputs, CallOnEnd(i)
      PROVE  r2 - r >= f2 - f - One(j = i)
  <2>1. CASE frames' = Append(frames, EndOf(i)) /\ UNCHANGED refs
    <3>1. f2 = f + One(EndOf(i) = e) /\ One(EndOf(i) = e) = One(j = i) /\ r2 = r
      BY <1>3, <1>5, <1>8, <2>1, MsgTypes
    <3>2. QED
      BY <1>1, <1>4, <3>1
  <2>2. CASE refs' = [refs EXCEPT ![i] = @ - 1] /\ UNCHANGED frames
    <3>1. r2 = r - One(j = i) /\ f2 = f
      BY <1>3, <1>7, <2>2
    <3>2. QED
      BY <1>1, <1>4, <3>1
  <2>3. QED
    BY <1>9, <2>1, <2>2 DEF CallOnEnd
<1> DEFINE Goal == r2 >= q2 + p2 + f2 + a2 + w2
<1>b. SUFFICES Goal
  BY DEF e, r2, q2, p2, f2, a2, w2
<1> USE DEF scriptVars, timerVars, MainAt, HookAt
<1>10. ASSUME NEW i \in Inputs, Start(i) PROVE Goal
  <2>1. r2 = r + One(j = i) /\ a2 = a + One(j = i) /\ q2 = q /\ p2 = p /\ f2 = f /\ w2 = w
    BY <1>3, <1>4, <1>7, <1>10 DEF Start
  <2>2. QED
    BY <1>1, <1>2, <1>4, <2>1
<1>11. ASSUME NEW i \in Inputs, Restart(i) PROVE Goal
  <2>1. r2 = r + One(j = i) /\ a2 = a /\ q2 = q /\ p2 = p /\ f2 = f /\ w = 0 /\ w2 = One(j = i)
    BY <1>3, <1>7, <1>w, <1>11 DEF Restart
  <2>2. QED
    BY <1>1, <1>2, <1>4, <2>1
<1>12. ASSUME NEW i \in Inputs, StopTest(i) PROVE Goal
  <2>1. r2 = r /\ a2 = a /\ q2 = q /\ p2 = p /\ f2 = f /\ w2 = 0
    BY <1>3, <1>w, <1>12 DEF StopTest
  <2>2. QED
    BY <1>1, <1>2, <2>1
<1>13. ASSUME NEW i \in Inputs, SetTimeout(i) \/ Discard(i) \/ Create(i) PROVE Goal
  <2>1. r2 = r /\ q2 = q /\ p2 = p /\ f2 = f /\ w2 = w
    BY <1>3, <1>13 DEF SetTimeout, Discard, Create
  <2>3. active' = active \/ active' = active \ {i}
    BY <1>13 DEF SetTimeout, Discard, Create
  <2>4. a2 <= a
    BY <1>1, <1>3, <1>4, <2>3
  <2>2. QED
    BY <1>1, <1>2, <2>1, <2>4
<1>14. CASE CallbackReturns
  <2>1. /\ frames # <<>> /\ frames' = SubSeq(frames, 1, Len(frames) - 1)
        /\ refs' = IF frames[Len(frames)].kind = "end"
                   THEN [refs EXCEPT ![frames[Len(frames)].input] = @ - 1] ELSE refs
    BY <1>14 DEF CallbackReturns
  <2>2. frames[Len(frames)] \in Msg
    BY <1>0, <2>1
  <2>3. f2 = f - One(frames[Len(frames)] = e)
    BY <1>0, <2>1, TimesFront DEF f, f2, One
  <2>4. a2 = a /\ q2 = q /\ p2 = p /\ w2 = w
    BY <1>3, <1>14 DEF CallbackReturns
  <2>5. r2 - r >= f2 - f
    <3> DEFINE m == frames[Len(frames)]
    <3> HIDE DEF m
    <3>1. m \in Msg /\ f2 = f - One(m = e)
          /\ refs' = IF m.kind = "end" THEN [refs EXCEPT ![m.input] = @ - 1] ELSE refs
      BY <2>1, <2>2, <2>3 DEF m
    <3>2. CASE m.kind = "end"
      <4>1. m = EndOf(m.input) /\ m.input \in Inputs
        BY <3>1, <3>2, Messages
      <4>2. One(m = e) = One(j = m.input)
        BY <1>5, <4>1
      <4>3. r2 = r - One(j = m.input)
        BY <1>7, <3>1, <3>2, <4>1
      <4>4. QED
        BY <1>1, <1>4, <3>1, <4>2, <4>3
    <3>3. CASE m.kind # "end"
      BY <1>1, <1>3, <1>4, <3>1, <3>3
    <3>4. QED
      BY <3>2, <3>3
  <2>6. QED
    BY <1>1, <1>2, <2>4, <2>5
<1>15. CASE RestartLink
  <2>1. r2 = r /\ q2 = q /\ p2 = p /\ f2 = f
    BY <1>3, <1>15 DEF RestartLink
  <2>2. a2 <= a + One(j = main.input) /\ w = One(j = main.input) /\ w2 = 0
    BY <1>4, <1>w, <1>15 DEF RestartLink
  <2>3. QED
    BY <1>1, <1>2, <1>4, <2>1, <2>2
<1>16. CASE Stop \/ EndByTimeout
  <2>0. main.pc = "timerEnd" => main.at # None
    BY DEF PassInv
  <2>1. PICK x : /\ x \in Inputs /\ EndByReason(x) /\ queue' = Append(queue, EndOf(x))
                 /\ UNCHANGED <<refs, hook, frames>>
    BY <1>16, PlacesAre DEF Stop, EndByTimeout
  <2>2. w2 <= w
    <3>1. CASE Stop
      BY <1>1, <1>w, <3>1 DEF Stop
    <3>2. CASE EndByTimeout
      BY <1>1, <1>w, <2>0, <3>2, EndByTimeoutEffect DEF EndByTimeout
    <3>3. QED
      BY <1>16, <3>1, <3>2
  <2>3. q2 = q + One(j = x) /\ a2 = a - One(j = x) /\ r2 = r /\ p2 = p /\ f2 = f
    BY <1>3, <1>4, <1>5, <1>8, <2>1, MsgTypes
  <2>4. QED
    BY <1>1, <1>2, <1>4, <2>2, <2>3
<1>17. CASE EndUnlinked
  <2>1. main.input \in Inputs /\ w = One(j = main.input) /\ w2 = 0
    BY <1>w, <1>17, PlacesAre DEF EndUnlinked
  <2>2. r2 - r >= f2 - f - One(j = main.input)
    BY <1>9, <1>17, <2>1 DEF EndUnlinked
  <2>3. a2 = a /\ q2 = q /\ p2 = p
    BY <1>3, <1>17 DEF EndUnlinked
  <2>4. QED
    BY <1>1, <1>2, <1>4, <2>1, <2>2, <2>3
<1>18. CASE DispatchStale
  <2>1. q2 = q - One(Head(queue) = e) /\ r2 = r /\ a2 = a /\ p2 = p /\ f2 = f /\ w2 = w
    BY <1>3, <1>8, <1>18 DEF DispatchStale
  <2>2. QED
    BY <1>1, <1>2, <1>4, <2>1
<1>h. ASSUME queue # <<>>, queue' = Tail(queue), Head(queue).kind = "end"
      PROVE  Head(queue).input \in Inputs /\ q2 = q - One(j = Head(queue).input)
  <2>1. Head(queue) \in Msg
    BY <1>0, <1>h
  <2>2. Head(queue) = EndOf(Head(queue).input) /\ Head(queue).input \in Inputs
    BY <1>h, <2>1, Messages
  <2>3. QED
    BY <1>5, <1>8, <1>h, <2>2
<1>19. CASE DispatchEnd
  <2>1. PICK i : i = Head(queue).input /\ main' = At("endWait", i)
    BY <1>19 DEF DispatchEnd
  <2>2. i \in Inputs /\ q2 = q - One(j = i)
    BY <1>19, <1>h, <2>1 DEF DispatchEnd
  <2>3. w = 0 /\ w2 = One(j = i) /\ r2 = r /\ a2 = a /\ p2 = p /\ f2 = f
    BY <1>3, <1>w, <1>19, <2>1, <2>2 DEF DispatchEnd
  <2>4. QED
    BY <1>1, <1>2, <1>4, <2>2, <2>3
<1>20. CASE DispatchEndOfRestarted
  <2>1. PICK i : i = Head(queue).input /\ CallOnEnd(i)
    BY <1>20 DEF DispatchEndOfRestarted
  <2>2. i \in Inputs /\ q2 = q - One(j = i)
    BY <1>20, <1>h, <2>1 DEF DispatchEndOfRestarted
  <2>3. r2 - r >= f2 - f - One(j = i)
    BY <1>9, <2>1, <2>2
  <2>4. a2 = a /\ p2 = p /\ w2 = w
    BY <1>3, <1>20 DEF DispatchEndOfRestarted
  <2>5. QED
    BY <1>1, <1>2, <1>4, <2>2, <2>3, <2>4
<1>21. CASE DispatchChar
  <2>1. /\ queue # <<>> /\ queue' = Tail(queue) /\ Head(queue).kind = "char"
        /\ frames' = frames \/ frames' = Append(frames, Head(queue))
    BY <1>21 DEF DispatchChar
  <2>2. q2 = q - One(Head(queue) = e) /\ Head(queue) \in Msg
    BY <1>8, <2>1
  <2>3. One(Head(queue) = e) = 0
    BY <1>6, <2>1, <2>2, Messages
  <2>4. f2 = f
    BY <1>1, <1>3, <1>8, <2>1, <2>2, <2>3
  <2>5. r2 = r /\ a2 = a /\ p2 = p /\ w2 = w
    BY <1>3, <1>21 DEF DispatchChar
  <2>6. QED
    BY <1>1, <1>2, <2>2, <2>3, <2>4, <2>5
<1>22. CASE Tick \/ HookSync \/ UNCHANGED vars
  <2>1. r2 = r /\ q2 = q /\ p2 = p /\ f2 = f /\ a2 = a /\ w2 = w
    BY <1>3, <1>22 DEF Tick, HookSync, vars
  <2>2. QED
    BY <1>1, <1>2, <2>1
<1>23. CASE TimerFires \/ TimerPasses \/ TimerFindsDue \/ TimerReturns
  <2>1. r2 = r /\ q2 = q /\ p2 = p /\ f2 = f /\ a2 = a
    BY <1>3, <1>23 DEF TimerFires, TimerPasses, TimerFindsDue, TimerReturns
  <2>2. main'.input = main.input /\ main'.ret = main.ret
    BY <1>23, TimerPlaces
  <2>3. QED
    BY <1>1, <1>2, <1>w, <2>1, <2>2
<1>24. CASE KeyDown \/ HookTest \/ HookNext
  <2>1. r2 = r /\ q2 = q /\ f2 = f /\ a2 = a /\ w2 = w
    BY <1>3, <1>24 DEF KeyDown, HookTest, HookNext
  <2>2. hook'.posts = hook.posts
    <3>1. hook.posts = <<>>
      BY <1>24 DEF KeyDown, HookTest, HookNext, HookInv
    <3>2. CASE KeyDown
      BY <3>2, KeyDownEffect
    <3>3. CASE HookTest /\ hook.at \in active
      BY <3>3, TestEffect
    <3>4. CASE HookNext \/ (HookTest /\ hook.at \notin active)
      <4>1. hook.at \in Inputs
        BY <3>4, PlacesAre DEF HookNext, HookTest
      <4>2. prev[hook.at] \in Inputs \cup {None}
        BY <4>1 DEF TypeOK
      <4>3. \E x \in Inputs \cup {None} : WalkTo(x)
        BY <3>4, <4>2 DEF HookNext, HookTest
      <4>4. QED
        BY <3>1, <4>3, WalkEffect
    <3>5. QED
      BY <1>24, <3>2, <3>3, <3>4
  <2>3. QED
    BY <1>1, <1>2, <1>3, <2>1, <2>2
<1>25. CASE HookCollect
  <2>0. hook.at \in Inputs
    BY <1>25, PlacesAre DEF HookCollect
  <2>1. PICK ends \in BOOLEAN :
           /\ IF ends THEN EndByReason(hook.at) ELSE UNCHANGED <<active, left, twice>>
           /\ Times(hook'.posts, EndOf(j)) = IF ends /\ j = hook.at THEN 1 ELSE 0
    BY <1>25, <2>0, Collected
  <2>2. p2 = IF ends THEN One(j = hook.at) ELSE 0
    BY <2>1 DEF p2, e, One
  <2>3. IF ends THEN a2 = a - One(j = hook.at) ELSE a2 = a
    BY <1>3, <1>4, <2>1
  <2>4. r2 = r /\ q2 = q /\ f2 = f /\ w2 = w
    BY <1>3, <1>25 DEF HookCollect
  <2>5. QED
    BY <1>1, <1>2, <1>4, <2>2, <2>3, <2>4
<1>26. CASE HookPost
  <2>1. /\ hook'.posts = Tail(hook.posts) /\ hook.posts # <<>>
        /\ queue' = Append(queue, Head(hook.posts)) /\ Head(hook.posts) \in Msg
    BY <1>26, PostEffect
  <2>2. p2 = p - One(Head(hook.posts) = e)
    BY <1>0, <2>1, TimesTaken DEF p, p2, e
  <2>3. q2 = q + One(Head(hook.posts) = e)
    BY <1>8, <2>1
  <2>4. r2 = r /\ f2 = f /\ a2 = a /\ w2 = w
    BY <1>3, <1>26 DEF HookPost
  <2>5. QED
    BY <1>1, <1>2, <1>4, <2>2, <2>3, <2>4
<1>27. QED
  BY <1>10, <1>11, <1>12, <1>13, <1>14, <1>15, <1>16, <1>17, <1>18, <1>19, <1>20, <1>21,
     <1>22, <1>23, <1>24, <1>25, <1>26 DEF Next

(* Whatever points to an input holds a reference to it. *)
LEMMA HeldAlive ==
  ASSUME TypeOK, ChainInv, MainInv, HookInv, EndAnnounced, CountInv
  PROVE  AliveUnlessEndedTwice
<1>a. SUFFICES ASSUME ~twice, NEW i \in Inputs, RefCount(i) <= 0,
                      InChain(i) \/ i \in held \/ FramesOf(i) # {} \/ hook.at = i
               PROVE  FALSE
  BY DEF AliveUnlessEndedTwice, Dangling
<1> DEFINE q == Times(queue, EndOf(i))  p == Times(hook.posts, EndOf(i))
           f == Times(frames, EndOf(i)) a == One(i \in active)
           w == One(WaitsFor(main, i))  n == Cardinality(FramesOf(i))
           h == IF i \in held THEN 1 ELSE 0
<1>0. /\ queue \in Seq(Msg) /\ hook.posts \in Seq(Msg) /\ frames \in Seq(Msg)
      /\ refs[i] \in Int
  BY HookParts DEF TypeOK
<1>1. /\ q \in Nat /\ p \in Nat /\ f \in Nat /\ a \in Nat /\ w \in Nat
      /\ Among(queue, EndOf(i)) => q >= 1
      /\ Among(hook.posts, EndOf(i)) => p >= 1
      /\ i \in active => a >= 1
      /\ WaitsFor(main, i) => w >= 1
  BY <1>0, SpotsFinite DEF One
<1>2. n \in Nat /\ (FramesOf(i) # {} => n # 0)
  <2>1. Len(frames) \in Nat /\ FramesOf(i) \in SUBSET (1..Len(frames))
    BY <1>0 DEF FramesOf
  <2>4. IsFiniteSet(1..Len(frames))
    BY <2>1, FS_Interval
  <2>2. IsFiniteSet(FramesOf(i))
    BY <2>1, <2>4, FS_Subset
  <2>3. QED
    BY <2>2, FS_CardinalityType, FS_EmptySet
<1>3. h \in Nat /\ (i \in held => h = 1)
  OBVIOUS
<1>4. refs[i] >= q + p + f + a + w
  BY <1>a, CountIs
<1>5. refs[i] + n + h <= 0
  BY <1>a DEF RefCount
<1>6. InChain(i) => i \in active \/ Among(queue, EndOf(i)) \/ Among(hook.posts, EndOf(i))
  BY AnnouncedIs, ChainIs DEF Announced
<1>7. hook.at = i => InChain(i) \/ WaitsFor(main, i)
  BY InputsAssumption DEF HookInv, HookPlaceLinked, MainInv, WaitsFor
<1> HIDE DEF q, p, f, a, w, n, h
<1>8. q + p + f + a + w <= 0 /\ n + h <= 0
  BY <1>0, <1>1, <1>2, <1>3, <1>4, <1>5
<1>9. i \notin held /\ FramesOf(i) = {}
  BY <1>1, <1>2, <1>3, <1>8
<1>10. ~Among(queue, EndOf(i)) /\ ~Among(hook.posts, EndOf(i)) /\ i \notin active /\ ~WaitsFor(main, i)
  BY <1>1, <1>8
<1>11. QED
  BY <1>a, <1>6, <1>7, <1>9, <1>10

-----------------------------------------------------------------------------
(* The theorems. *)

LEMMA InitInv == Init => Inv
<1> SUFFICES ASSUME Init PROVE Inv
  OBVIOUS
<1>1. TypeOK
  BY InitTypes
<1>2. From(prev, gInput) = {}
  <2>1. ClosedIn(prev, {}) /\ {} \in SUBSET Inputs /\ gInput \in {} \cup {None}
    BY DEF ClosedIn, Init
  <2>2. From(prev, gInput) \subseteq {}
    BY <2>1, FromLeast
  <2>3. QED
    BY <2>2
<1>3. Chain = {} /\ active = {} /\ hook = [pc |-> "idle", at |-> None, posts |-> <<>>]
      /\ main = At("script", None)
  BY <1>2 DEF Chain, Init
<1>4. ChainInv
  <2>1. ListFrom(prev, gInput)
    BY <1>1, <1>2 DEF ListFrom, TypeOK, Init
  <2>2. QED
    BY <1>3, <2>1 DEF ChainInv
<1>5. main.pc = "script" /\ main.ret = "script"
  BY <1>3, MainAtIs DEF Calls
<1>6. MainInv
  BY <1>5 DEF MainInv, Waits
<1>7. HookInv
  BY <1>3 DEF HookInv, HookPlaceLinked
<1>8. PassInv
  BY <1>3, <1>5 DEF PassInv
<1>9. EndAnnounced
  BY <1>1, <1>3, AnnouncedIs
<1>10. CountInv
  <2>1. ASSUME NEW i \in Inputs
        PROVE  refs[i] >= Times(queue, EndOf(i)) + Times(hook.posts, EndOf(i))
                            + Times(frames, EndOf(i))
                            + One(i \in active) + One(WaitsFor(main, i))
    <3>1. /\ refs[i] = 0 /\ queue = <<>> /\ frames = <<>> /\ hook.posts = <<>>
          /\ One(i \in active) = 0 /\ One(WaitsFor(main, i)) = 0
      BY <1>3, <1>5 DEF Init, One, WaitsFor
    <3>2. Times(<<>>, EndOf(i)) = 0
      BY TimesEmpty
    <3>3. QED
      BY <3>1, <3>2
  <2>2. QED
    BY <2>1, CountIs
<1>11. QED
  BY <1>1, <1>4, <1>6, <1>7, <1>8, <1>9, <1>10 DEF Inv

LEMMA StepInv == Inv /\ [Next]_vars => Inv'
<1> SUFFICES ASSUME Inv, [Next]_vars PROVE Inv'
  OBVIOUS
<1> USE DEF Inv
<1>1. TypeOK'
  BY StepTypes
<1>2. ChainInv'
  BY StepChain
<1>3. MainInv'
  BY StepMain
<1>4. HookInv'
  BY <1>3, StepHook
<1>5. PassInv'
  BY StepPass
<1>6. EndAnnounced'
  BY <1>1, StepAnnounced
<1>7. CountInv'
  BY <1>1, StepCount
<1>8. QED
  BY <1>1, <1>2, <1>3, <1>4, <1>5, <1>6, <1>7

LEMMA AlwaysInv == Spec => []Inv
  BY InitInv, StepInv, PTL DEF Spec

(* Every variable has its type: the links and both threads' places in the chain are
   inputs or null, and only messages about inputs are posted.                      *)
THEOREM TypeCorrect == Spec => []TypeOK
<1>1. Inv => TypeOK
  BY DEF Inv
<1>2. QED
  BY <1>1, AlwaysInv, PTL

(* The chain g_input, which the main thread links anew while the hook's thread may
   be in the middle of it, always ends and holds every input that is in progress.  *)
THEOREM ChainWhole == Spec => []ChainHoldsActive
<1>1. Inv => ChainHoldsActive
  <2> SUFFICES ASSUME Inv PROVE ChainHoldsActive
    OBVIOUS
  <2>1. gInput = None \/ \E i \in From(prev, gInput) : prev[i] = None
    BY DEF Inv, ChainInv, ListFrom
  <2>2. \A i \in From(prev, gInput) : InChain(i) /\ i \in Inputs
    BY ChainIs DEF Chain, From
  <2>3. QED
    BY <2>1, <2>2 DEF Inv, ChainInv, ChainHoldsActive
<1>2. QED
  BY <1>1, AlwaysInv, PTL

(* The hook's thread is never at an input whose link the main thread has already
   cut: InputUnlinkIfStopped and InputStart wait for it before they touch Prev.    *)
THEOREM PlaceLinked == Spec => []HookPlaceLinked
<1>1. Inv => HookPlaceLinked
  BY DEF Inv, HookInv
<1>2. QED
  BY <1>1, AlwaysInv, PTL

(* An input that has stopped and is still in the chain has its AHK_INPUT_END in the
   main thread's queue, or the hook is about to post it: OnEnd will be considered.  *)
THEOREM EndsAnnounced == Spec => []EndAnnounced
<1>1. Inv => EndAnnounced
  BY DEF Inv
<1>2. QED
  BY <1>1, AlwaysInv, PTL

(* InputTimeout does not kill the timer while an input with a timeout is in progress,
   but for the one case in which such an input waits for the hook to leave it.      *)
THEOREM TimerAlways == Spec => []TimerCovers
<1>1. Inv => TimerCovers
  BY DEF Inv, PassInv, Covered, TimerCovers
<1>2. QED
  BY <1>1, AlwaysInv, PTL

(* No object is deleted while the chain, the hook or the script points to it, as long
   as no input has been ended twice: each of its releases was paid for by a start.  *)
THEOREM AliveTillTwice == Spec => []AliveUnlessEndedTwice
<1>1. Inv => AliveUnlessEndedTwice
  BY HeldAlive DEF Inv
<1>2. QED
  BY <1>1, AlwaysInv, PTL


-----------------------------------------------------------------------------
(* What the script sees of the inputs: InputLife. *)

(* Of input i when the inputs in A are in progress, those in C linked, and the main
   thread is at m; q and h are the messages queued and in the hook's hands.        *)
StageIn(i, A, C, m) == IF i \in A THEN "on" ELSE IF i \in C \/ WaitsFor(m, i) THEN "over" ELSE "off"
Unfinished(i, m) == m.input = i /\ m.ret = "endWait"
EndsIn(i, q, h, m) == Times(q, EndOf(i)) + Times(h, EndOf(i)) + One(Unfinished(i, m))

LEMMA StageIs ==
  /\ \A i : Stage(i) = StageIn(i, active, Chain, main)
  /\ \A i : Stage(i)' = StageIn(i, active', Chain', main')
<1>1. ASSUME NEW i PROVE Stage(i) = StageIn(i, active, Chain, main)
  BY ChainIs DEF Stage, StageIn, Waiting, WaitsFor
<1>2. ASSUME NEW i PROVE Stage(i)' = StageIn(i, active', Chain', main')
  BY ChainIs DEF Stage, StageIn, Waiting, WaitsFor
<1>3. QED
  BY <1>1, <1>2

LEMMA EndsAre ==
  /\ TypeOK => \A i : Ends(i) = EndsIn(i, queue, hook.posts, main)
  /\ TypeOK' => \A i : Ends(i)' = EndsIn(i, queue', hook'.posts, main')
<1>1. ASSUME NEW s \in Seq(Msg), NEW m
      PROVE  Cardinality({k \in DOMAIN s : s[k] = m}) = Times(s, m)
  <2>1. DOMAIN s = 1..Len(s)
    OBVIOUS
  <2>2. QED
    BY <2>1 DEF Times
<1>2. ASSUME TypeOK, NEW i PROVE Ends(i) = EndsIn(i, queue, hook.posts, main)
  <2>1. queue \in Seq(Msg) /\ hook.posts \in Seq(Msg)
    BY <1>2, HookParts DEF TypeOK
  <2>2. QED
    BY <1>1, <2>1 DEF Ends, EndsIn, Unfinished, One
<1>3. ASSUME TypeOK', NEW i PROVE Ends(i)' = EndsIn(i, queue', hook'.posts, main')
  <2>1. queue' \in Seq(Msg) /\ hook'.posts \in Seq(Msg)
    <3>1. hook' \in HookStates /\ queue' \in Seq(Msg)
      BY <1>3 DEF TypeOK, HookStates, Msg
    <3>2. QED
      BY <3>1, HookParts
  <2>2. /\ Cardinality({k \in DOMAIN queue' : queue'[k] = EndOf(i)}) = Times(queue', EndOf(i))
        /\ Cardinality({k \in DOMAIN hook'.posts : hook'.posts[k] = EndOf(i)})
             = Times(hook'.posts, EndOf(i))
    BY <1>1, <2>1
  <2>3. QED
    BY <2>2 DEF Ends, EndsIn, Unfinished, One, EndOf
<1>4. QED
  BY <1>2, <1>3

(* A step of InputLife changes the stage of at most one input, and its ends. *)
StagesKept == \A j \in Inputs : Stage(j)' = Stage(j)
EndsKept   == \A j \in Inputs : Ends(j)' = Ends(j)
StageOnly(i, x) == \A j \in Inputs : Stage(j)' = IF j = i THEN x ELSE Stage(j)
EndsOnly(i, n)  == \A j \in Inputs : Ends(j)' = IF j = i THEN n ELSE Ends(j)
LifeStep == Life!Next \/ UNCHANGED Life!life

LEMMA LifeParts ==
  ASSUME NEW i \in Inputs
  PROVE  /\ StagesKept => [j \in Inputs |-> Stage(j)]' = [j \in Inputs |-> Stage(j)]
         /\ EndsKept => [j \in Inputs |-> Ends(j)]' = [j \in Inputs |-> Ends(j)]
         /\ \A x : StageOnly(i, x) =>
              [j \in Inputs |-> Stage(j)]' = [[j \in Inputs |-> Stage(j)] EXCEPT ![i] = x]
         /\ \A n : EndsOnly(i, n) =>
              [j \in Inputs |-> Ends(j)]' = [[j \in Inputs |-> Ends(j)] EXCEPT ![i] = n]
  BY DEF StagesKept, EndsKept, StageOnly, EndsOnly

LEMMA LifeQuiet ==
  ASSUME StagesKept, EndsKept, UNCHANGED frames
  PROVE  LifeStep
  BY DEF LifeStep, Life!life, StagesKept, EndsKept

LEMMA LifeStarts ==
  ASSUME NEW i \in Inputs, Stage(i) # "on", StageOnly(i, "on"), EndsKept, UNCHANGED frames
  PROVE  LifeStep
<1>1. Life!Start(i)
  BY LifeParts DEF Life!Start
<1>2. QED
  BY <1>1 DEF LifeStep, Life!Next

LEMMA LifeEnds ==
  ASSUME NEW i \in Inputs, Stage(i) # "off", StageOnly(i, "over"), EndsOnly(i, Ends(i) + 1),
         UNCHANGED frames
  PROVE  LifeStep
<1>1. Life!End(i)
  BY LifeParts DEF Life!End
<1>2. QED
  BY <1>1 DEF LifeStep, Life!Next

LEMMA LifeTells ==
  ASSUME NEW i \in Inputs, Stage(i) # "off", Ends(i) > 0, EndsOnly(i, Ends(i) - 1),
         StageOnly(i, IF Stage(i) = "over" THEN "off" ELSE Stage(i)),
         frames' = Append(frames, EndOf(i)) \/ UNCHANGED frames
  PROVE  LifeStep
<1>1. Life!Tell(i)
  BY LifeParts DEF Life!Tell, Life!Runs, Life!Callback, EndOf
<1>2. QED
  BY <1>1 DEF LifeStep, Life!Next

LEMMA LifeForgets ==
  ASSUME NEW i \in Inputs, Stage(i) = "off", Ends(i) > 0, EndsOnly(i, Ends(i) - 1),
         StagesKept, UNCHANGED frames
  PROVE  LifeStep
<1>1. Life!Forget(i)
  BY LifeParts DEF Life!Forget
<1>2. QED
  BY <1>1 DEF LifeStep, Life!Next

LEMMA LifeChars ==
  ASSUME NEW i \in Inputs, Stage(i) # "off", StagesKept, EndsKept,
         frames' = Append(frames, CharOf(i))
  PROVE  LifeStep
<1>1. Life!Char(i)
  BY LifeParts DEF Life!Char, Life!Runs, Life!Callback, CharOf
<1>2. QED
  BY <1>1 DEF LifeStep, Life!Next

LEMMA LifeReturns ==
  ASSUME StagesKept, EndsKept, frames # <<>>, frames' = SubSeq(frames, 1, Len(frames) - 1)
  PROVE  LifeStep
<1>1. Life!Return
  BY DEF Life!Return, StagesKept, EndsKept
<1>2. QED
  BY <1>1 DEF LifeStep, Life!Next

(* What leaves the sides of InputLife alone. *)
LEMMA SidesKept ==
  ASSUME TypeOK, TypeOK'
  PROVE  /\ UNCHANGED <<main, active>> /\ Chain' = Chain => StagesKept
         /\ UNCHANGED <<queue, hook, main>> => EndsKept
         /\ /\ main'.input = main.input /\ main'.ret = main.ret
            => /\ active' = active /\ Chain' = Chain => StagesKept
               /\ queue' = queue /\ hook'.posts = hook.posts => EndsKept
         /\ /\ main.ret \notin {"startWait", "endWait"} /\ main'.ret \notin {"startWait", "endWait"}
            => /\ active' = active /\ Chain' = Chain => StagesKept
               /\ queue' = queue /\ hook'.posts = hook.posts => EndsKept
  BY StageIs, EndsAre DEF StagesKept, EndsKept, StageIn, EndsIn, WaitsFor, Unfinished, One


(* An input that Stop has found in progress is linked until Stop goes on. *)
StopInv == main.pc = "stop" => main.input \in Chain

LEMMA StepStop ==
  ASSUME Inv, StopInv, [Next]_vars
  PROVE  StopInv'
<1>0. TypeOK /\ ListFrom(prev, gInput) /\ active \subseteq Chain /\ MainInv /\ PassInv
      /\ main \in MainStates
  BY ChainIs DEF Inv, ChainInv, TypeOK
<1>a. SUFFICES ASSUME main'.pc = "stop" PROVE main'.input \in Chain'
  BY DEF StopInv
<1>1. CASE UNCHANGED <<main, gInput, prev>>
  BY <1>0, <1>1, <1>a, ChainSame DEF StopInv
<1>2. ASSUME NEW i \in Inputs, StopTest(i) PROVE main'.input \in Chain'
  <2>1. i \in active /\ UNCHANGED <<gInput, prev>> /\ main' = At("stop", i)
    BY <1>2 DEF StopTest
  <2>2. QED
    BY <1>0, <2>1, ChainSame, MainAtIs DEF Calls
<1>3. ASSUME NEW i \in Inputs, Begins(i) PROVE main'.input \in Chain'
  BY <1>3, <1>a, KindsKeep
<1>4. ASSUME NEW i \in Inputs, Restart(i) PROVE FALSE
  BY <1>4, <1>a, MainAtIs DEF Restart, Calls
<1>5. CASE RestartLink \/ Stop \/ EndUnlinked
  <2>1. main' = At("script", None)
    BY <1>5 DEF RestartLink, Stop, EndUnlinked
  <2>2. QED
    BY <1>a, <2>1, MainAtIs DEF Calls
<1>6. CASE DispatchEnd
  <2>1. PICK i : InChain(i) /\ main' = At("endWait", i)
    BY <1>6 DEF DispatchEnd
  <2>2. i \in Inputs
    BY <2>1 DEF InChain, Onward
  <2>3. QED
    BY <1>a, <2>1, <2>2, MainAtIs DEF Calls
<1>7. CASE TimerStep
  <2>1. main'.pc \in {"timer", "timerEnd"} \/ (main'.pc = main.ret /\ main.pc = "timer")
    <3>1. ASSUME EndByTimeout PROVE main.at # None
      BY <3>1, <1>0 DEF EndByTimeout, MainAt, PassInv
    <3>2. QED
      BY <1>0, <1>7, <3>1, FiresEffect, PassesEffect, FindsDueEffect, EndByTimeoutEffect,
         TimerReturnsEffect DEF TimerStep
  <2>2. QED
    BY <1>0, <1>a, <2>1 DEF MainInv
<1>8. CASE Handles \/ Tick \/ HookStep \/ UNCHANGED vars
  BY <1>1, <1>8, KindsKeep
<1>9. QED
  BY <1>2, <1>3, <1>4, <1>5, <1>6, <1>7, <1>8, Kinds

(* What the steps find of an input. *)
LEMMA LifeFacts ==
  ASSUME Inv, TypeOK'
  PROVE  /\ TypeOK /\ ListFrom(prev, gInput) /\ active \subseteq Chain /\ Chain \subseteq Inputs
         /\ MainInv /\ HookInv /\ PassInv /\ main \in MainStates /\ hook \in HookStates
         /\ queue \in Seq(Msg) /\ hook.posts \in Seq(Msg)
         /\ queue' \in Seq(Msg) /\ hook'.posts \in Seq(Msg)
         /\ main.pc \in {"script", "stop"} => main.ret \notin {"startWait", "endWait"}
         /\ main.pc \in {"startWait", "endWait"} =>
              main.ret = main.pc /\ main.input \in Inputs /\ main.input \notin Chain
         /\ main.pc = "script" => \A j \in Inputs : Stage(j) = "off" <=> j \notin Chain
         /\ \A j \in Inputs : Ends(j) \in Nat
<1>1. /\ TypeOK /\ ListFrom(prev, gInput) /\ active \subseteq Chain /\ MainInv /\ HookInv /\ PassInv
      /\ main \in MainStates /\ hook \in HookStates /\ queue \in Seq(Msg)
  BY ChainIs DEF Inv, ChainInv, TypeOK
<1>2. Chain \subseteq Inputs
  BY <1>1, FromMeets DEF ListFrom, Chain
<1>3. hook.posts \in Seq(Msg)
  BY <1>1, HookParts
<1>4. queue' \in Seq(Msg) /\ hook'.posts \in Seq(Msg)
  <2>1. hook' \in HookStates /\ queue' \in Seq(Msg)
    BY DEF TypeOK, HookStates, Msg
  <2>2. QED
    BY <2>1, HookParts
<1>5. /\ main.pc \in {"script", "stop"} => main.ret \notin {"startWait", "endWait"}
      /\ main.pc \in {"startWait", "endWait"} =>
           main.ret = main.pc /\ main.input \in Inputs /\ main.input \notin Chain
  BY <1>1, ChainIs DEF MainInv, Waits
<1>6. main.pc = "script" => \A j \in Inputs : Stage(j) = "off" <=> j \notin Chain
  BY <1>1, <1>5, StageIs DEF StageIn, WaitsFor
<1>7. ASSUME NEW j \in Inputs PROVE Ends(j) \in Nat
  BY <1>1, <1>3, EndsAre, SpotsFinite DEF EndsIn, One
<1>8. QED
  BY <1>1, <1>2, <1>3, <1>4, <1>5, <1>6, <1>7


(* The steps, one by one. *)
LEMMA BeginLife ==
  ASSUME Inv, TypeOK', NEW i \in Inputs,
         Start(i) \/ Restart(i) \/ StopTest(i) \/ SetTimeout(i) \/ Discard(i) \/ Create(i)
  PROVE  LifeStep
<1>0. /\ ListFrom(prev, gInput) /\ active \subseteq Chain /\ main.pc = "script"
      /\ main.ret \notin {"startWait", "endWait"} /\ UNCHANGED <<queue, hook, frames>>
  <2>1. main.pc = "script" /\ UNCHANGED <<queue, hook, frames>>
    BY DEF Start, Restart, StopTest, SetTimeout, Discard, Create, MainAt, scriptVars
  <2>2. QED
    BY <2>1, LifeFacts
<1>1. CASE Start(i)
  <2>1. /\ i \notin Chain /\ Chain' = Chain \cup {i} /\ active' = active \cup {i} /\ main' = main
    BY <1>0, <1>1, ChainIs, ChainLinked DEF Start
  <2>2. StageOnly(i, "on")
    BY <2>1, StageIs DEF StageOnly, StageIn
  <2>3. Stage(i) # "on"
    BY <1>0, <2>1, StageIs DEF StageIn
  <2>4. EndsKept
    BY <1>0, <2>1, EndsAre, LifeFacts DEF EndsKept
  <2>5. QED
    BY <1>0, <2>2, <2>3, <2>4, LifeStarts
<1>2. CASE Restart(i)
  <2>1. /\ i \in Chain /\ i \notin active /\ Unlink(i) /\ active' = active
        /\ main' = At("startWait", i)
    BY <1>2, ChainIs DEF Restart
  <2>2. Chain' = Chain \ {i} /\ main'.ret = "startWait" /\ main'.input = i
    BY <1>0, <2>1, ChainUnlinked, MainAtIs DEF Calls
  <2>3. StagesKept
    BY <1>0, <2>1, <2>2, StageIs DEF StagesKept, StageIn, WaitsFor
  <2>4. EndsKept
    BY <1>0, <2>2, EndsAre, LifeFacts DEF EndsKept, EndsIn, Unfinished, One
  <2>5. QED
    BY <1>0, <2>3, <2>4, LifeQuiet
<1>3. CASE StopTest(i)
  <2>1. UNCHANGED <<gInput, prev, active>> /\ main' = At("stop", i)
    BY <1>3 DEF StopTest
  <2>2. Chain' = Chain /\ main'.ret = "stop"
    BY <1>0, <2>1, ChainSame, MainAtIs DEF Calls
  <2>3. StagesKept /\ EndsKept
    BY <1>0, <2>1, <2>2, SidesKept, LifeFacts
  <2>4. QED
    BY <1>0, <2>3, LifeQuiet
<1>4. CASE SetTimeout(i) \/ Discard(i)
  <2>1. UNCHANGED <<gInput, prev, active, main>>
    BY <1>4 DEF SetTimeout, Discard
  <2>2. StagesKept /\ EndsKept
    BY <1>0, <2>1, ChainSame, SidesKept, LifeFacts
  <2>3. QED
    BY <1>0, <2>2, LifeQuiet
<1>5. CASE Create(i)
  <2>1. /\ i \notin Chain /\ prev' = [prev EXCEPT ![i] = None] /\ gInput' = gInput
        /\ active' = active \ {i} /\ main' = main
    BY <1>5, CreateFresh DEF Create
  <2>2. Chain' = Chain /\ active' = active
    BY <1>0, <2>1, ChainReset
  <2>3. StagesKept /\ EndsKept
    BY <1>0, <2>1, <2>2, SidesKept, LifeFacts
  <2>4. QED
    BY <1>0, <2>3, LifeQuiet
<1>6. QED
  BY <1>1, <1>2, <1>3, <1>4, <1>5

(* The main thread goes on with what it was doing. *)
LEMMA MainLife ==
  ASSUME Inv, StopInv, TypeOK', RestartLink \/ Stop \/ EndUnlinked \/ CallbackReturns
  PROVE  LifeStep
<1>0. TypeOK /\ ListFrom(prev, gInput) /\ active \subseteq Chain /\ MainInv
  BY LifeFacts
<1>1. CASE RestartLink
  <2>1. /\ main.pc = "startWait" /\ main' = At("script", None)
        /\ UNCHANGED <<queue, hook, frames>> /\ active' = active \cup {main.input}
        /\ prev' = [prev EXCEPT ![main.input] = gInput] /\ gInput' = main.input
    BY <1>1 DEF RestartLink, MainAt, scriptVars
  <2>2. main.ret = "startWait" /\ main.input \in Inputs /\ main.input \notin Chain /\ main'.ret = "script"
    BY <2>1, LifeFacts, MainAtIs DEF Calls
  <2>3. Chain' = Chain \cup {main.input}
    BY <1>0, <2>1, <2>2, ChainLinked
  <2>4. StageOnly(main.input, "on") /\ Stage(main.input) # "on"
    BY <1>0, <2>1, <2>2, <2>3, StageIs DEF StageOnly, StageIn, WaitsFor
  <2>5. EndsKept
    BY <1>0, <2>1, <2>2, EndsAre DEF EndsKept, EndsIn, Unfinished, One
  <2>6. QED
    BY <2>1, <2>2, <2>4, <2>5, LifeStarts
<1>2. CASE Stop
  <2>1. /\ main.pc = "stop" /\ main' = At("script", None) /\ UNCHANGED <<gInput, prev, hook, frames>>
        /\ active' = active \ {main.input} /\ queue' = Append(queue, EndOf(main.input))
    BY <1>2 DEF Stop, MainAt, EndByReason, scriptVars
  <2>2. /\ main.ret = "stop" /\ main.input \in Chain /\ main.input \in Inputs /\ main'.ret = "script"
        /\ Chain' = Chain
    BY <1>0, <2>1, LifeFacts, MainAtIs, ChainSame DEF Calls, StopInv, MainInv
  <2>3. StageOnly(main.input, "over") /\ Stage(main.input) # "off"
    BY <1>0, <2>1, <2>2, StageIs DEF StageOnly, StageIn, WaitsFor
  <2>4. \A j \in Inputs : Times(queue', EndOf(j)) = Times(queue, EndOf(j)) + One(j = main.input)
    BY <2>1, <2>2, LifeFacts, MsgTypes, TimesPut, Messages DEF One
  <2>5. \A j \in Inputs : Ends(j)' = Ends(j) + One(j = main.input)
    <3>1. \A j \in Inputs : /\ Times(queue, EndOf(j)) \in Nat /\ Times(hook.posts, EndOf(j)) \in Nat
                            /\ One(j = main.input) \in Nat
      BY LifeFacts, SpotsFinite DEF One
    <3>2. \A j \in Inputs : One(Unfinished(j, main)) = 0 /\ One(Unfinished(j, main')) = 0
      BY <2>2 DEF Unfinished, One
    <3>3. QED
      BY <1>0, <2>1, <2>4, <3>1, <3>2, EndsAre DEF EndsIn
  <2>6. EndsOnly(main.input, Ends(main.input) + 1)
    BY <2>5, LifeFacts DEF EndsOnly, One
  <2>7. QED
    BY <2>1, <2>2, <2>3, <2>6, LifeEnds
<1>3. CASE CallbackReturns
  <2>1. /\ frames # <<>> /\ frames' = SubSeq(frames, 1, Len(frames) - 1)
        /\ UNCHANGED <<gInput, prev, active, queue, main, hook>>
    BY <1>3 DEF CallbackReturns
  <2>2. StagesKept /\ EndsKept
    BY <1>0, <2>1, ChainSame, SidesKept
  <2>3. QED
    BY <2>1, <2>2, LifeReturns
<1>4. CASE EndUnlinked
  <2>1. /\ main.pc = "endWait" /\ main' = At("script", None) /\ UNCHANGED <<gInput, active, queue, hook>>
        /\ prev' = [prev EXCEPT ![main.input] = None] /\ CallOnEnd(main.input)
    BY <1>4 DEF EndUnlinked, MainAt
  <2>2. /\ main.ret = "endWait" /\ main.input \in Inputs /\ main.input \notin Chain
        /\ main'.ret = "script" /\ main.input \notin active
    BY <1>0, <2>1, LifeFacts, MainAtIs DEF Calls
  <2>3. Chain' = Chain
    BY <1>0, <2>1, <2>2, ChainReset
  <2>4. Stage(main.input) = "over" /\ StageOnly(main.input, "off")
    BY <1>0, <2>1, <2>2, <2>3, StageIs DEF StageOnly, StageIn, WaitsFor
  <2>5. \A j \in Inputs : Ends(j)' = Ends(j) - One(j = main.input) /\ Ends(j) >= One(j = main.input)
    <3>1. \A j \in Inputs : /\ Times(queue, EndOf(j)) \in Nat /\ Times(hook.posts, EndOf(j)) \in Nat
                            /\ One(j = main.input) \in Nat
      BY LifeFacts, SpotsFinite DEF One
    <3>2. \A j \in Inputs : One(Unfinished(j, main)) = One(j = main.input) /\ One(Unfinished(j, main')) = 0
      BY <2>2 DEF Unfinished, One
    <3>3. QED
      BY <1>0, <2>1, <3>1, <3>2, EndsAre DEF EndsIn
  <2>6. EndsOnly(main.input, Ends(main.input) - 1) /\ Ends(main.input) > 0
    BY <2>2, <2>5, LifeFacts DEF EndsOnly, One
  <2>7. frames' = Append(frames, EndOf(main.input)) \/ UNCHANGED frames
    BY <2>1 DEF CallOnEnd
  <2>8. QED
    BY <2>2, <2>4, <2>6, <2>7, LifeTells
<1>5. QED
  BY <1>1, <1>2, <1>3, <1>4


(* The oldest message is taken from the queue. *)
LEMMA TakenLife ==
  ASSUME Inv, TypeOK', queue # <<>>, queue' = Tail(queue), UNCHANGED hook, main.pc = "script"
  PROVE  /\ Head(queue) \in Msg /\ Head(queue).input \in Inputs
         /\ Head(queue).kind = "char" =>
              /\ Head(queue) = CharOf(Head(queue).input)
              /\ main' = main => EndsKept
         /\ Head(queue).kind = "end" =>
              /\ Head(queue) = EndOf(Head(queue).input) /\ Ends(Head(queue).input) > 0
              /\ main' = main => EndsOnly(Head(queue).input, Ends(Head(queue).input) - 1)
              /\ main' = At("endWait", Head(queue).input) => EndsKept
<1> DEFINE m == Head(queue)  i == m.input
<1>0. TypeOK /\ queue \in Seq(Msg) /\ hook.posts \in Seq(Msg) /\ queue' \in Seq(Msg)
      /\ main.ret \notin {"startWait", "endWait"} /\ \A j \in Inputs : Ends(j) \in Nat
  BY LifeFacts
<1>1. m \in Msg
  BY <1>0
<1> HIDE DEF m
<1>2. /\ i \in Inputs /\ m.kind = "char" => m = CharOf(i)
      /\ m.kind = "end" => m = EndOf(i)
  BY <1>1, Messages
<1>2a. i \in Inputs
  BY <1>1, Messages
<1>3. ASSUME NEW j \in Inputs
      PROVE  /\ Times(queue', EndOf(j)) = Times(queue, EndOf(j)) - One(m = EndOf(j))
             /\ Times(queue', EndOf(j)) \in Nat /\ Times(queue, EndOf(j)) \in Nat
             /\ Times(hook.posts, EndOf(j)) \in Nat /\ One(Unfinished(j, main)) = 0
  <2>1. Times(Tail(queue), EndOf(j)) = Times(queue, EndOf(j)) - One(m = EndOf(j))
    BY <1>0, TimesTaken DEF m
  <2>2. One(Unfinished(j, main)) = 0
    BY <1>0 DEF Unfinished, One
  <2>3. QED
    BY <1>0, <2>1, <2>2, SpotsFinite
<1>4. ASSUME NEW j \in Inputs
      PROVE  Ends(j)' = Ends(j) - One(m = EndOf(j)) + One(Unfinished(j, main'))
  <2>1. /\ Ends(j) = Times(queue, EndOf(j)) + Times(hook.posts, EndOf(j)) + One(Unfinished(j, main))
        /\ Ends(j)' = Times(queue', EndOf(j)) + Times(hook'.posts, EndOf(j)) + One(Unfinished(j, main'))
    BY <1>0, EndsAre DEF EndsIn
  <2>2. One(m = EndOf(j)) \in Nat /\ One(Unfinished(j, main')) \in Nat
    BY DEF One
  <2>3. QED
    BY <1>3, <2>1, <2>2
<1>5. ASSUME m.kind = "char" PROVE m = CharOf(i) /\ (main' = main => EndsKept)
  <2>1. m = CharOf(i)
    BY <1>1, <1>5, Messages
  <2>2. ASSUME main' = main, NEW j \in Inputs PROVE Ends(j)' = Ends(j)
    <3>1. One(m = EndOf(j)) = 0
      BY <2>1, Messages DEF One
    <3>2. One(Unfinished(j, main')) = 0
      BY <1>3, <2>2
    <3>3. QED
      BY <1>0, <1>4, <3>1, <3>2
  <2>3. QED
    BY <2>1, <2>2 DEF EndsKept
<1>6. ASSUME m.kind = "end"
      PROVE  /\ m = EndOf(i) /\ Ends(i) > 0
             /\ main' = main => EndsOnly(i, Ends(i) - 1)
             /\ main' = At("endWait", i) => EndsKept
  <2>1. m = EndOf(i) /\ \A j \in Inputs : One(m = EndOf(j)) = One(j = i)
    BY <1>1, <1>6, Messages DEF One
  <2>2. Ends(i) > 0
    <3>1. One(m = EndOf(i)) = 1
      BY <2>1 DEF One
    <3>2. Times(queue, EndOf(i)) > 0
      BY <1>2a, <1>3, <3>1
    <3>3. Ends(i) = Times(queue, EndOf(i)) + Times(hook.posts, EndOf(i)) + One(Unfinished(i, main))
      BY <1>0, EndsAre DEF EndsIn
    <3>4. QED
      BY <1>2a, <1>3, <3>2, <3>3
  <2>3. ASSUME main' = main, NEW j \in Inputs
        PROVE  Ends(j)' = IF j = i THEN Ends(i) - 1 ELSE Ends(j)
    <3>1. One(Unfinished(j, main')) = 0
      BY <1>3, <2>3
    <3>2. Ends(j)' = Ends(j) - One(j = i)
      BY <1>0, <1>4, <2>1, <3>1 DEF One
    <3>3. QED
      BY <1>0, <3>2 DEF One
  <2>4. ASSUME main' = At("endWait", i), NEW j \in Inputs PROVE Ends(j)' = Ends(j)
    <3>1. One(Unfinished(j, main')) = One(j = i)
      BY <1>2a, <2>4, MainAtIs DEF Calls, Unfinished, One
    <3>2. Ends(j)' = Ends(j) - One(j = i) + One(j = i)
      BY <1>4, <2>1, <3>1
    <3>3. QED
      BY <1>0, <3>2 DEF One
  <2>5. QED
    BY <2>1, <2>2, <2>3, <2>4 DEF EndsOnly, EndsKept
<1>7. QED
  BY <1>1, <1>2a, <1>5, <1>6 DEF m

LEMMA DispatchLife ==
  ASSUME Inv, TypeOK', DispatchStale \/ DispatchEnd \/ DispatchEndOfRestarted \/ DispatchChar
  PROVE  LifeStep
<1> DEFINE m == Head(queue)  i == m.input
<1>0. /\ ListFrom(prev, gInput) /\ active \subseteq Chain /\ main.pc = "script" /\ queue # <<>>
      /\ queue' = Tail(queue) /\ UNCHANGED <<hook, active>> /\ TypeOK
  <2>1. main.pc = "script" /\ queue # <<>> /\ queue' = Tail(queue) /\ UNCHANGED <<hook, active>>
    BY DEF DispatchStale, DispatchEnd, DispatchEndOfRestarted, DispatchChar, MainAt
  <2>2. QED
    BY <2>1, LifeFacts
<1>1. /\ m \in Msg /\ i \in Inputs
      /\ m.kind = "char" => m = CharOf(i) /\ (main' = main => EndsKept)
      /\ m.kind = "end" => /\ m = EndOf(i) /\ Ends(i) > 0
                           /\ main' = main => EndsOnly(i, Ends(i) - 1)
                           /\ main' = At("endWait", i) => EndsKept
  BY <1>0, TakenLife
<1>2. m.kind \in {"end", "char"}
  BY <1>1 DEF Msg
<1>3. Stage(i) = "off" <=> i \notin Chain
  BY <1>0, <1>1, LifeFacts
<1> HIDE DEF m
<1>4. CASE DispatchStale
  <2>1. i \notin Chain /\ UNCHANGED <<gInput, prev, main, frames>>
    BY <1>4, ChainIs DEF DispatchStale, m, scriptVars
  <2>2. StagesKept
    BY <1>0, <2>1, ChainSame, SidesKept
  <2>3. CASE m.kind = "char"
    BY <1>1, <2>1, <2>2, <2>3, LifeQuiet
  <2>4. CASE m.kind = "end"
    BY <1>1, <1>3, <2>1, <2>2, <2>4, LifeForgets
  <2>5. QED
    BY <1>2, <2>3, <2>4
<1>5. CASE DispatchChar
  <2>1. /\ i \in Chain /\ m.kind = "char" /\ UNCHANGED <<gInput, prev, main>>
        /\ frames' = Append(frames, m) \/ UNCHANGED frames
    BY <1>5, ChainIs DEF DispatchChar, m
  <2>2. StagesKept
    BY <1>0, <2>1, ChainSame, SidesKept
  <2>3. QED
    BY <1>1, <1>3, <2>1, <2>2, LifeQuiet, LifeChars
<1>6. CASE DispatchEndOfRestarted
  <2>1. i \in active /\ m.kind = "end" /\ UNCHANGED <<gInput, prev, main>> /\ CallOnEnd(i)
    BY <1>6 DEF DispatchEndOfRestarted, m
  <2>2. StagesKept /\ Stage(i) = "on"
    BY <1>0, <2>1, ChainSame, SidesKept, StageIs DEF StageIn
  <2>3. StageOnly(i, IF Stage(i) = "over" THEN "off" ELSE Stage(i))
    BY <2>2 DEF StageOnly, StagesKept
  <2>4. frames' = Append(frames, EndOf(i)) \/ UNCHANGED frames
    BY <2>1 DEF CallOnEnd
  <2>5. QED
    BY <1>1, <2>1, <2>2, <2>3, <2>4, LifeTells
<1>7. CASE DispatchEnd
  <2>1. /\ i \in Chain /\ i \notin active /\ Unlink(i) /\ m.kind = "end"
        /\ main' = At("endWait", i) /\ UNCHANGED frames
    BY <1>7, ChainIs DEF DispatchEnd, m, scriptVars
  <2>2. Chain' = Chain \ {i} /\ main'.ret = "endWait" /\ main'.input = i
    BY <1>0, <1>1, <2>1, ChainUnlinked, MainAtIs DEF Calls
  <2>3. main.ret \notin {"startWait", "endWait"}
    BY <1>0, LifeFacts
  <2>4. StagesKept
    BY <1>0, <2>1, <2>2, <2>3, StageIs DEF StagesKept, StageIn, WaitsFor
  <2>5. QED
    BY <1>1, <2>1, <2>4, LifeQuiet
<1>8. QED
  BY <1>4, <1>5, <1>6, <1>7

(* InputTimeout. *)
LEMMA TimerLife ==
  ASSUME Inv, TypeOK', Tick \/ TimerStep
  PROVE  LifeStep
<1>0. /\ TypeOK /\ ListFrom(prev, gInput) /\ active \subseteq Chain /\ Chain \subseteq Inputs
      /\ MainInv /\ PassInv
  BY LifeFacts
<1>1. /\ UNCHANGED <<gInput, prev, hook, frames>> /\ main'.input = main.input /\ main'.ret = main.ret
  <2>1. CASE Tick
    BY <2>1 DEF Tick, scriptVars
  <2>2. CASE TimerStep
    <3>1. UNCHANGED frames
      BY <2>2 DEF TimerStep, TimerFires, TimerPasses, TimerFindsDue, EndByTimeout, TimerReturns,
                  scriptVars
    <3>2. QED
      BY <1>0, <2>2, <3>1, TimerPlaces DEF TimerStep
  <2>3. QED
    BY <2>1, <2>2
<1>2. Chain' = Chain
  BY <1>0, <1>1, ChainSame
<1>3. CASE Tick \/ TimerFires \/ TimerPasses \/ TimerFindsDue \/ TimerReturns
  <2>1. UNCHANGED <<active, queue>>
    BY <1>3 DEF Tick, TimerFires, TimerPasses, TimerFindsDue, TimerReturns
  <2>2. StagesKept /\ EndsKept
    BY <1>0, <1>1, <1>2, <2>1, SidesKept
  <2>3. QED
    BY <1>1, <2>2, LifeQuiet
<1>4. CASE EndByTimeout
  <2> DEFINE i == main.at
  <2>1. /\ i \in Chain /\ i \in Inputs /\ active' = active \ {i} /\ queue' = Append(queue, EndOf(i))
    BY <1>0, <1>4, ChainIs DEF EndByTimeout, MainAt, EndByReason, PassInv
  <2>2. StageOnly(i, "over") /\ Stage(i) # "off"
    BY <1>0, <1>1, <1>2, <2>1, StageIs DEF StageOnly, StageIn, WaitsFor
  <2>3. EndsOnly(i, Ends(i) + 1)
    <3>1. ASSUME NEW j \in Inputs PROVE Ends(j)' = Ends(j) + One(j = i)
      <4>1. Times(queue', EndOf(j)) = Times(queue, EndOf(j)) + One(j = i)
        BY <2>1, LifeFacts, MsgTypes, TimesPut, Messages DEF One
      <4>2. /\ Times(queue, EndOf(j)) \in Nat /\ Times(hook.posts, EndOf(j)) \in Nat
            /\ One(j = i) \in Nat /\ One(Unfinished(j, main)) \in Nat
        BY LifeFacts, SpotsFinite DEF One
      <4>3. Unfinished(j, main') = Unfinished(j, main)
        BY <1>1 DEF Unfinished
      <4>4. QED
        BY <1>0, <1>1, <4>1, <4>2, <4>3, EndsAre DEF EndsIn
    <3>2. QED
      BY <3>1, LifeFacts DEF EndsOnly, One
  <2>4. QED
    BY <1>1, <2>1, <2>2, <2>3, LifeEnds
<1>5. QED
  BY <1>3, <1>4 DEF TimerStep

(* The hook's thread. *)
LEMMA CollectLife ==
  ASSUME Inv, TypeOK', HookCollect
  PROVE  LifeStep
<1>0. /\ TypeOK /\ ListFrom(prev, gInput) /\ active \subseteq Chain /\ Chain \subseteq Inputs
      /\ MainInv /\ HookInv /\ PassInv /\ \A j \in Inputs : Ends(j) \in Nat
  BY LifeFacts
<1>1. hook.pc = "collect" /\ UNCHANGED <<gInput, prev, queue, main, frames>>
  BY DEF HookCollect, HookAt, scriptVars
<1>2. /\ hook.at \in Inputs /\ hook.posts = <<>> /\ Chain' = Chain
      /\ hook.at \in Chain \/ WaitsFor(main, hook.at)
  <2>1. hook.at \in Inputs /\ hook.posts = <<>> /\ Chain' = Chain
    BY <1>0, <1>1, PlacesAre, ChainSame DEF HookInv
  <2>2. hook.at # None
    BY <2>1, InputsAssumption
  <2>3. QED
    BY <1>0, <2>1, <2>2, HookInvIs DEF Linked1, Waits, WaitsFor
<1>3. PICK ends \in BOOLEAN :
        /\ IF ends THEN EndByReason(hook.at) ELSE UNCHANGED <<active, left, twice>>
        /\ \A i \in Inputs : Times(hook'.posts, EndOf(i)) = IF ends /\ i = hook.at THEN 1 ELSE 0
  BY <1>0, <1>2, Collected
<1>4. ASSUME NEW j \in Inputs
      PROVE  Ends(j)' = Ends(j) + (IF ends /\ j = hook.at THEN 1 ELSE 0)
  <2>1. /\ Times(queue, EndOf(j)) \in Nat /\ One(Unfinished(j, main)) \in Nat
        /\ Times(hook.posts, EndOf(j)) = 0
    BY <1>2, LifeFacts, SpotsFinite, TimesEmpty DEF One
  <2>2. Ends(j) = Times(queue, EndOf(j)) + Times(hook.posts, EndOf(j)) + One(Unfinished(j, main))
    BY <1>0, EndsAre DEF EndsIn
  <2>3. Ends(j)' = Times(queue, EndOf(j)) + Times(hook'.posts, EndOf(j)) + One(Unfinished(j, main))
    BY <1>0, <1>1, EndsAre DEF EndsIn
  <2>4. QED
    BY <1>3, <2>1, <2>2, <2>3
<1>5. CASE ends
  <2>1. active' = active \ {hook.at}
    BY <1>3, <1>5 DEF EndByReason
  <2>2. StageOnly(hook.at, "over") /\ Stage(hook.at) # "off"
    BY <1>1, <1>2, <2>1, StageIs DEF StageOnly, StageIn
  <2>3. EndsOnly(hook.at, Ends(hook.at) + 1)
    BY <1>0, <1>4, <1>5 DEF EndsOnly
  <2>4. QED
    BY <1>1, <1>2, <2>2, <2>3, LifeEnds
<1>6. CASE ~ends
  <2>1. StagesKept
    BY <1>0, <1>1, <1>2, <1>3, <1>6, SidesKept
  <2>2. EndsKept
    BY <1>0, <1>4, <1>6 DEF EndsKept
  <2>3. QED
    BY <1>1, <2>1, <2>2, LifeQuiet
<1>7. QED
  BY <1>3, <1>5, <1>6

LEMMA HookLife ==
  ASSUME Inv, TypeOK', HookStep \/ UNCHANGED vars
  PROVE  LifeStep
<1>0. /\ TypeOK /\ ListFrom(prev, gInput) /\ HookInv /\ MainInv /\ PassInv /\ hook \in HookStates
  BY LifeFacts
<1>1. /\ UNCHANGED <<main, gInput, prev, frames>> /\ Chain' = Chain
  <2>1. UNCHANGED <<main, gInput, prev, frames>>
    BY KindsKeep DEF vars, scriptVars
  <2>2. QED
    BY <1>0, <2>1, ChainSame
<1>2. CASE HookCollect
  BY <1>2, CollectLife
<1>3. CASE HookPost
  <2>1. /\ queue' = Append(queue, Head(hook.posts)) /\ hook'.posts = Tail(hook.posts)
        /\ hook.posts # <<>> /\ Head(hook.posts) \in Msg /\ active' = active
    BY <1>0, <1>3, PostEffect DEF HookPost
  <2>2. ASSUME NEW j \in Inputs PROVE Ends(j)' = Ends(j)
    <3>1. /\ Times(queue', EndOf(j)) = Times(queue, EndOf(j)) + One(Head(hook.posts) = EndOf(j))
          /\ Times(hook'.posts, EndOf(j)) = Times(hook.posts, EndOf(j)) - One(Head(hook.posts) = EndOf(j))
      BY <2>1, LifeFacts, TimesPut, TimesTaken
    <3>2. /\ Times(queue, EndOf(j)) \in Nat /\ Times(hook.posts, EndOf(j)) \in Nat
          /\ One(Head(hook.posts) = EndOf(j)) \in Nat /\ One(Unfinished(j, main)) \in Nat
      BY LifeFacts, SpotsFinite DEF One
    <3>3. Ends(j) = Times(queue, EndOf(j)) + Times(hook.posts, EndOf(j)) + One(Unfinished(j, main))
      BY <1>0, EndsAre DEF EndsIn
    <3>4. Ends(j)' = Times(queue', EndOf(j)) + Times(hook'.posts, EndOf(j)) + One(Unfinished(j, main))
      BY <1>1, EndsAre DEF EndsIn
    <3>5. QED
      BY <3>1, <3>2, <3>3, <3>4
  <2>3. StagesKept
    BY <1>0, <1>1, <2>1, SidesKept
  <2>4. QED
    BY <1>1, <2>2, <2>3, LifeQuiet DEF EndsKept
<1>4. CASE KeyDown \/ HookTest \/ HookNext \/ HookSync \/ UNCHANGED vars
  <2>1. active' = active /\ queue' = queue
    BY <1>4 DEF KeyDown, HookTest, HookNext, HookSync, vars
  <2>2. hook'.posts = hook.posts
    <3>1. CASE KeyDown
      BY <1>0, <3>1, KeyDownEffect
    <3>2. CASE HookTest
      <4>1. CASE hook.at \in active
        BY <1>0, <3>2, <4>1, TestEffect
      <4>2. CASE hook.at \notin active
        <5>1. hook.pc = "walk" /\ WalkTo(prev[hook.at])
          BY <3>2, <4>2 DEF HookTest, HookAt
        <5>2. hook.posts = <<>>
          BY <1>0, <5>1 DEF HookInv
        <5>3. hook'.posts = <<>>
          BY <5>1 DEF WalkTo
        <5>4. QED
          BY <5>2, <5>3
      <4>3. QED
        BY <4>1, <4>2
    <3>3. CASE HookNext
      <4>1. hook.posts = <<>> /\ \E x : WalkTo(x)
        BY <3>3 DEF HookNext, HookAt
      <4>2. hook'.posts = <<>>
        BY <4>1 DEF WalkTo
      <4>3. QED
        BY <4>1, <4>2
    <3>4. CASE HookSync \/ UNCHANGED vars
      BY <3>4 DEF HookSync, vars
    <3>5. QED
      BY <1>4, <3>1, <3>2, <3>3, <3>4
  <2>3. StagesKept /\ EndsKept
    BY <1>0, <1>1, <2>1, <2>2, SidesKept
  <2>4. QED
    BY <1>1, <2>3, LifeQuiet
<1>5. QED
  BY <1>2, <1>3, <1>4 DEF HookStep

LEMMA LifeInit == Init => StopInv /\ Life!Init
<1> SUFFICES ASSUME Init PROVE StopInv /\ Life!Init
  OBVIOUS
<1>1. /\ active = {} /\ queue = <<>> /\ frames = <<>> /\ gInput = None /\ main = At("script", None)
      /\ hook = [pc |-> "idle", at |-> None, posts |-> <<>>]
  BY DEF Init
<1>2. main.pc = "script" /\ main.ret = "script" /\ hook.posts = <<>>
  BY <1>1, MainAtIs DEF Calls
<1>3. Chain = {}
  <2>1. ClosedIn(prev, {}) /\ {} \in SUBSET Inputs /\ gInput \in {} \cup {None}
    BY <1>1 DEF ClosedIn
  <2>2. QED
    BY <2>1, FromLeast DEF Chain
<1>4. ASSUME NEW i \in Inputs PROVE Stage(i) = "off" /\ Ends(i) = 0
  <2>1. Stage(i) = "off"
    BY <1>1, <1>2, <1>3, StageIs DEF StageIn, WaitsFor
  <2>2. Ends(i) = Times(<<>>, EndOf(i)) + Times(<<>>, EndOf(i)) + One(Unfinished(i, main))
    BY <1>1, <1>2, InitTypes, EndsAre DEF EndsIn
  <2>3. QED
    BY <1>2, <2>1, <2>2, TimesEmpty DEF Unfinished, One
<1>5. QED
  BY <1>1, <1>2, <1>4 DEF StopInv, Life!Init

LEMMA LifeNext ==
  ASSUME Inv, StopInv, [Next]_vars
  PROVE  LifeStep
<1>1. TypeOK'
  BY StepInv DEF Inv
<1>2. CASE \E i \in Inputs : Begins(i) \/ Restart(i) \/ StopTest(i)
  BY <1>1, <1>2, BeginLife DEF Begins
<1>3. CASE Handles \/ DispatchEnd
  BY <1>1, <1>3, MainLife, DispatchLife DEF Handles
<1>4. CASE RestartLink \/ Stop \/ EndUnlinked
  BY <1>1, <1>4, MainLife
<1>5. CASE Tick \/ TimerStep
  BY <1>1, <1>5, TimerLife
<1>6. CASE HookStep \/ UNCHANGED vars
  BY <1>1, <1>6, HookLife
<1>7. QED
  BY <1>2, <1>3, <1>4, <1>5, <1>6, Kinds

(* Whatever the two threads and the timeout do in between, a script sees of its
   inputs what InputLife says: an end, by Stop, a key or the timeout, stays on its
   way until it is told, by OnEnd or by nothing when no thread is left for it, or
   dropped because the input is off by then; and no callback of an input comes
   before its start or after its end has been told.                              *)
THEOREM InputsLive == Spec => ImplementsLife
<1>1. Init => Inv /\ StopInv /\ Life!Init
  BY InitInv, LifeInit
<1>2. Inv /\ StopInv /\ [Next]_vars => Inv' /\ StopInv' /\ [Life!Next]_(Life!life)
  BY StepInv, StepStop, LifeNext DEF LifeStep
<1>3. QED
  BY <1>1, <1>2, PTL DEF Spec, ImplementsLife, Life!Spec
=============================================================================
