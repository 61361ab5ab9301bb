------------------------- MODULE PseudoThreadsProofs -------------------------
(***************************************************************************)
(* For every #MaxThreads: ::g and g_nThreads follow the calls, g_array is  *)
(* long enough, at most one OnExit thread runs, and the script never stays *)
(* uninterruptible.  The inductive invariant describes the stack of calls  *)
(* element by element; three lemmas say what a change of the top call, a   *)
(* new call and the end of a call do to it.                                *)
(***************************************************************************)
EXTENDS PseudoThreads, SequenceTheorems, FiniteSetTheorems, TLAPS

InAuto(s) == IF s[1].kind = "auto" THEN 1 ELSE 0

(* Each call's element of g_array is the one above the last call's, or the *)
(* same for a fast callback.                                               *)
Chain(s) ==
    /\ s \in Seq(Call) /\ Len(s) \in Nat \ {0}
    /\ s[1].slot = 0 /\ s[1].kind \in {"idle", "auto"}
    /\ \A d \in 2..Len(s) :
         /\ s[d].kind \notin {"idle", "auto"}
         /\ s[d].slot = s[d - 1].slot + (IF s[d].kind = "fast" THEN 0 ELSE 1)

(* The limit held when each call began: it is passed only at or above an   *)
(* OnExit thread.                                                          *)
ExitUpTo(s, d) == \E e \in 1..d : s[e].kind = "exit"
Limited(s) ==
    \A d \in 1..Len(s) :
        s[d].slot + InAuto(s) <= MaxThreads + (IF ExitUpTo(s, d) THEN 1 ELSE 0)

OneExit(s) ==
    \A d, e \in 1..Len(s) : s[d].kind = "exit" /\ s[e].kind = "exit" => d = e

(* An OnExit thread that will restore FALSE interrupted a call that will   *)
(* set TRUE.                                                               *)
Restores(s) ==
    \A d \in 1..Len(s) : s[d].kind = "exit" /\ ~s[d].saved =>
        \E e \in 1..(d - 1) : s[e].inside = "send"

Comes(s, allow, over) ==
    allow \/ over \/ ExitUpTo(s, Len(s)) \/ \E d \in 1..Len(s) : s[d].inside = "send"

Stack(s) == Chain(s) /\ Limited(s) /\ OneExit(s) /\ Restores(s)

IInv ==
    /\ Stack(calls)
    /\ onExitRunning <=> ExitUpTo(calls, Len(calls))
    /\ g = calls[Len(calls)].slot
    /\ nThreads = g + InAuto(calls)
    /\ Comes(calls, allowInterruption, terminated)
    /\ paused \in [Slots -> BOOLEAN] /\ nPaused \in Int
    /\ allowInterruption \in BOOLEAN /\ onExitRunning \in BOOLEAN /\ terminated \in BOOLEAN

-----------------------------------------------------------------------------
(* Two stacks agree on what matters in their first n calls.                *)
Agree(s, t, n) ==
    \A d \in 1..n : /\ t[d].kind = s[d].kind /\ t[d].slot = s[d].slot
                    /\ t[d].saved = s[d].saved

(* The top call changes its place.                                         *)
LEMMA Kept ==
  ASSUME NEW s, NEW t, Stack(s),
         t \in Seq(Call), Len(t) = Len(s), Agree(s, t, Len(s)),
         \A d \in 1..(Len(s) - 1) : t[d].inside = s[d].inside
  PROVE  /\ Stack(t) /\ t[Len(t)].slot = s[Len(s)].slot /\ InAuto(t) = InAuto(s)
         /\ ExitUpTo(t, Len(t)) <=> ExitUpTo(s, Len(s))
<1>1. /\ Len(s) \in Nat \ {0} /\ 1 \in 1..Len(s) /\ Len(s) \in 1..Len(s)
      /\ \A d \in 2..Len(s) : d \in 1..Len(s) /\ d - 1 \in 1..Len(s)
      /\ \A d \in 1..Len(s) : \A e \in 1..(d - 1) : e \in 1..(Len(s) - 1)
      /\ \A d \in 1..Len(s) : \A e \in 1..d : e \in 1..Len(s)
  BY DEF Stack, Chain
<1>2. InAuto(t) = InAuto(s) /\ t[Len(t)].slot = s[Len(s)].slot
  BY <1>1 DEF Agree, InAuto
<1>3. Chain(t)
  <2>1. ASSUME NEW d \in 2..Len(t)
        PROVE  /\ t[d].kind \notin {"idle", "auto"}
               /\ t[d].slot = t[d - 1].slot + (IF t[d].kind = "fast" THEN 0 ELSE 1)
    <3>1. /\ s[d].kind \notin {"idle", "auto"}
          /\ s[d].slot = s[d - 1].slot + (IF s[d].kind = "fast" THEN 0 ELSE 1)
      BY DEF Stack, Chain
    <3>2. d \in 1..Len(s) /\ d - 1 \in 1..Len(s)
      BY <1>1
    <3> QED BY <3>1, <3>2 DEF Agree
  <2>2. t[1].slot = 0 /\ t[1].kind \in {"idle", "auto"}
    BY <1>1 DEF Stack, Chain, Agree
  <2> QED BY <1>1, <2>1, <2>2 DEF Chain
<1>4. \A d \in 1..Len(s) : ExitUpTo(t, d) <=> ExitUpTo(s, d)
  BY <1>1 DEF ExitUpTo, Agree
<1>5. Limited(t)
  BY <1>1, <1>2, <1>4 DEF Stack, Limited, Agree
<1>6. OneExit(t)
  BY <1>1 DEF Stack, OneExit, Agree
<1>7. Restores(t)
  BY <1>1 DEF Stack, Restores, Agree
<1> QED BY <1>1, <1>2, <1>3, <1>4, <1>5, <1>6, <1>7 DEF Stack

(* t is s with a call c begun on it, where the code lets it begin.         *)
Begins(s, t, c) ==
    /\ t \in Seq(Call) /\ Len(t) = Len(s) + 1 /\ t[Len(s) + 1] = c
    /\ \A d \in 1..Len(s) : t[d] = s[d]
    /\ c.kind \notin {"idle", "auto"}
    /\ c.slot = s[Len(s)].slot + (IF c.kind = "fast" THEN 0 ELSE 1)
    /\ c.kind = "exit" => ~ExitUpTo(s, Len(s))
    /\ c.kind \notin {"exit", "fast"} => c.slot + InAuto(s) <= MaxThreads
    /\ (c.kind = "exit" /\ ~c.saved) => \E e \in 1..Len(s) : s[e].inside = "send"

(* A call begins.                                                          *)
LEMMA Begun ==
  ASSUME NEW s, NEW t, NEW c \in Call, Stack(s), Begins(s, t, c)
  PROVE  /\ Stack(t)
         /\ ExitUpTo(t, Len(t)) <=> (ExitUpTo(s, Len(s)) \/ c.kind = "exit")
         /\ t[Len(t)].slot = c.slot /\ InAuto(t) = InAuto(s)
<1> USE DEF Begins
<1>1. /\ Len(s) \in Nat \ {0} /\ 1 \in 1..Len(s) /\ Len(s) \in 1..Len(s)
      /\ \A d \in 1..Len(t) : d \in 1..Len(s) \/ d = Len(s) + 1
      /\ \A d \in 2..Len(s) : d \in 1..Len(s) /\ d - 1 \in 1..Len(s)
      /\ \A d \in 1..Len(s) : \A e \in 1..d : e \in 1..Len(s)
      /\ s[Len(s)] \in Call /\ s[Len(s)].slot \in Nat
  <2>1. s \in Seq(Call) /\ Len(s) \in Nat \ {0}
    BY DEF Stack, Chain
  <2>2. s[Len(s)] \in Call
    BY <2>1
  <2>3. s[Len(s)].slot \in Nat
    BY <2>2 DEF Call
  <2> QED BY <2>1, <2>2, <2>3
<1>2. InAuto(t) = InAuto(s) /\ InAuto(s) \in {0, 1}
  BY <1>1 DEF InAuto
<1>3. Chain(t)
  <2>1. ASSUME NEW d \in 2..Len(t)
        PROVE  /\ t[d].kind \notin {"idle", "auto"}
               /\ t[d].slot = t[d - 1].slot + (IF t[d].kind = "fast" THEN 0 ELSE 1)
    <3>1. CASE d \in 2..Len(s)
      BY <1>1, <3>1 DEF Stack, Chain
    <3>2. CASE d = Len(s) + 1
      <4>1. d - 1 = Len(s)
        BY <1>1, <3>2
      <4> QED BY <1>1, <3>2, <4>1
    <3> QED BY <1>1, <3>1, <3>2
  <2> QED BY <1>1, <2>1 DEF Stack, Chain
<1>4. \A d \in 1..Len(s) : ExitUpTo(t, d) <=> ExitUpTo(s, d)
  BY <1>1 DEF ExitUpTo
<1>5. ExitUpTo(t, Len(t)) <=> (ExitUpTo(s, Len(s)) \/ c.kind = "exit")
  <2>1. \A d : d \in 1..Len(t) <=> (d \in 1..Len(s) \/ d = Len(s) + 1)
    BY <1>1
  <2> QED BY <1>1, <2>1 DEF ExitUpTo
<1>6. Limited(t)
  <2>1. ASSUME NEW d \in 1..Len(t)
        PROVE  t[d].slot + InAuto(t) <= MaxThreads + (IF ExitUpTo(t, d) THEN 1 ELSE 0)
    <3>1. CASE d \in 1..Len(s)
      BY <1>1, <1>2, <1>4, <3>1 DEF Stack, Limited
    <3>2. CASE d = Len(s) + 1
      <4>1. s[Len(s)].slot + InAuto(s) <= MaxThreads + (IF ExitUpTo(s, Len(s)) THEN 1 ELSE 0)
        BY <1>1 DEF Stack, Limited
      <4>2. ExitUpTo(t, d) <=> (ExitUpTo(s, Len(s)) \/ c.kind = "exit")
        BY <1>5, <3>2
      <4>3. t[d] = c /\ c.slot \in Nat /\ MaxThreads \in Nat
        BY <3>2, PseudoThreadAssumption DEF Call
      <4> QED BY <1>1, <1>2, <4>1, <4>2, <4>3
    <3> QED BY <1>1, <3>1, <3>2
  <2> QED BY <2>1 DEF Limited
<1>7. OneExit(t)
  <2>1. ASSUME NEW d \in 1..Len(t), NEW e \in 1..Len(t), t[d].kind = "exit", t[e].kind = "exit"
        PROVE  d = e
    <3>1. CASE d \in 1..Len(s) /\ e \in 1..Len(s)
      BY <2>1, <3>1 DEF Stack, OneExit
    <3>2. c.kind = "exit" => \A i \in 1..Len(s) : s[i].kind # "exit"
      BY DEF ExitUpTo
    <3> QED BY <1>1, <2>1, <3>1, <3>2
  <2> QED BY <2>1 DEF OneExit
<1>8. Restores(t)
  <2>1. ASSUME NEW d \in 1..Len(t), t[d].kind = "exit", ~t[d].saved
        PROVE  \E e \in 1..(d - 1) : t[e].inside = "send"
    <3>1. CASE d \in 1..Len(s)
      <4>1. PICK e \in 1..(d - 1) : s[e].inside = "send"
        BY <2>1, <3>1 DEF Stack, Restores
      <4>2. e \in 1..Len(s)
        BY <1>1, <3>1
      <4> QED BY <4>1, <4>2
    <3>2. CASE d = Len(s) + 1
      <4>1. d - 1 = Len(s)
        BY <1>1, <3>2
      <4> QED BY <2>1, <3>2, <4>1
    <3> QED BY <1>1, <3>1, <3>2
  <2> QED BY <2>1 DEF Restores
<1> QED BY <1>1, <1>2, <1>3, <1>5, <1>6, <1>7, <1>8 DEF Stack

(* The top call ends.                                                      *)
LEMMA Ended ==
  ASSUME NEW s, NEW t, Stack(s), Len(s) # 1,
         t \in Seq(Call), Len(t) = Len(s) - 1, Agree(s, t, Len(t)),
         \A d \in 1..Len(t) : t[d].inside = s[d].inside
  PROVE  /\ Stack(t)
         /\ ExitUpTo(t, Len(t)) <=> (ExitUpTo(s, Len(s)) /\ s[Len(s)].kind # "exit")
         /\ InAuto(t) = InAuto(s)
         /\ s[Len(s)].slot = t[Len(t)].slot + (IF s[Len(s)].kind = "fast" THEN 0 ELSE 1)
         /\ s[Len(s)].kind \notin {"idle", "auto"}
<1>1. /\ Len(s) \in Nat \ {0, 1} /\ 1 \in 1..Len(t) /\ Len(s) \in 2..Len(s)
      /\ Len(s) - 1 = Len(t) /\ Len(t) \in Nat \ {0} /\ Len(t) \in 1..Len(t)
      /\ \A d \in 1..Len(t) : d \in 1..Len(s) /\ d # Len(s)
      /\ \A d \in 2..Len(t) : d \in 2..Len(s) /\ d \in 1..Len(t) /\ d - 1 \in 1..Len(t)
      /\ \A d \in 1..Len(t) : \A e \in 1..d : e \in 1..Len(t)
      /\ \A d \in 1..Len(s) : d \in 1..Len(t) \/ d = Len(s)
      /\ \A d \in 1..Len(t) : \A e \in 1..(d - 1) : e \in 1..Len(t)
  BY DEF Stack, Chain
<1>2. InAuto(t) = InAuto(s)
  BY <1>1 DEF Agree, InAuto
<1>3. Chain(t)
  <2>1. ASSUME NEW d \in 2..Len(t)
        PROVE  /\ t[d].kind \notin {"idle", "auto"}
               /\ t[d].slot = t[d - 1].slot + (IF t[d].kind = "fast" THEN 0 ELSE 1)
    <3>1. d \in 2..Len(s) /\ d \in 1..Len(t) /\ d - 1 \in 1..Len(t)
      BY <1>1
    <3>2. /\ s[d].kind \notin {"idle", "auto"}
          /\ s[d].slot = s[d - 1].slot + (IF s[d].kind = "fast" THEN 0 ELSE 1)
      BY <3>1 DEF Stack, Chain
    <3> QED BY <3>1, <3>2 DEF Agree
  <2>2. t[1].slot = 0 /\ t[1].kind \in {"idle", "auto"}
    BY <1>1 DEF Stack, Chain, Agree
  <2> QED BY <1>1, <2>1, <2>2 DEF Chain
<1>4. \A d \in 1..Len(t) : ExitUpTo(t, d) <=> ExitUpTo(s, d)
  BY <1>1 DEF ExitUpTo, Agree
<1>5. Limited(t)
  BY <1>1, <1>2, <1>4 DEF Stack, Limited, Agree
<1>6. OneExit(t)
  BY <1>1 DEF Stack, OneExit, Agree
<1>9. ExitUpTo(t, Len(t)) <=> (ExitUpTo(s, Len(s)) /\ s[Len(s)].kind # "exit")
  <2>1. s[Len(s)].kind = "exit" => \A d \in 1..Len(t) : t[d].kind # "exit"
    <3> SUFFICES ASSUME s[Len(s)].kind = "exit", NEW d \in 1..Len(t), t[d].kind = "exit"
                 PROVE  FALSE
      OBVIOUS
    <3>1. d \in 1..Len(s) /\ Len(s) \in 1..Len(s) /\ d # Len(s)
      BY <1>1
    <3>2. s[d].kind = "exit"
      BY DEF Agree
    <3>3. OneExit(s)
      BY DEF Stack
    <3> QED BY <3>1, <3>2, <3>3 DEF OneExit
  <2>2. s[Len(s)].kind # "exit" => (ExitUpTo(s, Len(s)) <=> ExitUpTo(t, Len(t)))
    BY <1>1 DEF ExitUpTo, Agree
  <2> QED BY <2>1, <2>2 DEF ExitUpTo
<1>7. Restores(t)
  BY <1>1 DEF Stack, Restores, Agree
<1>8. /\ s[Len(s)].slot = t[Len(t)].slot + (IF s[Len(s)].kind = "fast" THEN 0 ELSE 1)
      /\ s[Len(s)].kind \notin {"idle", "auto"}
  BY <1>1 DEF Stack, Chain, Agree
<1> QED BY <1>2, <1>3, <1>5, <1>6, <1>7, <1>8, <1>9 DEF Stack

-----------------------------------------------------------------------------
(* What the invariant says of the top call, for every action.              *)
LEMMA TopFacts ==
  ASSUME IInv
  PROVE  /\ calls \in Seq(Call) /\ Len(calls) \in Nat \ {0} /\ Top \in Call
         /\ Top = calls[Len(calls)] /\ Top.slot = g /\ g \in Nat
         /\ InAuto(calls) \in {0, 1} /\ nThreads \in Nat
<1>1. calls \in Seq(Call) /\ Len(calls) \in Nat \ {0} /\ g = calls[Len(calls)].slot
  BY DEF IInv, Stack, Chain
<1>2. Top \in Call /\ Top = calls[Len(calls)]
  BY <1>1 DEF Top
<1>3. g \in Nat
  BY <1>1, <1>2 DEF Call
<1>4. InAuto(calls) \in {0, 1}
  BY DEF InAuto
<1>5. nThreads \in Nat
  BY <1>3, <1>4 DEF IInv
<1> QED BY <1>1, <1>2, <1>3, <1>4, <1>5

(* g_array is long enough: the top call is at or above at most one OnExit  *)
(* thread, and at most one thread more than g_MaxThreadsTotal runs.        *)
LEMMA LimitHolds == IInv => ThreadLimit /\ g \in Slots
<1> SUFFICES ASSUME IInv PROVE ThreadLimit /\ g \in Slots
  OBVIOUS
<1>1. /\ Len(calls) \in Nat \ {0} /\ g \in Nat /\ MaxThreads \in Nat
      /\ InAuto(calls) \in {0, 1} /\ nThreads = g + InAuto(calls)
      /\ g = calls[Len(calls)].slot /\ Len(calls) \in 1..Len(calls)
  BY TopFacts, PseudoThreadAssumption DEF IInv
<1>2. nThreads <= MaxThreads + (IF ExitUpTo(calls, Len(calls)) THEN 1 ELSE 0)
  BY <1>1 DEF IInv, Stack, Limited
<1>3. g \in Slots
  BY <1>1, <1>2 DEF Slots, AdditionalThreads
<1>4. ExitUpTo(calls, Len(calls)) <=> Depths("exit") # {}
  BY DEF ExitUpTo, Depths
<1> QED BY <1>2, <1>3, <1>4 DEF ThreadLimit

(* A sequence of one call.                                                 *)
LEMMA Single ==
  ASSUME NEW S, NEW x \in S
  PROVE  <<x>> \in Seq(S) /\ Len(<<x>>) = 1 /\ <<x>>[1] = x
  OBVIOUS

(* The auto-execute call alone satisfies the invariant.                    *)
LEMMA InitIInv == Init => IInv
<1> SUFFICES ASSUME Init PROVE IInv
  OBVIOUS
<1>1. /\ calls = <<NewCall("auto", 0, FALSE)>> /\ NewCall("auto", 0, FALSE) \in Call
      /\ NewCall("auto", 0, FALSE).kind = "auto" /\ NewCall("auto", 0, FALSE).slot = 0
  BY DEF Init, NewCall, Call, Kinds
<1>2. /\ calls \in Seq(Call) /\ Len(calls) = 1 /\ calls[1].kind = "auto" /\ calls[1].slot = 0
  BY <1>1, Single
<1>3. Stack(calls) /\ (onExitRunning <=> ExitUpTo(calls, Len(calls)))
  <2>1. Chain(calls)
    BY <1>2 DEF Chain
  <2>2. \A d \in 1..Len(calls) : d = 1
    BY <1>2
  <2>3. ~ExitUpTo(calls, 1)
    BY <1>2 DEF ExitUpTo
  <2>4. Limited(calls)
    BY <1>2, <2>2, <2>3, PseudoThreadAssumption DEF Limited, InAuto
  <2>5. OneExit(calls)
    BY <1>2, <2>2 DEF OneExit
  <2>7. ~onExitRunning
    BY DEF Init
  <2>6. Restores(calls)
    BY <1>2, <2>2 DEF Restores
  <2> QED BY <1>2, <2>1, <2>3, <2>4, <2>5, <2>6, <2>7 DEF Stack
<1>4. g = calls[Len(calls)].slot /\ nThreads = g + InAuto(calls)
  <2>1. g = 0 /\ nThreads = 1
    BY DEF Init
  <2> QED BY <1>2, <2>1 DEF InAuto
<1>5. Comes(calls, allowInterruption, terminated)
  BY DEF Init, Comes
<1>6. /\ paused \in [Slots -> BOOLEAN] /\ nPaused \in Int
      /\ allowInterruption \in BOOLEAN /\ onExitRunning \in BOOLEAN /\ terminated \in BOOLEAN
  <2>1. paused \in [Slots -> BOOLEAN] /\ nPaused \in Int
    BY DEF Init
  <2>2. allowInterruption = TRUE /\ onExitRunning = FALSE /\ terminated = FALSE
    BY DEF Init
  <2> QED BY <2>1, <2>2
<1> QED BY <1>3, <1>4, <1>5, <1>6 DEF IInv

(* An action that leaves the calls, g and g_nThreads alone.                *)
LEMMA CallsUnchanged ==
  ASSUME IInv, UNCHANGED <<calls, g, nThreads, onExitRunning>>,
         allowInterruption' \in BOOLEAN, terminated' \in BOOLEAN,
         Comes(calls, allowInterruption', terminated'),
         paused' \in [Slots -> BOOLEAN], nPaused' \in Int
  PROVE  IInv'
<1> QED BY DEF IInv, Comes, Stack, Chain, Limited, OneExit, Restores, ExitUpTo, InAuto

(* An action that changes the place of the top call.                       *)
LEMMA TopMoves ==
  ASSUME IInv, NEW c \in Call,
         c.kind = Top.kind, c.slot = Top.slot, c.saved = Top.saved,
         calls' = WithTop(c),
         UNCHANGED <<g, nThreads, onExitRunning, terminated>>,
         nPaused' \in Int, paused' \in [Slots -> BOOLEAN],
         \/ allowInterruption' = TRUE
         \/ allowInterruption' = FALSE /\ c.inside = "send"
         \/ allowInterruption' = allowInterruption /\ (Top.inside = "send" => c.inside = "send")
  PROVE  IInv'
<1>1. /\ calls \in Seq(Call) /\ Len(calls) \in Nat \ {0}
      /\ Top = calls[Len(calls)] /\ Top.slot = g
  BY TopFacts
<1>2. /\ calls' \in Seq(Call) /\ Len(calls') = Len(calls)
      /\ calls'[Len(calls)] = c /\ \A d \in 1..(Len(calls) - 1) : calls'[d] = calls[d]
  BY <1>1 DEF WithTop
<1>3. Agree(calls, calls', Len(calls))
  <2>1. \A d \in 1..Len(calls) : d = Len(calls) \/ d \in 1..(Len(calls) - 1)
    BY <1>1
  <2> QED BY <1>1, <1>2, <2>1 DEF Agree
<1>4. Stack(calls) /\ (onExitRunning <=> ExitUpTo(calls, Len(calls)))
  BY DEF IInv
<1>5. /\ Stack(calls') /\ calls'[Len(calls')].slot = g
      /\ onExitRunning' <=> ExitUpTo(calls', Len(calls'))
      /\ InAuto(calls') = InAuto(calls)
  BY <1>1, <1>2, <1>3, <1>4, Kept
<1>6. Comes(calls', allowInterruption', terminated')
  <2>1. CASE allowInterruption' = TRUE
    BY <2>1 DEF Comes
  <2>2. CASE c.inside = "send"
    BY <1>1, <1>2, <2>2 DEF Comes
  <2>3. CASE allowInterruption' = allowInterruption /\ (Top.inside = "send" => c.inside = "send")
    <3>1. Comes(calls, allowInterruption, terminated)
      BY DEF IInv
    <3>2. ExitUpTo(calls, Len(calls)) <=> ExitUpTo(calls', Len(calls'))
      BY <1>2, <1>3 DEF ExitUpTo, Agree
    <3>3. ASSUME NEW d \in 1..Len(calls), calls[d].inside = "send"
          PROVE  \E e \in 1..Len(calls') : calls'[e].inside = "send"
      <4>1. d = Len(calls) \/ d \in 1..(Len(calls) - 1)
        BY <1>1
      <4> QED BY <1>1, <1>2, <2>3, <3>3, <4>1
    <3> QED BY <2>3, <3>1, <3>2, <3>3 DEF Comes
  <2> QED BY <2>1, <2>2, <2>3
<1>7. allowInterruption' \in BOOLEAN /\ g' = g /\ nThreads' = g + InAuto(calls)
  BY DEF IInv
<1> QED BY <1>5, <1>6, <1>7 DEF IInv, Stack, Chain, Limited, OneExit, Restores, ExitUpTo, InAuto, Comes

(* An action that begins a call.                                           *)
LEMMA CallBegins ==
  ASSUME IInv, NEW c \in Call,
         calls' \in Seq(Call), Len(calls') = Len(calls) + 1, calls'[Len(calls) + 1] = c,
         \A d \in 1..Len(calls) : calls'[d] = calls[d],
         c.kind \notin {"idle", "auto"},
         c.slot = g + (IF c.kind = "fast" THEN 0 ELSE 1),
         c.kind = "exit" => ~onExitRunning,
         c.kind \notin {"exit", "fast"} => nThreads < MaxThreads,
         c.kind = "exit" => (c.saved <=> allowInterruption),
         g' = c.slot, nThreads' = nThreads + (c.slot - g),
         onExitRunning' = (onExitRunning \/ c.kind = "exit"),
         nPaused' \in Int, paused' \in [Slots -> BOOLEAN],
         terminated' = terminated, terminated = FALSE,
         allowInterruption' = (IF c.kind = "exit" THEN FALSE ELSE allowInterruption)
  PROVE  IInv'
<1>1. /\ calls \in Seq(Call) /\ Len(calls) \in Nat \ {0}
      /\ Top = calls[Len(calls)] /\ Top.slot = g
      /\ g \in Nat /\ InAuto(calls) \in {0, 1} /\ nThreads = g + InAuto(calls)
  BY TopFacts DEF IInv
<1>2. Len(calls') = Len(calls) + 1
  OBVIOUS
<1>3. /\ Stack(calls) /\ Comes(calls, allowInterruption, terminated)
      /\ onExitRunning <=> ExitUpTo(calls, Len(calls))
  BY DEF IInv
<1>4. c.kind \notin {"exit", "fast"} => c.slot + InAuto(calls) <= MaxThreads
  BY <1>1, PseudoThreadAssumption
<1>5. c.kind = "exit" /\ ~c.saved => \E e \in 1..Len(calls) : calls[e].inside = "send"
  BY <1>3 DEF Comes
<1>6. /\ Stack(calls') /\ calls'[Len(calls')].slot = c.slot
      /\ onExitRunning' <=> ExitUpTo(calls', Len(calls'))
      /\ InAuto(calls') = InAuto(calls)
  <2>1. c.slot = calls[Len(calls)].slot + (IF c.kind = "fast" THEN 0 ELSE 1)
    BY <1>1
  <2>2. /\ Stack(calls')
        /\ ExitUpTo(calls', Len(calls')) <=> (ExitUpTo(calls, Len(calls)) \/ c.kind = "exit")
        /\ calls'[Len(calls')].slot = c.slot /\ InAuto(calls') = InAuto(calls)
    <3>1. c.kind = "exit" => ~ExitUpTo(calls, Len(calls))
      BY <1>3
    <3>2. calls' \in Seq(Call) /\ calls'[Len(calls) + 1] = c
      OBVIOUS
    <3>3. \A d \in 1..Len(calls) : calls'[d] = calls[d]
      OBVIOUS
    <3>4. Begins(calls, calls', c)
      BY ONLY <1>2, <1>4, <1>5, <2>1, <3>1, <3>2, <3>3, c.kind \notin {"idle", "auto"} DEF Begins
    <3> QED BY ONLY <1>3, <3>4, Begun, c \in Call
  <2> QED BY <1>3, <2>2
<1>7. Comes(calls', allowInterruption', terminated')
  <2>1. Len(calls) + 1 \in 1..Len(calls') /\ \A d \in 1..Len(calls) : d \in 1..Len(calls')
    BY <1>1, <1>2
  <2>2. CASE c.kind = "exit"
    BY <1>2, <2>1, <2>2 DEF Comes, ExitUpTo
  <2>3. CASE c.kind # "exit"
    BY <1>2, <1>3, <2>1, <2>3 DEF Comes, ExitUpTo
  <2> QED BY <2>2, <2>3
<1>8. allowInterruption' \in BOOLEAN /\ onExitRunning' \in BOOLEAN /\ terminated' \in BOOLEAN
  BY DEF IInv
<1>9. nThreads' = c.slot + InAuto(calls)
  <2>1. c.slot \in Nat
    BY DEF Call
  <2> QED BY <1>1, <2>1
<1> QED BY <1>6, <1>7, <1>8, <1>9 DEF IInv, Stack, Chain, Limited, OneExit, Restores, ExitUpTo, InAuto, Comes

(* An action that ends the top call; the one under it may change its place *)
(* in the script.                                                          *)
LEMMA CallEnds ==
  ASSUME IInv, Top.kind \notin {"idle", "auto"}, Top.inside # "send",
         calls' \in Seq(Call), Len(calls') = Len(calls) - 1,
         Agree(calls, calls', Len(calls')),
         \A d \in 1..Len(calls') : calls'[d].inside = calls[d].inside,
         g' = g - (IF Top.kind = "fast" THEN 0 ELSE 1), nThreads' = nThreads + (g' - g),
         onExitRunning' = (onExitRunning /\ Top.kind # "exit"),
         nPaused' \in Int, paused' \in [Slots -> BOOLEAN],
         terminated' = terminated,
         allowInterruption' = (IF Top.kind = "exit" THEN Top.saved ELSE allowInterruption)
  PROVE  IInv'
<1>1. /\ calls \in Seq(Call) /\ Len(calls) \in Nat \ {0} /\ Top \in Call
      /\ Top = calls[Len(calls)] /\ Top.slot = g
      /\ g \in Nat /\ InAuto(calls) \in {0, 1} /\ nThreads = g + InAuto(calls)
  BY TopFacts DEF IInv
<1>2. /\ Stack(calls) /\ Comes(calls, allowInterruption, terminated)
      /\ onExitRunning <=> ExitUpTo(calls, Len(calls))
  BY DEF IInv
<1>3. Len(calls) # 1
  BY <1>1, <1>2 DEF Stack, Chain
<1>4. /\ Stack(calls') /\ (onExitRunning' <=> ExitUpTo(calls', Len(calls')))
      /\ InAuto(calls') = InAuto(calls)
      /\ Top.slot = calls'[Len(calls')].slot + (IF Top.kind = "fast" THEN 0 ELSE 1)
  BY <1>1, <1>2, <1>3, Ended
<1>5. g' = calls'[Len(calls')].slot
  <2>1. Len(calls') \in Nat \ {0} /\ calls'[Len(calls')] \in Call
    BY <1>1, <1>3
  <2>2. calls'[Len(calls')].slot \in Nat
    BY <2>1 DEF Call
  <2>3. CASE Top.kind = "fast"
    BY <1>1, <1>4, <2>2, <2>3
  <2>4. CASE Top.kind # "fast"
    BY <1>1, <1>4, <2>2, <2>4
  <2> QED BY <2>3, <2>4
<1>6. nThreads' = g' + InAuto(calls')
  BY <1>1, <1>4
<1>7. Comes(calls', allowInterruption', terminated')
  <2>1. \A d \in 1..Len(calls) : d \in 1..Len(calls') \/ d = Len(calls)
    BY <1>1
  <2>2. ASSUME NEW d \in 1..(Len(calls) - 1), calls[d].inside = "send"
        PROVE  \E e \in 1..Len(calls') : calls'[e].inside = "send"
    BY <1>1, <2>2
  <2>3. CASE Top.kind = "exit"
    <3>1. ~Top.saved => \E e \in 1..(Len(calls) - 1) : calls[e].inside = "send"
      <4>1. Len(calls) \in 1..Len(calls)
        BY <1>1
      <4> QED BY <1>1, <1>2, <2>3, <4>1 DEF Stack, Restores
    <3> QED BY <2>2, <2>3, <3>1 DEF Comes
  <2>4. CASE Top.kind # "exit"
    <3>1. ExitUpTo(calls, Len(calls)) => ExitUpTo(calls', Len(calls'))
      BY <1>1, <2>1, <2>4 DEF ExitUpTo, Agree
    <3>2. (\E d \in 1..Len(calls) : calls[d].inside = "send")
             => \E e \in 1..Len(calls') : calls'[e].inside = "send"
      BY <1>1, <2>1
    <3> QED BY <1>2, <2>4, <3>1, <3>2 DEF Comes
  <2> QED BY <2>3, <2>4
<1>8. allowInterruption' \in BOOLEAN /\ onExitRunning' \in BOOLEAN /\ terminated' \in BOOLEAN
  BY <1>1 DEF IInv, Call
<1> QED BY <1>4, <1>5, <1>6, <1>7, <1>8 DEF IInv, Stack, Chain, Limited, OneExit, Restores, ExitUpTo, InAuto, Comes

-----------------------------------------------------------------------------
(* The actions, by what they do to the stack.                              *)
LEMMA Popped ==
  ASSUME NEW S, NEW s \in Seq(S), s # <<>>
  PROVE  /\ Front(s) \in Seq(S) /\ Len(Front(s)) = Len(s) - 1
         /\ \A i \in 1..Len(Front(s)) : Front(s)[i] = s[i]
<1>1. Len(s) \in Nat \ {0}
  OBVIOUS
<1>2. \A i \in 1..(Len(s) - 1) : s[i] \in S
  BY <1>1
<1>3. /\ Front(s) \in Seq(S)
      /\ Len(Front(s)) = IF 1 <= Len(s) - 1 THEN Len(s) - 1 - 1 + 1 ELSE 0
      /\ \A i \in 1..(Len(s) - 1 - 1 + 1) : Front(s)[i] = s[1 + i - 1]
  BY <1>1, <1>2, SubSeqProperties DEF Front
<1>4. Len(Front(s)) = Len(s) - 1
  <2>1. \A n \in Nat \ {0} : (IF 1 <= n - 1 THEN n - 1 - 1 + 1 ELSE 0) = n - 1
    OBVIOUS
  <2> QED BY <1>1, <1>3, <2>1
<1>5. \A i \in 1..(Len(s) - 1) : Front(s)[i] = s[i]
  BY <1>1, <1>3
<1> QED BY <1>3, <1>4, <1>5

(* What Append does to the calls, element by element.                      *)
LEMMA Pushed ==
  ASSUME NEW S, NEW s \in Seq(S), NEW c \in S
  PROVE  /\ Append(s, c) \in Seq(S) /\ Len(Append(s, c)) = Len(s) + 1
         /\ Append(s, c)[Len(s) + 1] = c
         /\ \A d \in 1..Len(s) : Append(s, c)[d] = s[d]
  OBVIOUS

(* Launching: a call begins.                                               *)
LEMMA LaunchStep == IInv /\ ~terminated /\ Launch => IInv'
<1> SUFFICES ASSUME IInv, ~terminated, Launch PROVE IInv'
  OBVIOUS
<1>1. /\ calls \in Seq(Call) /\ g \in Nat /\ nThreads \in Nat /\ nPaused \in Int
      /\ paused \in [Slots -> BOOLEAN] /\ terminated = FALSE
      /\ allowInterruption \in BOOLEAN /\ onExitRunning \in BOOLEAN
  BY TopFacts DEF IInv
<1>2. ASSUME NEW kind \in {"event", "timer", "emergency", "exit"}, NEW saved \in BOOLEAN,
             InitNewThread(kind, saved), UNCHANGED terminated,
             kind = "exit" => ~onExitRunning /\ saved = allowInterruption,
             kind # "exit" => nThreads < MaxThreads,
             onExitRunning' = (onExitRunning \/ kind = "exit"),
             allowInterruption' = (IF kind = "exit" THEN FALSE ELSE allowInterruption)
      PROVE  IInv'
  <2> DEFINE c == NewCall(kind, g + 1, saved)
  <2>1. c \in Call /\ c.kind = kind /\ c.slot = g + 1 /\ c.saved = saved
    BY <1>1 DEF NewCall, Call, Kinds
  <2>2. /\ g' = g + 1 /\ nThreads' = nThreads + 1 /\ nPaused' = nPaused
        /\ calls' = Append(calls, c) /\ paused' \in [Slots -> BOOLEAN]
    BY <1>1, <1>2 DEF InitNewThread, ClearState
  <2> HIDE DEF c
  <2>3. /\ calls' \in Seq(Call) /\ Len(calls') = Len(calls) + 1
        /\ calls'[Len(calls) + 1] = c /\ \A d \in 1..Len(calls) : calls'[d] = calls[d]
    BY <1>1, <2>1, <2>2, Pushed
  <2>4. /\ c.kind \notin {"idle", "auto"} /\ c.kind # "fast"
        /\ c.slot = g + (IF c.kind = "fast" THEN 0 ELSE 1)
        /\ g' = c.slot /\ nThreads' = nThreads + (c.slot - g)
    BY <1>1, <2>1, <2>2
  <2>5. /\ c.kind = "exit" => ~onExitRunning
        /\ c.kind \notin {"exit", "fast"} => nThreads < MaxThreads
        /\ c.kind = "exit" => (c.saved <=> allowInterruption)
        /\ onExitRunning' = (onExitRunning \/ c.kind = "exit")
        /\ allowInterruption' = (IF c.kind = "exit" THEN FALSE ELSE allowInterruption)
        /\ terminated' = terminated
    BY <1>2, <2>1
  <2> QED BY ONLY <1>1, <2>1, <2>2, <2>3, <2>4, <2>5, IInv, CallBegins
<1>3. CASE LaunchEvent
  BY <1>1, <1>2, <1>3 DEF LaunchEvent, Room
<1>4. CASE LaunchTimer
  BY <1>1, <1>2, <1>4 DEF LaunchTimer, Room
<1>5. CASE LaunchEmergency
  BY <1>1, <1>2, <1>5 DEF LaunchEmergency, Room
<1>6. CASE ExitApp
  BY <1>1, <1>2, <1>6 DEF ExitApp, MayRunOnExit
<1>7. CASE FastCallback
  <2> DEFINE c == NewCall("fast", g, paused[g])
  <2>1. c \in Call /\ c.kind = "fast" /\ c.slot = g
    <3>1. paused[g] \in BOOLEAN
      BY <1>1, LimitHolds DEF IInv
    <3> QED BY <1>1, <3>1 DEF NewCall, Call, Kinds
  <2>2. /\ g' = g /\ nThreads' = nThreads /\ nPaused' \in Int
        /\ calls' = Append(calls, c) /\ paused' \in [Slots -> BOOLEAN]
    <3>1. g' = g /\ nThreads' = nThreads /\ calls' = Append(calls, c)
      BY <1>7 DEF FastCallback
    <3>2. paused' = [paused EXCEPT ![g] = FALSE]
      BY <1>7 DEF FastCallback, Mark
    <3>3. nPaused' = IF paused[g] THEN nPaused - 1 ELSE nPaused
      BY <1>7 DEF FastCallback
    <3>4. nPaused' \in Int
      BY <1>1, <3>3
    <3>5. paused' \in [Slots -> BOOLEAN]
      BY <1>1, <3>2
    <3> QED BY <3>1, <3>4, <3>5
  <2> HIDE DEF c
  <2>3. /\ calls' \in Seq(Call) /\ Len(calls') = Len(calls) + 1
        /\ calls'[Len(calls) + 1] = c /\ \A d \in 1..Len(calls) : calls'[d] = calls[d]
    BY <1>1, <2>1, <2>2, Pushed
  <2>4. /\ c.kind \notin {"idle", "auto"} /\ c.kind # "exit"
        /\ c.slot = g + (IF c.kind = "fast" THEN 0 ELSE 1)
        /\ g' = c.slot /\ nThreads' = nThreads + (c.slot - g)
    BY <1>1, <2>1, <2>2
  <2>5. /\ onExitRunning' = (onExitRunning \/ c.kind = "exit")
        /\ allowInterruption' = (IF c.kind = "exit" THEN FALSE ELSE allowInterruption)
        /\ terminated' = terminated
    BY <1>1, <1>7, <2>1 DEF FastCallback
  <2> QED BY ONLY <1>1, <2>1, <2>2, <2>3, <2>4, <2>5, IInv, CallBegins
<1> QED BY <1>3, <1>4, <1>5, <1>6, <1>7 DEF Launch
(* What ends a call, or the OnExit thread, or goes on in the same one.     *)
LEMMA FinishStep == IInv /\ ~terminated /\ Finish => IInv'
<1> SUFFICES ASSUME IInv, ~terminated, Finish PROVE IInv'
  OBVIOUS
<1>1. /\ calls \in Seq(Call) /\ Len(calls) \in Nat \ {0} /\ calls # <<>>
      /\ g \in Nat /\ nThreads \in Nat /\ nPaused \in Int
      /\ Top \in Call /\ Top = calls[Len(calls)] /\ Top.slot = g
      /\ paused \in [Slots -> BOOLEAN] /\ terminated = FALSE
      /\ allowInterruption \in BOOLEAN /\ onExitRunning \in BOOLEAN
  BY TopFacts DEF IInv
<1>2. ASSUME UNCHANGED <<g, nThreads, onExitRunning, nPaused, allowInterruption, terminated>>,
             calls' = WithTop([Top EXCEPT !.at = "line"]), paused' \in [Slots -> BOOLEAN],
             Top.inside = "script"
      PROVE  IInv'
  <2> DEFINE c == [Top EXCEPT !.at = "line"]
  <2>1. c \in Call /\ c.kind = Top.kind /\ c.slot = Top.slot /\ c.saved = Top.saved
    BY <1>1 DEF Call
  <2>2. calls' = WithTop(c) /\ nPaused' \in Int
    BY <1>1, <1>2
  <2>3. Top.inside # "send"
    BY <1>2
  <2> HIDE DEF c
  <2> QED BY ONLY IInv, <1>2, <2>1, <2>2, <2>3, TopMoves
<1>3. ASSUME Top.kind \notin {"idle", "auto"}, Top.inside # "send",
             Agree(calls, calls', Len(calls')), calls' \in Seq(Call),
             Len(calls') = Len(calls) - 1,
             \A d \in 1..Len(calls') : calls'[d].inside = calls[d].inside,
             g' = g - (IF Top.kind = "fast" THEN 0 ELSE 1), nThreads' = nThreads + (g' - g),
             onExitRunning' = (onExitRunning /\ Top.kind # "exit"),
             nPaused' \in Int, paused' \in [Slots -> BOOLEAN], terminated' = terminated,
             allowInterruption' = (IF Top.kind = "exit" THEN Top.saved ELSE allowInterruption)
      PROVE  IInv'
  BY ONLY IInv, <1>3, CallEnds
<1>4. /\ Front(calls) \in Seq(Call) /\ Len(Front(calls)) = Len(calls) - 1
      /\ \A d \in 1..Len(Front(calls)) : Front(calls)[d] = calls[d]
  BY <1>1, Popped
<1>5. Agree(calls, Front(calls), Len(Front(calls)))
  BY <1>4 DEF Agree
<1>6. CASE ThreadEnds
  <2>1. /\ Top.kind \in {"event", "timer", "emergency"} /\ Top.inside = "script"
        /\ nThreads' = nThreads - 1 /\ g' = g - 1 /\ calls' = Front(calls)
        /\ UNCHANGED <<paused, nPaused, allowInterruption, onExitRunning, terminated>>
    BY <1>6 DEF ThreadEnds, AtLast, ResumeUnderlyingThread, UnderlyingG
  <2>2. nThreads' = nThreads + (g' - g) /\ g' = g - (IF Top.kind = "fast" THEN 0 ELSE 1)
    BY <1>1, <2>1
  <2> QED BY <1>1, <1>3, <1>4, <1>5, <2>1, <2>2
<1>7. CASE NextFunction
  <2>1. /\ UNCHANGED <<g, nThreads, onExitRunning, nPaused, allowInterruption, terminated>>
        /\ calls' = WithTop([Top EXCEPT !.at = "line"]) /\ Top.inside = "script"
        /\ paused' \in [Slots -> BOOLEAN]
    BY <1>1, <1>7 DEF NextFunction, AtLast, ClearState
  <2> QED BY <1>2, <2>1
<1>8. CASE AutoExecEnds
  <2> DEFINE c == NewCall("idle", 0, FALSE)
  <2>1. c \in Call /\ c.kind = "idle" /\ c.slot = 0
    BY DEF NewCall, Call, Kinds
  <2>2. /\ Top.kind = "auto" /\ Top.inside = "script" /\ nThreads' = nThreads - 1
        /\ calls' = <<c>>
        /\ UNCHANGED <<g, paused, nPaused, allowInterruption, onExitRunning, terminated>>
    BY <1>8 DEF AutoExecEnds, AtLast
  <2> HIDE DEF c
  <2>3. calls' \in Seq(Call) /\ Len(calls') = 1 /\ calls'[1] = c
    BY <2>1, <2>2, Single
  <2>4. Len(calls) = 1 /\ calls[1] = Top
    BY <1>1, <2>2 DEF IInv, Stack, Chain
  <2>5. g = 0 /\ nThreads = 1
    BY <2>2, <2>4 DEF IInv, Stack, Chain, InAuto
  <2>6. \A d \in 1..1 : d = 1
    OBVIOUS
  <2>7. ~ExitUpTo(calls, Len(calls)) /\ ~ExitUpTo(calls', Len(calls'))
    BY <2>1, <2>2, <2>3, <2>4, <2>6 DEF ExitUpTo
  <2>8. Stack(calls')
    <3>1. Chain(calls')
      BY <2>1, <2>3 DEF Chain
    <3>2. Limited(calls')
      BY <2>1, <2>3, <2>6, PseudoThreadAssumption DEF Limited, InAuto
    <3>3. OneExit(calls')
      BY <2>3, <2>6 DEF OneExit
    <3>4. Restores(calls')
      BY <2>1, <2>3, <2>6 DEF Restores
    <3> QED BY <3>1, <3>2, <3>3, <3>4 DEF Stack
  <2>9. allowInterruption
    BY <1>1, <2>2, <2>4, <2>6, <2>7 DEF IInv, Comes
  <2>10. ~onExitRunning
    BY <2>7 DEF IInv
  <2>11. Comes(calls', allowInterruption', terminated')
    BY <2>2, <2>9 DEF Comes
  <2>12. g' = calls'[Len(calls')].slot /\ nThreads' = g' + InAuto(calls')
    BY <2>1, <2>2, <2>3, <2>5 DEF InAuto
  <2> QED BY <1>1, <2>2, <2>7, <2>8, <2>10, <2>11, <2>12
          DEF IInv, Stack, Chain, Limited, OneExit, Restores, ExitUpTo, InAuto, Comes
<1>9. CASE ExitRefused
  <2>1. /\ Top.kind = "exit" /\ Top.inside = "script"
        /\ nThreads' = nThreads - 1 /\ g' = g - 1
        /\ allowInterruption' = Top.saved /\ onExitRunning' = FALSE
        /\ UNCHANGED <<paused, nPaused, terminated>>
    <3>1. Top.kind = "exit" /\ Top.inside = "script"
      BY <1>9 DEF ExitRefused, AtLast
    <3>2. /\ nThreads' = nThreads - 1 /\ g' = g - 1
          /\ UNCHANGED <<paused, nPaused>>
      BY <1>9 DEF ExitRefused, ResumeUnderlyingThread, UnderlyingG
    <3>3. /\ allowInterruption' = Top.saved /\ onExitRunning' = FALSE
          /\ UNCHANGED terminated
      BY <1>9 DEF ExitRefused, RestoredInterruption
    <3> QED BY <3>1, <3>2, <3>3
  <2>2. nThreads' = nThreads + (g' - g) /\ g' = g - (IF Top.kind = "fast" THEN 0 ELSE 1)
    BY <1>1, <2>1
  <2>3. /\ calls' \in Seq(Call) /\ Len(calls') = Len(calls) - 1
        /\ Agree(calls, calls', Len(calls'))
        /\ \A d \in 1..Len(calls') : calls'[d].inside = calls[d].inside
    <3> DEFINE rest == Front(calls)
    <3>1. \/ calls' = rest
          \/ calls' = [rest EXCEPT ![Len(rest)].at = "last"]
      BY <1>9 DEF ExitRefused
    <3>2. CASE calls' = rest
      BY <1>4, <1>5, <3>2
    <3>3. CASE calls' = [rest EXCEPT ![Len(rest)].at = "last"]
      <4>1. \A d \in 1..Len(rest) : rest[d] \in Call
        BY <1>4
      <4>2. ASSUME NEW r \in Call
            PROVE  /\ [r EXCEPT !.at = "last"] \in Call
                   /\ [r EXCEPT !.at = "last"].kind = r.kind
                   /\ [r EXCEPT !.at = "last"].slot = r.slot
                   /\ [r EXCEPT !.at = "last"].saved = r.saved
                   /\ [r EXCEPT !.at = "last"].inside = r.inside
        BY DEF Call
      <4> HIDE DEF rest
      <4>3. /\ Len(calls') = Len(rest)
            /\ \A d \in 1..Len(rest) : calls'[d] = rest[d]
                                         \/ calls'[d] = [rest[d] EXCEPT !.at = "last"]
            /\ calls' \in Seq(Call)
        <5>1. rest \in Seq(Call)
          BY <1>4 DEF rest
        <5>2. DOMAIN rest = 1..Len(rest)
          BY <5>1
        <5> HIDE DEF Call
        <5>3. DOMAIN calls' = 1..Len(rest)
          BY <3>3, <5>2
        <5>4. \A d \in 1..Len(rest) :
                calls'[d] = IF d = Len(rest) THEN [rest[d] EXCEPT !.at = "last"] ELSE rest[d]
          BY <3>3, <5>2
        <5>5. \A d \in 1..Len(rest) : calls'[d] \in Call
          BY <4>1, <4>2, <5>4
        <5>6. calls' = [d \in 1..Len(rest) |-> calls'[d]]
          BY <3>3, <5>2
        <5>7. Len(rest) \in Nat
          BY <5>1
        <5>8. calls' \in Seq(Call) /\ Len(calls') = Len(rest)
          BY <5>5, <5>6, <5>7, LenProperties
        <5> QED BY <5>4, <5>8
      <4>4. ASSUME NEW d \in 1..Len(rest)
            PROVE  /\ calls'[d].kind = calls[d].kind /\ calls'[d].slot = calls[d].slot
                   /\ calls'[d].saved = calls[d].saved /\ calls'[d].inside = calls[d].inside
        <5>1. rest[d] = calls[d] /\ rest[d] \in Call
          BY <1>4, <4>1 DEF rest
        <5> QED BY <4>2, <4>3, <5>1
      <4>5. Agree(calls, calls', Len(calls'))
        BY <4>3, <4>4 DEF Agree
      <4> QED BY <1>4, <4>3, <4>4, <4>5 DEF rest
    <3> QED BY <3>1, <3>2, <3>3
  <2> QED BY <1>1, <1>3, <2>1, <2>2, <2>3
<1>10. CASE ExitNow \/ ExitAgreed
  <2>1. /\ UNCHANGED <<calls, g, nThreads, onExitRunning, nPaused>>
        /\ allowInterruption' = FALSE /\ terminated' = TRUE
        /\ paused' \in [Slots -> BOOLEAN]
    BY <1>1, <1>10 DEF ExitNow, ExitAgreed, TerminateApp
  <2>2. nPaused' \in Int /\ UNCHANGED <<calls, g, nThreads, onExitRunning>>
    BY <1>1, <2>1
  <2>3. /\ allowInterruption' \in BOOLEAN /\ terminated' \in BOOLEAN
        /\ Comes(calls, allowInterruption', terminated')
    BY <2>1 DEF Comes
  <2> QED BY ONLY IInv, <2>1, <2>2, <2>3, CallsUnchanged
<1>11. CASE FastCallbackEnds
  <2>1. /\ Top.kind = "fast" /\ Top.inside = "script" /\ calls' = Front(calls)
        /\ UNCHANGED <<g, nThreads, allowInterruption, onExitRunning, terminated>>
    BY <1>11 DEF FastCallbackEnds, AtLast
  <2>2. nPaused' \in Int
    <3>1. nPaused' = nPaused + 1 \/ nPaused' = nPaused
      BY <1>11 DEF FastCallbackEnds, CountedAgain
    <3> QED BY <1>1, <3>1
  <2>3. paused' \in [Slots -> BOOLEAN]
    BY <1>1, <1>11 DEF FastCallbackEnds
  <2>4. nThreads' = nThreads + (g' - g) /\ g' = g - (IF Top.kind = "fast" THEN 0 ELSE 1)
    BY <1>1, <2>1
  <2> QED BY <1>1, <1>3, <1>4, <1>5, <2>1, <2>2, <2>3, <2>4
<1> QED BY <1>6, <1>7, <1>8, <1>9, <1>10, <1>11 DEF Finish

(* Lines of script and Pause: at most the top call changes, and only in    *)
(* where it is.                                                            *)
LEMMA LinesStep == IInv /\ ~terminated /\ (Lines \/ Pausing) => IInv'
<1> SUFFICES ASSUME IInv, ~terminated, Lines \/ Pausing PROVE IInv'
  OBVIOUS
<1>1. /\ nPaused \in Int /\ Top \in Call /\ paused \in [Slots -> BOOLEAN]
      /\ allowInterruption \in BOOLEAN /\ onExitRunning \in BOOLEAN
  BY TopFacts DEF IInv
<1>2. ASSUME NEW c \in Call, c.kind = Top.kind, c.slot = Top.slot, c.saved = Top.saved,
             calls' = WithTop(c), UNCHANGED <<g, nThreads, onExitRunning, terminated>>,
             nPaused' \in Int, paused' \in [Slots -> BOOLEAN],
             \/ allowInterruption' = TRUE
             \/ allowInterruption' = FALSE /\ c.inside = "send"
             \/ allowInterruption' = allowInterruption
                  /\ (Top.inside = "send" => c.inside = "send")
      PROVE  IInv'
  BY ONLY IInv, <1>2, TopMoves
<1>3. ASSUME UNCHANGED <<calls, g, nThreads, onExitRunning, allowInterruption, terminated>>,
             paused' \in [Slots -> BOOLEAN], nPaused' \in Int
      PROVE  IInv'
  <2>1. UNCHANGED <<calls, g, nThreads, onExitRunning>>
    BY <1>3
  <2>2. /\ allowInterruption' \in BOOLEAN /\ terminated' \in BOOLEAN
        /\ Comes(calls, allowInterruption', terminated')
    BY <1>3 DEF IInv, Comes
  <2> QED BY ONLY IInv, <1>3, <2>1, <2>2, CallsUnchanged
<1>4. ASSUME NEW at \in {"line", "check", "last"}
      PROVE  LET c == [Top EXCEPT !.at = at]
             IN  /\ c \in Call /\ c.kind = Top.kind /\ c.slot = Top.slot
                 /\ c.saved = Top.saved /\ c.inside = Top.inside
  BY <1>1 DEF Call
<1>5. ASSUME NEW inside \in {"script", "pause", "send"}
      PROVE  LET c == [Top EXCEPT !.inside = inside]
             IN  /\ c \in Call /\ c.kind = Top.kind /\ c.slot = Top.slot
                 /\ c.saved = Top.saved /\ c.inside = inside
  BY <1>1 DEF Call
<1>6. CASE LineEnds
  <2> DEFINE c == [Top EXCEPT !.at = "check"]
  <2>1. /\ c \in Call /\ c.kind = Top.kind /\ c.slot = Top.slot
        /\ c.saved = Top.saved /\ c.inside = Top.inside
    BY <1>4
  <2>2. /\ calls' = WithTop(c)
        /\ UNCHANGED <<counters, allowInterruption, onExitRunning, terminated>>
    BY <1>6 DEF LineEnds
  <2> QED BY <1>1, <1>2, <2>1, <2>2 DEF counters
<1>7. ASSUME NEW at \in {"line", "last"}, NextLine(at) PROVE IInv'
  <2> DEFINE c == [Top EXCEPT !.at = at]
  <2>1. /\ c \in Call /\ c.kind = Top.kind /\ c.slot = Top.slot
        /\ c.saved = Top.saved /\ c.inside = Top.inside
    BY <1>4
  <2>2. /\ calls' = WithTop(c)
        /\ UNCHANGED <<counters, allowInterruption, onExitRunning, terminated>>
    BY <1>7 DEF NextLine
  <2> QED BY <1>1, <1>2, <2>1, <2>2 DEF counters
<1>8. CASE PauseCurrentThread \/ PauseOver \/ SleepWithoutInterruption \/ SleepOver
  <2>1. CASE PauseCurrentThread
    <3> DEFINE c == [Top EXCEPT !.inside = "pause"]
    <3>1. /\ c \in Call /\ c.kind = Top.kind /\ c.slot = Top.slot
          /\ c.saved = Top.saved /\ c.inside = "pause"
      BY <1>5
    <3>2. /\ calls' = WithTop(c) /\ Top.inside = "script"
          /\ UNCHANGED <<g, nThreads, allowInterruption, onExitRunning, terminated>>
      BY <2>1 DEF PauseCurrentThread, InScript
    <3>3. paused' \in [Slots -> BOOLEAN]
      BY <1>1, <2>1 DEF PauseCurrentThread, Mark
    <3>4. nPaused' \in Int
      BY <1>1, <2>1 DEF PauseCurrentThread
    <3> QED BY <1>2, <3>1, <3>2, <3>3, <3>4
  <2>2. CASE PauseOver
    <3> DEFINE c == [Top EXCEPT !.inside = "script"]
    <3>1. /\ c \in Call /\ c.kind = Top.kind /\ c.slot = Top.slot
          /\ c.saved = Top.saved
      BY <1>5
    <3>2. /\ calls' = WithTop(c) /\ Top.inside = "pause"
          /\ UNCHANGED <<counters, allowInterruption, onExitRunning, terminated>>
      BY <2>2 DEF PauseOver
    <3> QED BY <1>1, <1>2, <3>1, <3>2 DEF counters
  <2>3. CASE SleepWithoutInterruption
    <3> DEFINE c == [Top EXCEPT !.inside = "send"]
    <3>1. /\ c \in Call /\ c.kind = Top.kind /\ c.slot = Top.slot
          /\ c.saved = Top.saved /\ c.inside = "send"
      BY <1>5
    <3>2. /\ calls' = WithTop(c) /\ allowInterruption' = FALSE
          /\ UNCHANGED <<counters, onExitRunning, terminated>>
      BY <2>3 DEF SleepWithoutInterruption
    <3> QED BY <1>1, <1>2, <3>1, <3>2 DEF counters
  <2>4. CASE SleepOver
    <3> DEFINE c == [Top EXCEPT !.inside = "script"]
    <3>1. /\ c \in Call /\ c.kind = Top.kind /\ c.slot = Top.slot
          /\ c.saved = Top.saved
      BY <1>5
    <3>2. /\ calls' = WithTop(c) /\ allowInterruption' = TRUE
          /\ UNCHANGED <<counters, onExitRunning, terminated>>
      BY <2>4 DEF SleepOver
    <3> QED BY <1>1, <1>2, <3>1, <3>2 DEF counters
  <2> QED BY <1>8, <2>1, <2>2, <2>3, <2>4
<1>9. CASE TrayPause
  <2>1. paused' \in [Slots -> BOOLEAN]
    BY <1>1, <1>9 DEF TrayPause, Mark
  <2>2. nPaused' \in Int
    <3>1. nPaused' = nPaused - 1 \/ nPaused' = nPaused + 1
      BY <1>9 DEF TrayPause
    <3> QED BY <1>1, <3>1
  <2>3. UNCHANGED <<calls, g, nThreads, onExitRunning, allowInterruption, terminated>>
    BY <1>9 DEF TrayPause
  <2> QED BY <1>3, <2>1, <2>2, <2>3
<1>10. ASSUME NEW new \in BOOLEAN, PauseUnderlyingThread(new) PROVE IInv'
  <2>1. paused' \in [Slots -> BOOLEAN]
    <3>1. paused' = [paused EXCEPT ![g - 1] = new]
      BY <1>10 DEF PauseUnderlyingThread, Mark
    <3> QED BY <1>1, <3>1
  <2>2. nPaused' \in Int
    <3>1. nPaused' = nPaused - 1 \/ nPaused' = nPaused + 1
      BY <1>10 DEF PauseUnderlyingThread
    <3> QED BY <1>1, <3>1
  <2>3. UNCHANGED <<calls, g, nThreads, onExitRunning, allowInterruption, terminated>>
    BY <1>10 DEF PauseUnderlyingThread
  <2> QED BY <1>3, <2>1, <2>2, <2>3
<1> QED BY <1>6, <1>7, <1>8, <1>9, <1>10 DEF Lines, Pausing

(* Every step keeps it.                                                    *)
LEMMA StepIInv == IInv /\ [Next]_ptVars => IInv'
<1>1. IInv /\ Next => IInv'
  BY LaunchStep, FinishStep, LinesStep DEF Next
<1>2. IInv /\ UNCHANGED ptVars => IInv'
  <2> SUFFICES ASSUME IInv, UNCHANGED ptVars PROVE IInv'
    OBVIOUS
  <2>1. paused' \in [Slots -> BOOLEAN] /\ nPaused' \in Int
    BY DEF IInv, ptVars, counters
  <2>2. UNCHANGED <<calls, g, nThreads, onExitRunning, allowInterruption, terminated>>
    BY DEF ptVars, counters
  <2>3. UNCHANGED <<calls, g, nThreads, onExitRunning>>
    BY <2>2
  <2>4. /\ allowInterruption' \in BOOLEAN /\ terminated' \in BOOLEAN
        /\ Comes(calls, allowInterruption', terminated')
    BY <2>2 DEF IInv, Comes
  <2> QED BY ONLY IInv, <2>1, <2>3, <2>4, CallsUnchanged
<1> QED BY <1>1, <1>2

(* So it always holds.                                                     *)
LEMMA Invariance == Spec => []IInv
  BY InitIInv, StepIInv, PTL DEF Spec

-----------------------------------------------------------------------------
(* g stays within g_array, and every variable has its type: TypeOK.        *)
THEOREM TypeCorrect == Spec => []TypeOK
<1>1. IInv => TypeOK
  BY TopFacts, LimitHolds DEF IInv, TypeOK
<1> QED BY Invariance, <1>1, PTL

(* For every #MaxThreads and every nesting of threads and callbacks, ::g   *)
(* is the element of the call on top when that call goes on, and           *)
(* g_nThreads counts the elements in use: CountersFollowCalls.             *)
THEOREM CountersFollow == Spec => []CountersFollowCalls
<1>1. IInv => CountersFollowCalls
  BY TopFacts DEF IInv, Stack, Chain, InAuto, CountersFollowCalls
<1> QED BY Invariance, <1>1, PTL

(* The two additional elements of g_array are enough: ThreadLimit.         *)
THEOREM WithinLimit == Spec => []ThreadLimit
  BY Invariance, LimitHolds, PTL

(* At most one OnExit thread, and g_OnExitIsRunning tells: OneOnExit.      *)
THEOREM OneExitThread == Spec => []OneOnExit
<1>1. IInv => OneOnExit
  BY DEF IInv, Stack, OneExit, ExitUpTo, OneOnExit, Depths
<1> QED BY Invariance, <1>1, PTL

(* g_AllowInterruption is FALSE only while something on the stack will set *)
(* it again: InterruptionComesBack.                                        *)
THEOREM InterruptionReturns == Spec => []InterruptionComesBack
<1>1. IInv => InterruptionComesBack
  BY DEF IInv, Comes, ExitUpTo, InterruptionComesBack, Depths
<1> QED BY Invariance, <1>1, PTL

-----------------------------------------------------------------------------
(* The paused threads are finitely many.                                   *)
LEMMA PausedFinite ==
  ASSUME IInv
  PROVE  IsFiniteSet(PausedSlots) /\ Cardinality(PausedSlots) \in Nat
<1>1. IsFiniteSet(0..g)
  BY TopFacts, FS_Interval
<1>2. PausedSlots \in SUBSET (0..g)
  BY DEF PausedSlots
<1> QED BY <1>1, <1>2, FS_Subset, FS_CardinalityType

(* No thread becomes paused.                                               *)
LEMMA NoneMore ==
  ASSUME IInv, PausedCounted, ~terminated,
         PausedSlots' \subseteq PausedSlots, nPaused' = nPaused
  PROVE  PausedCounted'
<1>1. PausedSlots' \in SUBSET PausedSlots
  OBVIOUS
<1>2. Cardinality(PausedSlots') <= Cardinality(PausedSlots) /\ Cardinality(PausedSlots') \in Nat
  BY <1>1, PausedFinite, FS_Subset, FS_CardinalityType
<1>3. nPaused \in Int /\ nPaused >= Cardinality(PausedSlots)
  BY DEF IInv, PausedCounted
<1>4. nPaused' >= Cardinality(PausedSlots')
  BY <1>2, <1>3, PausedFinite
<1> QED BY <1>4 DEF PausedCounted

(* At most one thread becomes paused and is counted.                       *)
LEMMA OneMore ==
  ASSUME IInv, PausedCounted, ~terminated, NEW s,
         PausedSlots' \subseteq PausedSlots \cup {s}, nPaused' = nPaused + 1
  PROVE  PausedCounted'
<1>1. /\ IsFiniteSet(PausedSlots \cup {s})
      /\ Cardinality(PausedSlots \cup {s}) \in {Cardinality(PausedSlots), Cardinality(PausedSlots) + 1}
  BY PausedFinite, FS_AddElement
<1>2. PausedSlots' \in SUBSET (PausedSlots \cup {s})
  OBVIOUS
<1>3. /\ Cardinality(PausedSlots') <= Cardinality(PausedSlots \cup {s})
      /\ Cardinality(PausedSlots') \in Nat
  BY <1>1, <1>2, FS_Subset, FS_CardinalityType
<1>4. nPaused \in Int /\ nPaused >= Cardinality(PausedSlots)
  BY DEF IInv, PausedCounted
<1>5. nPaused' >= Cardinality(PausedSlots')
  BY <1>1, <1>3, <1>4, PausedFinite
<1> QED BY <1>5 DEF PausedCounted

(* One paused thread goes on and is no longer counted.                     *)
LEMMA OneFewer ==
  ASSUME IInv, PausedCounted, ~terminated, NEW s \in PausedSlots,
         PausedSlots' \subseteq PausedSlots \ {s}, nPaused' = nPaused - 1
  PROVE  PausedCounted'
<1>1. /\ IsFiniteSet(PausedSlots \ {s})
      /\ Cardinality(PausedSlots \ {s}) = Cardinality(PausedSlots) - 1
  BY PausedFinite, FS_RemoveElement
<1>2. PausedSlots' \in SUBSET (PausedSlots \ {s})
  OBVIOUS
<1>3. /\ Cardinality(PausedSlots') <= Cardinality(PausedSlots \ {s})
      /\ Cardinality(PausedSlots') \in Nat
  BY <1>1, <1>2, FS_Subset, FS_CardinalityType
<1>4. nPaused \in Int /\ nPaused >= Cardinality(PausedSlots)
  BY DEF IInv, PausedCounted
<1>5. nPaused' >= Cardinality(PausedSlots')
  BY <1>1, <1>3, <1>4, PausedFinite
<1> QED BY <1>5 DEF PausedCounted

(* What one element of g_array's IsPaused says afterwards.                 *)
LEMMA Marked ==
  ASSUME IInv, NEW s \in 0..g, NEW v \in BOOLEAN,
         paused' = [paused EXCEPT ![s] = v], g' = g
  PROVE  PausedSlots' = IF v THEN PausedSlots \cup {s} ELSE PausedSlots \ {s}
<1>1. g \in Slots /\ g \in Nat
  BY LimitHolds, TopFacts
<1>2. \A n \in 0..g : n \in Slots
  BY <1>1, PseudoThreadAssumption DEF Slots, AdditionalThreads
<1>3. \A n \in 0..g : paused'[n] = IF n = s THEN v ELSE paused[n]
  BY <1>2 DEF IInv
<1> QED BY <1>3 DEF PausedSlots

(* g stays within g_array after a step, too.                               *)
LEMMA LimitNext == (IInv => g \in Slots)'
<1>1. IInv => g \in Slots
  BY LimitHolds
<1> QED BY <1>1, PTL

(* A launched thread is not paused.                                        *)
LEMMA LaunchedCounted ==
  ASSUME IInv, IInv', PausedCounted, ~terminated, NEW kind, NEW saved, InitNewThread(kind, saved)
  PROVE  PausedCounted'
<1>1. g' = g + 1 /\ paused' = [paused EXCEPT ![g + 1] = FALSE] /\ nPaused' = nPaused
  BY DEF InitNewThread, ClearState
<1>2. g + 1 \in Slots /\ g \in Nat
  BY <1>1, LimitNext, TopFacts
<1>3. \A s \in 0..(g + 1) : s # g + 1 => s \in 0..g
  BY <1>2
<1>4. \A s \in 0..(g + 1) : paused'[s] => s # g + 1 /\ paused[s]
  BY <1>1, <1>2 DEF IInv
<1>5. PausedSlots' \subseteq PausedSlots
  BY <1>1, <1>3, <1>4 DEF PausedSlots
<1> QED BY <1>1, <1>5, NoneMore

(* Every step keeps the count.                                             *)
LEMMA StepCounted ==
  ASSUME IInv, IInv', PausedCounted, [Next]_ptVars
  PROVE  PausedCounted'
<1> DEFINE same == UNCHANGED <<g, paused, nPaused>>
<1>1. ASSUME ~terminated, same PROVE PausedCounted'
  BY <1>1, NoneMore DEF PausedSlots
<1>2. g \in 0..g /\ g \in Nat /\ Top.slot = g
  BY TopFacts
<1>3. ASSUME ~terminated, Launch PROVE PausedCounted'
  <2>1. CASE LaunchEvent \/ LaunchTimer \/ LaunchEmergency \/ ExitApp
    BY <1>3, <2>1, LaunchedCounted DEF LaunchEvent, LaunchTimer, LaunchEmergency, ExitApp
  <2>2. CASE FastCallback
    <3>1. /\ paused' = [paused EXCEPT ![g] = FALSE] /\ g' = g
          /\ nPaused' = IF paused[g] THEN nPaused - 1 ELSE nPaused
      BY <2>2 DEF FastCallback, Mark
    <3>2. PausedSlots' = PausedSlots \ {g}
      BY <1>2, <3>1, Marked
    <3>3. CASE paused[g]
      BY <1>2, <1>3, <3>1, <3>2, <3>3, OneFewer DEF PausedSlots
    <3>4. CASE ~paused[g]
      BY <1>3, <3>1, <3>2, <3>4, NoneMore
    <3> QED BY <3>3, <3>4
  <2> QED BY <1>3, <2>1, <2>2 DEF Launch
<1>4. ASSUME ~terminated, Finish PROVE PausedCounted'
  <2>1. CASE ThreadEnds \/ ExitRefused
    <3>1. g' = g - 1 /\ paused' = paused /\ nPaused' = nPaused
      BY <2>1 DEF ThreadEnds, ExitRefused, ResumeUnderlyingThread, UnderlyingG
    <3>2. 0..(g - 1) \subseteq 0..g
      BY <1>2
    <3> QED BY <1>4, <3>1, <3>2, NoneMore DEF PausedSlots
  <2>2. CASE NextFunction
    <3>1. g' = g /\ paused' = [paused EXCEPT ![g] = FALSE] /\ nPaused' = nPaused
      BY <2>2 DEF NextFunction, ClearState
    <3>2. PausedSlots' = PausedSlots \ {g}
      BY <1>2, <3>1, Marked
    <3> QED BY <1>4, <3>1, <3>2, NoneMore
  <2>3. CASE AutoExecEnds
    BY <1>1, <1>4, <2>3 DEF AutoExecEnds
  <2>4. CASE ExitAgreed \/ ExitNow
    BY <2>4 DEF ExitAgreed, ExitNow, TerminateApp, PausedCounted
  <2>5. CASE FastCallbackEnds
    <3>1. CASE Top.saved
      <4>1. g' = g /\ paused' = [paused EXCEPT ![g] = TRUE] /\ nPaused' = nPaused + 1
        BY <2>5, <3>1 DEF FastCallbackEnds, CountedAgain
      <4>2. PausedSlots' = PausedSlots \cup {g}
        BY <1>2, <4>1, Marked
      <4> QED BY <1>4, <4>1, <4>2, OneMore
    <3>2. CASE ~Top.saved
      BY <1>1, <1>4, <2>5, <3>2 DEF FastCallbackEnds, CountedAgain
    <3> QED BY <3>1, <3>2
  <2> QED BY <1>4, <2>1, <2>2, <2>3, <2>4, <2>5 DEF Finish
<1>5. ASSUME ~terminated, Lines PROVE PausedCounted'
  BY <1>1, <1>5 DEF Lines, LineEnds, NextLine, SleepWithoutInterruption, SleepOver, counters
<1>6. ASSUME ~terminated, PauseCurrentThread PROVE PausedCounted'
  <2>1. paused' = [paused EXCEPT ![g] = TRUE] /\ g' = g /\ nPaused' = nPaused + 1
    BY <1>2, <1>6 DEF PauseCurrentThread, Mark
  <2>2. PausedSlots' = PausedSlots \cup {g}
    BY <1>2, <2>1, Marked
  <2> QED BY <1>6, <2>1, <2>2, OneMore
<1>7. ASSUME ~terminated, TrayPause PROVE PausedCounted'
  <2>1. paused' = [paused EXCEPT ![g] = ~paused[g]] /\ g' = g
    BY <1>7 DEF TrayPause, Mark
  <2>2. PausedSlots' = IF ~paused[g] THEN PausedSlots \cup {g} ELSE PausedSlots \ {g}
    BY <1>2, <2>1, Marked
  <2>3. CASE paused[g]
    <3>1. nPaused' = nPaused - 1 /\ g \in PausedSlots
      BY <1>2, <1>7, <2>3 DEF TrayPause, PausedSlots
    <3> QED BY <1>7, <2>2, <2>3, <3>1, OneFewer
  <2>4. CASE ~paused[g]
    <3>1. nPaused' = nPaused + 1
      BY <1>7, <2>4 DEF TrayPause
    <3> QED BY <1>7, <2>2, <2>4, <3>1, OneMore
  <2> QED BY <2>3, <2>4
<1>8. ASSUME ~terminated, NEW new \in BOOLEAN, PauseUnderlyingThread(new) PROVE PausedCounted'
  <2>1. paused' = [paused EXCEPT ![g - 1] = new] /\ g' = g /\ g - 1 \in 0..g
    BY <1>2, <1>8 DEF PauseUnderlyingThread, Mark
  <2>2. PausedSlots' = IF new THEN PausedSlots \cup {g - 1} ELSE PausedSlots \ {g - 1}
    BY <2>1, Marked
  <2>3. CASE new
    <3>1. nPaused' = nPaused + 1
      BY <1>8, <2>3 DEF PauseUnderlyingThread
    <3> QED BY <1>8, <2>2, <2>3, <3>1, OneMore
  <2>4. CASE ~new
    <3>1. nPaused' = nPaused - 1
      BY <1>8, <2>4 DEF PauseUnderlyingThread
    <3>2. paused[g - 1] # new
      BY <1>8 DEF PauseUnderlyingThread
    <3>5. g - 1 \in Slots
      BY <1>2, <2>1, LimitHolds, PseudoThreadAssumption DEF Slots, AdditionalThreads
    <3>6. paused[g - 1]
      BY <2>4, <3>2, <3>5 DEF IInv
    <3>3. g - 1 \in PausedSlots
      BY <2>1, <3>6 DEF PausedSlots
    <3> QED BY <1>8, <2>2, <2>4, <3>1, <3>3, OneFewer
  <2> QED BY <2>3, <2>4
<1>9. ASSUME ~terminated, PauseOver PROVE PausedCounted'
  BY <1>1, <1>9 DEF PauseOver, counters
<1>10. CASE Next
  BY <1>3, <1>4, <1>5, <1>6, <1>7, <1>8, <1>9, <1>10 DEF Next, Pausing
<1>11. CASE UNCHANGED ptVars
  BY <1>11 DEF ptVars, counters, PausedCounted, PausedSlots
<1> QED BY <1>10, <1>11

(* g_nPausedThreads is at least the number of paused threads, whoever      *)
(* paused which thread in whatever order: PausedCounted.                   *)
THEOREM NoPausedUncounted == Spec => []PausedCounted
<1>1. Init => PausedCounted
  <2> SUFFICES ASSUME Init PROVE PausedCounted
    OBVIOUS
  <2>1. PausedSlots = {}
    <3>1. 0..0 \subseteq Slots
      BY PseudoThreadAssumption DEF Slots, AdditionalThreads
    <3> QED BY <3>1 DEF Init, PausedSlots
  <2>2. nPaused = 0
    BY DEF Init
  <2> QED BY <2>1, <2>2, FS_EmptySet DEF PausedCounted
<1>2. IInv /\ IInv' /\ PausedCounted /\ [Next]_ptVars => PausedCounted'
  BY StepCounted
<1> QED BY Invariance, <1>1, <1>2, PTL DEF Spec
===============================================================================
