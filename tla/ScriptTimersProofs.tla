------------------------- MODULE ScriptTimersProofs -------------------------
(***************************************************************************)
(* Proofs about ScriptTimers: its four safety invariants, for any          *)
(* callbacks, priorities, number of timers and depth of interruption.      *)
(*                                                                         *)
(* The invariant is stated of any stack, timers, list and count (Good), so *)
(* that a step can be taken apart: CallbackReturns, say, takes the top     *)
(* frame off, locks and unlinks timers, and puts another frame on top.     *)
(* There is one lemma for each of these parts.                             *)
(***************************************************************************)
EXTENDS ScriptTimers, FiniteSetTheorems, SequenceTheorems, TLAPS

-----------------------------------------------------------------------------
(* Sequences.                                                              *)

(* Without its last element a sequence is a sequence, with the same elements
   at the places that are left. *)
LEMMA FrontIs ==
  ASSUME NEW S, NEW s \in Seq(S), s # <<>>
  PROVE  /\ Front(s) \in Seq(S) /\ Len(Front(s)) = Len(s) - 1 /\ Len(s) \in Nat \ {0}
         /\ \A n \in 1..(Len(s) - 1) : Front(s)[n] = s[n]
         /\ Last(s) = s[Len(s)] /\ Last(s) \in S
<1>1. Len(s) \in Nat \ {0}
  OBVIOUS
<1> DEFINE k == Len(s) - 1
<1>2. k \in Nat /\ 1 \in Int /\ k \in Int /\ \A i \in 1..k : s[i] \in S
  BY <1>1
<1>3. /\ SubSeq(s, 1, k) \in Seq(S)
      /\ Len(SubSeq(s, 1, k)) = IF 1 <= k THEN k - 1 + 1 ELSE 0
      /\ \A i \in 1..(k - 1 + 1) : SubSeq(s, 1, k)[i] = s[1 + i - 1]
  BY <1>2, SubSeqProperties
<1> HIDE DEF k
<1>4. /\ SubSeq(s, 1, k) \in Seq(S) /\ Len(SubSeq(s, 1, k)) = k
      /\ \A n \in 1..k : SubSeq(s, 1, k)[n] = s[n]
  BY <1>2, <1>3
<1>5. Last(s) = s[Len(s)] /\ s[Len(s)] \in S
  BY <1>1 DEF Last
<1> QED
  BY <1>1, <1>4, <1>5 DEF k, Front

(* An element taken out of a sequence. *)
LEMMA RemoveAtIs ==
  ASSUME NEW S, NEW s \in Seq(S), NEW i \in 1..Len(s)
  PROVE  /\ RemoveAt(s, i) \in Seq(S) /\ Len(RemoveAt(s, i)) = Len(s) - 1
         /\ \A n \in 1..(Len(s) - 1) :
              RemoveAt(s, i)[n] = IF n < i THEN s[n] ELSE s[n + 1]
<1> DEFINE k == Len(s)
           a == SubSeq(s, 1, i - 1)
           b == SubSeq(s, i + 1, k)
<1>1. /\ k \in Nat /\ i \in 1..k /\ 1 \in Int /\ i - 1 \in Int /\ i + 1 \in Int /\ k \in Int
      /\ (\A j \in 1..(i - 1) : s[j] \in S) /\ (\A j \in (i + 1)..k : s[j] \in S)
  OBVIOUS
<1>2. /\ a \in Seq(S) /\ Len(a) = IF 1 <= i - 1 THEN i - 1 - 1 + 1 ELSE 0
      /\ \A n \in 1..(i - 1 - 1 + 1) : a[n] = s[1 + n - 1]
  BY <1>1, SubSeqProperties
<1>3. /\ b \in Seq(S) /\ Len(b) = IF i + 1 <= k THEN k - (i + 1) + 1 ELSE 0
      /\ \A n \in 1..(k - (i + 1) + 1) : b[n] = s[i + 1 + n - 1]
  BY <1>1, SubSeqProperties
<1> HIDE DEF a, b, k
<1>4. Len(a) = i - 1 /\ Len(b) = k - i
  BY <1>1, <1>2, <1>3
<1>5. a \o b \in Seq(S) /\ Len(a \o b) = k - 1
  <2>1. a \o b \in Seq(S) /\ Len(a \o b) = Len(a) + Len(b)
    <3>1. a \in Seq(S) /\ b \in Seq(S)
      BY <1>2, <1>3
    <3> QED
      BY <3>1
  <2> QED
    BY <1>1, <1>4, <2>1
<1>6. ASSUME NEW n \in 1..(k - 1)
      PROVE  (a \o b)[n] = IF n < i THEN s[n] ELSE s[n + 1]
  <2>1. CASE n < i
    <3>1. (a \o b)[n] = a[n]
      BY <1>1, <1>2, <1>3, <1>4, <2>1
    <3>2. a[n] = s[n]
      BY <1>1, <1>2, <2>1
    <3> QED
      BY <2>1, <3>1, <3>2
  <2>2. CASE ~(n < i)
    <3>1. (a \o b)[n] = b[n - (i - 1)]
      BY <1>1, <1>2, <1>3, <1>4, <2>2
    <3>2. b[n - (i - 1)] = s[n + 1]
      <4>1. n - (i - 1) \in 1..(k - (i + 1) + 1) /\ i + 1 + (n - (i - 1)) - 1 = n + 1
        BY <1>1, <2>2
      <4> QED
        BY <1>3, <4>1
    <3> QED
      BY <2>2, <3>1, <3>2
  <2> QED
    BY <2>1, <2>2
<1> QED
  BY <1>5, <1>6 DEF a, b, k, RemoveAt

(* How many places of s have an element in T. *)
Places(s, T) == {n \in DOMAIN s : s[n] \in T}
Count(s, T) == Cardinality(Places(s, T))

(* The places are finitely many. *)
LEMMA CountNat ==
  ASSUME NEW S, NEW s \in Seq(S), NEW T
  PROVE  IsFiniteSet(Places(s, T)) /\ Count(s, T) \in Nat
<1>1. Places(s, T) \subseteq 1..Len(s) /\ IsFiniteSet(1..Len(s))
  BY FS_Interval DEF Places
<1> QED
  BY <1>1, FS_Subset, FS_CardinalityType DEF Count

(* The last element of a sequence counts if it is in the set. *)
LEMMA CountFront ==
  ASSUME NEW S, NEW s \in Seq(S), s # <<>>, NEW T
  PROVE  /\ Count(s, T) \in Nat /\ Count(Front(s), T) \in Nat
         /\ Last(s) \in T => Count(s, T) = Count(Front(s), T) + 1
         /\ Last(s) \notin T => Count(s, T) = Count(Front(s), T)
<1>0. /\ Front(s) \in Seq(S) /\ Len(Front(s)) = Len(s) - 1 /\ Len(s) \in Nat \ {0}
      /\ \A n \in 1..(Len(s) - 1) : Front(s)[n] = s[n]
      /\ Last(s) = s[Len(s)] /\ Last(s) \in S
  BY FrontIs
<1>1. IsFiniteSet(Places(s, T)) /\ Count(s, T) \in Nat
  BY CountNat
<1>2. CASE Last(s) \in T
  <2>1. Places(Front(s), T) = Places(s, T) \ {Len(s)} /\ Len(s) \in Places(s, T)
    BY <1>0, <1>2 DEF Places
  <2>2. IsFiniteSet(Places(Front(s), T)) /\ Count(Front(s), T) = Count(s, T) - 1
    BY <1>1, <2>1, FS_RemoveElement DEF Count
  <2>3. Count(Front(s), T) \in Nat
    BY <2>2, FS_CardinalityType DEF Count
  <2> QED
    BY <1>1, <1>2, <2>2, <2>3
<1>3. CASE Last(s) \notin T
  <2>1. Places(Front(s), T) = Places(s, T)
    BY <1>0, <1>3 DEF Places
  <2> QED
    BY <1>1, <1>3, <2>1 DEF Count
<1> QED
  BY <1>2, <1>3

(* An element appended counts if it is in the set. *)
LEMMA CountAppend ==
  ASSUME NEW S, NEW s \in Seq(S), NEW e \in S, NEW T
  PROVE  /\ Count(s, T) \in Nat
         /\ e \in T => Count(Append(s, e), T) = Count(s, T) + 1
         /\ e \notin T => Count(Append(s, e), T) = Count(s, T)
<1>1. IsFiniteSet(Places(s, T)) /\ Count(s, T) \in Nat
  BY CountNat
<1>2. CASE e \in T
  <2>1. Places(Append(s, e), T) = Places(s, T) \cup {Len(s) + 1} /\ Len(s) + 1 \notin Places(s, T)
    BY <1>2 DEF Places
  <2> QED
    BY <1>1, <1>2, <2>1, FS_AddElement DEF Count
<1>3. CASE e \notin T
  <2>1. Places(Append(s, e), T) = Places(s, T)
    BY <1>3 DEF Places
  <2> QED
    BY <1>1, <1>3, <2>1 DEF Count
<1> QED
  BY <1>2, <1>3

(* A count is positive when an element is in the set, and only then. *)
LEMMA CountSome ==
  ASSUME NEW S, NEW s \in Seq(S), NEW T
  PROVE  /\ Count(s, T) \in Nat
         /\ Count(s, T) > 0 <=> \E n \in DOMAIN s : s[n] \in T
<1>1. IsFiniteSet(Places(s, T)) /\ Count(s, T) \in Nat
  BY CountNat
<1>2. Count(s, T) = 0 <=> Places(s, T) = {}
  BY <1>1, FS_EmptySet DEF Count
<1>3. Places(s, T) # {} <=> \E n \in DOMAIN s : s[n] \in T
  BY DEF Places
<1> QED
  BY <1>1, <1>2, <1>3

-----------------------------------------------------------------------------
(* The inductive invariant, of a stack s, timers tm, a list ls and a count *)
(* en of enabled timers.                                                   *)

Members(ls) == {ls[i] : i \in 1..Len(ls)}
RunsAt(f, t) == f.pc = "run" /\ f.at = t
Runs(s, t) == \E d \in 1..Len(s) : RunsAt(s[d], t)
Locks(t) == {f \in Frame : f.pc = "release" /\ f.next = t}

(* The list has timers that were created, in the order of their creation. *)
Ordered(ls, tm) ==
  /\ ls \in Seq(TimerIds) /\ tm \in Seq(Timer) /\ Len(tm) <= MaxTimers
  /\ \A i \in 1..Len(ls) : ls[i] <= Len(tm)
  /\ \A i, j \in 1..Len(ls) : i < j => ls[i] < ls[j]

(* A pass has looked at the timers of L before t, or, when there is none to go on
   from, all timers of L that it has not looked at are younger. *)
SeenBefore(f, t, L) == \A u \in L : u < t => u \in f.seen
SeenAll(f, L) == \A u \in L : u \in f.seen \/ \A w \in f.seen : u > w

(* Where a pass stands, or will go on, is in L, and it has skipped nothing. *)
FrameSound(f, L, n) ==
  /\ \A u \in f.seen : u <= n
  /\ f.pc = "scan" =>
       /\ f.at # NoTimer => f.at \in L /\ SeenBefore(f, f.at, L)
       /\ f.at = NoTimer => SeenAll(f, L)
  /\ f.pc = "run" /\ f.at # NoTimer =>
       f.at \in L /\ f.at \in f.seen /\ SeenBefore(f, f.at, L)
  /\ f.pc = "release" =>
       /\ f.next # NoTimer => f.next \in L /\ SeenBefore(f, f.next, L)
       /\ f.next = NoTimer => SeenAll(f, L)

(* Only the top frame scans, each pass has at least the priority of what it
   interrupts unless its script has lowered it, and no two run the same timer. *)
MayInterrupt(f, g) == IsPass(f) => f.priority >= g.priority \/ f.lowered
StackSound(s, L, n) ==
  /\ s \in Seq(Frame)
  /\ \A d \in 1..Len(s) : FrameSound(s[d], L, n)
  /\ \A d \in 1..Len(s) : d < Len(s) => s[d].pc # "scan"
  /\ \A d \in 2..Len(s) : MayInterrupt(s[d], s[d - 1])
  /\ \A d, e \in 1..Len(s) : \A t \in TimerIds : RunsAt(s[d], t) /\ RunsAt(s[e], t) => d = e

(* mExistingThreads and mDeleteLocked of a listed timer tell the frames. *)
Told(s, tm, L) ==
  \A t \in L :
    /\ Runs(s, t) => tm[t].threads = 1
    /\ ~Runs(s, t) => tm[t].threads = 0
    /\ tm[t].locked = Count(s, Locks(t))

(* mTimerEnabledCount is the number of enabled timers, and a disabled timer is
   in use, except those of X. *)
CountTold(tm, L, en) == en = Cardinality({t \in L : tm[t].enabled})
NoneIdle(tm, L, X) ==
  \A t \in L \ X : tm[t].enabled \/ tm[t].threads > 0 \/ tm[t].locked > 0

Good(s, tm, ls, en, X) ==
  /\ Ordered(ls, tm)
  /\ StackSound(s, Members(ls), Len(tm))
  /\ Told(s, tm, Members(ls))
  /\ CountTold(tm, Members(ls), en)
  /\ NoneIdle(tm, Members(ls), X)

IInv == Good(stack, timer, list, enabled, {})

-----------------------------------------------------------------------------
(* The list.                                                               *)

(* The members of a list are timers that were created, finitely many. *)
LEMMA MembersAre ==
  ASSUME NEW ls, NEW tm, Ordered(ls, tm)
  PROVE  /\ Members(ls) \subseteq TimerIds /\ IsFiniteSet(Members(ls))
         /\ \A t \in Members(ls) : t \in 1..Len(tm) /\ t \in Nat /\ t # NoTimer /\ tm[t] \in Timer
         /\ Len(ls) \in Nat /\ Len(tm) \in Nat
<1>1. Len(ls) \in Nat /\ Len(tm) \in Nat /\ \A i \in 1..Len(ls) : ls[i] \in TimerIds
  BY DEF Ordered
<1>2. Members(ls) \subseteq TimerIds
  BY <1>1 DEF Members
<1>3. MaxTimers \in Nat
  BY TimerAssumption
<1>4. IsFiniteSet(Members(ls))
  <2>1. IsFiniteSet(TimerIds)
    BY <1>3, FS_Interval DEF TimerIds
  <2> QED
    BY <1>2, <2>1, FS_Subset
<1>5. \A t \in Members(ls) : t \in 1..Len(tm) /\ t \in Nat /\ t # NoTimer
  BY <1>1, <1>2, <1>3 DEF Members, Ordered, TimerIds, NoTimer
<1>6. \A t \in Members(ls) : tm[t] \in Timer
  BY <1>5 DEF Ordered
<1> QED
  BY <1>1, <1>2, <1>4, <1>5, <1>6

(* Listed is the members of the list. *)
LEMMA ListedIs ==
  ASSUME list \in Seq(TimerIds)
  PROVE  Listed = Members(list)
BY DEF Listed, Members, Range

(* The place of a member, and the timer after it. *)
LEMMA AfterIs ==
  ASSUME NEW tm, Ordered(list, tm), NEW t \in Members(list)
  PROVE  /\ Place(t) \in 1..Len(list) /\ list[Place(t)] = t
         /\ After(t) # NoTimer =>
              /\ After(t) \in Members(list) /\ After(t) > t
              /\ \A u \in Members(list) : u < After(t) => u <= t
         /\ After(t) = NoTimer => \A u \in Members(list) : u <= t
<1>1. Place(t) \in 1..Len(list) /\ list[Place(t)] = t
  <2>1. \E i \in 1..Len(list) : list[i] = t
    BY DEF Members
  <2> QED
    BY <2>1 DEF Place
<1>2. /\ Len(list) \in Nat
      /\ \A i \in 1..Len(list) : list[i] \in Nat /\ list[i] # NoTimer
      /\ \A i, j \in 1..Len(list) : i < j => list[i] < list[j]
  BY MembersAre DEF Ordered, Members
<1> DEFINE p == Place(t)
<1>3. p \in 1..Len(list) /\ list[p] = t /\ After(t) = IF p < Len(list) THEN list[p + 1] ELSE NoTimer
  BY <1>1 DEF After
<1> HIDE DEF p
<1>4. CASE p < Len(list)
  <2>1. p + 1 \in 1..Len(list) /\ After(t) = list[p + 1]
    BY <1>2, <1>3, <1>4
  <2>2. After(t) \in Members(list) /\ After(t) > t /\ After(t) # NoTimer
    BY <1>2, <1>3, <2>1 DEF Members
  <2>3. ASSUME NEW i \in 1..Len(list), list[i] < list[p + 1]
        PROVE  list[i] <= t
    <3>1. ~(i > p + 1) /\ i # p + 1
      BY <1>2, <2>1, <2>3
    <3>2. i < p \/ i = p
      BY <1>2, <1>3, <3>1
    <3> QED
      BY <1>2, <1>3, <3>2
  <2> QED
    BY <1>1, <2>1, <2>2, <2>3 DEF Members
<1>5. CASE ~(p < Len(list))
  <2>1. p = Len(list) /\ After(t) = NoTimer
    BY <1>2, <1>3, <1>5
  <2>2. ASSUME NEW i \in 1..Len(list)
        PROVE  list[i] <= t
    <3>1. i < p \/ i = p
      BY <1>2, <2>1
    <3> QED
      BY <1>2, <1>3, <3>1
  <2> QED
    BY <1>1, <2>1, <2>2 DEF Members
<1> QED
  BY <1>4, <1>5

(* A timer unlinked. *)
LEMMA UnlinkIs ==
  ASSUME NEW tm, Ordered(list, tm), NEW t \in Members(list)
  PROVE  Ordered(Unlink(t), tm) /\ Members(Unlink(t)) = Members(list) \ {t}
<1> DEFINE p == Place(t)
           ls == Unlink(t)
<1>1. p \in 1..Len(list) /\ list[p] = t
  BY AfterIs
<1>2. /\ list \in Seq(TimerIds) /\ Len(list) \in Nat
      /\ \A i \in 1..Len(list) : list[i] \in Nat
      /\ \A i, j \in 1..Len(list) : i < j => list[i] < list[j]
      /\ \A i \in 1..Len(list) : list[i] <= Len(tm)
      /\ tm \in Seq(Timer) /\ Len(tm) <= MaxTimers
  BY MembersAre DEF Ordered, Members
<1>0. ls = RemoveAt(list, p)
  BY DEF Unlink
<1> HIDE DEF p, ls
<1>3. /\ ls \in Seq(TimerIds) /\ Len(ls) = Len(list) - 1
      /\ \A n \in 1..(Len(list) - 1) : ls[n] = IF n < p THEN list[n] ELSE list[n + 1]
  <2>1. list \in Seq(TimerIds) /\ p \in 1..Len(list)
    BY <1>1, <1>2
  <2>2. /\ RemoveAt(list, p) \in Seq(TimerIds) /\ Len(RemoveAt(list, p)) = Len(list) - 1
        /\ \A n \in 1..(Len(list) - 1) :
             RemoveAt(list, p)[n] = IF n < p THEN list[n] ELSE list[n + 1]
    BY <2>1, RemoveAtIs
  <2> QED
    BY <1>0, <2>2
<1>4. \A n \in 1..(Len(list) - 1) :
        /\ n < p => n \in 1..Len(list) /\ ls[n] = list[n]
        /\ ~(n < p) => n + 1 \in 1..Len(list) /\ ls[n] = list[n + 1]
  BY <1>1, <1>2, <1>3
<1>5. \A n \in 1..Len(ls) : ls[n] <= Len(tm)
  BY <1>2, <1>3, <1>4
<1>6. ASSUME NEW i \in 1..Len(ls), NEW j \in 1..Len(ls), i < j
      PROVE  ls[i] < ls[j]
  <2>1. i \in 1..(Len(list) - 1) /\ j \in 1..(Len(list) - 1)
    BY <1>3
  <2>2. CASE j < p
    BY <1>1, <1>2, <1>4, <1>6, <2>1, <2>2
  <2>3. CASE ~(i < p)
    BY <1>1, <1>2, <1>4, <1>6, <2>1, <2>3
  <2>4. CASE i < p /\ ~(j < p)
    <3>1. i \in 1..Len(list) /\ j + 1 \in 1..Len(list) /\ i < j + 1
      BY <1>4, <1>6, <2>1, <2>4
    <3> QED
      BY <1>2, <1>4, <2>1, <2>4, <3>1
  <2> QED
    BY <1>1, <2>1, <2>2, <2>3, <2>4
<1>7. Members(ls) = Members(list) \ {t}
  <2>1. ASSUME NEW n \in 1..Len(ls)
        PROVE  ls[n] \in Members(list) \ {t}
    <3>1. PICK m \in 1..Len(list) : ls[n] = list[m] /\ m # p
      BY <1>1, <1>3, <1>4
    <3>2. list[m] # list[p]
      BY <1>1, <1>2, <3>1
    <3> QED
      BY <1>1, <3>1, <3>2 DEF Members
  <2>2. ASSUME NEW m \in 1..Len(list), list[m] # t
        PROVE  list[m] \in Members(ls)
    <3>1. m # p
      BY <1>1, <2>2
    <3>2. CASE m < p
      <4>1. m \in 1..(Len(list) - 1)
        BY <1>1, <1>2, <3>2
      <4> QED
        BY <1>3, <1>4, <3>2, <4>1 DEF Members
    <3>3. CASE m > p
      <4>1. m - 1 \in 1..(Len(list) - 1) /\ ~(m - 1 < p) /\ (m - 1) + 1 = m
        BY <1>1, <1>2, <3>3
      <4> QED
        BY <1>3, <1>4, <4>1 DEF Members
    <3> QED
      BY <1>1, <1>2, <3>1, <3>2, <3>3
  <2> QED
    BY <2>1, <2>2 DEF Members
<1> QED
  BY <1>2, <1>3, <1>5, <1>6, <1>7 DEF Ordered, ls

-----------------------------------------------------------------------------
(* The stack.                                                              *)

(* What the top frame may interrupt: no scan, and nothing of a higher priority. *)
Interrupts(f, s) ==
  /\ \A d \in 1..Len(s) : s[d].pc # "scan"
  /\ \A d \in 1..Len(s) : d = Len(s) => MayInterrupt(f, s[d])
  /\ \A t \in TimerIds : RunsAt(f, t) => ~Runs(s, t)

(* A sound stack without its top frame, and the top frame. *)
LEMMA SoundFront ==
  ASSUME NEW s, NEW L, NEW n, StackSound(s, L, n), s # <<>>
  PROVE  /\ StackSound(Front(s), L, n) /\ FrameSound(Last(s), L, n)
         /\ Interrupts(Last(s), Front(s)) /\ Last(s) \in Frame
<1>1. /\ s \in Seq(Frame)
      /\ \A d \in 1..Len(s) : FrameSound(s[d], L, n)
      /\ \A d \in 1..Len(s) : d < Len(s) => s[d].pc # "scan"
      /\ \A d \in 2..Len(s) : MayInterrupt(s[d], s[d - 1])
      /\ \A d, e \in 1..Len(s) : \A t \in TimerIds : RunsAt(s[d], t) /\ RunsAt(s[e], t) => d = e
  BY DEF StackSound
<1> DEFINE r == Front(s)
<1>2. /\ r \in Seq(Frame) /\ Len(r) = Len(s) - 1 /\ Len(s) \in Nat \ {0}
      /\ \A d \in 1..(Len(s) - 1) : r[d] = s[d]
      /\ Last(s) = s[Len(s)] /\ Last(s) \in Frame
  BY <1>1, FrontIs
<1> HIDE DEF r
<1>3. \A d \in 1..Len(r) : d \in 1..Len(s) /\ d < Len(s) /\ r[d] = s[d]
  BY <1>2
<1>4. \A d \in 1..Len(r) : FrameSound(r[d], L, n) /\ r[d].pc # "scan"
  BY <1>1, <1>3
<1>5. ASSUME NEW d \in 2..Len(r)
      PROVE  MayInterrupt(r[d], r[d - 1])
  <2>1. d \in 2..Len(s) /\ d \in 1..Len(r) /\ d - 1 \in 1..Len(r)
    BY <1>2
  <2> QED
    BY <1>1, <1>3, <2>1
<1>6. ASSUME NEW d \in 1..Len(r), NEW e \in 1..Len(r), NEW t \in TimerIds,
             RunsAt(r[d], t), RunsAt(r[e], t)
      PROVE  d = e
  BY <1>1, <1>3, <1>6
<1>7. StackSound(r, L, n)
  BY <1>2, <1>4, <1>5, <1>6 DEF StackSound
<1>8. FrameSound(Last(s), L, n)
  BY <1>1, <1>2
<1>9. ASSUME NEW d \in 1..Len(r), d = Len(r)
      PROVE  MayInterrupt(Last(s), r[d])
  <2>1. Len(s) \in 2..Len(s) /\ Len(s) - 1 = d
    BY <1>2, <1>9
  <2> QED
    BY <1>1, <1>2, <1>3, <1>9, <2>1
<1>10. ASSUME NEW t \in TimerIds, RunsAt(Last(s), t), NEW d \in 1..Len(r), RunsAt(r[d], t)
       PROVE  FALSE
  <2>1. Len(s) \in 1..Len(s) /\ d \in 1..Len(s) /\ d # Len(s)
    BY <1>2
  <2> QED
    BY <1>1, <1>2, <1>3, <1>10, <2>1
<1>11. Interrupts(Last(s), r)
  BY <1>4, <1>9, <1>10 DEF Interrupts, Runs
<1> QED
  BY <1>2, <1>7, <1>8, <1>11 DEF r

(* A sound frame on top of a sound stack. *)
LEMMA SoundAppend ==
  ASSUME NEW s, NEW L, NEW n, StackSound(s, L, n), NEW f \in Frame,
         FrameSound(f, L, n), Interrupts(f, s)
  PROVE  StackSound(Append(s, f), L, n)
<1>1. /\ s \in Seq(Frame)
      /\ \A d \in 1..Len(s) : FrameSound(s[d], L, n)
      /\ \A d \in 2..Len(s) : MayInterrupt(s[d], s[d - 1])
      /\ \A d, e \in 1..Len(s) : \A t \in TimerIds : RunsAt(s[d], t) /\ RunsAt(s[e], t) => d = e
  BY DEF StackSound
<1> DEFINE r == Append(s, f)
<1>2. /\ r \in Seq(Frame) /\ Len(r) = Len(s) + 1 /\ Len(s) \in Nat
      /\ \A d \in 1..Len(s) : r[d] = s[d]
      /\ r[Len(s) + 1] = f
  BY <1>1
<1> HIDE DEF r
<1>3. \A d \in 1..Len(r) : d \in 1..Len(s) \/ d = Len(s) + 1
  BY <1>2
<1>4. \A d \in 1..Len(r) : FrameSound(r[d], L, n)
  BY <1>1, <1>2, <1>3
<1>5. \A d \in 1..Len(r) : d < Len(r) => r[d].pc # "scan"
  BY <1>2, <1>3 DEF Interrupts, Runs
<1>6. ASSUME NEW d \in 2..Len(r)
      PROVE  MayInterrupt(r[d], r[d - 1])
  <2>1. CASE d = Len(s) + 1
    <3>1. d - 1 = Len(s) /\ d - 1 \in 1..Len(s) /\ r[d] = f
      BY <1>2, <2>1
    <3> QED
      BY <1>2, <3>1 DEF Interrupts, Runs
  <2>2. CASE d # Len(s) + 1
    <3>1. d \in 2..Len(s) /\ d \in 1..Len(s) /\ d - 1 \in 1..Len(s)
      BY <1>2, <2>2
    <3> QED
      BY <1>1, <1>2, <3>1
  <2> QED
    BY <2>1, <2>2
<1>7. ASSUME NEW d \in 1..Len(r), NEW e \in 1..Len(r), NEW t \in TimerIds,
             RunsAt(r[d], t), RunsAt(r[e], t)
      PROVE  d = e
  BY <1>1, <1>2, <1>3, <1>7 DEF Interrupts, Runs
<1>8. StackSound(r, L, n)
  BY <1>2, <1>4, <1>5, <1>6, <1>7 DEF StackSound
<1> QED
  BY <1>8 DEF r

(* The frame of the top, and the stack with another frame there. *)
LEMMA TopIs ==
  ASSUME stack \in Seq(Frame), stack # <<>>, NEW f \in Frame
  PROVE  Top = Last(stack) /\ Top \in Frame /\ WithTop(f) = Append(Front(stack), f)
<1> DEFINE r == Front(stack)
           w == WithTop(f)
           a == Append(r, f)
<1>1. /\ r \in Seq(Frame) /\ Len(r) = Len(stack) - 1 /\ Len(stack) \in Nat \ {0}
      /\ \A d \in 1..(Len(stack) - 1) : r[d] = stack[d]
      /\ Last(stack) = stack[Len(stack)] /\ Last(stack) \in Frame
  BY FrontIs
<1>2. /\ w \in Seq(Frame) /\ Len(w) = Len(stack)
      /\ \A d \in 1..Len(stack) : w[d] = IF d = Len(stack) THEN f ELSE stack[d]
  BY <1>1 DEF WithTop
<1> HIDE DEF r, w
<1>3. /\ a \in Seq(Frame) /\ Len(a) = Len(stack)
      /\ \A d \in 1..Len(stack) : a[d] = IF d = Len(stack) THEN f ELSE r[d]
  BY <1>1
<1> HIDE DEF a
<1>4. \A d \in 1..Len(stack) : a[d] = w[d]
  BY <1>1, <1>2, <1>3
<1>5. a = w
  BY <1>2, <1>3, <1>4
<1> QED
  BY <1>1, <1>5 DEF Top, a, r, w

(* What a stack runs and locks is what its top frame does, and the others. *)
LEMMA RunsFront ==
  ASSUME NEW s \in Seq(Frame), s # <<>>, NEW t
  PROVE  /\ Runs(s, t) <=> RunsAt(Last(s), t) \/ Runs(Front(s), t)
         /\ Count(s, Locks(t)) \in Nat /\ Count(Front(s), Locks(t)) \in Nat
         /\ Last(s) \in Locks(t) => Count(s, Locks(t)) = Count(Front(s), Locks(t)) + 1
         /\ Last(s) \notin Locks(t) => Count(s, Locks(t)) = Count(Front(s), Locks(t))
<1> DEFINE r == Front(s)
<1>1. /\ r \in Seq(Frame) /\ Len(r) = Len(s) - 1 /\ Len(s) \in Nat \ {0}
      /\ \A d \in 1..(Len(s) - 1) : r[d] = s[d]
      /\ Last(s) = s[Len(s)]
  BY FrontIs
<1> HIDE DEF r
<1>2. Runs(s, t) <=> RunsAt(Last(s), t) \/ Runs(r, t)
  <2>1. \A d \in 1..Len(s) : d = Len(s) \/ d \in 1..Len(r)
    BY <1>1
  <2>2. \A d \in 1..Len(r) : d \in 1..Len(s) /\ r[d] = s[d]
    BY <1>1
  <2>3. Len(s) \in 1..Len(s)
    BY <1>1
  <2> QED
    BY <1>1, <2>1, <2>2, <2>3 DEF Runs
<1> QED
  BY <1>2, CountFront DEF r

(* The same of a stack that grows. *)
LEMMA RunsAppend ==
  ASSUME NEW s \in Seq(Frame), NEW f \in Frame, NEW t
  PROVE  /\ Runs(Append(s, f), t) <=> RunsAt(f, t) \/ Runs(s, t)
         /\ Count(s, Locks(t)) \in Nat
         /\ f \in Locks(t) => Count(Append(s, f), Locks(t)) = Count(s, Locks(t)) + 1
         /\ f \notin Locks(t) => Count(Append(s, f), Locks(t)) = Count(s, Locks(t))
<1> DEFINE r == Append(s, f)
<1>1. /\ Len(r) = Len(s) + 1 /\ Len(s) \in Nat
      /\ \A d \in 1..Len(s) : r[d] = s[d]
      /\ r[Len(s) + 1] = f
  OBVIOUS
<1> HIDE DEF r
<1>2. \A d \in 1..Len(r) : d = Len(s) + 1 \/ d \in 1..Len(s)
  BY <1>1
<1>3. Len(s) + 1 \in 1..Len(r) /\ \A d \in 1..Len(s) : d \in 1..Len(r)
  BY <1>1
<1>4. Runs(r, t) <=> RunsAt(f, t) \/ Runs(s, t)
  BY <1>1, <1>2, <1>3 DEF Runs
<1> QED
  BY <1>4, CountAppend DEF r

-----------------------------------------------------------------------------
(* The parts of a step.                                                    *)

(* tm2 is tm with the numbers of the timers of L changed by what frame f runs and
   locks: by -1 when the frame goes, by 1 when it comes. *)
Shifted(tm, tm2, L, f, by) ==
  /\ Len(tm2) = Len(tm)
  /\ \A t \in L :
       /\ tm2[t].enabled <=> tm[t].enabled
       /\ RunsAt(f, t) => tm2[t].threads = tm[t].threads + by
       /\ ~RunsAt(f, t) => tm2[t].threads = tm[t].threads
       /\ f \in Locks(t) => tm2[t].locked = tm[t].locked + by
       /\ f \notin Locks(t) => tm2[t].locked = tm[t].locked

(* The count of enabled timers does not change with them. *)
LEMMA SameCount ==
  ASSUME NEW L, NEW tm, NEW tm2, NEW en, CountTold(tm, L, en),
         \A t \in L : tm2[t].enabled <=> tm[t].enabled
  PROVE  CountTold(tm2, L, en)
<1>1. {t \in L : tm2[t].enabled} = {t \in L : tm[t].enabled}
  OBVIOUS
<1> QED
  BY <1>1 DEF CountTold

(* The top frame goes; a timer that it ran or had locked may now be idle. *)
LEMMA Pop ==
  ASSUME NEW s, NEW tm, NEW ls, NEW en, NEW X, Good(s, tm, ls, en, X), s # <<>>,
         NEW tm2, Ordered(ls, tm2), Shifted(tm, tm2, Members(ls), Last(s), -1),
         NEW Y, \A t \in Members(ls) : RunsAt(Last(s), t) \/ Last(s) \in Locks(t) => t \in Y
  PROVE  Good(Front(s), tm2, ls, en, X \cup Y)
<1> DEFINE L == Members(ls)
           f == Last(s)
           r == Front(s)
<1>1. /\ StackSound(s, L, Len(tm)) /\ Told(s, tm, L) /\ CountTold(tm, L, en)
      /\ NoneIdle(tm, L, X) /\ Ordered(ls, tm)
  BY DEF Good
<1>2. L \subseteq TimerIds /\ \A t \in L : tm[t] \in Timer /\ tm2[t] \in Timer
  BY <1>1, MembersAre
<1>3. StackSound(r, L, Len(tm)) /\ Interrupts(f, r)
  BY <1>1, SoundFront
<1>4. s \in Seq(Frame)
  BY <1>1 DEF StackSound
<1> HIDE DEF L, f, r
<1>5. Len(tm2) = Len(tm)
  BY DEF Shifted
<1>6. Told(r, tm2, L)
  <2>1. ASSUME NEW t \in L
        PROVE  /\ Runs(r, t) => tm2[t].threads = 1
               /\ ~Runs(r, t) => tm2[t].threads = 0
               /\ tm2[t].locked = Count(r, Locks(t))
    <3>1. /\ Runs(s, t) <=> RunsAt(f, t) \/ Runs(r, t)
          /\ Count(s, Locks(t)) \in Nat /\ Count(r, Locks(t)) \in Nat
          /\ f \in Locks(t) => Count(s, Locks(t)) = Count(r, Locks(t)) + 1
          /\ f \notin Locks(t) => Count(s, Locks(t)) = Count(r, Locks(t))
      BY <1>4, RunsFront DEF f, r
    <3>2. /\ Runs(s, t) => tm[t].threads = 1
          /\ ~Runs(s, t) => tm[t].threads = 0
          /\ tm[t].locked = Count(s, Locks(t))
      BY <1>1 DEF Told, L
    <3>3. /\ RunsAt(f, t) => tm2[t].threads = tm[t].threads + (-1)
          /\ ~RunsAt(f, t) => tm2[t].threads = tm[t].threads
          /\ f \in Locks(t) => tm2[t].locked = tm[t].locked + (-1)
          /\ f \notin Locks(t) => tm2[t].locked = tm[t].locked
      BY DEF Shifted, L, f
    <3>4. RunsAt(f, t) => ~Runs(r, t)
      BY <1>2, <1>3 DEF Interrupts, L, f, r
    <3>5. tm2[t].locked = Count(r, Locks(t))
      BY <3>1, <3>2, <3>3
    <3>6. CASE RunsAt(f, t)
      BY <3>1, <3>2, <3>3, <3>4, <3>5, <3>6
    <3>7. CASE ~RunsAt(f, t)
      BY <3>1, <3>2, <3>3, <3>5, <3>7
    <3> QED
      BY <3>6, <3>7
  <2> QED
    BY <2>1 DEF Told
<1>7. CountTold(tm2, L, en)
  <2>1. \A t \in L : tm2[t].enabled <=> tm[t].enabled
    BY DEF Shifted, L
  <2> QED
    BY <1>1, <2>1, SameCount DEF L
<1>8. NoneIdle(tm2, L, X \cup Y)
  <2>1. ASSUME NEW t \in L, t \notin X, t \notin Y
        PROVE  tm2[t].enabled \/ tm2[t].threads > 0 \/ tm2[t].locked > 0
    <3>1. ~RunsAt(f, t) /\ f \notin Locks(t)
      BY <2>1 DEF L, f
    <3>2. /\ tm2[t].enabled <=> tm[t].enabled
          /\ tm2[t].threads = tm[t].threads /\ tm2[t].locked = tm[t].locked
      BY <3>1 DEF Shifted, L, f
    <3> QED
      BY <1>1, <2>1, <3>2 DEF NoneIdle, L
  <2> QED
    BY <2>1 DEF NoneIdle
<1>9. StackSound(r, L, Len(tm2))
  BY <1>3, <1>5 DEF L, r
<1> QED
  BY <1>6, <1>7, <1>8, <1>9 DEF Good, L, r

(* A frame comes on top. *)
LEMMA Push ==
  ASSUME NEW s, NEW tm, NEW ls, NEW en, NEW X, Good(s, tm, ls, en, X),
         NEW f \in Frame, FrameSound(f, Members(ls), Len(tm)), Interrupts(f, s),
         NEW tm2, Ordered(ls, tm2), Shifted(tm, tm2, Members(ls), f, 1)
  PROVE  Good(Append(s, f), tm2, ls, en, X)
<1> DEFINE L == Members(ls)
           r == Append(s, f)
<1>1. /\ StackSound(s, L, Len(tm)) /\ Told(s, tm, L) /\ CountTold(tm, L, en)
      /\ NoneIdle(tm, L, X) /\ Ordered(ls, tm)
  BY DEF Good
<1>2. L \subseteq TimerIds /\ \A t \in L : tm[t] \in Timer /\ tm2[t] \in Timer
  BY <1>1, MembersAre
<1>3. Len(tm2) = Len(tm)
  BY DEF Shifted
<1>4. StackSound(r, L, Len(tm2)) /\ s \in Seq(Frame)
  BY <1>1, <1>3, SoundAppend DEF StackSound
<1> HIDE DEF L, r
<1>5. ASSUME NEW t \in L
      PROVE  /\ tm2[t].enabled <=> tm[t].enabled
             /\ RunsAt(f, t) => tm2[t].threads = tm[t].threads + 1
             /\ ~RunsAt(f, t) => tm2[t].threads = tm[t].threads
             /\ f \in Locks(t) => tm2[t].locked = tm[t].locked + 1
             /\ f \notin Locks(t) => tm2[t].locked = tm[t].locked
             /\ tm[t].threads \in Nat /\ tm[t].locked \in Nat
  BY <1>2 DEF Shifted, L, Timer
<1>6. Told(r, tm2, L)
  <2>1. ASSUME NEW t \in L
        PROVE  /\ Runs(r, t) => tm2[t].threads = 1
               /\ ~Runs(r, t) => tm2[t].threads = 0
               /\ tm2[t].locked = Count(r, Locks(t))
    <3>1. /\ Runs(r, t) <=> RunsAt(f, t) \/ Runs(s, t)
          /\ Count(s, Locks(t)) \in Nat
          /\ f \in Locks(t) => Count(r, Locks(t)) = Count(s, Locks(t)) + 1
          /\ f \notin Locks(t) => Count(r, Locks(t)) = Count(s, Locks(t))
      BY <1>4, RunsAppend DEF r
    <3>2. /\ Runs(s, t) => tm[t].threads = 1
          /\ ~Runs(s, t) => tm[t].threads = 0
          /\ tm[t].locked = Count(s, Locks(t))
      BY <1>1 DEF Told, L
    <3>3. RunsAt(f, t) => ~Runs(s, t)
      BY <1>2 DEF Interrupts, L
    <3> QED
      BY <1>5, <3>1, <3>2, <3>3
  <2> QED
    BY <2>1 DEF Told
<1>7. CountTold(tm2, L, en)
  BY <1>1, <1>5, SameCount DEF L
<1>8. NoneIdle(tm2, L, X)
  <2>1. ASSUME NEW t \in L, t \notin X
        PROVE  tm2[t].enabled \/ tm2[t].threads > 0 \/ tm2[t].locked > 0
    <3>1. tm[t].enabled \/ tm[t].threads > 0 \/ tm[t].locked > 0
      BY <1>1, <2>1 DEF NoneIdle, L
    <3> QED
      BY <1>5, <3>1
  <2> QED
    BY <2>1 DEF NoneIdle
<1> QED
  BY <1>4, <1>6, <1>7, <1>8 DEF Good, L, r

(* One timer is enabled or disabled: the count follows. *)
LEMMA CountMoves ==
  ASSUME NEW L, IsFiniteSet(L), NEW t \in L, NEW tm, NEW tm2, NEW en,
         CountTold(tm, L, en), \A u \in L \ {t} : tm2[u].enabled <=> tm[u].enabled
  PROVE  /\ (tm2[t].enabled <=> tm[t].enabled) => CountTold(tm2, L, en)
         /\ tm[t].enabled /\ ~tm2[t].enabled => CountTold(tm2, L, en - 1)
         /\ ~tm[t].enabled /\ tm2[t].enabled => CountTold(tm2, L, en + 1)
         /\ en \in Nat
<1> DEFINE A == {u \in L : tm[u].enabled}
           B == {u \in L : tm2[u].enabled}
<1>1. IsFiniteSet(A) /\ IsFiniteSet(B) /\ Cardinality(A) \in Nat
  BY FS_Subset, FS_CardinalityType
<1>2. en = Cardinality(A)
  BY DEF CountTold
<1>3. CASE tm2[t].enabled <=> tm[t].enabled
  <2>1. A = B
    BY <1>3
  <2> QED
    BY <1>1, <1>2, <1>3, <2>1 DEF CountTold
<1>4. CASE tm[t].enabled /\ ~tm2[t].enabled
  <2>1. B = A \ {t} /\ t \in A
    BY <1>4
  <2>2. Cardinality(B) = Cardinality(A) - 1
    BY <1>1, <2>1, FS_RemoveElement
  <2> QED
    BY <1>1, <1>2, <1>4, <2>2 DEF CountTold
<1>5. CASE ~tm[t].enabled /\ tm2[t].enabled
  <2>1. B = A \cup {t} /\ t \notin A
    BY <1>5
  <2>2. Cardinality(B) = Cardinality(A) + 1
    BY <1>1, <2>1, FS_AddElement
  <2> QED
    BY <1>1, <1>2, <1>5, <2>2 DEF CountTold
<1> QED
  BY <1>1, <1>2, <1>3, <1>4, <1>5

(* A timer is enabled or disabled and its numbers stay; if it is disabled it may
   now be idle. *)
LEMMA Switch ==
  ASSUME NEW s, NEW tm, NEW ls, NEW en, NEW X, Good(s, tm, ls, en, X),
         NEW t \in Members(ls), NEW tm2, Ordered(ls, tm2), Len(tm2) = Len(tm),
         \A u \in Members(ls) : u # t => tm2[u] = tm[u],
         tm2[t].threads = tm[t].threads, tm2[t].locked = tm[t].locked,
         NEW en2,
         (tm2[t].enabled <=> tm[t].enabled) => en2 = en,
         tm[t].enabled /\ ~tm2[t].enabled => en2 = en - 1,
         ~tm[t].enabled /\ tm2[t].enabled => en2 = en + 1,
         NEW Y, ~tm2[t].enabled => t \in Y
  PROVE  Good(s, tm2, ls, en2, X \cup Y)
<1> DEFINE L == Members(ls)
<1>1. /\ StackSound(s, L, Len(tm)) /\ Told(s, tm, L) /\ CountTold(tm, L, en)
      /\ NoneIdle(tm, L, X) /\ Ordered(ls, tm) /\ IsFiniteSet(L)
  BY MembersAre DEF Good
<1> HIDE DEF L
<1>2. Told(s, tm2, L)
  <2>1. \A u \in L : tm2[u].threads = tm[u].threads /\ tm2[u].locked = tm[u].locked
    BY DEF L
  <2> QED
    BY <1>1, <2>1 DEF Told
<1>3. CountTold(tm2, L, en2)
  <2>1. \A u \in L \ {t} : tm2[u].enabled <=> tm[u].enabled
    BY DEF L
  <2>2. /\ (tm2[t].enabled <=> tm[t].enabled) => CountTold(tm2, L, en)
        /\ tm[t].enabled /\ ~tm2[t].enabled => CountTold(tm2, L, en - 1)
        /\ ~tm[t].enabled /\ tm2[t].enabled => CountTold(tm2, L, en + 1)
    BY <1>1, <2>1, CountMoves DEF L
  <2> QED
    BY <2>2
<1>4. NoneIdle(tm2, L, X \cup Y)
  <2>1. \A u \in L \ (X \cup Y) : u # t => tm2[u].enabled \/ tm2[u].threads > 0 \/ tm2[u].locked > 0
    BY <1>1 DEF NoneIdle, L
  <2> QED
    BY <2>1 DEF NoneIdle
<1> QED
  BY <1>1, <1>2, <1>3, <1>4 DEF Good, L

(* A timer that is enabled or in use needs no exception. *)
LEMMA Settle ==
  ASSUME NEW s, NEW tm, NEW ls, NEW en, NEW X, Good(s, tm, ls, en, X),
         \A t \in Members(ls) \cap X : tm[t].enabled \/ tm[t].threads > 0 \/ tm[t].locked > 0
  PROVE  Good(s, tm, ls, en, {})
BY DEF Good, NoneIdle

(* An idle timer is unlinked from under a stack in which no pass scans. *)
LEMMA Reaped ==
  ASSUME NEW s, NEW tm, NEW en, NEW t \in Members(list), Good(s, tm, list, en, {t}),
         ~tm[t].enabled, tm[t].threads = 0, tm[t].locked = 0,
         \A d \in 1..Len(s) : s[d].pc # "scan"
  PROVE  Good(s, tm, Unlink(t), en, {})
<1> DEFINE L == Members(list)
           M == Members(Unlink(t))
<1>1. /\ StackSound(s, L, Len(tm)) /\ Told(s, tm, L) /\ CountTold(tm, L, en)
      /\ NoneIdle(tm, L, {t}) /\ Ordered(list, tm)
  BY DEF Good
<1>2. Ordered(Unlink(t), tm) /\ M = L \ {t}
  BY <1>1, UnlinkIs
<1>3. t \in TimerIds /\ t # NoTimer
  BY <1>1, MembersAre
<1>4. s \in Seq(Frame)
  BY <1>1 DEF StackSound
<1> HIDE DEF L, M
<1>5. ~Runs(s, t) /\ Count(s, Locks(t)) = 0
  BY <1>1 DEF Told, L
<1>6. ASSUME NEW d \in 1..Len(s)
      PROVE  ~RunsAt(s[d], t) /\ s[d] \notin Locks(t)
  <2>1. ~RunsAt(s[d], t)
    BY <1>5 DEF Runs
  <2>2. s[d] \notin Locks(t)
    <3>1. d \in DOMAIN s
      BY <1>4
    <3>2. Count(s, Locks(t)) \in Nat /\ (Count(s, Locks(t)) > 0 <=> \E n \in DOMAIN s : s[n] \in Locks(t))
      BY <1>4, CountSome
    <3> QED
      BY <1>5, <3>1, <3>2
  <2> QED
    BY <2>1, <2>2
<1>7. ASSUME NEW d \in 1..Len(s)
      PROVE  FrameSound(s[d], M, Len(tm))
  <2>1. FrameSound(s[d], L, Len(tm)) /\ s[d] \in Frame /\ s[d].pc # "scan"
    BY <1>1, <1>4 DEF StackSound
  <2>2. s[d].pc = "run" => s[d].at # t
    BY <1>6 DEF RunsAt
  <2>3. s[d].pc = "release" => s[d].next # t
    BY <1>6, <2>1 DEF Locks
  <2> QED
    BY <1>2, <2>1, <2>2, <2>3 DEF FrameSound, SeenBefore, SeenAll
<1>8. StackSound(s, M, Len(tm))
  BY <1>1, <1>7 DEF StackSound
<1>9. Told(s, tm, M) /\ NoneIdle(tm, M, {})
  BY <1>1, <1>2 DEF Told, NoneIdle
<1>10. CountTold(tm, M, en)
  <2>1. {u \in M : tm[u].enabled} = {u \in L : tm[u].enabled}
    BY <1>2 DEF L
  <2> QED
    BY <1>1, <2>1 DEF CountTold
<1> QED
  BY <1>2, <1>8, <1>9, <1>10 DEF Good, M

(* A timer is created, and goes to the end of the list. *)
LEMMA Created ==
  ASSUME NEW s, NEW tm, NEW ls, NEW en, Good(s, tm, ls, en, {}),
         NEW u \in Timer, u.enabled, u.threads = 0, u.locked = 0, Len(tm) + 1 <= MaxTimers
  PROVE  Good(s, Append(tm, u), Append(ls, Len(tm) + 1), en + 1, {})
<1> DEFINE L == Members(ls)
           n == Len(tm) + 1
           tm2 == Append(tm, u)
           ls2 == Append(ls, n)
           M == Members(ls2)
<1>1. /\ StackSound(s, L, Len(tm)) /\ Told(s, tm, L) /\ CountTold(tm, L, en)
      /\ NoneIdle(tm, L, {}) /\ Ordered(ls, tm)
  BY DEF Good
<1>2. /\ L \subseteq TimerIds /\ IsFiniteSet(L) /\ Len(ls) \in Nat /\ Len(tm) \in Nat
      /\ \A t \in L : t \in 1..Len(tm) /\ t \in Nat
      /\ s \in Seq(Frame)
  BY <1>1, MembersAre DEF StackSound
<1>3. n \in TimerIds /\ n # NoTimer /\ n \notin L
  BY <1>2, TimerAssumption DEF TimerIds, NoTimer
<1>4. /\ tm2 \in Seq(Timer) /\ Len(tm2) = n /\ tm2[n] = u
      /\ \A t \in 1..Len(tm) : tm2[t] = tm[t]
  BY <1>1 DEF Ordered
<1>5. /\ ls2 \in Seq(TimerIds) /\ Len(ls2) = Len(ls) + 1 /\ ls2[Len(ls) + 1] = n
      /\ \A i \in 1..Len(ls) : ls2[i] = ls[i]
  BY <1>1, <1>3 DEF Ordered
<1> HIDE DEF tm2, ls2
<1>6. M = L \cup {n}
  <2>1. \A i \in 1..Len(ls2) : i = Len(ls) + 1 \/ i \in 1..Len(ls)
    BY <1>2, <1>5
  <2>2. Len(ls) + 1 \in 1..Len(ls2) /\ \A i \in 1..Len(ls) : i \in 1..Len(ls2)
    BY <1>2, <1>5
  <2> QED
    BY <1>5, <2>1, <2>2 DEF Members
<1>7. Ordered(ls2, tm2)
  <2>1. \A i \in 1..Len(ls) : ls[i] \in Nat /\ ls[i] <= Len(tm)
    BY <1>1, <1>2 DEF Ordered, Members
  <2>2. \A i \in 1..Len(ls2) : ls2[i] <= n
    <3>1. ASSUME NEW i \in 1..Len(ls2)
          PROVE  ls2[i] <= n
      <4>1. CASE i = Len(ls) + 1
        BY <1>2, <1>5, <4>1
      <4>2. CASE i # Len(ls) + 1
        <5>1. i \in 1..Len(ls)
          BY <1>2, <1>5, <4>2
        <5> QED
          BY <1>2, <1>5, <2>1, <5>1
      <4> QED
        BY <4>1, <4>2
    <3> QED
      BY <3>1
  <2>3. ASSUME NEW i \in 1..Len(ls2), NEW j \in 1..Len(ls2), i < j
        PROVE  ls2[i] < ls2[j]
    <3>1. i \in 1..Len(ls) /\ ls2[i] = ls[i]
      BY <1>2, <1>5, <2>3
    <3>2. CASE j = Len(ls) + 1
      BY <1>2, <1>5, <2>1, <3>1, <3>2
    <3>3. CASE j # Len(ls) + 1
      <4>1. j \in 1..Len(ls) /\ ls2[j] = ls[j]
        BY <1>2, <1>5, <3>3
      <4> QED
        BY <1>1, <2>3, <3>1, <4>1 DEF Ordered
    <3> QED
      BY <3>2, <3>3
  <2> QED
    BY <1>4, <1>5, <2>2, <2>3 DEF Ordered
<1> HIDE DEF L, M
<1>8. ASSUME NEW d \in 1..Len(s)
      PROVE  FrameSound(s[d], M, n)
  <2>1. FrameSound(s[d], L, Len(tm)) /\ s[d] \in Frame
    BY <1>1, <1>2 DEF StackSound
  <2>2. \A w \in s[d].seen : w \in Nat /\ w < n
    BY <1>2, <2>1 DEF FrameSound, Frame, TimerIds
  <2>3. \A w \in s[d].seen : w <= n
    BY <2>2
  <2>4. \A t \in L : t < n
    BY <1>2
  <2>5. \A t \in L : SeenBefore(s[d], t, L) => SeenBefore(s[d], t, M)
    <3>1. \A t \in L : ~(n < t)
      BY <1>2
    <3> QED
      BY <1>6, <3>1 DEF SeenBefore
  <2>6. SeenAll(s[d], L) => SeenAll(s[d], M)
    <3>1. \A w \in s[d].seen : n > w
      BY <2>2
    <3> QED
      BY <1>6, <3>1 DEF SeenAll
  <2> HIDE DEF n
  <2> QED
    BY <1>6, <2>1, <2>3, <2>5, <2>6 DEF FrameSound
<1>9. StackSound(s, M, Len(tm2))
  BY <1>1, <1>4, <1>8 DEF StackSound
<1>10. ASSUME NEW d \in 1..Len(s)
       PROVE  ~RunsAt(s[d], n) /\ s[d] \notin Locks(n)
  <2>1. FrameSound(s[d], L, Len(tm))
    BY <1>1, <1>2 DEF StackSound
  <2> HIDE DEF n
  <2> QED
    BY <1>3, <2>1 DEF FrameSound, RunsAt, Locks
<1>11. ~Runs(s, n) /\ Count(s, Locks(n)) = 0
  <2>1. ~Runs(s, n)
    BY <1>10 DEF Runs
  <2>2. Count(s, Locks(n)) \in Nat /\ (Count(s, Locks(n)) > 0 <=> \E k \in DOMAIN s : s[k] \in Locks(n))
    BY <1>2, CountSome
  <2>3. DOMAIN s = 1..Len(s)
    BY <1>2
  <2> QED
    BY <1>10, <2>1, <2>2, <2>3
<1>12. \A t \in L : tm2[t] = tm[t]
  BY <1>2, <1>4
<1> HIDE DEF n
<1>13. Told(s, tm2, M) /\ NoneIdle(tm2, M, {})
  BY <1>1, <1>4, <1>6, <1>11, <1>12 DEF Told, NoneIdle
<1>14. CountTold(tm2, M, en + 1)
  <2> DEFINE A == {t \in L : tm[t].enabled}
  <2>1. {t \in M : tm2[t].enabled} = A \cup {n}
    BY <1>4, <1>6, <1>12
  <2>2. IsFiniteSet(A) /\ n \notin A
    BY <1>2, <1>3, FS_Subset
  <2>3. Cardinality(A \cup {n}) = Cardinality(A) + 1
    BY <2>2, FS_AddElement
  <2>4. en = Cardinality(A)
    BY <1>1 DEF CountTold
  <2> QED
    BY <2>1, <2>3, <2>4 DEF CountTold
<1> QED
  BY <1>7, <1>9, <1>13, <1>14 DEF Good, L, M, n, tm2, ls2

-----------------------------------------------------------------------------
(* Timers and frames.                                                      *)

(* Another record for a timer of the list. *)
LEMMA TimerSet ==
  ASSUME NEW tm, NEW ls, Ordered(ls, tm), NEW t \in Members(ls), NEW u \in Timer
  PROVE  /\ Ordered(ls, [tm EXCEPT ![t] = u]) /\ Len([tm EXCEPT ![t] = u]) = Len(tm)
         /\ [tm EXCEPT ![t] = u][t] = u
         /\ \A v \in Members(ls) : v # t => [tm EXCEPT ![t] = u][v] = tm[v]
<1> DEFINE tm2 == [tm EXCEPT ![t] = u]
<1>1. tm \in Seq(Timer) /\ t \in 1..Len(tm) /\ \A v \in Members(ls) : v \in 1..Len(tm)
  BY MembersAre DEF Ordered
<1>2. /\ tm2 \in Seq(Timer) /\ Len(tm2) = Len(tm)
      /\ \A v \in 1..Len(tm) : tm2[v] = IF v = t THEN u ELSE tm[v]
  BY <1>1
<1> HIDE DEF tm2
<1>3. Ordered(ls, tm2)
  BY <1>2 DEF Ordered
<1> QED
  BY <1>1, <1>2, <1>3 DEF tm2

(* The frames that the actions put on the stack. *)
LEMMA FramesAre ==
  \A p \in Priorities : /\ Thread(p) \in Frame /\ Thread(p).pc = "run" /\ Thread(p).at = NoTimer
                         /\ Thread(p).next = NoTimer /\ Thread(p).priority = p /\ Thread(p).seen = {}
BY DEF Thread, Frame

(* The priority of a frame is a number. *)
LEMMA FramePriority ==
  ASSUME NEW f \in Frame
  PROVE  /\ f.priority \in Priorities \cup {MinPriority} /\ f.priority \in Int
         /\ f.lowered \in BOOLEAN
<1>1. f.priority \in Priorities \cup {MinPriority} /\ f.lowered \in BOOLEAN
  BY DEF Frame
<1> QED
  BY <1>1, TimerAssumption

(* A frame that runs no timer and locks none. *)
Quiet(f) ==
  /\ f.pc = "run" => f.at = NoTimer
  /\ f.pc = "release" => f.next = NoTimer

(* Such a frame changes no number. *)
LEMMA QuietShifts ==
  ASSUME NEW tm, NEW ls, Ordered(ls, tm), NEW f, Quiet(f), NEW by
  PROVE  Shifted(tm, tm, Members(ls), f, by)
<1>1. \A t \in Members(ls) : t # NoTimer
  BY MembersAre
<1> QED
  BY <1>1 DEF Shifted, Quiet, RunsAt, Locks

(* A quiet top frame goes. *)
LEMMA PopQuiet ==
  ASSUME NEW s, NEW tm, NEW ls, NEW en, Good(s, tm, ls, en, {}), s # <<>>, Quiet(Last(s))
  PROVE  Good(Front(s), tm, ls, en, {})
<1>1. Ordered(ls, tm) /\ \A t \in Members(ls) : t # NoTimer
  BY MembersAre DEF Good
<1>2. Shifted(tm, tm, Members(ls), Last(s), -1)
  BY <1>1, QuietShifts
<1>3. \A t \in Members(ls) : RunsAt(Last(s), t) \/ Last(s) \in Locks(t) => t \in {}
  BY <1>1 DEF Quiet, RunsAt, Locks
<1>4. Good(Front(s), tm, ls, en, {} \cup {})
  BY <1>1, <1>2, <1>3, Pop
<1>5. {} \cup {} = {}
  OBVIOUS
<1> QED
  BY <1>4, <1>5

(* A quiet frame comes. *)
LEMMA PushQuiet ==
  ASSUME NEW s, NEW tm, NEW ls, NEW en, NEW X, Good(s, tm, ls, en, X), NEW f \in Frame,
         Quiet(f), FrameSound(f, Members(ls), Len(tm)), Interrupts(f, s)
  PROVE  Good(Append(s, f), tm, ls, en, X)
<1>1. Ordered(ls, tm)
  BY DEF Good
<1>2. Shifted(tm, tm, Members(ls), f, 1)
  BY <1>1, QuietShifts
<1> QED
  BY <1>1, <1>2, Push

(* What the invariant says of the state. *)
LEMMA Facts ==
  ASSUME IInv
  PROVE  /\ Ordered(list, timer) /\ StackSound(stack, Members(list), Len(timer))
         /\ stack \in Seq(Frame) /\ Listed = Members(list) /\ enabled \in Nat
         /\ \A t \in Members(list) : t \in 1..Len(timer) /\ t \in TimerIds /\ t # NoTimer /\ timer[t] \in Timer
         /\ stack # <<>> => /\ Top = Last(stack) /\ Top \in Frame
                            /\ FrameSound(Top, Members(list), Len(timer))
                            /\ Interrupts(Top, Front(stack))
                            /\ \A d \in 1..Len(Front(stack)) : Front(stack)[d].pc # "scan"
         /\ ~Scanning => \A d \in 1..Len(stack) : stack[d].pc # "scan"
<1>1. /\ Ordered(list, timer) /\ StackSound(stack, Members(list), Len(timer))
      /\ CountTold(timer, Members(list), enabled)
  BY DEF IInv, Good
<1>2. stack \in Seq(Frame) /\ list \in Seq(TimerIds)
  BY <1>1 DEF StackSound, Ordered
<1>3. enabled \in Nat
  <2>1. IsFiniteSet({t \in Members(list) : timer[t].enabled})
    BY <1>1, MembersAre, FS_Subset
  <2> QED
    BY <1>1, <2>1, FS_CardinalityType DEF CountTold
<1>4. \A t \in Members(list) : t \in 1..Len(timer) /\ t \in TimerIds /\ t # NoTimer /\ timer[t] \in Timer
  BY <1>1, MembersAre
<1>5. ASSUME stack # <<>>
      PROVE  /\ Top = Last(stack) /\ Top \in Frame
             /\ FrameSound(Top, Members(list), Len(timer))
             /\ Interrupts(Top, Front(stack))
             /\ \A d \in 1..Len(Front(stack)) : Front(stack)[d].pc # "scan"
  <2>1. Top = Last(stack) /\ Last(stack) \in Frame
    BY <1>2, <1>5, FrontIs DEF Top
  <2> QED
    BY <1>1, <1>5, <2>1, SoundFront DEF Interrupts
<1>6. ASSUME ~Scanning, NEW d \in 1..Len(stack)
      PROVE  stack[d].pc # "scan"
  <2>1. stack # <<>> /\ Len(stack) \in Nat
    BY <1>2, <1>6
  <2>2. CASE d < Len(stack)
    BY <1>1, <2>2 DEF StackSound
  <2>3. CASE ~(d < Len(stack))
    <3>1. d = Len(stack)
      BY <2>1, <2>3
    <3> QED
      BY <1>6, <2>1, <3>1 DEF Scanning, Top
  <2> QED
    BY <2>2, <2>3
<1> QED
  BY <1>1, <1>2, <1>3, <1>4, <1>5, <1>6, ListedIs

-----------------------------------------------------------------------------
(* The actions.                                                            *)

(* Initially there is nothing. *)
LEMMA InitOk ==
  ASSUME Init
  PROVE  IInv
<1>1. list = <<>> /\ timer = <<>> /\ enabled = 0 /\ stack = <<>>
  BY DEF Init
<1>2. Members(<<>>) = {}
  BY DEF Members
<1>3. Ordered(<<>>, <<>>)
  BY TimerAssumption DEF Ordered
<1>4. StackSound(<<>>, {}, Len(<<>>))
  BY DEF StackSound
<1>5. Told(<<>>, <<>>, {}) /\ NoneIdle(<<>>, {}, {})
  BY DEF Told, NoneIdle
<1>6. CountTold(<<>>, {}, 0)
  <2>1. {t \in {} : <<>>[t].enabled} = {}
    OBVIOUS
  <2> QED
    BY <2>1, FS_EmptySet DEF CountTold
<1> QED
  BY <1>1, <1>2, <1>3, <1>4, <1>5, <1>6 DEF IInv, Good

(* What UpdateOrCreateTimer makes of a timer. *)
LEMMA UpdatedIs ==
  ASSUME timer \in Seq(Timer), NEW t \in Nat, t > Len(timer) \/ t \in 1..Len(timer),
         NEW cb \in Callbacks, NEW period \in PeriodArgs, NEW priority \in PriorityArgs
  PROVE  /\ Updated(t, cb, period, priority) \in Timer
         /\ Updated(t, cb, period, priority).enabled
         /\ t > Len(timer) => /\ Updated(t, cb, period, priority).threads = 0
                              /\ Updated(t, cb, period, priority).locked = 0
         /\ t \in 1..Len(timer) => /\ Updated(t, cb, period, priority).threads = timer[t].threads
                                   /\ Updated(t, cb, period, priority).locked = timer[t].locked
<1> DEFINE fresh == t > Len(timer) \/ ~timer[t].enabled
           old == IF t > Len(timer)
                    THEN [callback |-> cb, enabled |-> FALSE, once |-> FALSE,
                          priority |-> 0, threads |-> 0, locked |-> 0]
                    ELSE timer[t]
           once == IF period = "left out" /\ ~fresh THEN old.once ELSE period = "once"
           prio == IF priority # {} THEN CHOOSE p \in priority : TRUE
                   ELSE IF fresh THEN 0 ELSE old.priority
           new == [old EXCEPT !.enabled = TRUE, !.once = once, !.priority = prio]
<1>1. old \in Timer
  <2>1. [callback |-> cb, enabled |-> FALSE, once |-> FALSE, priority |-> 0,
         threads |-> 0, locked |-> 0] \in Timer
    BY TimerAssumption DEF Timer
  <2>2. t \in 1..Len(timer) => timer[t] \in Timer
    OBVIOUS
  <2> QED
    BY <2>1, <2>2
<1>2. once \in BOOLEAN
  BY <1>1 DEF Timer
<1>3. prio \in Priorities
  BY <1>1, TimerAssumption DEF Timer, PriorityArgs
<1>4. Updated(t, cb, period, priority) = new
  BY DEF Updated
<1>5. /\ t > Len(timer) => old.threads = 0 /\ old.locked = 0
      /\ t \in 1..Len(timer) => old.threads = timer[t].threads /\ old.locked = timer[t].locked
  BY DEF Timer
<1> HIDE DEF old, once, prio, fresh
<1>6. new \in Timer /\ new.enabled /\ new.threads = old.threads /\ new.locked = old.locked
  BY <1>1, <1>2, <1>3 DEF Timer
<1> HIDE DEF new
<1> QED
  BY <1>4, <1>5, <1>6

(* SetTimer. *)
LEMMA SetTimerOk ==
  ASSUME IInv, NEW cb \in Callbacks, NEW period \in PeriodArgs, NEW priority \in PriorityArgs,
         SetTimer(cb, period, priority)
  PROVE  IInv'
<1>1. /\ Ordered(list, timer) /\ Listed = Members(list) /\ enabled \in Nat
      /\ \A t \in Members(list) : t \in 1..Len(timer) /\ t # NoTimer /\ timer[t] \in Timer
      /\ timer \in Seq(Timer) /\ Len(timer) \in Nat
  BY Facts DEF Ordered
<1>2. Good(stack, timer, list, enabled, {}) /\ stack' = stack
  BY DEF IInv, SetTimer
<1>3. ASSUME NEW t \in Listed, Finds(cb, t), Update(t, period, priority)
      PROVE  IInv'
  <2> DEFINE u == Updated(t, timer[t].callback, period, priority)
             tm2 == [timer EXCEPT ![t] = u]
  <2>1. t \in Members(list) /\ t \in 1..Len(timer) /\ t \in Nat /\ timer[t].callback \in Callbacks
    BY <1>1 DEF Timer
  <2>2. u \in Timer /\ u.enabled /\ u.threads = timer[t].threads /\ u.locked = timer[t].locked
    BY <1>1, <2>1, UpdatedIs
  <2>3. timer' = tm2 /\ enabled' = (IF timer[t].enabled THEN enabled ELSE enabled + 1) /\ list' = list
    BY <1>3 DEF Update
  <2> HIDE DEF u
  <2>4. /\ Ordered(list, tm2) /\ Len(tm2) = Len(timer) /\ tm2[t] = u
        /\ \A v \in Members(list) : v # t => tm2[v] = timer[v]
    BY <1>1, <2>1, <2>2, TimerSet
  <2> HIDE DEF tm2
  <2>5. /\ tm2[t].threads = timer[t].threads /\ tm2[t].locked = timer[t].locked /\ tm2[t].enabled
        /\ (tm2[t].enabled <=> timer[t].enabled) => enabled' = enabled
        /\ ~timer[t].enabled => enabled' = enabled + 1
    BY <2>2, <2>3, <2>4
  <2>6. Good(stack, tm2, list, enabled', {} \cup {})
    BY <1>2, <2>1, <2>4, <2>5, Switch
  <2>7. {} \cup {} = {}
    OBVIOUS
  <2> QED
    BY <1>2, <2>3, <2>6, <2>7 DEF IInv
<1>4. ASSUME Create(cb, period, priority)
      PROVE  IInv'
  <2> DEFINE n == Len(timer) + 1
             u == Updated(n, cb, period, priority)
  <2>1. n \in Nat /\ n > Len(timer)
    BY <1>1
  <2>2. u \in Timer /\ u.enabled /\ u.threads = 0 /\ u.locked = 0
    BY <1>1, <2>1, UpdatedIs
  <2>3. /\ n <= MaxTimers /\ list' = Append(list, n) /\ timer' = Append(timer, u)
        /\ enabled' = enabled + 1
    BY <1>4 DEF Create
  <2> HIDE DEF u
  <2>4. Good(stack, Append(timer, u), Append(list, n), enabled + 1, {})
    BY <1>2, <2>2, <2>3, Created
  <2> QED
    BY <1>2, <2>3, <2>4 DEF IInv
<1> QED
  BY <1>3, <1>4 DEF SetTimer

(* SetTimer(function, 0). *)
LEMMA StopTimerOk ==
  ASSUME IInv, NEW cb \in Callbacks, StopTimer(cb)
  PROVE  IInv'
<1>1. /\ Ordered(list, timer) /\ Listed = Members(list) /\ enabled \in Nat
      /\ \A t \in Members(list) : t \in 1..Len(timer) /\ timer[t] \in Timer
      /\ \A d \in 1..Len(stack) : stack[d].pc # "scan"
  BY Facts DEF StopTimer, ScriptRuns, Scanning
<1>2. Good(stack, timer, list, enabled, {}) /\ stack' = stack
  BY DEF IInv, StopTimer
<1>3. PICK t \in Members(list) : DeleteTimer(t)
  BY <1>1 DEF StopTimer
<1> DEFINE u == [timer[t] EXCEPT !.enabled = FALSE]
           tm2 == [timer EXCEPT ![t] = u]
<1>4. timer' = tm2 /\ enabled' = CountDown(t) /\ list' = IF MayUnlink(t) THEN Unlink(t) ELSE list
  BY <1>3 DEF DeleteTimer
<1>5. u \in Timer /\ ~u.enabled /\ u.threads = timer[t].threads /\ u.locked = timer[t].locked
  BY <1>1 DEF Timer
<1> HIDE DEF u
<1>6. /\ Ordered(list, tm2) /\ Len(tm2) = Len(timer) /\ tm2[t] = u
      /\ \A v \in Members(list) : v # t => tm2[v] = timer[v]
  BY <1>1, <1>5, TimerSet
<1> HIDE DEF tm2
<1>7. /\ tm2[t].threads = timer[t].threads /\ tm2[t].locked = timer[t].locked /\ ~tm2[t].enabled
      /\ (tm2[t].enabled <=> timer[t].enabled) => CountDown(t) = enabled
      /\ timer[t].enabled => CountDown(t) = enabled - 1
  BY <1>5, <1>6 DEF CountDown
<1>8. Good(stack, tm2, list, CountDown(t), {} \cup {t})
  BY <1>2, <1>6, <1>7, Switch
<1>9. Good(stack, tm2, list, CountDown(t), {t})
  <2>1. {} \cup {t} = {t}
    OBVIOUS
  <2> QED
    BY <1>8, <2>1
<1>10. CASE MayUnlink(t)
  <2>1. tm2[t].threads = 0 /\ tm2[t].locked = 0
    BY <1>1, <1>7, <1>10 DEF MayUnlink, InUse, Timer
  <2>2. Good(stack, tm2, Unlink(t), CountDown(t), {})
    BY <1>1, <1>7, <1>9, <2>1, Reaped
  <2> QED
    BY <1>2, <1>4, <1>10, <2>2 DEF IInv
<1>11. CASE ~MayUnlink(t)
  <2>1. tm2[t].threads > 0 \/ tm2[t].locked > 0
    BY <1>7, <1>11 DEF MayUnlink, InUse
  <2>2. Good(stack, tm2, list, CountDown(t), {})
    BY <1>9, <2>1, Settle
  <2> QED
    BY <1>2, <1>4, <1>11, <2>2 DEF IInv
<1> QED
  BY <1>10, <1>11

(* A pass that has looked at all timers up to t may go on after it. *)
LEMMA Onward ==
  ASSUME NEW tm, Ordered(list, tm), NEW t \in Members(list), NEW f,
         SeenBefore(f, t, Members(list))
  PROVE  /\ t \in f.seen =>
              /\ After(t) # NoTimer => After(t) \in Members(list) /\ SeenBefore(f, After(t), Members(list))
              /\ After(t) = NoTimer => SeenAll(f, Members(list))
         /\ After(t) # NoTimer =>
              After(t) \in Members(list) \ {t} /\ SeenBefore(f, After(t), Members(list) \ {t})
         /\ After(t) = NoTimer => SeenAll(f, Members(list) \ {t})
<1> DEFINE L == Members(list)
           a == After(t)
<1>1. /\ a # NoTimer => a \in L /\ a > t /\ \A u \in L : u < a => u <= t
      /\ a = NoTimer => \A u \in L : u <= t
  BY AfterIs
<1>2. \A u \in L : u \in Nat
  BY MembersAre
<1>3. t \in L /\ \A u \in L : u < t => u \in f.seen
  BY DEF SeenBefore
<1> HIDE DEF L, a
<1>4. \A u \in L : u <= t => u < t \/ u = t
  BY <1>2, <1>3
<1>5. ASSUME a # NoTimer
      PROVE  /\ a \in L \ {t}
             /\ \A u \in L : u < a => u \in f.seen \/ u = t
  BY <1>1, <1>2, <1>3, <1>4, <1>5
<1>6. ASSUME a = NoTimer
      PROVE  \A u \in L : u \in f.seen \/ u = t
  BY <1>1, <1>3, <1>4, <1>6
<1>7. a # NoTimer => /\ t \in f.seen => SeenBefore(f, a, L)
                     /\ SeenBefore(f, a, L \ {t})
  BY <1>5 DEF SeenBefore
<1>8. a = NoTimer => /\ t \in f.seen => SeenAll(f, L)
                     /\ SeenAll(f, L \ {t})
  BY <1>6 DEF SeenAll
<1> QED
  BY <1>5, <1>7, <1>8 DEF L, a

(* A pass that goes on may interrupt what it interrupted. *)
LEMMA StillInterrupts ==
  ASSUME NEW s \in Seq(Frame), NEW g \in Frame, IsPass(g), Interrupts(g, s),
         NEW f \in Frame, f.priority >= g.priority, f.lowered = g.lowered,
         \A t \in TimerIds : RunsAt(f, t) => ~Runs(s, t)
  PROVE  Interrupts(f, s)
<1>1. \A d \in 1..Len(s) : d = Len(s) => g.priority >= s[d].priority \/ g.lowered
  BY DEF Interrupts, MayInterrupt
<1>2. f.priority \in Int /\ g.priority \in Int /\ \A d \in 1..Len(s) : s[d].priority \in Int
  <2>1. \A d \in 1..Len(s) : s[d] \in Frame
    OBVIOUS
  <2> QED
    BY <2>1, FramePriority
<1>3. \A d \in 1..Len(s) : d = Len(s) => f.priority >= s[d].priority \/ f.lowered
  BY <1>1, <1>2
<1>4. \A d \in 1..Len(s) : d = Len(s) => MayInterrupt(f, s[d])
  BY <1>3 DEF MayInterrupt
<1> QED
  BY <1>4 DEF Interrupts

(* A thread of another event begins. *)
LEMMA EventThreadOk ==
  ASSUME IInv, NEW priority \in Priorities, EventThread(priority)
  PROVE  IInv'
<1> DEFINE f == Thread(priority)
<1>1. /\ f \in Frame /\ f.pc = "run" /\ f.at = NoTimer /\ f.seen = {}
  BY FramesAre
<1>2. /\ stack' = Append(stack, f) /\ UNCHANGED <<list, timer, enabled>>
      /\ \A d \in 1..Len(stack) : stack[d].pc # "scan"
  BY Facts DEF EventThread
<1> HIDE DEF f
<1>3. Quiet(f) /\ FrameSound(f, Members(list), Len(timer)) /\ ~IsPass(f)
  BY <1>1 DEF Quiet, FrameSound, IsPass
<1>4. Interrupts(f, stack)
  <2>1. \A t \in TimerIds : ~RunsAt(f, t)
    BY <1>1 DEF RunsAt, TimerIds, NoTimer
  <2> QED
    BY <1>2, <1>3, <2>1 DEF Interrupts, MayInterrupt
<1>5. Good(Append(stack, f), timer, list, enabled, {})
  BY <1>1, <1>3, <1>4, PushQuiet DEF IInv
<1> QED
  BY <1>2, <1>5 DEF IInv

(* A thread that is no timer's ends, or a pass at the end of the list. *)
LEMMA TopGoes ==
  ASSUME IInv, EventThreadEnds \/ EndPass
  PROVE  IInv'
<1>1. stack # <<>> /\ Quiet(Top) /\ stack' = Front(stack) /\ UNCHANGED <<list, timer, enabled>>
  BY DEF EventThreadEnds, EndPass, ScriptRuns, Scanning, Quiet
<1>2. Good(Front(stack), timer, list, enabled, {})
  BY <1>1, Facts, PopQuiet DEF IInv
<1> QED
  BY <1>1, <1>2 DEF IInv

(* Script changes its thread's priority: what the stack runs and locks is the same. *)
LEMMA SetPriorityOk ==
  ASSUME IInv, NEW p \in Priorities, SetPriority(p)
  PROVE  IInv'
<1> DEFINE f == [Top EXCEPT !.priority = p, !.lowered = @ \/ BelowInterrupted(p)]
           w == WithTop(f)
           L == Members(list)
<1>1. stack # <<>> /\ stack' = w /\ UNCHANGED <<list, timer, enabled>>
  BY DEF SetPriority, ScriptRuns
<1>2. /\ stack \in Seq(Frame) /\ Top \in Frame /\ Len(stack) \in Nat \ {0}
      /\ Top = stack[Len(stack)] /\ Good(stack, timer, list, enabled, {})
  BY <1>1, Facts DEF Top, IInv
<1>3. /\ f \in Frame /\ f.pc = Top.pc /\ f.at = Top.at /\ f.next = Top.next /\ f.seen = Top.seen
      /\ f.priority = p /\ f.lowered = (Top.lowered \/ BelowInterrupted(p))
  BY <1>2 DEF Frame
<1> HIDE DEF f, L
<1>4. /\ w \in Seq(Frame) /\ Len(w) = Len(stack)
      /\ \A d \in 1..Len(stack) : w[d] = IF d = Len(stack) THEN f ELSE stack[d]
  BY <1>2, <1>3 DEF WithTop
<1> HIDE DEF w
<1>5. \A d \in 1..Len(stack) : /\ w[d].pc = stack[d].pc /\ w[d].at = stack[d].at
                               /\ w[d].next = stack[d].next /\ w[d].seen = stack[d].seen
                               /\ w[d] \in Frame /\ stack[d] \in Frame
  BY <1>2, <1>3, <1>4
<1>6. StackSound(w, L, Len(timer))
  <2>1. StackSound(stack, L, Len(timer))
    BY <1>2 DEF Good, L
  <2>2. \A d \in 1..Len(w) : FrameSound(w[d], L, Len(timer))
    BY <1>4, <1>5, <2>1 DEF StackSound, FrameSound, SeenBefore, SeenAll
  <2>3. \A d \in 1..Len(w) : d < Len(w) => w[d].pc # "scan"
    BY <1>4, <1>5, <2>1 DEF StackSound
  <2>4. ASSUME NEW d \in 2..Len(w)
        PROVE  MayInterrupt(w[d], w[d - 1])
    <3>1. d \in 2..Len(stack) /\ d \in 1..Len(stack) /\ d - 1 \in 1..Len(stack) /\ d - 1 # Len(stack)
      BY <1>2, <1>4
    <3>2. w[d - 1] = stack[d - 1] /\ MayInterrupt(stack[d], stack[d - 1])
      BY <1>4, <2>1, <3>1 DEF StackSound
    <3>3. CASE d # Len(stack)
      BY <1>4, <3>1, <3>2, <3>3
    <3>4. CASE d = Len(stack)
      <4>1. Len(stack) > 1 /\ w[d] = f /\ p \in Int /\ stack[d - 1].priority \in Int
        BY <1>4, <1>5, <3>1, <3>4, FramePriority, TimerAssumption
      <4>2. f.priority >= stack[d - 1].priority \/ BelowInterrupted(p)
        BY <1>3, <3>4, <4>1 DEF BelowInterrupted
      <4>3. f.priority >= stack[d - 1].priority \/ f.lowered
        BY <1>3, <4>2
      <4> QED
        BY <3>2, <4>1, <4>3 DEF MayInterrupt
    <3> QED
      BY <3>3, <3>4
  <2>5. ASSUME NEW d \in 1..Len(w), NEW e \in 1..Len(w), NEW t \in TimerIds,
               RunsAt(w[d], t), RunsAt(w[e], t)
        PROVE  d = e
    BY <1>4, <1>5, <2>1, <2>5 DEF StackSound, RunsAt
  <2> QED
    BY <1>4, <2>2, <2>3, <2>4, <2>5 DEF StackSound
<1>7. Told(w, timer, L)
  <2>1. ASSUME NEW t \in L
        PROVE  /\ Runs(w, t) <=> Runs(stack, t)
               /\ Count(w, Locks(t)) = Count(stack, Locks(t))
    <3>1. Runs(w, t) <=> Runs(stack, t)
      BY <1>4, <1>5 DEF Runs, RunsAt
    <3>2. DOMAIN w = 1..Len(stack) /\ DOMAIN stack = 1..Len(stack)
      BY <1>2, <1>4
    <3>3. \A d \in 1..Len(stack) : w[d] \in Locks(t) <=> stack[d] \in Locks(t)
      BY <1>5 DEF Locks
    <3>4. Places(w, Locks(t)) = Places(stack, Locks(t))
      BY <3>2, <3>3 DEF Places
    <3> QED
      BY <3>1, <3>4 DEF Count
  <2>2. Told(stack, timer, L)
    BY <1>2 DEF Good, L
  <2> QED
    BY <2>1, <2>2 DEF Told
<1>8. Good(w, timer, list, enabled, {})
  BY <1>2, <1>6, <1>7 DEF Good, L
<1> QED
  BY <1>1, <1>8 DEF IInv

(* A pass begins at the first timer. *)
LEMMA CheckScriptTimersOk ==
  ASSUME IInv, CheckScriptTimers
  PROVE  IInv'
<1> DEFINE first == IF list = <<>> THEN NoTimer ELSE list[1]
           f == [Thread(CallerPriority) EXCEPT !.pc = "scan", !.at = first]
<1>1. /\ stack' = Append(stack, f) /\ UNCHANGED <<list, timer, enabled>>
  BY DEF CheckScriptTimers
<1>2. /\ \A d \in 1..Len(stack) : stack[d].pc # "scan"
      /\ stack \in Seq(Frame)
      /\ stack # <<>> => Top \in Frame
      /\ Ordered(list, timer)
  BY Facts DEF CheckScriptTimers
<1>3. CallerPriority \in Priorities \cup {MinPriority}
  BY <1>2, TimerAssumption, FramePriority DEF CallerPriority
<1>4. /\ list # <<>> => first \in Members(list) /\ \A u \in Members(list) : ~(u < first)
      /\ list = <<>> => first = NoTimer /\ Members(list) = {}
      /\ first = NoTimer => list = <<>>
  <2>1. /\ list \in Seq(TimerIds) /\ Len(list) \in Nat
        /\ \A i \in 1..Len(list) : list[i] \in Nat /\ list[i] # NoTimer
        /\ \A i, j \in 1..Len(list) : i < j => list[i] < list[j]
    BY <1>2, MembersAre DEF Ordered, Members
  <2>2. ASSUME list # <<>>
        PROVE  /\ first \in Members(list) /\ first # NoTimer
               /\ \A u \in Members(list) : ~(u < first)
    <3>1. 1 \in 1..Len(list) /\ first = list[1]
      BY <2>1, <2>2
    <3>2. \A i \in 1..Len(list) : i = 1 \/ 1 < i
      BY <2>1
    <3>3. \A i \in 1..Len(list) : ~(list[i] < list[1])
      BY <2>1, <3>1, <3>2
    <3> QED
      BY <2>1, <3>1, <3>3 DEF Members
  <2> QED
    BY <2>2 DEF Members
<1>5. first \in TimerIds \cup {NoTimer}
  BY <1>2, <1>4, MembersAre
<1> HIDE DEF first
<1>6. /\ f \in Frame /\ f.pc = "scan" /\ f.at = first /\ f.seen = {} /\ f.priority = CallerPriority
  BY <1>3, <1>5 DEF Thread, Frame
<1> HIDE DEF f
<1>7. FrameSound(f, Members(list), Len(timer)) /\ Quiet(f) /\ IsPass(f)
  BY <1>4, <1>6 DEF FrameSound, SeenBefore, SeenAll, Quiet, IsPass
<1>8. ASSUME NEW d \in 1..Len(stack), d = Len(stack)
      PROVE  f.priority >= stack[d].priority
  <2>1. stack # <<>> /\ stack[d] = Top /\ Top.priority \in Int
    BY <1>2, <1>8, FramePriority DEF Top
  <2> QED
    BY <1>6, <2>1 DEF CallerPriority
<1>9. Interrupts(f, stack)
  BY <1>2, <1>6, <1>8 DEF Interrupts, MayInterrupt, RunsAt
<1>10. Good(Append(stack, f), timer, list, enabled, {})
  BY <1>6, <1>7, <1>9, PushQuiet DEF IInv
<1> QED
  BY <1>1, <1>10 DEF IInv

(* A pass leaves a timer and goes to the next one. *)
LEMMA SkipOk ==
  ASSUME IInv, Skip
  PROVE  IInv'
<1> DEFINE t == Top.at
           f == [Top EXCEPT !.at = After(t), !.seen = @ \cup {t}]
           L == Members(list)
<1>1. /\ stack # <<>> /\ Top.pc = "scan" /\ t # NoTimer
      /\ stack' = WithTop(f) /\ UNCHANGED <<list, timer, enabled>>
  BY DEF Skip, Scanning
<1>2. /\ stack \in Seq(Frame) /\ Top = Last(stack) /\ Top \in Frame /\ Ordered(list, timer)
      /\ FrameSound(Top, L, Len(timer)) /\ Interrupts(Top, Front(stack))
      /\ \A u \in L : u \in TimerIds /\ u \in 1..Len(timer)
  BY <1>1, Facts
<1>3. t \in L /\ SeenBefore(Top, t, L) /\ \A u \in Top.seen : u <= Len(timer)
  BY <1>1, <1>2 DEF FrameSound
<1>4. Good(Front(stack), timer, list, enabled, {}) /\ Front(stack) \in Seq(Frame)
  <2>1. Quiet(Last(stack))
    BY <1>1, <1>2 DEF Quiet
  <2> QED
    BY <1>1, <1>2, <2>1, PopQuiet, FrontIs DEF IInv
<1>5. After(t) \in TimerIds \cup {NoTimer}
  BY <1>2, <1>3, AfterIs
<1> HIDE DEF t, L
<1>6. f \in Frame /\ f.pc = "scan" /\ f.at = After(t) /\ f.seen = Top.seen \cup {t}
      /\ f.priority = Top.priority /\ f.priority \in Int /\ f.lowered = Top.lowered
  BY <1>1, <1>2, <1>3, <1>5, TimerAssumption DEF Frame
<1> HIDE DEF f
<1>7. SeenBefore(f, t, L) /\ t \in f.seen
  BY <1>3, <1>6 DEF SeenBefore
<1>8. FrameSound(f, L, Len(timer)) /\ Quiet(f)
  <2>1. /\ After(t) # NoTimer => After(t) \in L /\ SeenBefore(f, After(t), L)
        /\ After(t) = NoTimer => SeenAll(f, L)
    BY <1>2, <1>3, <1>7, Onward DEF L
  <2>2. \A u \in f.seen : u <= Len(timer)
    BY <1>2, <1>3, <1>6
  <2> QED
    BY <1>6, <2>1, <2>2 DEF FrameSound, Quiet
<1>9. Interrupts(f, Front(stack))
  <2>1. IsPass(Top) /\ f.priority >= Top.priority /\ \A u \in TimerIds : ~RunsAt(f, u)
    BY <1>1, <1>6 DEF IsPass, RunsAt
  <2> QED
    BY <1>2, <1>4, <1>6, <2>1, StillInterrupts
<1>10. Good(Append(Front(stack), f), timer, list, enabled, {})
  BY <1>4, <1>6, <1>8, <1>9, PushQuiet DEF L
<1>11. WithTop(f) = Append(Front(stack), f)
  BY <1>1, <1>2, <1>6, TopIs
<1> QED
  BY <1>1, <1>10, <1>11 DEF IInv

(* A pass launches the timer where it is: a thread of it on the stack, and the
   timer disabled if it was to run once. *)
LEMMA LaunchOk ==
  ASSUME IInv, Launch
  PROVE  IInv'
<1> DEFINE t == Top.at
           f == [Top EXCEPT !.pc = "run", !.priority = timer[t].priority, !.seen = @ \cup {t}]
           u1 == [timer[t] EXCEPT !.threads = @ + 1]
           u2 == [timer[t] EXCEPT !.threads = @ + 1, !.enabled = ~timer[t].once]
           tm1 == [timer EXCEPT ![t] = u1]
           tm2 == [timer EXCEPT ![t] = u2]
           L == Members(list)
           r == Front(stack)
<1>1. /\ stack # <<>> /\ Top.pc = "scan" /\ t # NoTimer /\ MayRun(t)
      /\ stack' = WithTop(f) /\ UNCHANGED list
      /\ timer' = [timer EXCEPT ![t].threads = @ + 1, ![t].enabled = ~timer[t].once]
      /\ enabled' = IF timer[t].once THEN enabled - 1 ELSE enabled
  BY DEF Launch, Scanning
<1>2. /\ stack \in Seq(Frame) /\ Top = Last(stack) /\ Top \in Frame /\ Ordered(list, timer)
      /\ FrameSound(Top, L, Len(timer)) /\ Interrupts(Top, r) /\ enabled \in Nat
      /\ \A v \in L : v \in TimerIds /\ v \in 1..Len(timer) /\ timer[v] \in Timer
  BY <1>1, Facts
<1>3. t \in L /\ SeenBefore(Top, t, L) /\ \A v \in Top.seen : v <= Len(timer)
  BY <1>1, <1>2 DEF FrameSound
<1>4. Good(r, timer, list, enabled, {}) /\ r \in Seq(Frame)
  <2>1. Quiet(Last(stack))
    BY <1>1, <1>2 DEF Quiet
  <2> QED
    BY <1>1, <1>2, <2>1, PopQuiet, FrontIs DEF IInv
<1>5. /\ timer[t].enabled /\ timer[t].threads = 0 /\ timer[t].priority >= Top.priority
      /\ timer[t].priority \in Priorities /\ timer[t] \in Timer
  BY <1>1, <1>2, <1>3 DEF MayRun, Timer
<1>6. timer' = tm2
  <2>1. timer \in Seq(Timer) /\ t \in 1..Len(timer)
    BY <1>2, <1>3 DEF Ordered
  <2> QED
    BY <1>1, <2>1
<1>7. /\ u1 \in Timer /\ u1.enabled /\ u1.threads = 1 /\ u1.locked = timer[t].locked
      /\ u2 \in Timer /\ u2.threads = 1 /\ u2.locked = timer[t].locked
      /\ u2.enabled <=> ~timer[t].once
  <2>1. timer[t].threads + 1 = 1 /\ 1 \in Nat /\ (~timer[t].once) \in BOOLEAN
    BY <1>5
  <2>2. u1 \in Timer /\ u1.enabled /\ u1.threads = 1 /\ u1.locked = timer[t].locked
    BY <1>5, <2>1 DEF Timer
  <2>3. u2 \in Timer
    BY <1>5, <2>1 DEF Timer
  <2>4. u2.threads = 1 /\ u2.locked = timer[t].locked /\ u2.enabled = ~timer[t].once
    BY <1>5, <2>1 DEF Timer
  <2> QED
    BY <2>2, <2>3, <2>4
<1> HIDE DEF u1, u2
<1>8. /\ Ordered(list, tm1) /\ Len(tm1) = Len(timer) /\ tm1[t] = u1
      /\ \A v \in L : v # t => tm1[v] = timer[v]
  BY <1>2, <1>3, <1>7, TimerSet
<1>9. /\ Ordered(list, tm2) /\ Len(tm2) = Len(timer) /\ tm2[t] = u2
      /\ \A v \in L : v # t => tm2[v] = timer[v]
  BY <1>2, <1>3, <1>7, TimerSet
<1> HIDE DEF tm1, tm2, r, t
<1>10. /\ f \in Frame /\ f.pc = "run" /\ f.at = t /\ f.seen = Top.seen \cup {t}
       /\ f.priority = timer[t].priority /\ f.lowered = Top.lowered
  <2>1. t \in TimerIds \cup {NoTimer}
    BY <1>2, <1>3
  <2> QED
    BY <1>2, <1>3, <1>5, <2>1 DEF Frame, t
<1> HIDE DEF f
<1>11. FrameSound(f, L, Len(timer))
  <2>1. \A v \in f.seen : v <= Len(timer)
    BY <1>2, <1>3, <1>10
  <2>2. SeenBefore(f, t, L) /\ t \in f.seen
    BY <1>3, <1>10 DEF SeenBefore
  <2> QED
    BY <1>3, <1>10, <2>1, <2>2 DEF FrameSound
<1>12. Interrupts(f, r)
  <2>1. ~Runs(r, t)
    BY <1>3, <1>4, <1>5 DEF Good, Told, L
  <2>2. IsPass(Top) /\ \A v \in TimerIds : RunsAt(f, v) => ~Runs(r, v)
    BY <1>1, <1>10, <2>1 DEF IsPass, RunsAt
  <2> QED
    BY <1>2, <1>4, <1>5, <1>10, <2>2, StillInterrupts
<1>13. Shifted(timer, tm1, L, f, 1)
  <2>1. ASSUME NEW v \in L
        PROVE  /\ tm1[v].enabled <=> timer[v].enabled
               /\ RunsAt(f, v) => tm1[v].threads = timer[v].threads + 1
               /\ ~RunsAt(f, v) => tm1[v].threads = timer[v].threads
               /\ f \notin Locks(v)
               /\ tm1[v].locked = timer[v].locked
    <3>1. (RunsAt(f, v) <=> v = t) /\ f \notin Locks(v)
      BY <1>10 DEF RunsAt, Locks
    <3>2. CASE v = t
      BY <1>5, <1>7, <1>8, <3>1, <3>2
    <3>3. CASE v # t
      BY <1>8, <3>1, <3>3
    <3> QED
      BY <3>2, <3>3
  <2> QED
    BY <1>8, <2>1 DEF Shifted
<1>14. Good(Append(r, f), tm1, list, enabled, {})
  BY <1>4, <1>8, <1>10, <1>11, <1>12, <1>13, Push DEF L
<1>15. /\ (tm2[t].enabled <=> tm1[t].enabled) => enabled' = enabled
       /\ ~tm2[t].enabled => enabled' = enabled - 1
       /\ tm1[t].enabled
       /\ tm2[t].threads = tm1[t].threads /\ tm2[t].locked = tm1[t].locked
       /\ \A v \in L : v # t => tm2[v] = tm1[v]
       /\ Len(tm2) = Len(tm1)
  BY <1>1, <1>7, <1>8, <1>9
<1>16. Good(Append(r, f), tm2, list, enabled', {} \cup {t})
  BY <1>3, <1>9, <1>14, <1>15, Switch DEF L
<1>17. \A v \in L \cap ({} \cup {t}) : tm2[v].threads > 0
  BY <1>7, <1>9
<1>18. Good(Append(r, f), tm2, list, enabled', {})
  BY <1>16, <1>17, Settle DEF L
<1>19. WithTop(f) = Append(r, f)
  BY <1>1, <1>2, <1>10, TopIs DEF r
<1> QED
  BY <1>1, <1>6, <1>18, <1>19 DEF IInv

(* One turn of the inner loop, at timer t, of which the pass has given up the
   thread or the lock. *)
LEMMA ReapOk ==
  ASSUME IInv, stack # <<>>, IsPass(Top),
         NEW tm, NEW t \in Members(list), Good(Front(stack), tm, list, enabled, {t}),
         Len(tm) = Len(timer), SeenBefore(Top, t, Members(list)),
         NEW resume \in TimerIds \cup {NoTimer},
         resume # NoTimer => resume \in Members(list) /\ SeenBefore(Top, resume, Members(list)),
         resume = NoTimer => SeenAll(Top, Members(list)),
         Reap(tm, t, resume), UNCHANGED enabled
  PROVE  IInv'
<1> DEFINE L == Members(list)
           r == Front(stack)
           a == After(t)
           f1 == [Top EXCEPT !.pc = "scan", !.at = resume, !.next = NoTimer]
           f2 == [Top EXCEPT !.pc = "release", !.at = t, !.next = a]
<1>1. /\ stack \in Seq(Frame) /\ Top \in Frame /\ FrameSound(Top, L, Len(timer))
      /\ Interrupts(Top, r) /\ \A d \in 1..Len(r) : r[d].pc # "scan"
  BY Facts
<1>2. /\ Ordered(list, tm) /\ r \in Seq(Frame) /\ Top.priority \in Int
  BY <1>1, FrontIs, FramePriority DEF Good
<1>3. t \in TimerIds /\ tm[t] \in Timer /\ \A v \in L : v # NoTimer
  BY <1>2, MembersAre
<1>4. /\ a \in TimerIds \cup {NoTimer} /\ a # t
      /\ a # NoTimer => a \in L \ {t} /\ SeenBefore(Top, a, L \ {t})
      /\ a = NoTimer => SeenAll(Top, L \ {t})
  <2>1. /\ a # NoTimer => a \in L \ {t} /\ SeenBefore(Top, a, L \ {t})
        /\ a = NoTimer => SeenAll(Top, L \ {t})
    BY <1>2, Onward
  <2> QED
    BY <1>2, <1>3, <2>1, MembersAre
<1>5. \A v \in Top.seen : v <= Len(tm)
  BY <1>1 DEF FrameSound
<1>6. CASE Stays(tm[t])
  <2>1. stack' = WithTop(f1) /\ timer' = tm /\ list' = list
    BY <1>6 DEF Reap
  <2>2. Good(r, tm, list, enabled, {})
    BY <1>6, Settle DEF Stays
  <2> HIDE DEF r, a, L
  <2>3. /\ f1 \in Frame /\ f1.pc = "scan" /\ f1.at = resume /\ f1.seen = Top.seen
        /\ f1.priority = Top.priority /\ f1.lowered = Top.lowered
    BY <1>1 DEF Frame
  <2> HIDE DEF f1
  <2>4. FrameSound(f1, L, Len(tm)) /\ Quiet(f1)
    BY <1>5, <2>3 DEF FrameSound, SeenBefore, SeenAll, Quiet, L
  <2>5. Interrupts(f1, r)
    <3>1. \A v \in TimerIds : ~RunsAt(f1, v)
      BY <2>3 DEF RunsAt
    <3> QED
      BY <1>1, <1>2, <2>3, <3>1, StillInterrupts DEF r
  <2>6. Good(Append(r, f1), tm, list, enabled, {})
    BY <2>2, <2>3, <2>4, <2>5, PushQuiet DEF L
  <2>7. WithTop(f1) = Append(r, f1)
    BY <1>1, <2>3, TopIs DEF r
  <2> QED
    BY <2>1, <2>6, <2>7 DEF IInv
<1>7. CASE ~Stays(tm[t])
  <2>1. stack' = WithTop(f2) /\ timer' = LockNext(tm, a) /\ list' = Unlink(t)
    BY <1>7 DEF Reap
  <2>2. ~tm[t].enabled /\ tm[t].threads = 0 /\ tm[t].locked = 0
    BY <1>3, <1>7 DEF Stays, Timer
  <2>3. Good(r, tm, Unlink(t), enabled, {})
    BY <1>1, <2>2, Reaped
  <2>4. Ordered(Unlink(t), tm) /\ Members(Unlink(t)) = L \ {t}
    BY <1>2, UnlinkIs
  <2> DEFINE M == Members(Unlink(t))
             ls == Unlink(t)
             tm2 == LockNext(tm, a)
  <2> HIDE DEF r, a, L, ls
  <2>5. /\ f2 \in Frame /\ f2.pc = "release" /\ f2.at = t /\ f2.next = a /\ f2.seen = Top.seen
        /\ f2.priority = Top.priority /\ f2.lowered = Top.lowered
    BY <1>1, <1>3, <1>4 DEF Frame
  <2> HIDE DEF f2
  <2>6. FrameSound(f2, M, Len(tm))
    BY <1>4, <1>5, <2>4, <2>5 DEF FrameSound, SeenBefore, SeenAll
  <2>7. Interrupts(f2, r)
    <3>1. \A v \in TimerIds : ~RunsAt(f2, v)
      BY <2>5 DEF RunsAt
    <3> QED
      BY <1>1, <1>2, <2>5, <3>1, StillInterrupts DEF r
  <2>8. Ordered(ls, tm2) /\ Shifted(tm, tm2, Members(ls), f2, 1)
    <3>1. \A v \in Members(ls) : ~RunsAt(f2, v) /\ (f2 \in Locks(v) <=> v = a)
      BY <2>5 DEF RunsAt, Locks
    <3>2. CASE a = NoTimer
      <4>1. tm2 = tm
        BY <3>2 DEF LockNext
      <4>2. \A v \in Members(ls) : v # a
        BY <1>3, <2>4, <3>2 DEF ls, L
      <4> HIDE DEF tm2
      <4> QED
        BY <2>4, <3>1, <4>1, <4>2 DEF Shifted, ls
    <3>3. CASE a # NoTimer
      <4> DEFINE u == [tm[a] EXCEPT !.locked = @ + 1]
      <4>1. a \in Members(ls) /\ tm[a] \in Timer
        BY <1>4, <2>4, <3>3, MembersAre DEF ls
      <4>2. /\ u \in Timer /\ u.enabled = tm[a].enabled /\ u.threads = tm[a].threads
            /\ u.locked = tm[a].locked + 1
        BY <4>1 DEF Timer
      <4>3. tm2 = [tm EXCEPT ![a] = u]
        BY <3>3 DEF LockNext
      <4> HIDE DEF u, tm2
      <4>4. /\ Ordered(ls, tm2) /\ Len(tm2) = Len(tm) /\ tm2[a] = u
            /\ \A v \in Members(ls) : v # a => tm2[v] = tm[v]
        <5>1. Ordered(ls, tm)
          BY <2>4 DEF ls
        <5>2. /\ Ordered(ls, [tm EXCEPT ![a] = u]) /\ Len([tm EXCEPT ![a] = u]) = Len(tm)
              /\ [tm EXCEPT ![a] = u][a] = u
              /\ \A v \in Members(ls) : v # a => [tm EXCEPT ![a] = u][v] = tm[v]
          BY <4>1, <4>2, <5>1, TimerSet
        <5> QED
          BY <4>3, <5>2
      <4> QED
        BY <3>1, <4>2, <4>4 DEF Shifted
    <3> QED
      BY <3>2, <3>3
  <2>9. Good(Append(r, f2), tm2, ls, enabled, {})
    BY <2>3, <2>5, <2>6, <2>7, <2>8, Push DEF ls
  <2>10. WithTop(f2) = Append(r, f2)
    BY <1>1, <2>5, TopIs DEF r
  <2> QED
    BY <2>1, <2>9, <2>10 DEF IInv, ls
<1> QED
  BY <1>6, <1>7

(* The callback has returned. *)
LEMMA CallbackReturnsOk ==
  ASSUME IInv, CallbackReturns
  PROVE  IInv'
<1> DEFINE t == Top.at
           u == [timer[t] EXCEPT !.threads = @ - 1]
           tm == [timer EXCEPT ![t] = u]
           L == Members(list)
<1>1. /\ stack # <<>> /\ Top.pc = "run" /\ t # NoTimer
      /\ Reap(tm, t, After(t)) /\ UNCHANGED enabled
  BY DEF CallbackReturns, ScriptRuns
<1>2. /\ stack \in Seq(Frame) /\ Top = Last(stack) /\ Top \in Frame /\ Ordered(list, timer)
      /\ FrameSound(Top, L, Len(timer)) /\ Interrupts(Top, Front(stack))
      /\ \A v \in L : v \in TimerIds /\ timer[v] \in Timer
  BY <1>1, Facts
<1>3. t \in L /\ t \in Top.seen /\ SeenBefore(Top, t, L)
  BY <1>1, <1>2 DEF FrameSound
<1>4. Told(stack, timer, L) /\ Good(stack, timer, list, enabled, {})
  BY DEF IInv, Good
<1>5. timer[t].threads = 1
  <2>1. Runs(stack, t)
    <3>1. Len(stack) \in 1..Len(stack) /\ RunsAt(stack[Len(stack)], t)
      BY <1>1, <1>2 DEF RunsAt, Top
    <3> QED
      BY <3>1 DEF Runs
  <2> QED
    BY <1>3, <1>4, <2>1 DEF Told
<1>6. /\ u \in Timer /\ u.enabled = timer[t].enabled /\ u.locked = timer[t].locked
      /\ u.threads = timer[t].threads + (-1)
  BY <1>2, <1>3, <1>5 DEF Timer
<1> HIDE DEF u, L, t
<1>7. /\ Ordered(list, tm) /\ Len(tm) = Len(timer) /\ tm[t] = u
      /\ \A v \in L : v # t => tm[v] = timer[v]
  BY <1>2, <1>3, <1>6, TimerSet DEF L
<1> HIDE DEF tm
<1>8. \A v \in L : (RunsAt(Last(stack), v) <=> v = t) /\ Last(stack) \notin Locks(v)
  BY <1>1, <1>2 DEF RunsAt, Locks, t
<1>9. Shifted(timer, tm, L, Last(stack), -1)
  BY <1>6, <1>7, <1>8 DEF Shifted
<1>10. Good(Front(stack), tm, list, enabled, {} \cup {t})
  BY <1>1, <1>4, <1>7, <1>8, <1>9, Pop DEF L
<1>11. Good(Front(stack), tm, list, enabled, {t})
  <2>1. {} \cup {t} = {t}
    OBVIOUS
  <2> QED
    BY <1>10, <2>1
<1>12. /\ After(t) # NoTimer => After(t) \in L /\ SeenBefore(Top, After(t), L)
       /\ After(t) = NoTimer => SeenAll(Top, L)
  BY <1>2, <1>3, Onward DEF L
<1>13. After(t) \in TimerIds \cup {NoTimer} /\ IsPass(Top)
  BY <1>1, <1>2, <1>12 DEF IsPass, t
<1> QED
  BY <1>1, <1>3, <1>7, <1>11, <1>12, <1>13, ReapOk DEF L

(* A deleted timer is released. *)
LEMMA ReleasedOk ==
  ASSUME IInv, Released
  PROVE  IInv'
<1> DEFINE t == Top.next
           L == Members(list)
<1>1. stack # <<>> /\ Top.pc = "release" /\ UNCHANGED enabled
  BY DEF Released, ScriptRuns
<1>2. /\ stack \in Seq(Frame) /\ Top = Last(stack) /\ Top \in Frame /\ Ordered(list, timer)
      /\ FrameSound(Top, L, Len(timer)) /\ Interrupts(Top, Front(stack))
      /\ \A v \in L : v \in TimerIds /\ timer[v] \in Timer
  BY <1>1, Facts
<1>3. Told(stack, timer, L) /\ Good(stack, timer, list, enabled, {}) /\ Front(stack) \in Seq(Frame)
  BY <1>1, <1>2, FrontIs DEF IInv, Good
<1>4. IsPass(Top) /\ Top.priority \in Int
  BY <1>1, <1>2, FramePriority DEF IsPass
<1>5. CASE t = NoTimer
  <2> DEFINE f == [Top EXCEPT !.pc = "scan", !.at = NoTimer]
             r == Front(stack)
  <2>1. stack' = WithTop(f) /\ UNCHANGED <<list, timer>>
    BY <1>5 DEF Released
  <2>2. Quiet(Last(stack))
    BY <1>1, <1>2, <1>5 DEF Quiet
  <2>3. Good(r, timer, list, enabled, {})
    BY <1>1, <1>3, <2>2, PopQuiet
  <2>4. SeenAll(Top, L) /\ \A v \in Top.seen : v <= Len(timer)
    BY <1>1, <1>2, <1>5 DEF FrameSound
  <2>5. /\ f \in Frame /\ f.pc = "scan" /\ f.at = NoTimer /\ f.seen = Top.seen
        /\ f.priority = Top.priority /\ f.lowered = Top.lowered
    BY <1>2 DEF Frame
  <2> HIDE DEF f, r, L
  <2>6. FrameSound(f, L, Len(timer)) /\ Quiet(f)
    BY <2>4, <2>5 DEF FrameSound, SeenAll, Quiet
  <2>7. Interrupts(f, r)
    <3>1. \A v \in TimerIds : ~RunsAt(f, v)
      BY <2>5 DEF RunsAt
    <3> QED
      BY <1>2, <1>3, <1>4, <2>5, <3>1, StillInterrupts DEF r
  <2>8. Good(Append(r, f), timer, list, enabled, {})
    BY <2>3, <2>5, <2>6, <2>7, PushQuiet DEF L
  <2>9. WithTop(f) = Append(r, f)
    BY <1>1, <1>2, <2>5, TopIs DEF r
  <2> QED
    BY <1>1, <2>1, <2>8, <2>9 DEF IInv
<1>6. CASE t # NoTimer
  <2> DEFINE u == [timer[t] EXCEPT !.locked = @ - 1]
             tm == [timer EXCEPT ![t] = u]
  <2>1. Reap(tm, t, t)
    BY <1>6 DEF Released, ResumeAt
  <2>2. t \in L /\ SeenBefore(Top, t, L)
    BY <1>1, <1>2, <1>6 DEF FrameSound
  <2>3. timer[t].locked \in Nat /\ timer[t].locked > 0
    <3>1. Len(stack) \in DOMAIN stack /\ stack[Len(stack)] \in Locks(t)
      BY <1>1, <1>2 DEF Locks, Top
    <3>2. Count(stack, Locks(t)) \in Nat /\ Count(stack, Locks(t)) > 0
      BY <1>2, <3>1, CountSome
    <3> QED
      BY <1>3, <2>2, <3>2 DEF Told
  <2>4. /\ u \in Timer /\ u.enabled = timer[t].enabled /\ u.threads = timer[t].threads
        /\ u.locked = timer[t].locked + (-1)
    BY <1>2, <2>2, <2>3 DEF Timer
  <2> HIDE DEF u, L, t
  <2>5. /\ Ordered(list, tm) /\ Len(tm) = Len(timer) /\ tm[t] = u
        /\ \A v \in L : v # t => tm[v] = timer[v]
    BY <1>2, <2>2, <2>4, TimerSet DEF L
  <2> HIDE DEF tm
  <2>6. \A v \in L : ~RunsAt(Last(stack), v) /\ (Last(stack) \in Locks(v) <=> v = t)
    BY <1>1, <1>2 DEF RunsAt, Locks, t
  <2>7. Shifted(timer, tm, L, Last(stack), -1)
    BY <2>4, <2>5, <2>6 DEF Shifted
  <2>8. Good(Front(stack), tm, list, enabled, {} \cup {t})
    BY <1>1, <1>3, <2>5, <2>6, <2>7, Pop DEF L
  <2>9. Good(Front(stack), tm, list, enabled, {t})
    <3>1. {} \cup {t} = {t}
      OBVIOUS
    <3> QED
      BY <2>8, <3>1
  <2>10. t \in TimerIds \cup {NoTimer}
    BY <1>2, <2>2 DEF L
  <2> QED
    BY <1>1, <1>4, <1>6, <2>1, <2>2, <2>5, <2>9, <2>10, ReapOk DEF L
<1> QED
  BY <1>5, <1>6

-----------------------------------------------------------------------------
(* The theorems.                                                           *)

Sound == IInv /\ Len(stack) <= MaxThreads

(* The depth of the stack: only Room lets it grow. *)
LEMMA DepthOk ==
  ASSUME Sound, Next
  PROVE  Len(stack') <= MaxThreads
<1>1. stack \in Seq(Frame) /\ Len(stack) <= MaxThreads /\ Len(stack) \in Nat /\ MaxThreads \in Nat
  BY Facts, TimerAssumption DEF Sound
<1>2. \A f : Len(WithTop(f)) = Len(stack)
  BY <1>1 DEF WithTop
<1>3. \A f : Room => Len(Append(stack, f)) <= MaxThreads
  BY <1>1 DEF Room
<1>4. stack # <<>> => Len(Front(stack)) <= MaxThreads
  BY <1>1, FrontIs
<1>5. CASE \/ \E cb \in Callbacks, period \in PeriodArgs, priority \in PriorityArgs :
                SetTimer(cb, period, priority)
           \/ \E cb \in Callbacks : StopTimer(cb)
  BY <1>1, <1>5 DEF SetTimer, StopTimer
<1>6. CASE (\E priority \in Priorities : EventThread(priority)) \/ CheckScriptTimers
  BY <1>3, <1>6 DEF EventThread, CheckScriptTimers
<1>7. CASE EventThreadEnds \/ EndPass
  BY <1>4, <1>7 DEF EventThreadEnds, EndPass, ScriptRuns, Scanning
<1>8. CASE \/ \E priority \in Priorities : SetPriority(priority)
           \/ Skip \/ Launch \/ CallbackReturns \/ Released
  <2>1. \E f : stack' = WithTop(f)
    BY <1>8 DEF SetPriority, Skip, Launch, CallbackReturns, Released, Reap
  <2> QED
    BY <1>1, <1>2, <2>1
<1> QED
  BY <1>5, <1>6, <1>7, <1>8 DEF Next

(* Every step keeps the invariant. *)
LEMMA NextOk ==
  ASSUME Sound, [Next]_timerVars
  PROVE  Sound'
<1>0. IInv
  BY DEF Sound
<1>1. ASSUME Next
      PROVE  IInv'
  BY <1>0, <1>1, SetTimerOk, StopTimerOk, EventThreadOk, TopGoes, SetPriorityOk, CheckScriptTimersOk,
     SkipOk, LaunchOk, CallbackReturnsOk, ReleasedOk DEF Next
<1>2. ASSUME UNCHANGED timerVars
      PROVE  Sound'
  BY <1>2 DEF Sound, IInv, timerVars
<1> QED
  BY <1>1, <1>2, DepthOk DEF Sound

(* The inductive invariant holds always: for each timer of the list its numbers of
   threads and locks are those of the frames on the stack, every position is
   in the list, and a disabled timer is in use. *)
THEOREM Inductive == Spec => []Sound
<1>1. Init => Sound
  <2>1. Init => Len(stack) <= MaxThreads
    BY TimerAssumption DEF Init
  <2> QED
    BY <2>1, InitOk DEF Sound
<1>2. Sound /\ [Next]_timerVars => Sound'
  BY NextOk
<1> QED
  BY <1>1, <1>2, PTL DEF Spec

(* Timers, list, count and stack are what their types say, and no more threads
   and passes are on the stack than g_MaxThreadsTotal lets begin. *)
THEOREM TypeCorrect == Spec => []TypeOK
<1>1. Sound => TypeOK
  <2>1. ASSUME Sound
        PROVE  TypeOK
    <3>1. Ordered(list, timer) /\ stack \in Seq(Frame) /\ enabled \in Nat /\ Len(stack) <= MaxThreads
      BY <2>1, Facts DEF Sound
    <3> QED
      BY <3>1 DEF TypeOK, Ordered
  <2> QED
    BY <2>1
<1> QED
  BY <1>1, Inductive, PTL

(* A pass never goes on from a timer that was deleted under it: CheckScriptTimers
   does not use a freed ScriptTimer. *)
THEOREM PositionsLive == Spec => []PositionIsLive
<1>1. Sound => PositionIsLive
  <2>1. ASSUME Sound, NEW f \in Frames
        PROVE  /\ f.pc # "release" => f.at \in Listed \cup {NoTimer}
               /\ f.pc = "release" => f.next \in Listed \cup {NoTimer}
    <3>1. /\ StackSound(stack, Members(list), Len(timer)) /\ Listed = Members(list)
          /\ stack \in Seq(Frame)
      BY <2>1, Facts DEF Sound
    <3>2. f \in Frame /\ FrameSound(f, Members(list), Len(timer))
      BY <2>1, <3>1 DEF StackSound, Frames, Range
    <3>3. f.pc \in {"scan", "run", "release"}
      BY <3>2 DEF Frame
    <3> QED
      BY <3>1, <3>2, <3>3 DEF FrameSound
  <2> QED
    BY <2>1 DEF PositionIsLive
<1> QED
  BY <1>1, Inductive, PTL

(* mTimerEnabledCount is the number of enabled timers, and a disabled timer that is
   still in the list is where some pass runs or will go on. *)
THEOREM NeverForgotten == Spec => []NoneForgotten
<1>1. Sound => NoneForgotten
  <2>1. ASSUME Sound
        PROVE  NoneForgotten
    <3>1. /\ Told(stack, timer, Members(list)) /\ CountTold(timer, Members(list), enabled)
          /\ NoneIdle(timer, Members(list), {}) /\ Listed = Members(list) /\ stack \in Seq(Frame)
      BY <2>1, Facts DEF Sound, IInv, Good
    <3>2. \A d \in 1..Len(stack) : stack[d] \in Frames
      BY <3>1 DEF Frames, Range
    <3>3. ASSUME NEW t \in Listed, ~timer[t].enabled
          PROVE  \/ \E f \in Frames : f.pc = "run" /\ f.at = t
                 \/ \E f \in Frames : f.pc = "release" /\ f.next = t
      <4>1. timer[t].threads > 0 \/ timer[t].locked > 0
        BY <3>1, <3>3 DEF NoneIdle
      <4>2. CASE timer[t].threads > 0
        <5>1. Runs(stack, t)
          BY <3>1, <4>2 DEF Told
        <5> QED
          BY <3>2, <5>1 DEF Runs, RunsAt
      <4>3. CASE timer[t].locked > 0
        <5>1. Count(stack, Locks(t)) > 0
          BY <3>1, <4>3 DEF Told
        <5>2. PICK d \in DOMAIN stack : stack[d] \in Locks(t)
          BY <3>1, <5>1, CountSome
        <5>3. d \in 1..Len(stack)
          BY <3>1
        <5> QED
          BY <3>2, <5>2, <5>3 DEF Locks
      <4> QED
        BY <4>1, <4>2, <4>3
    <3> QED
      BY <3>1, <3>3 DEF NoneForgotten, CountTold
  <2> QED
    BY <2>1
<1> QED
  BY <1>1, Inductive, PTL

(* A pass has looked at every timer before its position, however many were deleted
   and created while its callbacks ran. *)
THEOREM NeverSkipped == Spec => []NoneSkipped
<1>1. Sound => NoneSkipped
  <2>1. ASSUME Sound, NEW f \in Frames, f.pc = "scan", NEW t \in Listed
        PROVE  \/ t \in f.seen
               \/ f.at # NoTimer /\ t >= f.at
               \/ f.at = NoTimer /\ \A u \in f.seen : t > u
    <3>1. /\ StackSound(stack, Members(list), Len(timer)) /\ Listed = Members(list)
          /\ stack \in Seq(Frame) /\ Ordered(list, timer)
      BY <2>1, Facts DEF Sound
    <3>2. f \in Frame /\ FrameSound(f, Members(list), Len(timer))
      BY <2>1, <3>1 DEF StackSound, Frames, Range
    <3>3. t \in Nat /\ \A u \in Members(list) : u \in Nat
      BY <3>1, MembersAre
    <3>4. CASE f.at = NoTimer
      BY <2>1, <3>1, <3>2, <3>4 DEF FrameSound, SeenAll
    <3>5. CASE f.at # NoTimer
      <4>1. f.at \in Members(list) /\ (t < f.at => t \in f.seen)
        BY <2>1, <3>1, <3>2, <3>5 DEF FrameSound, SeenBefore
      <4>2. f.at \in Nat /\ (t < f.at \/ t >= f.at)
        BY <3>3, <4>1
      <4> QED
        BY <3>5, <4>1, <4>2
    <3> QED
      BY <3>4, <3>5
  <2> QED
    BY <2>1 DEF NoneSkipped
<1> QED
  BY <1>1, Inductive, PTL

(* A timer's function never interrupts itself, and a pass stands above a thread of a
   higher priority only when script in that pass has lowered its own below it. *)
THEOREM AlwaysDuly == Spec => []InterruptsDuly
<1>1. Sound => InterruptsDuly
  <2>1. ASSUME Sound, NEW d \in 2..Len(stack), IsPass(stack[d])
        PROVE  /\ stack[d].priority >= stack[d - 1].priority \/ stack[d].lowered
               /\ stack[d].pc = "run" => \A e \in 1..(d - 1) :
                    ~(stack[e].pc = "run" /\ stack[e].at = stack[d].at)
    <3>1. StackSound(stack, Members(list), Len(timer)) /\ stack \in Seq(Frame)
      BY <2>1, Facts DEF Sound
    <3>2. stack[d].priority >= stack[d - 1].priority \/ stack[d].lowered
      BY <2>1, <3>1 DEF StackSound, MayInterrupt
    <3>3. d \in 1..Len(stack) /\ \A e \in 1..(d - 1) : e \in 1..Len(stack) /\ e # d
      BY <3>1
    <3>4. ASSUME stack[d].pc = "run"
          PROVE  stack[d].at \in TimerIds
      <4>1. stack[d] \in Frame
        BY <3>1, <3>3
      <4>2. stack[d].at \in TimerIds \cup {NoTimer}
        BY <4>1 DEF Frame
      <4> QED
        BY <2>1, <3>4, <4>2 DEF IsPass
    <3> QED
      BY <2>1, <3>1, <3>2, <3>3, <3>4 DEF StackSound, RunsAt
  <2> QED
    BY <2>1 DEF InterruptsDuly
<1> QED
  BY <1>1, Inductive, PTL

=============================================================================
