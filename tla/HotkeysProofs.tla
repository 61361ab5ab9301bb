--------------------------- MODULE HotkeysProofs ---------------------------
(***************************************************************************)
(* Proofs about Hotkeys: its types and its four safety invariants, for    *)
(* any hotkeys, variants, criteria and limits, and however many presses.   *)
(*                                                                         *)
(* The invariants count frames of the main thread's stack and messages of  *)
(* its queue.  Count counts the places of a sequence whose element is in a *)
(* set, so that a push, a pop and a replacement each have one lemma, for   *)
(* all the sets of frames and messages the invariants speak of.            *)
(***************************************************************************)
EXTENDS Hotkeys, FiniteSetTheorems, SequenceTheorems, TLAPS

(* The places of s whose element is in T, and how many there are. *)
Places(s, T) == {n \in DOMAIN s : s[n] \in T}
Count(s, T) == Cardinality(Places(s, T))

-----------------------------------------------------------------------------
(* Counting.                                                               *)

(* The places are finitely many. *)
LEMMA CountNat ==
  ASSUME NEW S, NEW s \in Seq(S), NEW T
  PROVE  IsFiniteSet(Places(s, T)) /\ Count(s, T) \in Nat
<1>1. IsFiniteSet(1..Len(s))
  BY FS_Interval
<1>2. Places(s, T) \subseteq 1..Len(s)
  BY DEF Places
<1> QED
  BY <1>1, <1>2, FS_Subset, FS_CardinalityType DEF Count

(* An element appended counts if it is in the set. *)
LEMMA CountAppend ==
  ASSUME NEW S, NEW s \in Seq(S), NEW e \in S, NEW T
  PROVE  Count(Append(s, e), T) = Count(s, T) + (IF e \in T THEN 1 ELSE 0)
<1>1. IsFiniteSet(Places(s, T)) /\ Count(s, T) \in Nat
  BY CountNat
<1>2. CASE e \in T
  <2>1. Places(Append(s, e), T) = Places(s, T) \cup {Len(s) + 1}
    BY <1>2 DEF Places
  <2>2. Len(s) + 1 \notin Places(s, T)
    BY DEF Places
  <2> QED
    BY <1>1, <1>2, <2>1, <2>2, FS_AddElement DEF Count
<1>3. CASE e \notin T
  <2>1. Places(Append(s, e), T) = Places(s, T)
    BY <1>3 DEF Places
  <2> QED
    BY <1>1, <1>3, <2>1 DEF Count
<1> QED
  BY <1>2, <1>3

(* Without its last element a sequence is a sequence, with the same elements
   at the places that are left. *)
LEMMA FrontIs ==
  ASSUME NEW S, NEW s \in Seq(S), s # <<>>
  PROVE  /\ Front(s) \in Seq(S) /\ Len(Front(s)) = Len(s) - 1 /\ Len(s) > 0
         /\ \A n \in 1..(Len(s) - 1) : Front(s)[n] = s[n]
         /\ Last(s) = s[Len(s)] /\ Last(s) \in S
<1>1. Len(s) \in Nat \ {0}
  OBVIOUS
<1>2. /\ SubSeq(s, 1, Len(s) - 1) \in Seq(S)
      /\ Len(SubSeq(s, 1, Len(s) - 1)) = Len(s) - 1
      /\ \A n \in 1..(Len(s) - 1) : SubSeq(s, 1, Len(s) - 1)[n] = s[n]
  <2> DEFINE k == Len(s) - 1
  <2>1. k \in Nat /\ 1 \in Int /\ k \in Int /\ \A i \in 1..k : s[i] \in S
    BY <1>1
  <2>2. /\ SubSeq(s, 1, k) \in Seq(S)
        /\ Len(SubSeq(s, 1, k)) = IF 1 <= k THEN k - 1 + 1 ELSE 0
        /\ \A i \in 1..(k - 1 + 1) : SubSeq(s, 1, k)[i] = s[1 + i - 1]
    BY <2>1, SubSeqProperties
  <2> HIDE DEF k
  <2>3. /\ SubSeq(s, 1, k) \in Seq(S) /\ Len(SubSeq(s, 1, k)) = k
        /\ \A n \in 1..k : SubSeq(s, 1, k)[n] = s[n]
    BY <2>1, <2>2
  <2> QED
    BY <2>3 DEF k
<1>3. Last(s) = s[Len(s)] /\ s[Len(s)] \in S
  BY <1>1 DEF Last
<1> QED
  BY <1>1, <1>2, <1>3 DEF Front

(* The last element counted if it is in the set. *)
LEMMA CountFront ==
  ASSUME NEW S, NEW s \in Seq(S), s # <<>>, NEW T
  PROVE  Count(s, T) = Count(Front(s), T) + (IF Last(s) \in T THEN 1 ELSE 0)
<1>0. /\ Front(s) \in Seq(S) /\ Len(Front(s)) = Len(s) - 1 /\ Len(s) > 0
      /\ \A n \in 1..(Len(s) - 1) : Front(s)[n] = s[n]
      /\ Last(s) = s[Len(s)] /\ Last(s) \in S
  BY FrontIs
<1>1. IsFiniteSet(Places(Front(s), T)) /\ Count(Front(s), T) \in Nat
  BY <1>0, CountNat
<1>2. CASE Last(s) \in T
  <2>1. Places(s, T) = Places(Front(s), T) \cup {Len(s)}
    BY <1>0, <1>2 DEF Places
  <2>2. Len(s) \notin Places(Front(s), T)
    BY <1>0 DEF Places
  <2> QED
    BY <1>1, <1>2, <2>1, <2>2, FS_AddElement DEF Count
<1>3. CASE Last(s) \notin T
  <2>1. Places(s, T) = Places(Front(s), T)
    BY <1>0, <1>3 DEF Places
  <2> QED
    BY <1>1, <1>3, <2>1 DEF Count
<1> QED
  BY <1>2, <1>3

(* The first element counted if it is in the set. *)
LEMMA CountTail ==
  ASSUME NEW S, NEW s \in Seq(S), s # <<>>, NEW T
  PROVE  Count(s, T) = Count(Tail(s), T) + (IF Head(s) \in T THEN 1 ELSE 0)
<1>0. /\ Tail(s) \in Seq(S) /\ Len(Tail(s)) = Len(s) - 1 /\ Len(s) \in Nat \ {0}
      /\ \A n \in 1..(Len(s) - 1) : Tail(s)[n] = s[n + 1]
      /\ Head(s) = s[1]
  OBVIOUS
<1> DEFINE Rest == Places(s, T) \ {1}
           f == [n \in Places(Tail(s), T) |-> n + 1]
<1>1. IsFiniteSet(Places(s, T)) /\ Count(s, T) \in Nat
  BY CountNat
<1>2. IsFiniteSet(Places(Tail(s), T)) /\ Count(Tail(s), T) \in Nat
  BY <1>0, CountNat
<1>3. f \in Bijection(Places(Tail(s), T), Rest)
  <2>1. \A n \in Places(Tail(s), T) : n + 1 \in Rest
    BY <1>0 DEF Places
  <2>2. \A n \in Rest : n - 1 \in Places(Tail(s), T) /\ n = (n - 1) + 1
    BY <1>0 DEF Places
  <2>3. \A m, n \in Places(Tail(s), T) : f[m] = f[n] => m = n
    BY <1>0 DEF Places
  <2> QED
    BY <2>1, <2>2, <2>3 DEF Bijection, Injection, Surjection, IsInjective
<1>4. Cardinality(Rest) = Count(Tail(s), T)
  BY <1>2, <1>3, FS_Bijection DEF Count, ExistsBijection
<1>5. Cardinality(Rest) = Count(s, T) - (IF Head(s) \in T THEN 1 ELSE 0)
  <2>1. 1 \in Places(s, T) <=> Head(s) \in T
    BY <1>0 DEF Places
  <2>2. Cardinality(Rest) = IF 1 \in Places(s, T) THEN Count(s, T) - 1 ELSE Count(s, T)
    BY <1>1, FS_RemoveElement DEF Count
  <2> QED
    BY <1>1, <2>1, <2>2
<1> HIDE DEF Rest, f
<1> QED
  BY <1>1, <1>2, <1>4, <1>5

(* A sequence of the same length, with elements of the set at the same
   places, has the same count. *)
LEMMA CountSame ==
  ASSUME NEW s, NEW t, NEW T, DOMAIN s = DOMAIN t,
         \A n \in DOMAIN s : s[n] \in T <=> t[n] \in T
  PROVE  Count(s, T) = Count(t, T)
BY DEF Count, Places

-----------------------------------------------------------------------------
(* The frames of the stack.                                                *)

(* The sets whose frames and messages are counted: the threads of a variant,
   the searches for a variant of a hotkey, the evaluations the hook thread
   waits for, and the messages of a hotkey. *)
ThreadFrames(v)  == {f \in Frame : f.kind = "thread" /\ f.v = v}
SearchFrames(hk) == {f \in Frame : f.kind = "search" /\ f.hk = hk}
HookEvals        == {f \in Frame : f.kind = "eval" /\ f.asker = "hook"}
MessagesOf(hk)   == {m \in Message : m.hk = hk}

(* A thread is for a criterion that was found true, and the best a search
   has met is a variant of its hotkey without criterion. *)
FrameSound(f) ==
  /\ f.kind = "thread" => Criterion[f.v] = "none" \/ f.held = f.v
  /\ f.kind = "search" /\ f.best # NoVariant =>
       f.best \in VariantSet(f.hk) /\ Criterion[f.best] = "none"

(* An evaluation for a search is on top of the search, whose hotkey has the
   variant. *)
ForSearch(f)  == f.kind = "eval" /\ f.asker = "search"
Asks(g, f)    == g.kind = "search" /\ f.v \in VariantSet(g.hk)

(* A thread and those of its variant beneath it are within the limit it began
   with. *)
Within(s, n) ==
  s[n].kind = "thread" =>
    Cardinality({m \in 1..n : s[m].kind = "thread" /\ s[m].v = s[n].v}) <= s[n].limit

StackSound(s) ==
  \A n \in DOMAIN s :
    FrameSound(s[n]) /\ (ForSearch(s[n]) => n > 1 /\ Asks(s[n - 1], s[n])) /\ Within(s, n)

(* The fields of a frame by its kind. *)
LEMMA FrameFields ==
  ASSUME NEW f \in Frame
  PROVE  /\ f.kind \in {"thread", "search", "eval", "dialog"}
         /\ f.kind = "thread" => f.v \in Variants /\ f.limit \in 1..255
         /\ f.kind = "search" =>
              /\ f = [kind |-> "search", hk |-> f.hk, i |-> f.i, best |-> f.best]
              /\ f.hk \in HotkeyNames /\ f.i \in Nat \ {0}
              /\ f.best \in Variants \cup {NoVariant}
         /\ f.kind = "eval" => f.v \in Variants /\ f.asker \in {"hook", "search", "nobody"}
BY DEF Frame

(* What is pushed is a frame. *)
LEMMA FramesMade ==
  /\ \A v \in Variants, w \in Variants \cup {NoVariant}, n \in 1..255 :
       [kind |-> "thread", v |-> v, held |-> w, limit |-> n] \in Frame
  /\ \A hk \in HotkeyNames, i \in Nat \ {0}, w \in Variants \cup {NoVariant} :
       [kind |-> "search", hk |-> hk, i |-> i, best |-> w] \in Frame
  /\ \A v \in Variants, a \in {"hook", "search", "nobody"} :
       [kind |-> "eval", v |-> v, asker |-> a] \in Frame
  /\ [kind |-> "dialog"] \in Frame
BY DEF Frame

(* Whether a thread is within its limit depends on the threads at its place
   and beneath it only. *)
LEMMA WithinSame ==
  ASSUME NEW s, NEW t, NEW n \in Nat \ {0}, Within(s, n),
         \A m \in 1..n : t[m] = s[m] \/ (t[m].kind # "thread" /\ s[m].kind # "thread")
  PROVE  Within(t, n)
<1> SUFFICES ASSUME t[n].kind = "thread"
             PROVE  Cardinality({m \in 1..n : t[m].kind = "thread" /\ t[m].v = t[n].v}) <= t[n].limit
  BY DEF Within
<1>1. n \in 1..n
  OBVIOUS
<1>2. t[n] = s[n]
  BY <1>1
<1>3. {m \in 1..n : t[m].kind = "thread" /\ t[m].v = t[n].v}
      = {m \in 1..n : s[m].kind = "thread" /\ s[m].v = s[n].v}
  BY <1>2
<1> QED
  BY <1>2, <1>3 DEF Within

(* A thread of v appended to fewer threads of v than its limit is within it. *)
LEMMA WithinAppend ==
  ASSUME NEW s \in Seq(Frame), NEW f \in Frame, f.kind = "thread",
         Count(s, ThreadFrames(f.v)) + 1 <= f.limit
  PROVE  Within(Append(s, f), Len(s) + 1)
<1> DEFINE t == Append(s, f)
<1>1. /\ t \in Seq(Frame) /\ DOMAIN t = 1..(Len(s) + 1) /\ Len(s) \in Nat
      /\ t[Len(s) + 1] = f
  OBVIOUS
<1>2. f \in ThreadFrames(f.v)
  BY DEF ThreadFrames
<1>3. Count(t, ThreadFrames(f.v)) = Count(s, ThreadFrames(f.v)) + 1
  BY <1>2, CountAppend, CountNat
<1> HIDE DEF t
<1>4. {m \in 1..(Len(s) + 1) : t[m].kind = "thread" /\ t[m].v = f.v} = Places(t, ThreadFrames(f.v))
  <2>1. \A m \in 1..(Len(s) + 1) : t[m] \in Frame
    BY <1>1
  <2> QED
    BY <1>1, <2>1 DEF Places, ThreadFrames
<1>5. Within(t, Len(s) + 1)
  BY <1>1, <1>3, <1>4 DEF Within, Count
<1> QED
  BY <1>5 DEF t

(* A sound frame on top of a sound stack. *)
LEMMA Push ==
  ASSUME NEW s \in Seq(Frame), StackSound(s), NEW f \in Frame, FrameSound(f),
         ForSearch(f) => s # <<>> /\ Asks(Last(s), f),
         f.kind = "thread" => Count(s, ThreadFrames(f.v)) + 1 <= f.limit
  PROVE  Append(s, f) \in Seq(Frame) /\ StackSound(Append(s, f))
<1> DEFINE t == Append(s, f)
<1>1. /\ t \in Seq(Frame) /\ Len(t) = Len(s) + 1 /\ Len(s) \in Nat
      /\ \A n \in 1..Len(s) : t[n] = s[n]
      /\ t[Len(s) + 1] = f
  OBVIOUS
<1>2. DOMAIN t = 1..(Len(s) + 1) /\ DOMAIN s = 1..Len(s)
  BY <1>1
<1>6. Within(t, Len(s) + 1)
  <2>1. CASE f.kind = "thread"
    BY <2>1, WithinAppend
  <2>2. CASE f.kind # "thread"
    BY <1>1, <2>2 DEF Within
  <2> QED
    BY <2>1, <2>2
<1> HIDE DEF t
<1>3. ASSUME NEW n \in 1..Len(s)
      PROVE  FrameSound(t[n]) /\ (ForSearch(t[n]) => n > 1 /\ Asks(t[n - 1], t[n])) /\ Within(t, n)
  <2>1. t[n] = s[n] /\ (n > 1 => t[n - 1] = s[n - 1])
    BY <1>1, <1>3
  <2>2. Within(t, n)
    <3>1. n \in Nat \ {0} /\ \A m \in 1..n : t[m] = s[m]
      BY <1>1, <1>3
    <3>2. Within(s, n)
      BY <1>2, <1>3 DEF StackSound
    <3> QED
      BY <3>1, <3>2, WithinSame
  <2> QED
    BY <1>2, <1>3, <2>1, <2>2 DEF StackSound
<1>4. ForSearch(f) => Len(s) + 1 > 1 /\ Asks(t[Len(s)], f)
  <2>1. s # <<>> => Len(s) >= 1 /\ Last(s) = s[Len(s)]
    BY <1>1 DEF Last
  <2> QED
    BY <1>1, <2>1
<1>5. StackSound(t)
  <2> SUFFICES ASSUME NEW n \in 1..(Len(s) + 1)
               PROVE  FrameSound(t[n]) /\ (ForSearch(t[n]) => n > 1 /\ Asks(t[n - 1], t[n]))
                      /\ Within(t, n)
    BY <1>2 DEF StackSound
  <2>1. CASE n \in 1..Len(s)
    BY <1>3, <2>1
  <2>2. CASE n = Len(s) + 1
    <3>1. n - 1 = Len(s)
      BY <1>1, <2>2
    <3> QED
      BY <1>1, <1>4, <1>6, <2>2, <3>1
  <2> QED
    BY <1>1, <2>1, <2>2
<1> QED
  BY <1>1, <1>5 DEF t

(* A sound stack without its top. *)
LEMMA Pop ==
  ASSUME NEW s \in Seq(Frame), s # <<>>, StackSound(s)
  PROVE  /\ Front(s) \in Seq(Frame) /\ StackSound(Front(s))
         /\ Last(s) \in Frame /\ FrameSound(Last(s))
         /\ ForSearch(Last(s)) =>
              Front(s) # <<>> /\ Asks(Last(Front(s)), Last(s))
<1>1. /\ Front(s) \in Seq(Frame) /\ Len(Front(s)) = Len(s) - 1 /\ Len(s) > 0
      /\ \A n \in 1..(Len(s) - 1) : Front(s)[n] = s[n]
      /\ Last(s) = s[Len(s)] /\ Last(s) \in Frame
  BY FrontIs
<1>2. DOMAIN Front(s) = 1..(Len(s) - 1) /\ DOMAIN s = 1..Len(s) /\ Len(s) \in Nat
  BY <1>1
<1>3. StackSound(Front(s))
  <2> SUFFICES ASSUME NEW n \in 1..(Len(s) - 1)
               PROVE  /\ FrameSound(Front(s)[n])
                      /\ ForSearch(Front(s)[n]) => n > 1 /\ Asks(Front(s)[n - 1], Front(s)[n])
                      /\ Within(Front(s), n)
    BY <1>2 DEF StackSound
  <2>1. Front(s)[n] = s[n] /\ (n > 1 => Front(s)[n - 1] = s[n - 1]) /\ n \in 1..Len(s)
    BY <1>1, <1>2
  <2>2. Within(Front(s), n)
    <3>1. n \in Nat \ {0} /\ \A m \in 1..n : Front(s)[m] = s[m]
      BY <1>1, <1>2
    <3>2. Within(s, n)
      BY <1>2, <2>1 DEF StackSound
    <3> QED
      BY <3>1, <3>2, WithinSame
  <2> QED
    BY <1>2, <2>1, <2>2 DEF StackSound
<1>4. FrameSound(Last(s)) /\ (ForSearch(Last(s)) => Len(s) > 1 /\ Asks(s[Len(s) - 1], Last(s)))
  BY <1>1, <1>2 DEF StackSound
<1>5. Len(s) > 1 => Front(s) # <<>> /\ Last(Front(s)) = s[Len(s) - 1]
  <2>1. Len(s) > 1 => Len(Front(s)) # 0 /\ Front(s)[Len(Front(s))] = s[Len(s) - 1]
    BY <1>1, <1>2
  <2> QED
    BY <2>1 DEF Last
<1> QED
  BY <1>1, <1>3, <1>4, <1>5

(* The search on top goes on: the stack has the same searches, threads and
   evaluations. *)
LEMMA SearchGoesOn ==
  ASSUME NEW s \in Seq(Frame), s # <<>>, StackSound(s), Last(s).kind = "search",
         NEW f \in Frame, f.kind = "search", f.hk = Last(s).hk, FrameSound(f),
         NEW t, t = [s EXCEPT ![Len(s)] = f]
  PROVE  /\ t \in Seq(Frame) /\ StackSound(t)
         /\ \A v \in Variants : Count(t, ThreadFrames(v)) = Count(s, ThreadFrames(v))
         /\ \A hk \in HotkeyNames : Count(t, SearchFrames(hk)) = Count(s, SearchFrames(hk))
         /\ Count(t, HookEvals) = Count(s, HookEvals)
<1>1. /\ t \in Seq(Frame) /\ DOMAIN t = DOMAIN s /\ DOMAIN s = 1..Len(s)
      /\ Len(s) \in Nat \ {0} /\ t[Len(s)] = f
      /\ \A n \in 1..(Len(s) - 1) : t[n] = s[n]
      /\ Last(s) = s[Len(s)]
  BY DEF Last
<1>2. \A n \in DOMAIN s : t[n] = s[n] \/ (n = Len(s) /\ t[n] = f)
  BY <1>1
<1>3. StackSound(t)
  <2> SUFFICES ASSUME NEW n \in DOMAIN s
               PROVE  /\ FrameSound(t[n])
                      /\ ForSearch(t[n]) => n > 1 /\ Asks(t[n - 1], t[n])
                      /\ Within(t, n)
    BY <1>1 DEF StackSound
  <2>1. CASE n = Len(s)
    BY <1>1, <2>1 DEF ForSearch, Within
  <2>2. CASE n # Len(s)
    <3>1. n \in 1..(Len(s) - 1) /\ (n > 1 => n - 1 \in 1..(Len(s) - 1))
      <4>1. n \in 1..Len(s) /\ Len(s) \in Nat
        BY <1>1
      <4> QED
        BY <2>2, <4>1
    <3>2. t[n] = s[n] /\ (n > 1 => t[n - 1] = s[n - 1])
      BY <1>1, <3>1
    <3>3. Within(t, n)
      <4>1. n \in Nat \ {0} /\ \A m \in 1..n : t[m] = s[m]
        <5>1. n \in Nat \ {0} /\ \A m \in 1..n : m \in 1..(Len(s) - 1)
          BY <3>1
        <5> QED
          BY <1>1, <5>1
      <4>2. Within(s, n)
        BY DEF StackSound
      <4> QED
        BY <4>1, <4>2, WithinSame
    <3> QED
      BY <3>2, <3>3 DEF StackSound
  <2> QED
    BY <2>1, <2>2
<1>4. ASSUME NEW v \in Variants
      PROVE  Count(t, ThreadFrames(v)) = Count(s, ThreadFrames(v))
  <2>1. \A n \in DOMAIN t : t[n] \in ThreadFrames(v) <=> s[n] \in ThreadFrames(v)
    BY <1>1, <1>2 DEF ThreadFrames
  <2> QED
    BY <1>1, <2>1, CountSame
<1>5. ASSUME NEW hk \in HotkeyNames
      PROVE  Count(t, SearchFrames(hk)) = Count(s, SearchFrames(hk))
  <2>1. \A n \in DOMAIN t : t[n] \in SearchFrames(hk) <=> s[n] \in SearchFrames(hk)
    <3>1. f \in SearchFrames(hk) <=> Last(s) \in SearchFrames(hk)
      <4>1. Last(s) \in Frame
        BY FrontIs
      <4> QED
        BY <4>1 DEF SearchFrames
    <3> QED
      BY <1>1, <1>2, <3>1
  <2> QED
    BY <1>1, <2>1, CountSame
<1>6. Count(t, HookEvals) = Count(s, HookEvals)
  <2>1. \A n \in DOMAIN t : t[n] \in HookEvals <=> s[n] \in HookEvals
    BY <1>1, <1>2 DEF HookEvals
  <2> QED
    BY <1>1, <2>1, CountSame
<1> QED
  BY <1>1, <1>3, <1>4, <1>5, <1>6

-----------------------------------------------------------------------------
(* The tickets of a hotkey.                                                *)

(* The variants of a hotkey that have a ticket in t. *)
TicketsIn(t, hk) == Cardinality({v \in VariantSet(hk) : t[v]})

(* A hotkey's variants are finitely many, and no other hotkey's. *)
LEMMA VariantsOwned ==
  ASSUME NEW hk \in HotkeyNames
  PROVE  /\ VariantSet(hk) \subseteq Variants /\ IsFiniteSet(VariantSet(hk))
         /\ VariantsOf[hk] \in Seq(Variants)
         /\ \A n \in 1..Len(VariantsOf[hk]) : VariantsOf[hk][n] \in VariantSet(hk)
         /\ \A v \in VariantSet(hk) : Owner(v) = hk
<1>1. VariantsOf[hk] \in Seq(Variants)
  BY HotkeyAssumption
<1>2. VariantSet(hk) \subseteq Variants
  BY <1>1 DEF VariantSet, ToSet
<1>3. IsFiniteSet(VariantSet(hk))
  BY <1>2, HotkeyAssumption, FS_Subset
<1>4. \A n \in 1..Len(VariantsOf[hk]) : VariantsOf[hk][n] \in VariantSet(hk)
  BY <1>1 DEF VariantSet, ToSet
<1>5. ASSUME NEW v \in VariantSet(hk)
      PROVE  Owner(v) = hk
  <2>1. \A h \in HotkeyNames : v \in VariantSet(h) => h = hk
    BY HotkeyAssumption DEF VariantSet
  <2> QED
    BY <2>1 DEF Owner
<1> QED
  BY <1>1, <1>2, <1>3, <1>4, <1>5

(* Every variant has an owner. *)
LEMMA OwnerIs ==
  ASSUME NEW v \in Variants
  PROVE  Owner(v) \in HotkeyNames /\ v \in VariantSet(Owner(v))
<1>1. \E hk \in HotkeyNames : v \in VariantSet(hk)
  BY HotkeyAssumption DEF VariantSet
<1> QED
  BY <1>1 DEF Owner

(* Tickets are counted by a number; fewer tickets have a smaller one. *)
LEMMA TicketsFewer ==
  ASSUME NEW hk \in HotkeyNames, NEW t, NEW u, \A v \in Variants : u[v] => t[v]
  PROVE  /\ TicketsIn(t, hk) \in Nat /\ TicketsIn(u, hk) \in Nat
         /\ TicketsIn(u, hk) <= TicketsIn(t, hk)
<1>1. VariantSet(hk) \subseteq Variants /\ IsFiniteSet(VariantSet(hk))
  BY VariantsOwned
<1>2. {v \in VariantSet(hk) : t[v]} \subseteq VariantSet(hk)
  OBVIOUS
<1>3. IsFiniteSet({v \in VariantSet(hk) : t[v]})
  BY <1>1, <1>2, FS_Subset
<1>4. {v \in VariantSet(hk) : u[v]} \subseteq {v \in VariantSet(hk) : t[v]}
  BY <1>1
<1>5. /\ IsFiniteSet({v \in VariantSet(hk) : u[v]})
      /\ Cardinality({v \in VariantSet(hk) : u[v]}) <= Cardinality({v \in VariantSet(hk) : t[v]})
  BY <1>3, <1>4, FS_Subset
<1> QED
  BY <1>3, <1>5, FS_CardinalityType DEF TicketsIn

(* One variant may have a ticket more. *)
LEMMA TicketMore ==
  ASSUME NEW hk \in HotkeyNames, NEW t, NEW u, NEW w \in VariantSet(hk),
         \A v \in Variants \ {w} : u[v] => t[v]
  PROVE  TicketsIn(u, hk) <= TicketsIn(t, hk) + 1
<1>1. VariantSet(hk) \subseteq Variants /\ IsFiniteSet(VariantSet(hk))
  BY VariantsOwned
<1> DEFINE A == {v \in VariantSet(hk) : t[v]}
           B == {v \in VariantSet(hk) : u[v]}
<1>2. IsFiniteSet(A)
  <2>1. A \subseteq VariantSet(hk)
    OBVIOUS
  <2> QED
    BY <1>1, <2>1, FS_Subset
<1>3. B \subseteq A \cup {w}
  BY <1>1
<1>4. IsFiniteSet(A \cup {w}) /\ Cardinality(A \cup {w}) <= Cardinality(A) + 1
  <2>1. Cardinality(A) \in Nat
    BY <1>2, FS_CardinalityType
  <2> HIDE DEF A
  <2> QED
    BY <1>2, <2>1, FS_AddElement
<1>5. IsFiniteSet(B) /\ Cardinality(B) <= Cardinality(A \cup {w})
  BY <1>3, <1>4, FS_Subset
<1>6. /\ Cardinality(A) \in Nat /\ Cardinality(B) \in Nat
      /\ Cardinality(A \cup {w}) \in Nat
  BY <1>2, <1>4, <1>5, FS_CardinalityType
<1> HIDE DEF A, B
<1>7. Cardinality(B) <= Cardinality(A) + 1
  BY <1>4, <1>5, <1>6
<1> QED
  BY <1>7 DEF TicketsIn, A, B

(* A variant that had a ticket has none any more. *)
LEMMA TicketLess ==
  ASSUME NEW hk \in HotkeyNames, NEW t, NEW u, NEW w \in VariantSet(hk), t[w], ~u[w],
         \A v \in Variants : u[v] => t[v]
  PROVE  TicketsIn(u, hk) + 1 <= TicketsIn(t, hk)
<1>1. VariantSet(hk) \subseteq Variants /\ IsFiniteSet(VariantSet(hk))
  BY VariantsOwned
<1> DEFINE A == {v \in VariantSet(hk) : t[v]}
           B == {v \in VariantSet(hk) : u[v]}
<1>2. IsFiniteSet(A)
  <2>1. A \subseteq VariantSet(hk)
    OBVIOUS
  <2> QED
    BY <1>1, <2>1, FS_Subset
<1>3. B \subseteq A \ {w} /\ w \in A
  BY <1>1
<1>4. IsFiniteSet(A \ {w}) /\ Cardinality(A \ {w}) = Cardinality(A) - 1
  BY <1>2, <1>3, FS_RemoveElement
<1>5. IsFiniteSet(B) /\ Cardinality(B) <= Cardinality(A \ {w})
  BY <1>3, <1>4, FS_Subset
<1>6. Cardinality(A) \in Nat /\ Cardinality(B) \in Nat
  BY <1>2, <1>5, FS_CardinalityType
<1> HIDE DEF A, B
<1>7. Cardinality(B) + 1 <= Cardinality(A)
  BY <1>4, <1>5, <1>6
<1> QED
  BY <1>7 DEF TicketsIn, A, B

-----------------------------------------------------------------------------
(* The inductive invariant.                                                *)

(* The number of threads a variant has is the number of its frames. *)
ThreadsCounted == \A v \in Variants : existing[v] = Count(stack, ThreadFrames(v))

(* A ticket belongs to a variant that has a thread. *)
TicketsOwned == \A v \in Variants : ticket[v] => existing[v] > 0

(* A message with a variant is for the one whose criterion was found true. *)
QueueSound ==
  \A n \in DOMAIN queue :
    queue[n].variant # 0 =>
      /\ queue[n].variant \in 1..Len(VariantsOf[queue[n].hk])
      /\ queue[n].held = VariantsOf[queue[n].hk][queue[n].variant]

(* What the hook thread asks about is a variant, and it waits for the only
   evaluation that will answer it. *)
HookSound ==
  /\ hook.at \in {"asking", "evaluating"} => hook.i <= Len(VariantsOf[hook.hk])
  /\ Count(stack, HookEvals) = IF hook.at = "evaluating" THEN 1 ELSE 0

(* What the presses of a hotkey have become: threads, messages, searches and
   tickets. *)
Runs(hk) == launched[hk] + Count(stack, SearchFrames(hk)) + TicketsIn(ticket, hk)
Balanced ==
  \A hk \in HotkeyNames : Runs(hk) + Count(queue, MessagesOf(hk)) <= pressed[hk]

IInv ==
  /\ TypeOK /\ StackSound(stack) /\ QueueSound /\ HookSound
  /\ ThreadsCounted /\ TicketsOwned /\ Balanced

(* Nothing has happened yet. *)
LEMMA InitIInv == Init => IInv
<1> SUFFICES ASSUME Init PROVE IInv
  OBVIOUS
<1>1. \A S : Count(<<>>, S) = 0
  BY FS_EmptySet DEF Count, Places
<1>2. \A hk \in HotkeyNames : TicketsIn(ticket, hk) = 0
  <2> SUFFICES ASSUME NEW hk \in HotkeyNames PROVE TicketsIn(ticket, hk) = 0
    OBVIOUS
  <2>1. \A v \in VariantSet(hk) : ~ticket[v]
    BY VariantsOwned DEF Init
  <2>2. {v \in VariantSet(hk) : ticket[v]} = {}
    BY <2>1
  <2> QED
    BY <2>2, FS_EmptySet DEF TicketsIn
<1>3. TypeOK
  <2>1. option \in [Variants -> Options]
    <3>1. \A v \in Variants : MaxThreadsOf[v] \in 1..255
      BY HotkeyAssumption
    <3> QED
      BY <3>1 DEF Init, Options
  <2>2. hook \in Hook
    BY DEF Init, Idle, Hook
  <2>3. queue \in Seq(Message) /\ stack \in Seq(Frame)
    BY DEF Init
  <2>4. /\ enabled \in [Variants -> BOOLEAN] /\ suspended \in BOOLEAN
        /\ active \in [HotkeyNames -> BOOLEAN] /\ ticket \in [Variants -> BOOLEAN]
    BY DEF Init
  <2>5. /\ existing \in [Variants -> Nat]
        /\ pressed \in [HotkeyNames -> Nat] /\ launched \in [HotkeyNames -> Nat]
        /\ switches \in Nat
    BY DEF Init
  <2> QED
    BY <2>1, <2>2, <2>3, <2>4, <2>5 DEF TypeOK
<1>4. StackSound(stack) /\ QueueSound
  BY DEF Init, StackSound, QueueSound
<1>5. HookSound
  BY <1>1 DEF Init, HookSound, Idle
<1>6. ThreadsCounted /\ TicketsOwned
  BY <1>1 DEF Init, ThreadsCounted, TicketsOwned
<1>7. Balanced
  <2> SUFFICES ASSUME NEW hk \in HotkeyNames
               PROVE  Runs(hk) + Count(queue, MessagesOf(hk)) <= pressed[hk]
    BY DEF Balanced
  <2>1. Count(stack, SearchFrames(hk)) = 0 /\ Count(queue, MessagesOf(hk)) = 0
    BY <1>1 DEF Init
  <2>2. launched[hk] = 0 /\ pressed[hk] = 0
    BY DEF Init
  <2> QED
    BY <1>2, <2>1, <2>2 DEF Runs
<1> QED
  BY <1>3, <1>4, <1>5, <1>6, <1>7 DEF IInv

(* The sums of Balanced are of numbers. *)
LEMMA RunsNat ==
  ASSUME IInv, NEW hk \in HotkeyNames
  PROVE  /\ Count(stack, SearchFrames(hk)) \in Nat /\ TicketsIn(ticket, hk) \in Nat
         /\ launched[hk] \in Nat /\ Runs(hk) \in Nat
         /\ Count(queue, MessagesOf(hk)) \in Nat /\ pressed[hk] \in Nat
<1>1. stack \in Seq(Frame) /\ queue \in Seq(Message)
  BY DEF IInv, TypeOK
<1>2. Count(stack, SearchFrames(hk)) \in Nat /\ Count(queue, MessagesOf(hk)) \in Nat
  BY <1>1, CountNat
<1>3. TicketsIn(ticket, hk) \in Nat
  BY TicketsFewer
<1>4. launched[hk] \in Nat /\ pressed[hk] \in Nat
  BY DEF IInv, TypeOK
<1> QED
  BY <1>2, <1>3, <1>4 DEF Runs

-----------------------------------------------------------------------------
(* A press becomes a thread, a ticket, a dialog or nothing.                *)

(* A number of threads at the limit, and one beneath it. *)
LEMMA Limits ==
  \A a \in Nat, b \in 1..255 : (a >= b => a > 0) /\ (~(a >= b) => a + 1 <= b)
OBVIOUS

(* Fire keeps the types of what it changes, the stack is sound and counted,
   and the hotkey has at most one run more. *)
LEMMA Fires ==
  ASSUME TypeOK, TicketsOwned,
         NEW under \in Seq(Frame), StackSound(under),
         \A w \in Variants : existing[w] = Count(under, ThreadFrames(w)),
         NEW hk \in HotkeyNames, NEW v \in VariantSet(hk),
         NEW held \in Variants \cup {NoVariant}, Criterion[v] = "none" \/ held = v,
         Fire(under, hk, v, held)
  PROVE  /\ stack' \in Seq(Frame) /\ StackSound(stack')
         /\ existing' \in [Variants -> Nat]
         /\ ticket' \in [Variants -> BOOLEAN]
         /\ launched' \in [HotkeyNames -> Nat]
         /\ ThreadsCounted' /\ TicketsOwned'
         /\ Count(stack', HookEvals) = Count(under, HookEvals)
         /\ \A g \in HotkeyNames :
              Runs(g)' <= launched[g] + Count(under, SearchFrames(g)) + TicketsIn(ticket, g)
                          + (IF g = hk THEN 1 ELSE 0)
<1>1. /\ v \in Variants /\ existing \in [Variants -> Nat]
      /\ ticket \in [Variants -> BOOLEAN] /\ launched \in [HotkeyNames -> Nat]
      /\ option[v].max \in 1..255
  <2>1. v \in Variants /\ option \in [Variants -> Options]
    BY VariantsOwned DEF TypeOK
  <2>2. option[v] \in Options
    BY <2>1
  <2> QED
    BY <2>1, <2>2 DEF TypeOK, Options
<1>2. \A g \in HotkeyNames :
        /\ TicketsIn(ticket, g) \in Nat /\ launched[g] \in Nat
        /\ Count(under, SearchFrames(g)) \in Nat
  BY <1>1, TicketsFewer, CountNat
<1>3. CASE AtLimit(v) /\ RunAgain(v) /\ stack' = under /\ UNCHANGED <<existing, launched>>
  <2>1. /\ ticket' \in [Variants -> BOOLEAN]
        /\ \A w \in Variants \ {v} : ticket'[w] => ticket[w]
    BY <1>1, <1>3 DEF RunAgain
  <2>2. existing[v] > 0
    <3>1. existing[v] >= option[v].max
      BY <1>3 DEF AtLimit
    <3>2. existing[v] \in Nat /\ option[v].max \in 1..255
      BY <1>1
    <3> QED
      BY <3>1, <3>2, Limits
  <2>3. ThreadsCounted' /\ TicketsOwned'
    BY <1>3, <2>1, <2>2 DEF ThreadsCounted, TicketsOwned
  <2>4. ASSUME NEW g \in HotkeyNames
        PROVE  TicketsIn(ticket', g) <= TicketsIn(ticket, g) + (IF g = hk THEN 1 ELSE 0)
    <3>1. CASE g = hk
      BY <2>1, <3>1, TicketMore
    <3>2. CASE g # hk
      <4>1. v \notin VariantSet(g)
        BY <3>2, VariantsOwned
      <4>2. {w \in VariantSet(g) : ticket'[w]} \subseteq {w \in VariantSet(g) : ticket[w]}
        BY <2>1, <4>1, VariantsOwned
      <4>3. VariantSet(g) \subseteq Variants /\ IsFiniteSet(VariantSet(g))
        BY VariantsOwned
      <4>4. IsFiniteSet({w \in VariantSet(g) : ticket[w]})
        <5>1. {w \in VariantSet(g) : ticket[w]} \subseteq VariantSet(g)
          OBVIOUS
        <5> QED
          BY <4>3, <5>1, FS_Subset
      <4>5. TicketsIn(ticket', g) <= TicketsIn(ticket, g)
        BY <4>2, <4>4, FS_Subset DEF TicketsIn
      <4> QED
        BY <1>2, <3>2, <4>5
    <3> QED
      BY <3>1, <3>2
  <2>5. \A g \in HotkeyNames : TicketsIn(ticket', g) \in Nat
    BY TicketsFewer
  <2>6. ASSUME NEW g \in HotkeyNames
        PROVE  Runs(g)' <= launched[g] + Count(under, SearchFrames(g)) + TicketsIn(ticket, g)
                           + (IF g = hk THEN 1 ELSE 0)
    <3>1. Runs(g)' = launched[g] + Count(under, SearchFrames(g)) + TicketsIn(ticket', g)
      BY <1>3 DEF Runs
    <3> QED
      BY <1>2, <2>4, <2>5, <3>1
  <2> QED
    BY <1>1, <1>3, <2>1, <2>3, <2>6
<1>4. CASE stack' = under /\ UNCHANGED <<existing, ticket, launched>>
  <2>1. ThreadsCounted' /\ TicketsOwned'
    BY <1>4 DEF ThreadsCounted, TicketsOwned
  <2>2. ASSUME NEW g \in HotkeyNames
        PROVE  Runs(g)' <= launched[g] + Count(under, SearchFrames(g)) + TicketsIn(ticket, g)
                           + (IF g = hk THEN 1 ELSE 0)
    <3>1. Runs(g)' = launched[g] + Count(under, SearchFrames(g)) + TicketsIn(ticket, g)
      BY <1>4 DEF Runs
    <3> QED
      BY <1>2, <3>1
  <2> QED
    BY <1>1, <1>4, <2>1, <2>2
<1>5. CASE ~AtLimit(v) /\ Perform(under, hk, v, held)
  <2>1. CASE /\ stack' = Append(under, [kind |-> "thread", v |-> v, held |-> held,
                                         limit |-> option[v].max])
             /\ existing' = [existing EXCEPT ![v] = @ + 1]
             /\ launched' = [launched EXCEPT ![hk] = @ + 1]
             /\ UNCHANGED ticket
    <3> DEFINE f == [kind |-> "thread", v |-> v, held |-> held, limit |-> option[v].max]
    <3>1. f \in Frame /\ FrameSound(f) /\ ~ForSearch(f) /\ f.v = v /\ f.limit = option[v].max
      BY <1>1, FramesMade DEF FrameSound, ForSearch
    <3>2. /\ \A w \in Variants : f \in ThreadFrames(w) <=> w = v
          /\ \A g \in HotkeyNames : f \notin SearchFrames(g)
          /\ f \notin HookEvals
      BY <3>1 DEF ThreadFrames, SearchFrames, HookEvals
    <3> HIDE DEF f
    <3>3. stack' = Append(under, f)
      BY <2>1 DEF f
    <3>9. Count(under, ThreadFrames(f.v)) + 1 <= f.limit
      <4>1. ~(existing[v] >= option[v].max)
        BY <1>5 DEF AtLimit
      <4>2. existing[v] \in Nat /\ option[v].max \in 1..255 /\ existing[v] = Count(under, ThreadFrames(v))
        BY <1>1
      <4> QED
        BY <3>1, <4>1, <4>2, Limits
    <3>4. stack' \in Seq(Frame) /\ StackSound(stack')
      BY <3>1, <3>3, <3>9, Push
    <3>5. /\ \A w \in Variants : Count(stack', ThreadFrames(w))
                                 = Count(under, ThreadFrames(w)) + (IF w = v THEN 1 ELSE 0)
          /\ \A g \in HotkeyNames : Count(stack', SearchFrames(g)) = Count(under, SearchFrames(g))
          /\ Count(stack', HookEvals) = Count(under, HookEvals)
      <4>1. ASSUME NEW T
            PROVE  /\ Count(under, T) \in Nat
                   /\ Count(stack', T) = Count(under, T) + (IF f \in T THEN 1 ELSE 0)
        BY <3>1, <3>3, CountAppend, CountNat
      <4>2. ASSUME NEW T, f \notin T
            PROVE  Count(stack', T) = Count(under, T)
        BY <4>1, <4>2
      <4> QED
        BY <3>2, <4>1, <4>2
    <3>6. ThreadsCounted'
      BY <1>1, <2>1, <3>5 DEF ThreadsCounted
    <3>7. TicketsOwned'
      BY <1>1, <2>1 DEF TicketsOwned
    <3>8. /\ existing' \in [Variants -> Nat] /\ launched' \in [HotkeyNames -> Nat]
          /\ ticket' \in [Variants -> BOOLEAN]
      BY <1>1, <2>1
    <3>10. ASSUME NEW g \in HotkeyNames
           PROVE  Runs(g)' <= launched[g] + Count(under, SearchFrames(g)) + TicketsIn(ticket, g)
                              + (IF g = hk THEN 1 ELSE 0)
      <4>1. launched'[g] = launched[g] + (IF g = hk THEN 1 ELSE 0)
        BY <1>1, <1>2, <2>1
      <4>2. Runs(g)' = launched'[g] + Count(under, SearchFrames(g)) + TicketsIn(ticket, g)
        BY <2>1, <3>5 DEF Runs
      <4> QED
        BY <1>2, <4>1, <4>2
    <3> QED
      BY <3>4, <3>5, <3>6, <3>7, <3>8, <3>10
  <2>2. CASE /\ stack' = Append(under, [kind |-> "dialog"])
             /\ ticket' = [w \in Variants |-> FALSE]
             /\ UNCHANGED <<existing, launched>>
    <3> DEFINE f == [kind |-> "dialog"]
    <3>1. f \in Frame /\ FrameSound(f) /\ ~ForSearch(f) /\ f.kind # "thread"
      BY FramesMade DEF FrameSound, ForSearch
    <3>2. /\ \A w \in Variants : f \notin ThreadFrames(w)
          /\ \A g \in HotkeyNames : f \notin SearchFrames(g)
          /\ f \notin HookEvals
      BY DEF ThreadFrames, SearchFrames, HookEvals
    <3> HIDE DEF f
    <3>3. stack' = Append(under, f)
      BY <2>2 DEF f
    <3>4. stack' \in Seq(Frame) /\ StackSound(stack')
      BY <3>1, <3>3, Push
    <3>5. ASSUME NEW T, f \notin T
          PROVE  Count(stack', T) = Count(under, T)
      BY <3>1, <3>3, <3>5, CountAppend, CountNat
    <3>6. ThreadsCounted'
      BY <2>2, <3>2, <3>5 DEF ThreadsCounted
    <3>7. TicketsOwned' /\ ticket' \in [Variants -> BOOLEAN]
      BY <2>2 DEF TicketsOwned
    <3>8. ASSUME NEW g \in HotkeyNames
          PROVE  Runs(g)' <= launched[g] + Count(under, SearchFrames(g)) + TicketsIn(ticket, g)
                             + (IF g = hk THEN 1 ELSE 0)
      <4>1. TicketsIn(ticket', g) \in Nat /\ TicketsIn(ticket', g) <= TicketsIn(ticket, g)
        BY <2>2, TicketsFewer
      <4>2. Runs(g)' = launched[g] + Count(under, SearchFrames(g)) + TicketsIn(ticket', g)
        BY <2>2, <3>2, <3>5 DEF Runs
      <4> QED
        BY <1>2, <4>1, <4>2
    <3> QED
      BY <1>1, <2>2, <3>2, <3>4, <3>5, <3>6, <3>7, <3>8
  <2> QED
    BY <1>5, <2>1, <2>2 DEF Perform
<1> QED
  BY <1>3, <1>4, <1>5 DEF Fire

-----------------------------------------------------------------------------
(* Presses become messages.                                                *)

(* The queue is a sound sequence of messages, and each hotkey has as many
   presses without a message as before. *)
Delivered ==
  /\ queue' \in Seq(Message) /\ QueueSound'
  /\ pressed' \in [HotkeyNames -> Nat]
  /\ \A hk \in HotkeyNames :
       pressed'[hk] - Count(queue', MessagesOf(hk)) = pressed[hk] - Count(queue, MessagesOf(hk))

(* A message appended to a sound queue. *)
LEMMA Posted ==
  ASSUME queue \in Seq(Message), QueueSound, NEW hk \in HotkeyNames, NEW variant \in Nat,
         NEW held \in Variants \cup {NoVariant},
         variant # 0 =>
           variant \in 1..Len(VariantsOf[hk]) /\ held = VariantsOf[hk][variant],
         Post(hk, variant, held)
  PROVE  /\ queue' \in Seq(Message) /\ QueueSound'
         /\ \A g \in HotkeyNames :
              /\ Count(queue, MessagesOf(g)) \in Nat
              /\ Count(queue', MessagesOf(g))
                 = Count(queue, MessagesOf(g)) + (IF g = hk THEN 1 ELSE 0)
<1> DEFINE m == [hk |-> hk, variant |-> variant, held |-> held]
<1>1. m \in Message /\ m.hk = hk /\ m.variant = variant /\ m.held = held
  BY DEF Message
<1>2. queue' = Append(queue, m)
  BY DEF Post
<1> HIDE DEF m
<1>3. /\ queue' \in Seq(Message) /\ DOMAIN queue' = 1..(Len(queue) + 1) /\ Len(queue) \in Nat
      /\ DOMAIN queue = 1..Len(queue)
      /\ \A n \in 1..Len(queue) : queue'[n] = queue[n]
      /\ queue'[Len(queue) + 1] = m
  BY <1>1, <1>2
<1>4. QueueSound'
  <2> SUFFICES ASSUME NEW n \in DOMAIN queue', queue'[n].variant # 0
               PROVE  /\ queue'[n].variant \in 1..Len(VariantsOf[queue'[n].hk])
                      /\ queue'[n].held = VariantsOf[queue'[n].hk][queue'[n].variant]
    BY DEF QueueSound
  <2>1. n \in DOMAIN queue \/ n = Len(queue) + 1
    BY <1>3
  <2>2. CASE n \in DOMAIN queue
    <3>1. queue'[n] = queue[n]
      BY <1>3, <2>2
    <3> QED
      BY <2>2, <3>1 DEF QueueSound
  <2>3. CASE n = Len(queue) + 1
    BY <1>1, <1>3, <2>3
  <2> QED
    BY <2>1, <2>2, <2>3
<1>5. ASSUME NEW g \in HotkeyNames
      PROVE  /\ Count(queue, MessagesOf(g)) \in Nat
             /\ Count(queue', MessagesOf(g))
                = Count(queue, MessagesOf(g)) + (IF g = hk THEN 1 ELSE 0)
  <2>1. m \in MessagesOf(g) <=> g = hk
    BY <1>1 DEF MessagesOf
  <2>2. /\ Count(queue, MessagesOf(g)) \in Nat
        /\ Count(queue', MessagesOf(g))
           = Count(queue, MessagesOf(g)) + (IF m \in MessagesOf(g) THEN 1 ELSE 0)
    BY <1>1, <1>2, CountNat, CountAppend
  <2> QED
    BY <2>1, <2>2
<1> QED
  BY <1>3, <1>4, <1>5

(* A press that is counted is delivered. *)
LEMMA PressDelivered ==
  ASSUME IInv, NEW hk \in HotkeyNames, NEW variant \in Nat,
         NEW held \in Variants \cup {NoVariant},
         variant # 0 =>
           variant \in 1..Len(VariantsOf[hk]) /\ held = VariantsOf[hk][variant],
         Post(hk, variant, held), Counted(hk)
  PROVE  Delivered
<1>1. queue \in Seq(Message) /\ QueueSound /\ pressed \in [HotkeyNames -> Nat]
  BY DEF IInv, TypeOK
<1>2. /\ queue' \in Seq(Message) /\ QueueSound'
      /\ \A g \in HotkeyNames :
           /\ Count(queue, MessagesOf(g)) \in Nat
           /\ Count(queue', MessagesOf(g))
              = Count(queue, MessagesOf(g)) + (IF g = hk THEN 1 ELSE 0)
  BY <1>1, Posted
<1>3. /\ pressed' \in [HotkeyNames -> Nat]
      /\ \A g \in HotkeyNames : pressed'[g] = pressed[g] + (IF g = hk THEN 1 ELSE 0)
  BY <1>1 DEF Counted
<1>4. ASSUME NEW g \in HotkeyNames
      PROVE  pressed'[g] - Count(queue', MessagesOf(g)) = pressed[g] - Count(queue, MessagesOf(g))
  <2>1. pressed[g] \in Nat
    BY <1>1
  <2> QED
    BY <1>2, <1>3, <2>1
<1> QED
  BY <1>2, <1>3, <1>4 DEF Delivered

(* Nothing is delivered when neither presses nor messages change. *)
LEMMA NoneDelivered ==
  ASSUME IInv, UNCHANGED <<queue, pressed>>
  PROVE  Delivered
BY DEF IInv, TypeOK, QueueSound, Delivered

(* The runs of every hotkey are the same and the presses delivered. *)
LEMMA BalanceKept ==
  ASSUME IInv, Delivered, \A hk \in HotkeyNames : Runs(hk)' = Runs(hk)
  PROVE  Balanced'
<1> SUFFICES ASSUME NEW hk \in HotkeyNames
             PROVE  Runs(hk)' + Count(queue', MessagesOf(hk)) <= pressed'[hk]
  BY DEF Balanced
<1>1. /\ Runs(hk) \in Nat /\ Count(queue, MessagesOf(hk)) \in Nat /\ pressed[hk] \in Nat
      /\ Runs(hk) + Count(queue, MessagesOf(hk)) <= pressed[hk]
  BY RunsNat DEF IInv, Balanced
<1>2. /\ Count(queue', MessagesOf(hk)) \in Nat /\ pressed'[hk] \in Nat
      /\ pressed'[hk] - Count(queue', MessagesOf(hk)) = pressed[hk] - Count(queue, MessagesOf(hk))
  BY CountNat DEF Delivered
<1> QED
  BY <1>1, <1>2

(* What the hook thread posts names its own choice, when it names one. *)
LEMMA IndexPosted ==
  ASSUME NEW hk \in HotkeyNames, NEW i \in 1..Len(VariantsOf[hk])
  PROVE  LET v == VariantsOf[hk][i] IN
         /\ v \in Variants
         /\ PostedIndex(hk, v, i) \in Nat
         /\ PostedIndex(hk, v, i) # 0 => PostedIndex(hk, v, i) = i
<1>1. VariantsOf[hk][i] \in Variants
  BY VariantsOwned
<1> QED
  BY <1>1 DEF PostedIndex

(* The fields of a hook thread that has something to do, and that it may
   change. *)
LEMMA HookFields ==
  ASSUME hook \in Hook, hook.at # "idle"
  PROVE  /\ hook.hk \in HotkeyNames /\ hook.i \in Nat \ {0}
         /\ hook.best \in Variants \cup {NoVariant}
         /\ hook.at \in {"checking", "asking", "evaluating"}
         /\ \A a \in {"checking", "asking", "evaluating"} : [hook EXCEPT !.at = a] \in Hook
         /\ [hook EXCEPT !.i = @ + 1] \in Hook
         /\ [hook EXCEPT !.at = "checking", !.i = @ + 1] \in Hook
         /\ \A v \in Variants : [hook EXCEPT !.i = @ + 1, !.best = v] \in Hook
<1>1. hook \in [at : {"checking", "asking", "evaluating"}, hk : HotkeyNames,
                i : Nat \ {0}, best : Variants \cup {NoVariant}]
  BY DEF Hook
<1>2. \A n \in Nat \ {0} : n + 1 \in Nat \ {0}
  OBVIOUS
<1> QED
  BY <1>1, <1>2 DEF Hook

(* The hook thread has its answer, and either posts or goes on. *)
LEMMA Answered ==
  ASSUME IInv, hook.at \in {"asking", "evaluating"}, NEW true \in BOOLEAN, HookAnswered(true)
  PROVE  /\ Delivered /\ hook' \in Hook /\ hook'.at \in {"idle", "checking"}
<1> DEFINE v == VariantsOf[hook.hk][hook.i]
<1>1. /\ hook \in Hook /\ hook.hk \in HotkeyNames /\ hook.i \in Nat \ {0}
      /\ hook.i \in 1..Len(VariantsOf[hook.hk])
  <2>1. hook \in Hook /\ hook.i <= Len(VariantsOf[hook.hk])
    BY DEF IInv, TypeOK, HookSound
  <2>2. hook.hk \in HotkeyNames /\ hook.i \in Nat \ {0}
    BY <2>1 DEF Hook
  <2>3. Len(VariantsOf[hook.hk]) \in Nat
    BY <2>2, VariantsOwned
  <2> QED
    BY <2>1, <2>2, <2>3
<1>2. CASE true
  <2>1. /\ v \in Variants /\ PostedIndex(hook.hk, v, hook.i) \in Nat
        /\ PostedIndex(hook.hk, v, hook.i) # 0 => PostedIndex(hook.hk, v, hook.i) = hook.i
    BY <1>1, IndexPosted
  <2>2. /\ Post(hook.hk, PostedIndex(hook.hk, v, hook.i), v) /\ Counted(hook.hk)
        /\ hook' = Idle
    BY <1>2 DEF HookAnswered
  <2>3. PostedIndex(hook.hk, v, hook.i) # 0 =>
          /\ PostedIndex(hook.hk, v, hook.i) \in 1..Len(VariantsOf[hook.hk])
          /\ v = VariantsOf[hook.hk][PostedIndex(hook.hk, v, hook.i)]
    BY <1>1, <2>1
  <2>4. Delivered
    <3> HIDE DEF v
    <3> QED
      BY <1>1, <2>1, <2>2, <2>3, PressDelivered
  <2> QED
    BY <2>2, <2>4 DEF Idle, Hook
<1>3. CASE ~true
  <2>1. hook' = [hook EXCEPT !.at = "checking", !.i = @ + 1] /\ UNCHANGED <<queue, pressed>>
    BY <1>3 DEF HookAnswered
  <2>2. hook' \in Hook /\ hook'.at = "checking"
    <3>1. hook' \in Hook
      BY <1>1, <2>1, HookFields
    <3> QED
      BY <1>1, <2>1, <3>1 DEF Hook
  <2> QED
    BY <2>1, <2>2, NoneDelivered
<1> QED
  BY <1>2, <1>3

-----------------------------------------------------------------------------
(* The steps of the system and the hook thread.                            *)

(* The main thread does nothing. *)
LEMMA MainUnchanged ==
  ASSUME IInv, UNCHANGED <<scriptVars, threadVars, stack, launched>>,
         Delivered, hook' \in Hook, HookSound'
  PROVE  IInv'
<1>1. TypeOK'
  BY DEF IInv, TypeOK, scriptVars, threadVars, Delivered
<1>2. StackSound(stack') /\ QueueSound' /\ ThreadsCounted' /\ TicketsOwned'
  BY DEF IInv, Delivered, threadVars, ThreadsCounted, TicketsOwned
<1>3. \A hk \in HotkeyNames : Runs(hk)' = Runs(hk)
  BY DEF threadVars, Runs
<1>4. Balanced'
  BY <1>3, BalanceKept
<1> QED
  BY <1>1, <1>2, <1>4 DEF IInv

(* The hook thread is not waiting for an evaluation, before or after. *)
LEMMA NotEvaluating ==
  ASSUME IInv, UNCHANGED stack, hook.at # "evaluating", hook'.at # "evaluating",
         hook'.at = "asking" => hook'.i <= Len(VariantsOf[hook'.hk])
  PROVE  HookSound'
BY DEF IInv, HookSound

(* SystemPosts keeps the invariant. *)
LEMMA SystemPostsKeeps ==
  ASSUME IInv, NEW hk \in HotkeyNames, SystemPosts(hk)
  PROVE  IInv'
<1>1. Delivered
  BY PressDelivered DEF SystemPosts
<1>2. hook' \in Hook /\ HookSound'
  BY DEF SystemPosts, IInv, TypeOK, HookSound
<1> QED
  BY <1>1, <1>2, MainUnchanged DEF SystemPosts

(* Press keeps the invariant. *)
LEMMA PressKeeps ==
  ASSUME IInv, NEW hk \in HotkeyNames, Press(hk)
  PROVE  IInv'
<1>1. Delivered
  BY NoneDelivered DEF Press, historyVars
<1>2. hook' \in Hook
  BY DEF Press, Hook
<1>3. HookSound'
  BY NotEvaluating DEF Press, Idle
<1> QED
  BY <1>1, <1>2, <1>3, MainUnchanged DEF Press, historyVars

(* CertainAnyway keeps the invariant. *)
LEMMA CertainAnywayKeeps ==
  ASSUME IInv, CertainAnyway
  PROVE  IInv'
<1>1. hook.hk \in HotkeyNames
  BY HookFields DEF CertainAnyway, IInv, TypeOK
<1>2. Delivered
  BY <1>1, PressDelivered DEF CertainAnyway
<1>3. hook' \in Hook
  BY DEF CertainAnyway, Idle, Hook
<1>4. HookSound'
  BY NotEvaluating DEF CertainAnyway, Idle
<1> QED
  BY <1>2, <1>3, <1>4, MainUnchanged DEF CertainAnyway

(* HookChecks keeps the invariant: what it posts is sound, and it asks about
   a variant. *)
LEMMA HookChecksKeeps ==
  ASSUME IInv, HookChecks
  PROVE  IInv'
<1> DEFINE vs == VariantsOf[hook.hk]
           v == vs[hook.i]
<1>1. /\ hook \in Hook /\ hook.at = "checking" /\ hook.hk \in HotkeyNames /\ hook.i \in Nat \ {0}
      /\ UNCHANGED <<scriptVars, threadVars, stack, launched>>
  BY HookFields DEF HookChecks, IInv, TypeOK
<1>2. Len(vs) \in Nat /\ (hook.i <= Len(vs) => hook.i \in 1..Len(vs) /\ v \in Variants)
  <2>1. vs \in Seq(Variants)
    BY <1>1, VariantsOwned
  <2> QED
    BY <1>1, <2>1
<1>3. CASE hook' = Idle /\ UNCHANGED <<queue, pressed>>
  <2>1. hook' \in Hook /\ HookSound'
    BY <1>1, <1>3, NotEvaluating DEF Idle, Hook
  <2> QED
    BY <1>1, <1>3, <2>1, NoneDelivered, MainUnchanged
<1>4. CASE Post(hook.hk, 0, NoVariant) /\ Counted(hook.hk) /\ hook' = Idle
  <2>1. hook' \in Hook /\ HookSound'
    BY <1>1, <1>4, NotEvaluating DEF Idle, Hook
  <2>2. Delivered
    BY <1>1, <1>4, PressDelivered
  <2> QED
    BY <1>1, <2>1, <2>2, MainUnchanged
<1>5. CASE hook' = [hook EXCEPT !.i = @ + 1] /\ UNCHANGED <<queue, pressed>>
  <2>1. hook' \in Hook
    BY <1>1, <1>5, HookFields
  <2>2. hook'.at = "checking"
    BY <1>1, <1>5 DEF Hook
  <2>3. HookSound'
    BY <1>1, <2>2, NotEvaluating
  <2> QED
    BY <1>1, <1>5, <2>1, <2>3, NoneDelivered, MainUnchanged
<1>6. CASE hook.i <= Len(vs) /\ hook' = [hook EXCEPT !.i = @ + 1, !.best = v] /\ UNCHANGED <<queue, pressed>>
  <2>1. hook' \in Hook
    BY <1>1, <1>2, <1>6, HookFields
  <2>2. hook'.at = "checking"
    BY <1>1, <1>6 DEF Hook
  <2>3. HookSound'
    BY <1>1, <2>2, NotEvaluating
  <2> QED
    BY <1>1, <1>6, <2>1, <2>3, NoneDelivered, MainUnchanged
<1>7. CASE hook.i <= Len(vs) /\ Post(hook.hk, PostedIndex(hook.hk, v, hook.i), v) /\ Counted(hook.hk) /\ hook' = Idle
  <2>1. hook' \in Hook /\ HookSound'
    BY <1>1, <1>7, NotEvaluating DEF Idle, Hook
  <2>2. /\ PostedIndex(hook.hk, v, hook.i) \in Nat
        /\ PostedIndex(hook.hk, v, hook.i) # 0 => PostedIndex(hook.hk, v, hook.i) = hook.i
    BY <1>1, <1>2, <1>7, IndexPosted
  <2>3. PostedIndex(hook.hk, v, hook.i) # 0 =>
          /\ PostedIndex(hook.hk, v, hook.i) \in 1..Len(VariantsOf[hook.hk])
          /\ v = VariantsOf[hook.hk][PostedIndex(hook.hk, v, hook.i)]
    BY <1>2, <1>7, <2>2
  <2>4. v \in Variants
    BY <1>2, <1>7
  <2>5. Delivered
    <3> HIDE DEF v
    <3> QED
      BY <1>1, <1>7, <2>2, <2>3, <2>4, PressDelivered
  <2> QED
    BY <1>1, <2>1, <2>5, MainUnchanged
<1>8. CASE hook.i <= Len(vs) /\ hook' = [hook EXCEPT !.at = "asking"] /\ UNCHANGED <<queue, pressed>>
  <2>1. hook' \in Hook
    BY <1>1, <1>8, HookFields
  <2>2. hook'.at = "asking" /\ hook'.i = hook.i /\ hook'.hk = hook.hk
    BY <1>1, <1>8 DEF Hook
  <2>3. HookSound'
    BY <1>1, <1>8, <2>2, NotEvaluating
  <2> QED
    BY <1>1, <1>8, <2>1, <2>3, NoneDelivered, MainUnchanged
<1> QED
  BY <1>3, <1>4, <1>5, <1>6, <1>7, <1>8 DEF HookChecks

(* The hook thread waits for no evaluation: there is none. *)
LEMMA NoEvals ==
  ASSUME IInv, hook.at # "evaluating"
  PROVE  Count(stack, HookEvals) = 0
BY DEF IInv, HookSound

(* BeginEval keeps the invariant: the evaluation is the one the hook thread
   waits for. *)
LEMMA BeginEvalKeeps ==
  ASSUME IInv, BeginEval
  PROVE  IInv'
<1>1. /\ hook \in Hook /\ hook.at = "asking" /\ hook.hk \in HotkeyNames
      /\ stack \in Seq(Frame) /\ StackSound(stack)
      /\ UNCHANGED <<scriptVars, threadVars, launched>>
  BY HookFields DEF BeginEval, IInv, TypeOK
<1>2. CASE ~Room /\ HookAnswered(FALSE) /\ UNCHANGED stack
  <2>1. Delivered /\ hook' \in Hook /\ hook'.at \in {"idle", "checking"}
    BY <1>1, <1>2, Answered
  <2>2. HookSound'
    BY <1>1, <1>2, <2>1, NotEvaluating
  <2> QED
    BY <1>1, <1>2, <2>1, <2>2, MainUnchanged
<1>3. CASE /\ stack' = Append(stack, [kind |-> "eval", v |-> VariantsOf[hook.hk][hook.i],
                                      asker |-> "hook"])
           /\ hook' = [hook EXCEPT !.at = "evaluating"] /\ UNCHANGED <<queue, pressed>>
  <2> DEFINE f == [kind |-> "eval", v |-> VariantsOf[hook.hk][hook.i], asker |-> "hook"]
  <2>1. hook.i <= Len(VariantsOf[hook.hk]) /\ VariantsOf[hook.hk][hook.i] \in Variants
    <3>1. hook.i <= Len(VariantsOf[hook.hk]) /\ hook.i \in Nat \ {0}
      BY <1>1, HookFields DEF IInv, HookSound
    <3>2. VariantsOf[hook.hk] \in Seq(Variants)
      BY <1>1, VariantsOwned
    <3> QED
      BY <3>1, <3>2
  <2>2. f \in Frame /\ FrameSound(f) /\ ~ForSearch(f) /\ f \in HookEvals /\ f.kind # "thread"
    BY <2>1, FramesMade DEF FrameSound, ForSearch, HookEvals
  <2>3. /\ \A w \in Variants : f \notin ThreadFrames(w)
        /\ \A g \in HotkeyNames : f \notin SearchFrames(g)
    BY DEF ThreadFrames, SearchFrames
  <2> HIDE DEF f
  <2>4. stack' = Append(stack, f)
    BY <1>3 DEF f
  <2>5. stack' \in Seq(Frame) /\ StackSound(stack')
    BY <1>1, <2>2, <2>4, Push
  <2>6. ASSUME NEW T
        PROVE  /\ f \notin T => Count(stack', T) = Count(stack, T)
               /\ f \in T => Count(stack', T) = Count(stack, T) + 1
    BY <1>1, <2>2, <2>4, CountAppend, CountNat
  <2>7. hook' \in Hook
    BY <1>1, <1>3, HookFields
  <2>8. hook'.at = "evaluating" /\ hook'.i = hook.i /\ hook'.hk = hook.hk
    BY <1>1, <1>3 DEF Hook
  <2>9. HookSound'
    <3>1. Count(stack', HookEvals) = 1
      BY <1>1, <2>2, <2>6, NoEvals
    <3> QED
      BY <2>1, <2>8, <3>1 DEF HookSound
  <2>10. TypeOK'
    BY <1>1, <1>3, <2>5, <2>7 DEF IInv, TypeOK, scriptVars, threadVars
  <2>11. QueueSound' /\ TicketsOwned'
    BY <1>1, <1>3 DEF IInv, QueueSound, TicketsOwned, threadVars
  <2>12. ThreadsCounted'
    BY <1>1, <2>3, <2>6 DEF IInv, ThreadsCounted, threadVars
  <2>13. \A g \in HotkeyNames : Runs(g)' = Runs(g)
    BY <1>1, <2>3, <2>6 DEF Runs, threadVars
  <2>14. Balanced'
    BY <1>3, <2>13, NoneDelivered, BalanceKept
  <2> QED
    BY <2>5, <2>9, <2>10, <2>11, <2>12, <2>14 DEF IInv
<1> QED
  BY <1>2, <1>3 DEF BeginEval

(* HookTimesOut keeps the invariant: the evaluation that goes on is nobody's. *)
LEMMA HookTimesOutKeeps ==
  ASSUME IInv, HookTimesOut
  PROVE  IInv'
<1>1. /\ stack \in Seq(Frame) /\ StackSound(stack)
      /\ UNCHANGED <<scriptVars, threadVars, launched>>
      /\ hook.at \in {"asking", "evaluating"}
  BY DEF HookTimesOut, IInv, TypeOK
<1>2. Delivered /\ hook' \in Hook /\ hook'.at \in {"idle", "checking"}
  BY Answered DEF HookTimesOut
<1> DEFINE Given(f) == IF f.kind = "eval" /\ f.asker = "hook"
                       THEN [f EXCEPT !.asker = "nobody"] ELSE f
<1>3. stack' = [n \in DOMAIN stack |-> Given(stack[n])]
  BY DEF HookTimesOut
<1>4. ASSUME NEW f \in Frame
      PROVE  /\ Given(f) \in Frame /\ Given(f) \notin HookEvals
             /\ Given(f).kind = f.kind
             /\ f.kind = "thread" \/ f.kind = "search" => Given(f) = f
             /\ f.kind = "eval" => Given(f).v = f.v
             /\ Given(f) = f \/ (Given(f).kind # "thread" /\ f.kind # "thread")
             /\ ForSearch(Given(f)) => ForSearch(f)
             /\ FrameSound(f) => FrameSound(Given(f))
  <2>1. CASE f.kind = "eval" /\ f.asker = "hook"
    <3>1. Given(f) = [kind |-> "eval", v |-> f.v, asker |-> "nobody"] /\ f.v \in Variants
      BY <2>1 DEF Frame
    <3>2. Given(f) \in Frame
      BY <3>1, FramesMade
    <3> HIDE DEF Given
    <3> QED
      BY <2>1, <3>1, <3>2 DEF HookEvals, ForSearch, FrameSound
  <2>2. CASE ~(f.kind = "eval" /\ f.asker = "hook")
    <3>1. Given(f) = f
      BY <2>2
    <3> HIDE DEF Given
    <3> QED
      BY <2>2, <3>1 DEF HookEvals
  <2> QED
    BY <2>1, <2>2
<1> HIDE DEF Given
<1>5. /\ DOMAIN stack = 1..Len(stack) /\ Len(stack) \in Nat
      /\ DOMAIN stack' = DOMAIN stack
      /\ \A n \in DOMAIN stack : stack[n] \in Frame /\ stack'[n] = Given(stack[n])
  BY <1>1, <1>3
<1>6. stack' \in Seq(Frame)
  BY <1>3, <1>4, <1>5
<1>7. StackSound(stack')
  <2> SUFFICES ASSUME NEW n \in DOMAIN stack
               PROVE  /\ FrameSound(stack'[n])
                      /\ ForSearch(stack'[n]) => n > 1 /\ Asks(stack'[n - 1], stack'[n])
                      /\ Within(stack', n)
    BY <1>5 DEF StackSound
  <2>1. FrameSound(stack'[n])
    BY <1>1, <1>4, <1>5 DEF StackSound
  <2>2. ASSUME ForSearch(stack'[n])
        PROVE  n > 1 /\ Asks(stack'[n - 1], stack'[n])
    <3>1. ForSearch(stack[n]) /\ stack[n].kind = "eval"
      BY <1>4, <1>5, <2>2 DEF ForSearch
    <3>2. n > 1 /\ Asks(stack[n - 1], stack[n])
      BY <1>1, <3>1 DEF StackSound
    <3>3. n - 1 \in DOMAIN stack
      BY <1>5, <3>2
    <3>4. stack'[n - 1] = stack[n - 1]
      BY <1>4, <1>5, <3>2, <3>3 DEF Asks
    <3>5. stack'[n].v = stack[n].v
      BY <1>4, <1>5, <3>1
    <3> QED
      BY <3>2, <3>4, <3>5 DEF Asks
  <2>3. Within(stack', n)
    <3>1. n \in Nat \ {0} /\ \A m \in 1..n : m \in DOMAIN stack
      BY <1>5
    <3>2. \A m \in 1..n : \/ stack'[m] = stack[m]
                          \/ stack'[m].kind # "thread" /\ stack[m].kind # "thread"
      BY <1>4, <1>5, <3>1
    <3>3. Within(stack, n)
      BY <1>1 DEF StackSound
    <3> QED
      BY <3>1, <3>2, <3>3, WithinSame
  <2> QED
    BY <2>1, <2>2, <2>3
<1>8. ASSUME NEW v \in Variants
      PROVE  Count(stack', ThreadFrames(v)) = Count(stack, ThreadFrames(v))
  <2>1. ASSUME NEW n \in DOMAIN stack
        PROVE  stack'[n] \in ThreadFrames(v) <=> stack[n] \in ThreadFrames(v)
    BY <1>4, <1>5 DEF ThreadFrames
  <2> QED
    BY <1>5, <2>1, CountSame
<1>9. ASSUME NEW hk \in HotkeyNames
      PROVE  Count(stack', SearchFrames(hk)) = Count(stack, SearchFrames(hk))
  <2>1. ASSUME NEW n \in DOMAIN stack
        PROVE  stack'[n] \in SearchFrames(hk) <=> stack[n] \in SearchFrames(hk)
    BY <1>4, <1>5 DEF SearchFrames
  <2> QED
    BY <1>5, <2>1, CountSame
<1>10. Count(stack', HookEvals) = 0
  <2>1. Places(stack', HookEvals) = {}
    BY <1>4, <1>5 DEF Places
  <2> QED
    BY <2>1, FS_EmptySet DEF Count
<1>11. HookSound'
  BY <1>2, <1>10 DEF HookSound
<1>12. TypeOK'
  BY <1>1, <1>2, <1>6 DEF IInv, TypeOK, scriptVars, threadVars, Delivered
<1>13. ThreadsCounted' /\ TicketsOwned'
  BY <1>1, <1>8 DEF IInv, ThreadsCounted, TicketsOwned, threadVars
<1>14. \A hk \in HotkeyNames : Runs(hk)' = Runs(hk)
  BY <1>1, <1>9 DEF Runs, threadVars
<1>15. Balanced' /\ QueueSound'
  BY <1>2, <1>14, BalanceKept DEF Delivered
<1> QED
  BY <1>7, <1>11, <1>12, <1>13, <1>15 DEF IInv

-----------------------------------------------------------------------------
(* The steps of the main thread.                                           *)

(* What the top of the stack was says what is counted no more without it. *)
LEMMA PopCounts ==
  ASSUME NEW s \in Seq(Frame), s # <<>>
  PROVE  /\ \A w \in Variants :
              /\ Count(Front(s), ThreadFrames(w)) \in Nat
              /\ Count(s, ThreadFrames(w)) = Count(Front(s), ThreadFrames(w))
                   + (IF Last(s).kind = "thread" /\ Last(s).v = w THEN 1 ELSE 0)
         /\ \A g \in HotkeyNames :
              /\ Count(Front(s), SearchFrames(g)) \in Nat
              /\ Count(s, SearchFrames(g)) = Count(Front(s), SearchFrames(g))
                   + (IF Last(s).kind = "search" /\ Last(s).hk = g THEN 1 ELSE 0)
         /\ Count(Front(s), HookEvals) \in Nat
         /\ Count(s, HookEvals) = Count(Front(s), HookEvals)
              + (IF Last(s).kind = "eval" /\ Last(s).asker = "hook" THEN 1 ELSE 0)
<1>1. Last(s) \in Frame /\ Front(s) \in Seq(Frame)
  BY FrontIs
<1>2. ASSUME NEW T
      PROVE  /\ Count(Front(s), T) \in Nat
             /\ Count(s, T) = Count(Front(s), T) + (IF Last(s) \in T THEN 1 ELSE 0)
  BY <1>1, CountFront, CountNat
<1>3. /\ \A w : Last(s) \in ThreadFrames(w) <=> Last(s).kind = "thread" /\ Last(s).v = w
      /\ \A g : Last(s) \in SearchFrames(g) <=> Last(s).kind = "search" /\ Last(s).hk = g
      /\ Last(s) \in HookEvals <=> Last(s).kind = "eval" /\ Last(s).asker = "hook"
  BY <1>1 DEF ThreadFrames, SearchFrames, HookEvals
<1> QED
  BY <1>2, <1>3

(* What was on top does not count when it is of another kind. *)
LEMMA PopOther ==
  ASSUME NEW s \in Seq(Frame), s # <<>>
  PROVE  /\ Last(s).kind # "thread" =>
              \A w \in Variants : Count(s, ThreadFrames(w)) = Count(Front(s), ThreadFrames(w))
         /\ Last(s).kind # "search" =>
              \A g \in HotkeyNames : Count(s, SearchFrames(g)) = Count(Front(s), SearchFrames(g))
         /\ Last(s).kind # "eval" \/ Last(s).asker # "hook" =>
              Count(s, HookEvals) = Count(Front(s), HookEvals)
<1>1. Last(s) \in Frame /\ Front(s) \in Seq(Frame)
  BY FrontIs
<1>2. ASSUME NEW T, Last(s) \notin T
      PROVE  Count(s, T) = Count(Front(s), T)
  BY <1>1, <1>2, CountFront, CountNat
<1>3. /\ Last(s).kind # "thread" => \A w : Last(s) \notin ThreadFrames(w)
      /\ Last(s).kind # "search" => \A g : Last(s) \notin SearchFrames(g)
      /\ Last(s).kind # "eval" \/ Last(s).asker # "hook" => Last(s) \notin HookEvals
  BY <1>1 DEF ThreadFrames, SearchFrames, HookEvals
<1> QED
  BY <1>2, <1>3

(* Only the stack changes, to one that counts alike. *)
LEMMA StackChanges ==
  ASSUME IInv, UNCHANGED <<scriptVars, threadVars, launched, pressed, queue, hook>>,
         stack' \in Seq(Frame), StackSound(stack'),
         \A w \in Variants : Count(stack', ThreadFrames(w)) = Count(stack, ThreadFrames(w)),
         \A g \in HotkeyNames : Count(stack', SearchFrames(g)) <= Count(stack, SearchFrames(g)),
         Count(stack', HookEvals) = Count(stack, HookEvals)
  PROVE  IInv'
<1>1. TypeOK'
  BY DEF IInv, TypeOK, scriptVars, threadVars
<1>2. QueueSound' /\ HookSound' /\ ThreadsCounted' /\ TicketsOwned'
  BY DEF IInv, QueueSound, HookSound, ThreadsCounted, TicketsOwned, threadVars
<1>3. Balanced'
  <2> SUFFICES ASSUME NEW g \in HotkeyNames
               PROVE  Runs(g)' + Count(queue', MessagesOf(g)) <= pressed'[g]
    BY DEF Balanced
  <2>1. /\ Count(stack, SearchFrames(g)) \in Nat /\ TicketsIn(ticket, g) \in Nat
        /\ launched[g] \in Nat /\ Count(queue, MessagesOf(g)) \in Nat /\ pressed[g] \in Nat
        /\ Runs(g) + Count(queue, MessagesOf(g)) <= pressed[g]
    BY RunsNat DEF IInv, Balanced
  <2>2. Count(stack', SearchFrames(g)) \in Nat
    BY CountNat
  <2>3. Runs(g)' = launched[g] + Count(stack', SearchFrames(g)) + TicketsIn(ticket, g)
    BY DEF Runs, threadVars
  <2>4. Runs(g) = launched[g] + Count(stack, SearchFrames(g)) + TicketsIn(ticket, g)
    BY DEF Runs
  <2> QED
    BY <2>1, <2>2, <2>3, <2>4
<1> QED
  BY <1>1, <1>2, <1>3 DEF IInv

(* A press fires on top of what is left of the stack; the messages and the
   searches that are gone were its own. *)
LEMMA PressFires ==
  ASSUME IInv, UNCHANGED <<scriptVars, pressed, hook>>,
         queue' \in Seq(Message), QueueSound',
         NEW under \in Seq(Frame), StackSound(under),
         \A w \in Variants : Count(under, ThreadFrames(w)) = Count(stack, ThreadFrames(w)),
         Count(under, HookEvals) = Count(stack, HookEvals),
         NEW hk \in HotkeyNames, NEW v \in VariantSet(hk),
         NEW held \in Variants \cup {NoVariant}, Criterion[v] = "none" \/ held = v,
         \A g \in HotkeyNames :
           Count(under, SearchFrames(g)) + Count(queue', MessagesOf(g)) + (IF g = hk THEN 1 ELSE 0)
           <= Count(stack, SearchFrames(g)) + Count(queue, MessagesOf(g)),
         Fire(under, hk, v, held)
  PROVE  IInv'
<1>1. TypeOK /\ TicketsOwned /\ \A w \in Variants : existing[w] = Count(under, ThreadFrames(w))
  BY DEF IInv, ThreadsCounted
<1>2. /\ stack' \in Seq(Frame) /\ StackSound(stack')
      /\ existing' \in [Variants -> Nat]
      /\ ticket' \in [Variants -> BOOLEAN]
      /\ launched' \in [HotkeyNames -> Nat]
      /\ ThreadsCounted' /\ TicketsOwned'
      /\ Count(stack', HookEvals) = Count(under, HookEvals)
      /\ \A g \in HotkeyNames :
           Runs(g)' <= launched[g] + Count(under, SearchFrames(g)) + TicketsIn(ticket, g)
                       + (IF g = hk THEN 1 ELSE 0)
  BY <1>1, Fires
<1>3. TypeOK'
  BY <1>2 DEF IInv, TypeOK, scriptVars
<1>4. HookSound'
  BY <1>2 DEF IInv, HookSound
<1>5. Balanced'
  <2> SUFFICES ASSUME NEW g \in HotkeyNames
               PROVE  Runs(g)' + Count(queue', MessagesOf(g)) <= pressed'[g]
    BY DEF Balanced
  <2> DEFINE d == IF g = hk THEN 1 ELSE 0
  <2>1. /\ Count(stack, SearchFrames(g)) \in Nat /\ TicketsIn(ticket, g) \in Nat
        /\ launched[g] \in Nat /\ Count(queue, MessagesOf(g)) \in Nat /\ pressed[g] \in Nat
        /\ launched[g] + Count(stack, SearchFrames(g)) + TicketsIn(ticket, g)
           + Count(queue, MessagesOf(g)) <= pressed[g]
    BY RunsNat DEF IInv, Balanced, Runs
  <2>2. /\ Count(under, SearchFrames(g)) \in Nat /\ Count(queue', MessagesOf(g)) \in Nat
        /\ Count(stack', SearchFrames(g)) \in Nat
    BY <1>2, CountNat
  <2>3. TicketsIn(ticket', g) \in Nat /\ launched'[g] \in Nat
    BY <1>2, TicketsFewer
  <2>4. Runs(g)' \in Nat
    BY <2>2, <2>3 DEF Runs
  <2>5. /\ d \in Nat
        /\ Count(under, SearchFrames(g)) + Count(queue', MessagesOf(g)) + d
           <= Count(stack, SearchFrames(g)) + Count(queue, MessagesOf(g))
        /\ Runs(g)' <= launched[g] + Count(under, SearchFrames(g)) + TicketsIn(ticket, g) + d
    BY <1>2
  <2> HIDE DEF d
  <2>6. \A l, s, k, u, p, q, q1, e, r \in Nat :
          l + s + k + q <= p /\ u + q1 + e <= s + q /\ r <= l + u + k + e => r + q1 <= p
    OBVIOUS
  <2>7. Runs(g)' + Count(queue', MessagesOf(g)) <= pressed[g]
    BY <2>1, <2>2, <2>4, <2>5, <2>6
  <2> QED
    BY <2>7
<1> QED
  BY <1>2, <1>3, <1>4, <1>5 DEF IInv

(* TakeMessage keeps the invariant: the message becomes a search, or fires. *)
LEMMA TakeMessageKeeps ==
  ASSUME IInv, TakeMessage
  PROVE  IInv'
<1> DEFINE m == Head(queue)
<1>1. /\ stack \in Seq(Frame) /\ StackSound(stack)
      /\ queue \in Seq(Message) /\ QueueSound /\ queue # <<>>
      /\ queue' = Tail(queue) /\ UNCHANGED <<scriptVars, hook, pressed>>
  BY DEF TakeMessage, IInv, TypeOK
<1>2. /\ m \in Message /\ m = queue[1] /\ queue' \in Seq(Message)
      /\ DOMAIN queue' = 1..(Len(queue) - 1) /\ DOMAIN queue = 1..Len(queue) /\ Len(queue) \in Nat \ {0}
      /\ \A n \in DOMAIN queue' : n + 1 \in DOMAIN queue /\ queue'[n] = queue[n + 1]
  BY <1>1
<1>3. /\ m.hk \in HotkeyNames /\ m.variant \in Nat /\ m.held \in Variants \cup {NoVariant}
      /\ m.variant # 0 =>
           /\ m.variant \in 1..Len(VariantsOf[m.hk])
           /\ m.held = VariantsOf[m.hk][m.variant]
  <2>1. 1 \in DOMAIN queue
    BY <1>2
  <2>2. m.variant # 0 =>
           /\ m.variant \in 1..Len(VariantsOf[m.hk])
           /\ m.held = VariantsOf[m.hk][m.variant]
    BY <1>1, <1>2, <2>1 DEF QueueSound
  <2>3. m.hk \in HotkeyNames /\ m.variant \in Nat /\ m.held \in Variants \cup {NoVariant}
    BY <1>2 DEF Message
  <2> QED
    BY <2>2, <2>3
<1>4. QueueSound'
  BY <1>1, <1>2 DEF QueueSound
<1>5. \A g \in HotkeyNames :
        /\ Count(queue', MessagesOf(g)) \in Nat /\ Count(queue, MessagesOf(g)) \in Nat
        /\ Count(queue, MessagesOf(g)) = Count(queue', MessagesOf(g)) + (IF g = m.hk THEN 1 ELSE 0)
  <2>1. \A g : m \in MessagesOf(g) <=> g = m.hk
    BY <1>2 DEF MessagesOf
  <2>2. ASSUME NEW g
        PROVE  /\ Count(queue', MessagesOf(g)) \in Nat /\ Count(queue, MessagesOf(g)) \in Nat
               /\ Count(queue, MessagesOf(g))
                  = Count(queue', MessagesOf(g)) + (IF m \in MessagesOf(g) THEN 1 ELSE 0)
    BY <1>1, <1>2, CountTail, CountNat
  <2> QED
    BY <2>1, <2>2
<1>6. \A g \in HotkeyNames : Count(stack, SearchFrames(g)) \in Nat
  BY <1>1, CountNat
<1>7. CASE m.variant # 0
  <2> DEFINE v == VariantAt(m.hk, m.variant)
  <2>1. Fire(stack, m.hk, v, m.held)
    BY <1>7 DEF TakeMessage
  <2>2. v \in VariantSet(m.hk) /\ m.held = v
    BY <1>3, <1>7, VariantsOwned DEF VariantAt
  <2>3. ASSUME NEW g \in HotkeyNames
        PROVE  Count(stack, SearchFrames(g)) + Count(queue', MessagesOf(g)) + (IF g = m.hk THEN 1 ELSE 0)
               <= Count(stack, SearchFrames(g)) + Count(queue, MessagesOf(g))
    BY <1>5, <1>6
  <2> HIDE DEF v, m
  <2> QED
    BY <1>1, <1>2, <1>3, <1>4, <2>1, <2>2, <2>3, PressFires
<1>8. CASE m.variant = 0
  <2> DEFINE f == [kind |-> "search", hk |-> m.hk, i |-> 1, best |-> NoVariant]
  <2>1. stack' = Append(stack, f) /\ UNCHANGED <<threadVars, launched>>
    BY <1>8 DEF TakeMessage
  <2> HIDE DEF m
  <2>2. f \in Frame /\ FrameSound(f) /\ ~ForSearch(f) /\ f.kind # "thread"
    <3>1. f \in Frame
      <4>1. \A i \in Nat \ {0} : [kind |-> "search", hk |-> m.hk, i |-> i, best |-> NoVariant] \in Frame
        BY <1>3, FramesMade
      <4> QED
        BY <4>1
    <3> QED
      BY <3>1 DEF FrameSound, ForSearch
  <2>3. /\ \A w \in Variants : f \notin ThreadFrames(w)
        /\ \A g \in HotkeyNames : f \in SearchFrames(g) <=> g = m.hk
        /\ f \notin HookEvals
    BY <2>2 DEF ThreadFrames, SearchFrames, HookEvals
  <2> HIDE DEF f
  <2>4. stack' \in Seq(Frame) /\ StackSound(stack')
    BY <1>1, <2>1, <2>2, Push
  <2>5. ASSUME NEW T
        PROVE  Count(stack', T) = Count(stack, T) + (IF f \in T THEN 1 ELSE 0) /\ Count(stack, T) \in Nat
    BY <1>1, <2>1, <2>2, CountAppend, CountNat
  <2>6. ASSUME NEW T, f \notin T
        PROVE  Count(stack', T) = Count(stack, T)
    BY <2>5, <2>6
  <2>7. TypeOK'
    BY <1>1, <1>2, <2>1, <2>4 DEF IInv, TypeOK, scriptVars, threadVars
  <2>8. HookSound'
    BY <1>1, <2>3, <2>6 DEF IInv, HookSound
  <2>9. ThreadsCounted' /\ TicketsOwned'
    BY <2>1, <2>3, <2>6 DEF IInv, ThreadsCounted, TicketsOwned, threadVars
  <2>10. Balanced'
    <3> SUFFICES ASSUME NEW g \in HotkeyNames
                 PROVE  Runs(g)' + Count(queue', MessagesOf(g)) <= pressed'[g]
      BY DEF Balanced
    <3>1. /\ launched[g] \in Nat /\ TicketsIn(ticket, g) \in Nat /\ pressed[g] \in Nat
          /\ launched[g] + Count(stack, SearchFrames(g)) + TicketsIn(ticket, g)
             + Count(queue, MessagesOf(g)) <= pressed[g]
      BY RunsNat DEF IInv, Balanced, Runs
    <3>2. Count(stack', SearchFrames(g)) = Count(stack, SearchFrames(g)) + (IF g = m.hk THEN 1 ELSE 0)
      BY <2>3, <2>5
    <3>3. Runs(g)' = launched[g] + Count(stack', SearchFrames(g)) + TicketsIn(ticket, g)
      BY <2>1 DEF Runs, threadVars
    <3>4. pressed'[g] = pressed[g]
      BY <1>1
    <3> QED
      BY <1>5, <1>6, <3>1, <3>2, <3>3, <3>4
  <2> QED
    BY <1>4, <2>4, <2>7, <2>8, <2>9, <2>10 DEF IInv
<1> QED
  BY <1>7, <1>8

(* A search goes past a variant: the frame it becomes. *)
LEMMA PastIs ==
  ASSUME NEW s \in Seq(Frame), s # <<>>, Last(s).kind = "search"
  PROVE  [s EXCEPT ![Len(s)].i = @ + 1]
         = [s EXCEPT ![Len(s)] = [kind |-> "search", hk |-> Last(s).hk,
                                  i |-> Last(s).i + 1, best |-> Last(s).best]]
<1>1. Last(s) \in Frame /\ Last(s) = s[Len(s)]
  BY FrontIs
<1>2. Last(s) = [kind |-> "search", hk |-> Last(s).hk, i |-> Last(s).i, best |-> Last(s).best]
  BY <1>1, FrameFields
<1>3. [s[Len(s)] EXCEPT !.i = @ + 1]
      = [kind |-> "search", hk |-> Last(s).hk, i |-> Last(s).i + 1, best |-> Last(s).best]
  BY <1>1, <1>2
<1> QED
  BY <1>3

(* The search on top of a stack may go on past a variant, with the best it
   has met. *)
LEMMA GoesOn ==
  ASSUME NEW s \in Seq(Frame), s # <<>>, StackSound(s), Last(s).kind = "search",
         NEW best \in Variants \cup {NoVariant},
         best # NoVariant => best \in VariantSet(Last(s).hk) /\ Criterion[best] = "none",
         NEW t, t = [s EXCEPT ![Len(s)] = [kind |-> "search", hk |-> Last(s).hk,
                                           i |-> Last(s).i + 1, best |-> best]]
  PROVE  /\ t \in Seq(Frame) /\ StackSound(t)
         /\ \A v \in Variants : Count(t, ThreadFrames(v)) = Count(s, ThreadFrames(v))
         /\ \A hk \in HotkeyNames : Count(t, SearchFrames(hk)) = Count(s, SearchFrames(hk))
         /\ Count(t, HookEvals) = Count(s, HookEvals)
<1> DEFINE f == [kind |-> "search", hk |-> Last(s).hk, i |-> Last(s).i + 1, best |-> best]
<1>1. Last(s).hk \in HotkeyNames /\ Last(s).i + 1 \in Nat \ {0}
  <2>1. Last(s).hk \in HotkeyNames /\ Last(s).i \in Nat \ {0}
    BY FrontIs, FrameFields
  <2> QED
    BY <2>1
<1>2. f \in Frame
  BY <1>1, FramesMade
<1>3. f.kind = "search" /\ f.hk = Last(s).hk /\ FrameSound(f)
  BY DEF FrameSound
<1>4. t = [s EXCEPT ![Len(s)] = f]
  OBVIOUS
<1> HIDE DEF f
<1> QED
  BY <1>2, <1>3, <1>4, SearchGoesOn

(* Search keeps the invariant. *)
LEMMA SearchKeeps ==
  ASSUME IInv, Search
  PROVE  IInv'
<1> DEFINE top   == Last(stack)
           under == Front(stack)
           vs    == VariantsOf[top.hk]
           v     == vs[top.i]
<1>1. /\ stack \in Seq(Frame) /\ StackSound(stack) /\ stack # <<>>
      /\ queue \in Seq(Message) /\ QueueSound
      /\ UNCHANGED <<scriptVars, pressed, queue, hook>>
  BY DEF IInv, TypeOK, Search, TopIs
<1>2. /\ top \in Frame /\ top.kind = "search" /\ FrameSound(top)
      /\ under \in Seq(Frame) /\ StackSound(under)
  BY <1>1, Pop DEF Search, TopIs, Top
<1>3. /\ top.hk \in HotkeyNames /\ top.i \in Nat \ {0} /\ top.best \in Variants \cup {NoVariant}
      /\ top.best # NoVariant => top.best \in VariantSet(top.hk) /\ Criterion[top.best] = "none"
  BY <1>2, FrameFields DEF FrameSound
<1>4. top.i <= Len(vs) => v \in VariantSet(top.hk) /\ v \in Variants
  <2>1. /\ vs \in Seq(Variants) /\ VariantSet(top.hk) \subseteq Variants
        /\ \A n \in 1..Len(vs) : vs[n] \in VariantSet(top.hk)
    BY <1>3, VariantsOwned
  <2>2. Len(vs) \in Nat
    BY <2>1
  <2> QED
    BY <1>3, <2>1, <2>2
<1>5. /\ \A w \in Variants : Count(under, ThreadFrames(w)) = Count(stack, ThreadFrames(w))
      /\ \A g \in HotkeyNames :
           /\ Count(under, SearchFrames(g)) \in Nat
           /\ Count(stack, SearchFrames(g))
              = Count(under, SearchFrames(g)) + (IF g = top.hk THEN 1 ELSE 0)
      /\ Count(under, HookEvals) = Count(stack, HookEvals)
  BY <1>1, <1>2, PopCounts
<1>6. queue' \in Seq(Message) /\ QueueSound'
  BY <1>1 DEF QueueSound
<1>7. \A g \in HotkeyNames : Count(queue, MessagesOf(g)) \in Nat
  BY <1>1, CountNat
<1>8. \A g \in HotkeyNames :
        Count(under, SearchFrames(g)) + Count(queue', MessagesOf(g)) + (IF g = top.hk THEN 1 ELSE 0)
        <= Count(stack, SearchFrames(g)) + Count(queue, MessagesOf(g))
  BY <1>1, <1>5, <1>7
<1>9. CASE stack' = under /\ UNCHANGED <<threadVars, launched>>
  <2>1. \A g \in HotkeyNames : Count(stack', SearchFrames(g)) <= Count(stack, SearchFrames(g))
    BY <1>5, <1>9
  <2> QED
    BY <1>1, <1>2, <1>5, <1>9, <2>1, StackChanges
<1>10. CASE top.best # NoVariant /\ Fire(under, top.hk, top.best, NoVariant)
  <2> HIDE DEF top, under
  <2> QED
    BY <1>1, <1>2, <1>3, <1>5, <1>6, <1>8, <1>10, PressFires
<1>11. CASE top.i <= Len(vs) /\ Fire(under, top.hk, v, v)
  <2>1. v \in VariantSet(top.hk) /\ v \in Variants
    BY <1>4, <1>11
  <2>2. Fire(under, top.hk, v, v)
    BY <1>11
  <2> HIDE DEF top, under, v
  <2> QED
    BY <1>1, <1>2, <1>3, <1>5, <1>6, <1>8, <2>1, <2>2, PressFires
<1>12. CASE Past /\ UNCHANGED <<threadVars, launched>>
  <2>1. stack' = [stack EXCEPT ![Len(stack)] = [kind |-> "search", hk |-> top.hk,
                                                i |-> top.i + 1, best |-> top.best]]
    BY <1>1, <1>2, <1>12, PastIs DEF Past
  <2>2. /\ stack' \in Seq(Frame) /\ StackSound(stack')
        /\ \A w \in Variants : Count(stack', ThreadFrames(w)) = Count(stack, ThreadFrames(w))
        /\ \A g \in HotkeyNames : Count(stack', SearchFrames(g)) = Count(stack, SearchFrames(g))
        /\ Count(stack', HookEvals) = Count(stack, HookEvals)
    BY <1>1, <1>2, <1>3, <2>1, GoesOn
  <2>3. \A g \in HotkeyNames : Count(stack', SearchFrames(g)) <= Count(stack, SearchFrames(g))
    BY <1>5, <2>2
  <2> QED
    BY <1>1, <1>12, <2>2, <2>3, StackChanges
<1>13. CASE top.i <= Len(vs) /\ Criterion[v] = "none" /\ Noted(v) /\ UNCHANGED <<threadVars, launched>>
  <2>1. stack' = [stack EXCEPT ![Len(stack)] = [kind |-> "search", hk |-> top.hk,
                                                i |-> top.i + 1, best |-> v]]
    BY <1>13 DEF Noted, Top
  <2>2. v \in VariantSet(top.hk) /\ v \in Variants
    BY <1>4, <1>13
  <2>3. /\ stack' \in Seq(Frame) /\ StackSound(stack')
        /\ \A w \in Variants : Count(stack', ThreadFrames(w)) = Count(stack, ThreadFrames(w))
        /\ \A g \in HotkeyNames : Count(stack', SearchFrames(g)) = Count(stack, SearchFrames(g))
        /\ Count(stack', HookEvals) = Count(stack, HookEvals)
    <3>1. Criterion[v] = "none"
      BY <1>13
    <3> HIDE DEF v
    <3> QED
      BY <1>1, <1>2, <2>1, <2>2, <3>1, GoesOn
  <2>4. \A g \in HotkeyNames : Count(stack', SearchFrames(g)) <= Count(stack, SearchFrames(g))
    BY <1>5, <2>3
  <2> QED
    BY <1>1, <1>13, <2>3, <2>4, StackChanges
<1>14. CASE /\ top.i <= Len(vs)
            /\ stack' = Append(stack, [kind |-> "eval", v |-> v, asker |-> "search"])
            /\ UNCHANGED <<threadVars, launched>>
  <2> DEFINE f == [kind |-> "eval", v |-> v, asker |-> "search"]
  <2>1. v \in VariantSet(top.hk) /\ v \in Variants
    BY <1>4, <1>14
  <2> HIDE DEF v
  <2>2. f \in Frame /\ FrameSound(f) /\ Asks(top, f) /\ f.kind # "thread"
    BY <1>2, <2>1, FramesMade DEF FrameSound, Asks
  <2>3. /\ \A w \in Variants : f \notin ThreadFrames(w)
        /\ \A g \in HotkeyNames : f \notin SearchFrames(g)
        /\ f \notin HookEvals
    BY DEF ThreadFrames, SearchFrames, HookEvals
  <2>4. stack' = Append(stack, f)
    BY <1>14
  <2> HIDE DEF f
  <2>5. stack' \in Seq(Frame) /\ StackSound(stack')
    BY <1>1, <2>2, <2>4, Push
  <2>6. ASSUME NEW T, f \notin T
        PROVE  Count(stack', T) = Count(stack, T)
    BY <1>1, <2>2, <2>4, <2>6, CountAppend, CountNat
  <2>7. \A g \in HotkeyNames : Count(stack', SearchFrames(g)) <= Count(stack, SearchFrames(g))
    BY <1>5, <2>3, <2>6
  <2> QED
    BY <1>1, <1>14, <2>3, <2>5, <2>6, <2>7, StackChanges
<1> QED
  BY <1>9, <1>10, <1>11, <1>12, <1>13, <1>14 DEF Search, Top

(* EvalReturns keeps the invariant: the answer is for the hook thread, which
   waits for it, for nobody, or for the search beneath. *)
LEMMA EvalReturnsKeeps ==
  ASSUME IInv, EvalReturns
  PROVE  IInv'
<1> DEFINE top    == Last(stack)
           under  == Front(stack)
           search == Last(under)
<1>1. /\ stack \in Seq(Frame) /\ StackSound(stack) /\ stack # <<>>
      /\ queue \in Seq(Message) /\ QueueSound /\ UNCHANGED scriptVars
  BY DEF IInv, TypeOK, EvalReturns, TopIs
<1>2. /\ top \in Frame /\ top.kind = "eval" /\ under \in Seq(Frame) /\ StackSound(under)
      /\ ForSearch(top) => under # <<>> /\ Asks(search, top)
  BY <1>1, Pop DEF EvalReturns, TopIs, Top
<1>3. top.v \in Variants /\ top.asker \in {"hook", "search", "nobody"}
  BY <1>2, FrameFields
<1>4. /\ \A w \in Variants : Count(under, ThreadFrames(w)) = Count(stack, ThreadFrames(w))
      /\ \A g \in HotkeyNames :
           /\ Count(under, SearchFrames(g)) \in Nat
           /\ Count(stack, SearchFrames(g)) = Count(under, SearchFrames(g))
      /\ Count(under, HookEvals) \in Nat
      /\ top.asker = "hook" => Count(stack, HookEvals) = Count(under, HookEvals) + 1
      /\ top.asker # "hook" => Count(stack, HookEvals) = Count(under, HookEvals)
  <2>1. /\ \A w \in Variants : Count(under, ThreadFrames(w)) = Count(stack, ThreadFrames(w))
        /\ \A g \in HotkeyNames : Count(stack, SearchFrames(g)) = Count(under, SearchFrames(g))
        /\ top.asker # "hook" => Count(stack, HookEvals) = Count(under, HookEvals)
    BY <1>1, <1>2, PopOther
  <2>2. /\ \A g \in HotkeyNames : Count(under, SearchFrames(g)) \in Nat
        /\ Count(under, HookEvals) \in Nat
    BY <1>2, CountNat
  <2>3. ASSUME top.asker = "hook"
        PROVE  Count(stack, HookEvals) = Count(under, HookEvals) + 1
    <3>1. top \in HookEvals
      BY <1>2, <2>3 DEF HookEvals
    <3> QED
      BY <1>1, <3>1, <2>2, CountFront
  <2> HIDE DEF top, under
  <2> QED
    BY <2>1, <2>2, <2>3
<1>5. queue' = queue => QueueSound'
  BY <1>1 DEF QueueSound
<1>6. \A g \in HotkeyNames : Count(queue, MessagesOf(g)) \in Nat
  BY <1>1, CountNat
<1>7. ASSUME NEW true \in BOOLEAN, top.asker = "hook", HookAnswered(true),
             stack' = under, UNCHANGED <<threadVars, launched>>
      PROVE  IInv'
  <2>1. hook.at = "evaluating" /\ Count(under, HookEvals) = 0
    <3>1. Count(stack, HookEvals) = IF hook.at = "evaluating" THEN 1 ELSE 0
      BY DEF IInv, HookSound
    <3> HIDE DEF top, under
    <3> QED
      BY <1>4, <1>7, <3>1
  <2>2. Delivered /\ hook' \in Hook /\ hook'.at \in {"idle", "checking"}
    BY <1>7, <2>1, Answered
  <2>3. TypeOK'
    BY <1>1, <1>2, <1>7, <2>2 DEF IInv, TypeOK, scriptVars, threadVars, Delivered
  <2>4. HookSound'
    BY <1>7, <2>1, <2>2 DEF HookSound
  <2>5. ThreadsCounted' /\ TicketsOwned'
    BY <1>4, <1>7 DEF IInv, ThreadsCounted, TicketsOwned, threadVars
  <2>6. \A g \in HotkeyNames : Runs(g)' = Runs(g)
    BY <1>4, <1>7 DEF Runs, threadVars
  <2>7. Balanced' /\ QueueSound'
    BY <2>2, <2>6, BalanceKept DEF Delivered
  <2> QED
    BY <1>2, <1>7, <2>3, <2>4, <2>5, <2>7 DEF IInv
<1>8. CASE top.asker = "nobody" /\ stack' = under /\ UNCHANGED <<threadVars, launched, queue, hook, pressed>>
  <2>1. \A g \in HotkeyNames : Count(stack', SearchFrames(g)) <= Count(stack, SearchFrames(g))
    BY <1>4, <1>8
  <2>2. Count(stack', HookEvals) = Count(stack, HookEvals)
    <3> HIDE DEF top, under
    <3> QED
      BY <1>4, <1>8
  <2> QED
    BY <1>1, <1>2, <1>4, <1>8, <2>1, <2>2, StackChanges
<1>9. CASE top.asker = "search" /\ UNCHANGED <<queue, hook, pressed>>
  <2>1. /\ under # <<>> /\ search.kind = "search" /\ top.v \in VariantSet(search.hk)
        /\ search \in Frame /\ search.hk \in HotkeyNames
        /\ search.best \in Variants \cup {NoVariant} /\ FrameSound(search)
        /\ Front(under) \in Seq(Frame) /\ StackSound(Front(under))
    <3>1. under # <<>> /\ Asks(search, top)
      BY <1>2, <1>9 DEF ForSearch
    <3>2. search \in Frame /\ FrameSound(search)
      BY <1>2, <3>1, Pop
    <3>3. Front(under) \in Seq(Frame) /\ StackSound(Front(under))
      BY <1>2, <3>1, Pop
    <3> HIDE DEF search
    <3> QED
      BY <3>1, <3>2, <3>3, FrameFields DEF Asks
  <2>2. Count(stack, HookEvals) = Count(under, HookEvals)
    <3> HIDE DEF top, under
    <3> QED
      BY <1>4, <1>9
  <2>3. CASE Fire(Front(under), search.hk, top.v, top.v)
    <3>1. /\ \A w \in Variants : Count(Front(under), ThreadFrames(w)) = Count(under, ThreadFrames(w))
          /\ \A g \in HotkeyNames :
               /\ Count(Front(under), SearchFrames(g)) \in Nat
               /\ Count(under, SearchFrames(g))
                  = Count(Front(under), SearchFrames(g)) + (IF g = search.hk THEN 1 ELSE 0)
          /\ Count(Front(under), HookEvals) = Count(under, HookEvals)
      BY <1>2, <2>1, PopCounts
    <3>2. \A g \in HotkeyNames :
            Count(Front(under), SearchFrames(g)) + Count(queue', MessagesOf(g))
              + (IF g = search.hk THEN 1 ELSE 0)
            <= Count(stack, SearchFrames(g)) + Count(queue, MessagesOf(g))
      BY <1>4, <1>6, <1>9, <3>1
    <3>3. \A w \in Variants : Count(Front(under), ThreadFrames(w)) = Count(stack, ThreadFrames(w))
      BY <1>4, <3>1
    <3>4. Count(Front(under), HookEvals) = Count(stack, HookEvals)
      BY <2>2, <3>1
    <3>5. queue' \in Seq(Message) /\ QueueSound' /\ UNCHANGED <<scriptVars, pressed, hook>>
      BY <1>1, <1>5, <1>9
    <3> DEFINE rest == Front(under)
    <3> HIDE DEF rest, top, search
    <3> QED
      BY <1>3, <2>1, <2>3, <3>2, <3>3, <3>4, <3>5, PressFires DEF rest
  <2>4. CASE stack' = [under EXCEPT ![Len(under)].i = @ + 1] /\ UNCHANGED <<threadVars, launched>>
    <3>1. stack' = [under EXCEPT ![Len(under)] = [kind |-> "search", hk |-> search.hk,
                                                  i |-> search.i + 1, best |-> search.best]]
      BY <1>2, <2>1, <2>4, PastIs
    <3>2. /\ stack' \in Seq(Frame) /\ StackSound(stack')
          /\ \A w \in Variants : Count(stack', ThreadFrames(w)) = Count(under, ThreadFrames(w))
          /\ \A g \in HotkeyNames : Count(stack', SearchFrames(g)) = Count(under, SearchFrames(g))
          /\ Count(stack', HookEvals) = Count(under, HookEvals)
      <4>1. search.best # NoVariant => search.best \in VariantSet(search.hk) /\ Criterion[search.best] = "none"
        BY <2>1 DEF FrameSound
      <4> QED
        BY <1>2, <2>1, <3>1, <4>1, GoesOn
    <3>3. /\ \A w \in Variants : Count(stack', ThreadFrames(w)) = Count(stack, ThreadFrames(w))
          /\ Count(stack', HookEvals) = Count(stack, HookEvals)
      BY <1>4, <2>2, <3>2
    <3>4. \A g \in HotkeyNames : Count(stack', SearchFrames(g)) <= Count(stack, SearchFrames(g))
      BY <1>4, <3>2
    <3> QED
      BY <1>1, <1>9, <2>4, <3>2, <3>3, <3>4, StackChanges
  <2>5. Fire(Front(under), search.hk, top.v, top.v)
        \/ (stack' = [under EXCEPT ![Len(under)].i = @ + 1] /\ UNCHANGED <<threadVars, launched>>)
    BY <1>9 DEF EvalReturns, Top
  <2> QED
    BY <2>3, <2>4, <2>5
<1>10. (\E true \in BOOLEAN : /\ top.asker = "hook" /\ HookAnswered(true)
                              /\ stack' = under /\ UNCHANGED <<threadVars, launched>>)
       \/ (top.asker = "nobody" /\ stack' = under /\ UNCHANGED <<threadVars, launched, queue, hook, pressed>>)
       \/ (top.asker = "search" /\ UNCHANGED <<queue, hook, pressed>>)
  BY DEF EvalReturns, Top
<1> QED
  BY <1>7, <1>8, <1>9, <1>10

(* ThreadEnds keeps the invariant: a ticket that is used up becomes the message. *)
LEMMA ThreadEndsKeeps ==
  ASSUME IInv, ThreadEnds
  PROVE  IInv'
<1> DEFINE top   == Last(stack)
           under == Front(stack)
           v     == top.v
<1>1. /\ stack \in Seq(Frame) /\ StackSound(stack) /\ stack # <<>>
      /\ queue \in Seq(Message) /\ QueueSound /\ pressed \in [HotkeyNames -> Nat]
      /\ existing \in [Variants -> Nat] /\ ticket \in [Variants -> BOOLEAN]
      /\ stack' = under /\ UNCHANGED <<scriptVars, historyVars, hook>>
  BY DEF IInv, TypeOK, ThreadEnds, TopIs
<1>2. /\ top \in Frame /\ top.kind = "thread" /\ under \in Seq(Frame) /\ StackSound(under)
      /\ v \in Variants
  BY <1>1, Pop, FrameFields DEF ThreadEnds, TopIs, Top
<1>3. /\ \A w \in Variants :
           /\ Count(under, ThreadFrames(w)) \in Nat
           /\ Count(stack, ThreadFrames(w)) = Count(under, ThreadFrames(w)) + (IF w = v THEN 1 ELSE 0)
      /\ \A g \in HotkeyNames : Count(stack, SearchFrames(g)) = Count(under, SearchFrames(g))
      /\ Count(stack, HookEvals) = Count(under, HookEvals)
  <2> HIDE DEF top, under, v
  <2>1. /\ \A w \in Variants :
              /\ Count(under, ThreadFrames(w)) \in Nat
              /\ Count(stack, ThreadFrames(w)) = Count(under, ThreadFrames(w))
                   + (IF top.kind = "thread" /\ top.v = w THEN 1 ELSE 0)
         /\ \A g \in HotkeyNames :
              /\ Count(under, SearchFrames(g)) \in Nat
              /\ Count(stack, SearchFrames(g)) = Count(under, SearchFrames(g))
                   + (IF top.kind = "search" /\ top.hk = g THEN 1 ELSE 0)
         /\ Count(under, HookEvals) \in Nat
         /\ Count(stack, HookEvals) = Count(under, HookEvals)
              + (IF top.kind = "eval" /\ top.asker = "hook" THEN 1 ELSE 0)
    BY <1>1, PopCounts DEF top, under
  <2>2. \A w \in Variants :
          /\ Count(under, ThreadFrames(w)) \in Nat
          /\ Count(stack, ThreadFrames(w)) = Count(under, ThreadFrames(w)) + (IF w = v THEN 1 ELSE 0)
    BY <1>2, <2>1 DEF v
  <2>3. \A g \in HotkeyNames : Count(stack, SearchFrames(g)) = Count(under, SearchFrames(g))
    BY <1>2, <2>1
  <2>4. Count(stack, HookEvals) = Count(under, HookEvals)
    BY <1>1, <1>2, PopOther DEF top, under
  <2> QED
    BY <2>2, <2>3, <2>4
<1>4. PICK posts \in BOOLEAN :
        /\ existing' = [existing EXCEPT ![v] = @ - 1]
        /\ ticket' = [ticket EXCEPT ![v] = FALSE]
        /\ posts => ticket[v] /\ Post(Owner(v), 0, NoVariant)
        /\ ~posts => UNCHANGED queue
  BY DEF ThreadEnds, Top, TicketAfter
<1> HIDE DEF top, under, v
<1>5. ThreadsCounted'
  <2> SUFFICES ASSUME NEW w \in Variants
               PROVE  existing'[w] = Count(stack', ThreadFrames(w))
    BY DEF ThreadsCounted
  <2>1. existing[w] = Count(under, ThreadFrames(w)) + (IF w = v THEN 1 ELSE 0)
    BY <1>3 DEF IInv, ThreadsCounted
  <2>2. existing'[w] = IF w = v THEN existing[w] - 1 ELSE existing[w]
    BY <1>1, <1>4
  <2> QED
    BY <1>1, <1>3, <2>1, <2>2
<1>6. existing' \in [Variants -> Nat]
  <2>1. \A w \in Variants : existing'[w] \in Nat
    BY <1>1, <1>3, <1>5 DEF ThreadsCounted
  <2> QED
    BY <1>1, <1>4, <2>1
<1>8. TicketsOwned'
  <2> SUFFICES ASSUME NEW w \in Variants, ticket'[w] PROVE existing'[w] > 0
    BY DEF TicketsOwned
  <2>1. w # v /\ ticket[w]
    BY <1>1, <1>4
  <2> QED
    BY <1>1, <1>4, <2>1 DEF IInv, TicketsOwned
<1>9. ticket' \in [Variants -> BOOLEAN] /\ \A w \in Variants : ticket'[w] => ticket[w]
  BY <1>1, <1>2, <1>4
<1>10. HookSound'
  BY <1>1, <1>3 DEF IInv, HookSound
<1>11. queue' \in Seq(Message) /\ QueueSound'
  <2>1. CASE posts
    BY <1>1, <1>2, <1>4, <2>1, OwnerIs, Posted
  <2>2. CASE ~posts
    BY <1>1, <1>4, <2>2 DEF QueueSound
  <2> QED
    BY <2>1, <2>2
<1>12. Balanced'
  <2> SUFFICES ASSUME NEW g \in HotkeyNames
               PROVE  Runs(g)' + Count(queue', MessagesOf(g)) <= pressed'[g]
    BY DEF Balanced
  <2>1. /\ Count(stack, SearchFrames(g)) \in Nat /\ TicketsIn(ticket, g) \in Nat
        /\ launched[g] \in Nat /\ Count(queue, MessagesOf(g)) \in Nat /\ pressed[g] \in Nat
        /\ launched[g] + Count(stack, SearchFrames(g)) + TicketsIn(ticket, g)
           + Count(queue, MessagesOf(g)) <= pressed[g]
    BY RunsNat DEF IInv, Balanced, Runs
  <2>2. Runs(g)' = launched[g] + Count(stack, SearchFrames(g)) + TicketsIn(ticket', g)
    BY <1>1, <1>3 DEF Runs, historyVars
  <2>3. /\ TicketsIn(ticket', g) \in Nat /\ TicketsIn(ticket', g) <= TicketsIn(ticket, g)
        /\ pressed'[g] = pressed[g]
    BY <1>1, <1>9, TicketsFewer DEF historyVars
  <2>4. CASE ~posts \/ g # Owner(v)
    <3>1. Count(queue', MessagesOf(g)) = Count(queue, MessagesOf(g))
      <4>1. CASE ~posts
        BY <1>4, <4>1
      <4>2. CASE posts /\ g # Owner(v)
        <5>1. Count(queue', MessagesOf(g))
                = Count(queue, MessagesOf(g)) + (IF g = Owner(v) THEN 1 ELSE 0)
          BY <1>1, <1>2, <1>4, <4>2, OwnerIs, Posted
        <5> QED
          BY <2>1, <4>2, <5>1
      <4> QED
        BY <2>4, <4>1, <4>2
    <3> QED
      BY <2>1, <2>2, <2>3, <3>1
  <2>5. CASE posts /\ g = Owner(v)
    <3>1. Count(queue', MessagesOf(g)) = Count(queue, MessagesOf(g)) + 1
      <4>1. Count(queue', MessagesOf(g))
              = Count(queue, MessagesOf(g)) + (IF g = Owner(v) THEN 1 ELSE 0)
        BY <1>1, <1>2, <1>4, <2>5, OwnerIs, Posted
      <4> QED
        BY <2>5, <4>1
    <3>2. TicketsIn(ticket', g) + 1 <= TicketsIn(ticket, g)
      <4>1. v \in VariantSet(g) /\ ticket[v] /\ ~ticket'[v]
        BY <1>1, <1>2, <1>4, <2>5, OwnerIs
      <4> QED
        BY <1>9, <4>1, TicketLess
    <3> QED
      BY <2>1, <2>2, <2>3, <3>1, <3>2
  <2> QED
    BY <2>4, <2>5
<1>13. TypeOK'
  BY <1>1, <1>2, <1>6, <1>9, <1>11 DEF IInv, TypeOK, scriptVars, historyVars
<1> QED
  BY <1>1, <1>2, <1>5, <1>8, <1>10, <1>11, <1>12, <1>13 DEF IInv

(* DialogEnds keeps the invariant. *)
LEMMA DialogEndsKeeps ==
  ASSUME IInv, DialogEnds
  PROVE  IInv'
<1>1. /\ stack \in Seq(Frame) /\ StackSound(stack) /\ stack # <<>> /\ Last(stack).kind = "dialog"
      /\ stack' = Front(stack)
      /\ UNCHANGED <<scriptVars, threadVars, launched, pressed, queue, hook>>
  BY DEF IInv, TypeOK, DialogEnds, TopIs, Top, historyVars
<1>2. /\ \A w \in Variants : Count(stack', ThreadFrames(w)) = Count(stack, ThreadFrames(w))
      /\ \A g \in HotkeyNames : Count(stack', SearchFrames(g)) = Count(stack, SearchFrames(g))
      /\ Count(stack', HookEvals) = Count(stack, HookEvals)
  BY <1>1, PopOther
<1>3. stack' \in Seq(Frame) /\ StackSound(stack')
  BY <1>1, Pop
<1>4. \A g \in HotkeyNames : Count(stack', SearchFrames(g)) <= Count(stack, SearchFrames(g))
  BY <1>1, <1>2, CountNat
<1> QED
  BY <1>1, <1>2, <1>3, <1>4, StackChanges

(* A change of what is in effect only takes tickets back. *)
LEMMA Manifests ==
  ASSUME IInv, NEW on, NEW susp, NEW kept, Manifest(on, susp, kept),
         \A v \in Variants : kept[v] => ticket[v],
         enabled' \in [Variants -> BOOLEAN], suspended' \in BOOLEAN, switches' \in Nat,
         UNCHANGED <<option, existing, historyVars, queue, stack, hook>>
  PROVE  IInv'
<1>1. /\ active' \in [HotkeyNames -> BOOLEAN] /\ ticket' \in [Variants -> BOOLEAN]
      /\ \A v \in Variants : ticket'[v] => ticket[v]
  <2>1. active' \in [HotkeyNames -> BOOLEAN]
    BY DEF Manifest, InEffect
  <2>2. ticket' \in [Variants -> BOOLEAN] /\ \A v \in Variants : ticket'[v] => ticket[v]
    <3>1. \A v \in Variants : ticket[v] \in BOOLEAN
      BY DEF IInv, TypeOK
    <3> QED
      BY <3>1 DEF Manifest
  <2> QED
    BY <2>1, <2>2
<1>2. TypeOK'
  BY <1>1 DEF IInv, TypeOK, historyVars
<1>3. QueueSound' /\ HookSound' /\ ThreadsCounted' /\ TicketsOwned' /\ StackSound(stack')
  BY <1>1 DEF IInv, QueueSound, HookSound, ThreadsCounted, TicketsOwned
<1>4. Balanced'
  <2> SUFFICES ASSUME NEW g \in HotkeyNames
               PROVE  Runs(g)' + Count(queue', MessagesOf(g)) <= pressed'[g]
    BY DEF Balanced
  <2>1. /\ Count(stack, SearchFrames(g)) \in Nat /\ TicketsIn(ticket, g) \in Nat
        /\ launched[g] \in Nat /\ Count(queue, MessagesOf(g)) \in Nat /\ pressed[g] \in Nat
        /\ launched[g] + Count(stack, SearchFrames(g)) + TicketsIn(ticket, g)
           + Count(queue, MessagesOf(g)) <= pressed[g]
    BY RunsNat DEF IInv, Balanced, Runs
  <2>2. TicketsIn(ticket', g) \in Nat /\ TicketsIn(ticket', g) <= TicketsIn(ticket, g)
    BY <1>1, TicketsFewer
  <2>3. /\ Runs(g)' = launched[g] + Count(stack, SearchFrames(g)) + TicketsIn(ticket', g)
        /\ Count(queue', MessagesOf(g)) = Count(queue, MessagesOf(g)) /\ pressed'[g] = pressed[g]
    BY DEF Runs, historyVars
  <2> QED
    BY <2>1, <2>2, <2>3
<1> QED
  BY <1>2, <1>3, <1>4 DEF IInv

(* Suspend keeps the invariant. *)
LEMMA SuspendKeeps ==
  ASSUME IInv, Suspend
  PROVE  IInv'
<1>1. /\ enabled' \in [Variants -> BOOLEAN] /\ suspended' \in BOOLEAN /\ switches' \in Nat
  BY DEF IInv, TypeOK, Suspend, MaySwitch
<1> QED
  BY <1>1, Manifests DEF Suspend

(* TurnOnOrOff keeps the invariant. *)
LEMMA TurnOnOrOffKeeps ==
  ASSUME IInv, NEW v \in Variants, TurnOnOrOff(v)
  PROVE  IInv'
<1> DEFINE on   == [enabled EXCEPT ![v] = ~@]
           kept == [ticket EXCEPT ![v] = @ /\ on[v]]
<1>1. enabled \in [Variants -> BOOLEAN] /\ ticket \in [Variants -> BOOLEAN]
  BY DEF IInv, TypeOK
<1>2. \A w \in Variants : kept[w] => ticket[w]
  BY <1>1
<1>3. enabled' = on /\ Manifest(on, suspended, kept)
  BY DEF TurnOnOrOff
<1>4. on \in [Variants -> BOOLEAN]
  BY <1>1
<1> HIDE DEF on, kept
<1>5. /\ enabled' \in [Variants -> BOOLEAN] /\ suspended' \in BOOLEAN /\ switches' \in Nat
  BY <1>3, <1>4 DEF IInv, TypeOK, TurnOnOrOff, MaySwitch
<1> QED
  BY <1>2, <1>3, <1>5, Manifests DEF TurnOnOrOff

(* SetOption keeps the invariant: what runs is within the limits it began
   with. *)
LEMMA SetOptionKeeps ==
  ASSUME IInv, NEW v \in Variants, SetOption(v)
  PROVE  IInv'
<1>1. /\ option \in [Variants -> Options] /\ MaxThreads \in 1..255 /\ switches' \in Nat
      /\ UNCHANGED <<enabled, suspended, active, threadVars, historyVars, queue, stack, hook>>
  BY HotkeyAssumption DEF IInv, TypeOK, SetOption, MaySwitch
<1>2. option[v] \in Options
  BY <1>1
<1>3. option' \in [Variants -> Options]
  <2>1. \A max \in 1..255 : [option[v] EXCEPT !.max = max] \in Options
    BY <1>2 DEF Options
  <2>2. \A on \in BOOLEAN : /\ [option[v] EXCEPT !.buffered = on] \in Options
                            /\ [option[v] EXCEPT !.exempt = on] \in Options
    BY <1>2 DEF Options
  <2>3. PICK o \in Options : option' = [option EXCEPT ![v] = o]
    <3>1. CASE \E max \in 1..MaxThreads : option' = [option EXCEPT ![v].max = max]
      <4>1. PICK max \in 1..MaxThreads : option' = [option EXCEPT ![v].max = max]
        BY <3>1
      <4>2. max \in 1..255
        BY <1>1
      <4> QED
        BY <2>1, <4>1, <4>2
    <3>2. CASE \E on \in BOOLEAN : option' = [option EXCEPT ![v].buffered = on]
      BY <2>2, <3>2
    <3>3. CASE \E on \in BOOLEAN : option' = [option EXCEPT ![v].exempt = on]
      BY <2>2, <3>3
    <3> QED
      BY <3>1, <3>2, <3>3 DEF SetOption
  <2> QED
    BY <1>1, <2>3
<1>4. TypeOK'
  BY <1>1, <1>3 DEF IInv, TypeOK, threadVars, historyVars
<1>5. QueueSound' /\ HookSound' /\ ThreadsCounted' /\ TicketsOwned' /\ StackSound(stack')
  BY <1>1 DEF IInv, QueueSound, HookSound, ThreadsCounted, TicketsOwned, threadVars
<1>6. Balanced'
  BY <1>1 DEF IInv, Balanced, Runs, threadVars, historyVars
<1> QED
  BY <1>4, <1>5, <1>6 DEF IInv

-----------------------------------------------------------------------------
(* The theorems.                                                           *)

(* Every step keeps the invariant. *)
LEMMA NextKeeps == IInv /\ [Next]_hkVars => IInv'
<1> SUFFICES ASSUME IInv, [Next]_hkVars PROVE IInv'
  OBVIOUS
<1>1. ASSUME NEW hk \in HotkeyNames, SystemPosts(hk) PROVE IInv'
  BY <1>1, SystemPostsKeeps
<1>2. ASSUME NEW hk \in HotkeyNames, Press(hk) PROVE IInv'
  BY <1>2, PressKeeps
<1>3. CASE CertainAnyway
  BY <1>3, CertainAnywayKeeps
<1>4. CASE HookChecks
  BY <1>4, HookChecksKeeps
<1>5. CASE BeginEval
  BY <1>5, BeginEvalKeeps
<1>6. CASE HookTimesOut
  BY <1>6, HookTimesOutKeeps
<1>7. CASE TakeMessage
  BY <1>7, TakeMessageKeeps
<1>8. CASE Search
  BY <1>8, SearchKeeps
<1>9. CASE EvalReturns
  BY <1>9, EvalReturnsKeeps
<1>10. CASE ThreadEnds
  BY <1>10, ThreadEndsKeeps
<1>11. CASE DialogEnds
  BY <1>11, DialogEndsKeeps
<1>12. CASE Suspend
  BY <1>12, SuspendKeeps
<1>13. ASSUME NEW v \in Variants, TurnOnOrOff(v) \/ SetOption(v) PROVE IInv'
  BY <1>13, TurnOnOrOffKeeps, SetOptionKeeps
<1>14. CASE UNCHANGED hkVars
  <2>1. /\ UNCHANGED <<scriptVars, threadVars, launched, pressed, queue, hook>>
        /\ UNCHANGED stack
    BY <1>14 DEF hkVars, historyVars
  <2>2. \A g \in HotkeyNames : Count(stack', SearchFrames(g)) <= Count(stack, SearchFrames(g))
    BY <2>1, RunsNat
  <2>3. stack' \in Seq(Frame) /\ StackSound(stack')
    BY <2>1 DEF IInv, TypeOK
  <2> QED
    BY <2>1, <2>2, <2>3, StackChanges
<1> QED
  BY <1>1, <1>2, <1>3, <1>4, <1>5, <1>6, <1>7, <1>8, <1>9, <1>10, <1>11, <1>12, <1>13, <1>14
     DEF Next

(* IInv holds throughout. *)
THEOREM Inductive == Spec => []IInv
BY InitIInv, NextKeeps, PTL DEF Spec

(* The state has its types. *)
THEOREM TypeCorrect == Spec => []TypeOK
<1>1. IInv => TypeOK
  BY DEF IInv
<1> QED
  BY <1>1, Inductive, PTL

(* A thread of a variant begins only while the variant has fewer threads than
   its mMaxThreads of that moment, whatever is pressed, buffered, suspended,
   times out or is changed by Hotkey with the option T. *)
THEOREM LimitsHeld == Spec => []BegunWithinLimit
<1>1. IInv => BegunWithinLimit
  BY DEF IInv, StackSound, Within, BegunWithinLimit
<1> QED
  BY <1>1, Inductive, PTL

(* A ticket to run again (mRunAgainAfterFinished) always belongs to a variant
   with a thread that will use it up. *)
THEOREM TicketsHaveThreads == Spec => []TicketHasThread
<1>1. IInv => TicketHasThread
  <2> SUFFICES ASSUME IInv, NEW v \in Variants, ticket[v]
               PROVE  ThreadsOf(v) > 0
    BY DEF TicketHasThread
  <2>1. Count(stack, ThreadFrames(v)) > 0
    BY DEF IInv, ThreadsCounted, TicketsOwned
  <2>2. Places(stack, ThreadFrames(v))
        = {n \in DOMAIN stack : stack[n].kind = "thread" /\ stack[n].v = v}
    <3>1. \A n \in DOMAIN stack : stack[n] \in Frame
      BY DEF IInv, TypeOK
    <3> QED
      BY <3>1 DEF Places, ThreadFrames
  <2> QED
    BY <2>1, <2>2 DEF ThreadsOf, Quantify, Count
<1> QED
  BY <1>1, Inductive, PTL

(* A thread of a variant with a criterion runs only for a press for which the
   hook thread or the main thread found that criterion true. *)
THEOREM CriterionAlways == Spec => []CriterionHeld
<1>1. IInv => CriterionHeld
  BY DEF IInv, StackSound, FrameSound, CriterionHeld
<1> QED
  BY <1>1, Inductive, PTL

(* A hotkey is never given more threads than it was pressed, counting the
   messages and the tickets that will become threads. *)
THEOREM NoRunWithoutPress == Spec => []RunsPerPress
<1>1. IInv => RunsPerPress
  <2> SUFFICES ASSUME IInv, NEW hk \in HotkeyNames
               PROVE  launched[hk] + Waiting(hk) + Tickets(hk) <= pressed[hk]
    BY DEF RunsPerPress
  <2>1. Waiting(hk) = Count(queue, MessagesOf(hk))
    <3>1. \A n \in DOMAIN queue : queue[n] \in Message
      BY DEF IInv, TypeOK
    <3>2. Places(queue, MessagesOf(hk)) = {n \in DOMAIN queue : queue[n].hk = hk}
      BY <3>1 DEF Places, MessagesOf
    <3> QED
      BY <3>2 DEF Waiting, Quantify, Count
  <2>2. Tickets(hk) = TicketsIn(ticket, hk)
    BY DEF Tickets, TicketsIn
  <2>3. /\ Count(stack, SearchFrames(hk)) \in Nat /\ TicketsIn(ticket, hk) \in Nat
        /\ launched[hk] \in Nat /\ Count(queue, MessagesOf(hk)) \in Nat /\ pressed[hk] \in Nat
        /\ launched[hk] + Count(stack, SearchFrames(hk)) + TicketsIn(ticket, hk)
           + Count(queue, MessagesOf(hk)) <= pressed[hk]
    BY RunsNat DEF IInv, Balanced, Runs
  <2> QED
    BY <2>1, <2>2, <2>3
<1> QED
  BY <1>1, Inductive, PTL

=============================================================================
