--------------------------- MODULE MsgMonitorListProofs ---------------------------
(***************************************************************************)
(* Proofs about MsgMonitorList: the passes against the array that changes  *)
(* under them, for any messages, limits, nesting and number of             *)
(* registrations.                                                          *)
(*                                                                         *)
(* The invariant has a part for the array (Distinct), three for each pass  *)
(* (Pointed: where it stands; Looked: what it has looked at; Old: it knows *)
(* no monitor of the future) and one for the counts (Counted).  Each       *)
(* change of the array has a lemma that takes a pass through it.           *)
(***************************************************************************)
EXTENDS MsgMonitorList, FiniteSetTheorems, SequenceTheorems, TLAPS

-----------------------------------------------------------------------------
(* Sequences.                                                              *)

(* Without its last element a sequence is a sequence, with the same elements
   at the places that are left. *)
LEMMA FrontIs ==
  ASSUME NEW S, NEW s \in Seq(S), s # <<>>
  PROVE  /\ Front(s) \in Seq(S) /\ Len(Front(s)) = Len(s) - 1 /\ Len(s) \in Nat \ {0}
         /\ \A n \in 1..(Len(s) - 1) : Front(s)[n] = s[n]
         /\ Last(s) = s[Len(s)] /\ Last(s) \in S
<1>1. Len(s) \in Nat \ {0}
  OBVIOUS
<1> DEFINE k == Len(s) - 1
<1>2. k \in Nat /\ 1 \in Int /\ k \in Int /\ \A i \in 1..k : s[i] \in S
  BY <1>1
<1>3. /\ SubSeq(s, 1, k) \in Seq(S)
      /\ Len(SubSeq(s, 1, k)) = IF 1 <= k THEN k - 1 + 1 ELSE 0
      /\ \A i \in 1..(k - 1 + 1) : SubSeq(s, 1, k)[i] = s[1 + i - 1]
  BY <1>2, SubSeqProperties
<1> HIDE DEF k
<1>4. /\ SubSeq(s, 1, k) \in Seq(S) /\ Len(SubSeq(s, 1, k)) = k
      /\ \A n \in 1..k : SubSeq(s, 1, k)[n] = s[n]
  BY <1>2, <1>3
<1>5. Last(s) = s[Len(s)] /\ s[Len(s)] \in S
  BY <1>1 DEF Last
<1> QED
  BY <1>1, <1>4, <1>5 DEF k, Front

(* An element taken out of a sequence. *)
LEMMA RemoveAtIs ==
  ASSUME NEW S, NEW s \in Seq(S), NEW i \in 1..Len(s)
  PROVE  /\ RemoveAt(s, i) \in Seq(S) /\ Len(RemoveAt(s, i)) = Len(s) - 1
         /\ \A n \in 1..(Len(s) - 1) :
              RemoveAt(s, i)[n] = IF n < i THEN s[n] ELSE s[n + 1]
<1> DEFINE k == Len(s)
           a == SubSeq(s, 1, i - 1)
           b == SubSeq(s, i + 1, k)
<1>1. /\ k \in Nat /\ i \in 1..k /\ 1 \in Int /\ i - 1 \in Int /\ i + 1 \in Int /\ k \in Int
      /\ (\A j \in 1..(i - 1) : s[j] \in S) /\ (\A j \in (i + 1)..k : s[j] \in S)
  OBVIOUS
<1>2. /\ a \in Seq(S) /\ Len(a) = IF 1 <= i - 1 THEN i - 1 - 1 + 1 ELSE 0
      /\ \A n \in 1..(i - 1 - 1 + 1) : a[n] = s[1 + n - 1]
  BY <1>1, SubSeqProperties
<1>3. /\ b \in Seq(S) /\ Len(b) = IF i + 1 <= k THEN k - (i + 1) + 1 ELSE 0
      /\ \A n \in 1..(k - (i + 1) + 1) : b[n] = s[i + 1 + n - 1]
  BY <1>1, SubSeqProperties
<1> HIDE DEF a, b, k
<1>4. Len(a) = i - 1 /\ Len(b) = k - i
  BY <1>1, <1>2, <1>3
<1>5. a \o b \in Seq(S) /\ Len(a \o b) = k - 1
  <2>1. a \o b \in Seq(S) /\ Len(a \o b) = Len(a) + Len(b)
    <3>1. a \in Seq(S) /\ b \in Seq(S)
      BY <1>2, <1>3
    <3> QED
      BY <3>1
  <2> QED
    BY <1>1, <1>4, <2>1
<1>6. ASSUME NEW n \in 1..(k - 1)
      PROVE  (a \o b)[n] = IF n < i THEN s[n] ELSE s[n + 1]
  <2>1. CASE n < i
    <3>1. (a \o b)[n] = a[n]
      BY <1>1, <1>2, <1>3, <1>4, <2>1
    <3>2. a[n] = s[n]
      BY <1>1, <1>2, <2>1
    <3> QED
      BY <2>1, <3>1, <3>2
  <2>2. CASE ~(n < i)
    <3>1. (a \o b)[n] = b[n - (i - 1)]
      BY <1>1, <1>2, <1>3, <1>4, <2>2
    <3>2. b[n - (i - 1)] = s[n + 1]
      <4>1. n - (i - 1) \in 1..(k - (i + 1) + 1) /\ i + 1 + (n - (i - 1)) - 1 = n + 1
        BY <1>1, <2>2
      <4> QED
        BY <1>3, <4>1
    <3> QED
      BY <2>2, <3>1, <3>2
  <2> QED
    BY <2>1, <2>2
<1> QED
  BY <1>5, <1>6 DEF a, b, k, RemoveAt

(* How many places of s have an element in T. *)
Places(s, T) == {n \in DOMAIN s : s[n] \in T}
Count(s, T) == Cardinality(Places(s, T))

(* The places are finitely many. *)
LEMMA CountNat ==
  ASSUME NEW S, NEW s \in Seq(S), NEW T
  PROVE  IsFiniteSet(Places(s, T)) /\ Count(s, T) \in Nat
<1>1. Places(s, T) \subseteq 1..Len(s) /\ IsFiniteSet(1..Len(s))
  BY FS_Interval DEF Places
<1> QED
  BY <1>1, FS_Subset, FS_CardinalityType DEF Count

(* The last element of a sequence counts if it is in the set. *)
LEMMA CountFront ==
  ASSUME NEW S, NEW s \in Seq(S), s # <<>>, NEW T
  PROVE  /\ Count(s, T) \in Nat /\ Count(Front(s), T) \in Nat
         /\ Last(s) \in T => Count(s, T) = Count(Front(s), T) + 1
         /\ Last(s) \notin T => Count(s, T) = Count(Front(s), T)
<1>0. /\ Front(s) \in Seq(S) /\ Len(Front(s)) = Len(s) - 1 /\ Len(s) \in Nat \ {0}
      /\ \A n \in 1..(Len(s) - 1) : Front(s)[n] = s[n]
      /\ Last(s) = s[Len(s)] /\ Last(s) \in S
  BY FrontIs
<1>1. IsFiniteSet(Places(s, T)) /\ Count(s, T) \in Nat
  BY CountNat
<1>2. CASE Last(s) \in T
  <2>1. Places(Front(s), T) = Places(s, T) \ {Len(s)} /\ Len(s) \in Places(s, T)
    BY <1>0, <1>2 DEF Places
  <2>2. IsFiniteSet(Places(Front(s), T)) /\ Count(Front(s), T) = Count(s, T) - 1
    BY <1>1, <2>1, FS_RemoveElement DEF Count
  <2>3. Count(Front(s), T) \in Nat
    BY <2>2, FS_CardinalityType DEF Count
  <2> QED
    BY <1>1, <1>2, <2>2, <2>3
<1>3. CASE Last(s) \notin T
  <2>1. Places(Front(s), T) = Places(s, T)
    BY <1>0, <1>3 DEF Places
  <2> QED
    BY <1>1, <1>3, <2>1 DEF Count
<1> QED
  BY <1>2, <1>3

(* An element appended counts if it is in the set. *)
LEMMA CountAppend ==
  ASSUME NEW S, NEW s \in Seq(S), NEW e \in S, NEW T
  PROVE  /\ Count(s, T) \in Nat
         /\ e \in T => Count(Append(s, e), T) = Count(s, T) + 1
         /\ e \notin T => Count(Append(s, e), T) = Count(s, T)
<1>1. IsFiniteSet(Places(s, T)) /\ Count(s, T) \in Nat
  BY CountNat
<1>2. CASE e \in T
  <2>1. Places(Append(s, e), T) = Places(s, T) \cup {Len(s) + 1} /\ Len(s) + 1 \notin Places(s, T)
    BY <1>2 DEF Places
  <2> QED
    BY <1>1, <1>2, <2>1, FS_AddElement DEF Count
<1>3. CASE e \notin T
  <2>1. Places(Append(s, e), T) = Places(s, T)
    BY <1>3 DEF Places
  <2> QED
    BY <1>1, <1>3, <2>1 DEF Count
<1> QED
  BY <1>2, <1>3

(* A sequence with the same members of a set at the same places. *)
LEMMA CountSame ==
  ASSUME NEW S, NEW s \in Seq(S), NEW r \in Seq(S), Len(r) = Len(s), NEW T,
         \A n \in 1..Len(s) : r[n] \in T <=> s[n] \in T
  PROVE  Count(r, T) = Count(s, T)
<1>1. DOMAIN s = 1..Len(s) /\ DOMAIN r = 1..Len(s)
  OBVIOUS
<1>2. Places(r, T) = Places(s, T)
  BY <1>1 DEF Places
<1> QED
  BY <1>2 DEF Count

(* What is in a sequence with one element more. *)
LEMMA AppendIs ==
  ASSUME NEW S, NEW s \in Seq(S), NEW e \in S
  PROVE  /\ Append(s, e) \in Seq(S) /\ Range(Append(s, e)) = Range(s) \cup {e}
         /\ IsInjective(s) /\ e \notin Range(s) => IsInjective(Append(s, e))
<1> DEFINE r == Append(s, e)
<1>1. /\ r \in Seq(S) /\ Len(r) = Len(s) + 1 /\ Len(s) \in Nat
      /\ DOMAIN r = 1..(Len(s) + 1) /\ DOMAIN s = 1..Len(s)
      /\ \A i \in 1..Len(s) : r[i] = s[i]
      /\ r[Len(s) + 1] = e
  OBVIOUS
<1> HIDE DEF r
<1>2. \A i \in DOMAIN r : i = Len(s) + 1 \/ i \in DOMAIN s
  BY <1>1
<1>3. Len(s) + 1 \in DOMAIN r /\ \A i \in DOMAIN s : i \in DOMAIN r
  BY <1>1
<1>4. Range(r) = Range(s) \cup {e}
  BY <1>1, <1>2, <1>3 DEF Range
<1>5. ASSUME IsInjective(s), e \notin Range(s)
      PROVE  IsInjective(r)
  <2>1. \A i \in DOMAIN s : s[i] # e
    BY <1>5 DEF Range
  <2>2. \A i, j \in DOMAIN s : s[i] = s[j] => i = j
    BY <1>5 DEF IsInjective
  <2>3. ASSUME NEW i \in DOMAIN r, NEW j \in DOMAIN r, r[i] = r[j]
        PROVE  i = j
    BY <1>1, <1>2, <2>1, <2>2, <2>3
  <2> QED
    BY <2>3 DEF IsInjective
<1> QED
  BY <1>1, <1>4, <1>5 DEF r

-----------------------------------------------------------------------------
(* The inductive invariant.                                                *)

AnyMonitor == [id : Ids, msg : Msgs, instances : Nat, max : MaxInstances]
AnyPass == [msg : Msgs, index : Int, count : Int, deleted : BOOLEAN,
            current : Ids \cup {NoId}, start : Seq(Ids), seen : Seq(Ids),
            newerGone : BOOLEAN]

(* Each monitor has an id of its own, given out before nid. *)
Distinct(mons, nid) ==
  /\ mons \in Seq(AnyMonitor) /\ nid \in Nat \ {0}
  /\ \A i \in 1..Len(mons) : mons[i].id < nid
  /\ \A i, j \in 1..Len(mons) : mons[i].id = mons[j].id => i = j

(* The place in the array where a pass goes on. *)
First(p) == IF p.current = NoId THEN p.index + 1 ELSE p.index + 2

(* A pass stands on the monitor it has called or is marked; for OnMessage it is
   marked only then. *)
Pointed(p, mons) ==
  /\ p.index >= -1 /\ p.count <= Len(mons)
  /\ p.current = NoId => p.index >= 0 /\ (kind = "OnMessage" => ~p.deleted)
  /\ p.current # NoId /\ ~p.deleted =>
       p.index + 1 \in 1..Len(mons) /\ mons[p.index + 1].id = p.current
  /\ p.current # NoId /\ p.deleted /\ kind = "OnMessage" =>
       \A i \in 1..Len(mons) : mons[i].id # p.current

(* What was there when the pass began and it has not looked at is still ahead of
   it, and nothing ahead of it has it looked at. *)
Looked(p, mons) ==
  ~p.newerGone =>
    /\ \A i \in 1..Len(mons) :
         mons[i].id \in Range(p.start) /\ mons[i].id \notin Range(p.seen) =>
           First(p) <= i /\ i <= p.count
    /\ \A i \in 1..Len(mons) : First(p) <= i => mons[i].id \notin Range(p.seen)
    /\ IsInjective(p.seen)

Old(p, nid) ==
  /\ p.current < nid
  /\ \A u \in Range(p.start) : u < nid
  /\ \A u \in Range(p.seen) : u < nid

Sound(p, mons, nid) == Pointed(p, mons) /\ Looked(p, mons) /\ Old(p, nid)

(* Only the top pass may be looking. *)
Stacked(s, mons, nid) ==
  /\ s \in Seq(AnyPass)
  /\ \A d \in 1..Len(s) : Sound(s[d], mons, nid)
  /\ \A d \in 1..Len(s) : d < Len(s) => s[d].current # NoId

(* instance_count is the number of passes that wait for the monitor. *)
Waiting(id) == {p \in AnyPass : p.current = id}
Counted(s, mons) ==
  kind = "OnMessage" =>
    \A i \in 1..Len(mons) : mons[i].instances = Count(s, Waiting(mons[i].id))

IInv ==
  /\ kind \in Kinds
  /\ Distinct(monitors, nextId)
  /\ Stacked(stack, monitors, nextId)
  /\ Counted(stack, monitors)

-----------------------------------------------------------------------------
(* Records.                                                                *)

(* The fields of a pass. *)
LEMMA PassFields ==
  ASSUME NEW p \in AnyPass
  PROVE  /\ p.msg \in Msgs /\ p.index \in Int /\ p.count \in Int /\ p.deleted \in BOOLEAN
         /\ p.current \in Ids \cup {NoId} /\ p.current \in Nat
         /\ p.start \in Seq(Ids) /\ p.seen \in Seq(Ids) /\ p.newerGone \in BOOLEAN
<1>1. /\ p.msg \in Msgs /\ p.index \in Int /\ p.count \in Int /\ p.deleted \in BOOLEAN
      /\ p.current \in Ids \cup {NoId}
      /\ p.start \in Seq(Ids) /\ p.seen \in Seq(Ids) /\ p.newerGone \in BOOLEAN
  BY DEF AnyPass
<1>2. p.current \in Nat
  BY <1>1, MonitorAssumption DEF Ids, NoId
<1> QED
  BY <1>1, <1>2

(* The ranges are of ids. *)
LEMMA RangeIds ==
  ASSUME NEW p \in AnyPass
  PROVE  Range(p.start) \subseteq Ids /\ Range(p.seen) \subseteq Ids
<1>1. p.start \in Seq(Ids) /\ p.seen \in Seq(Ids)
  BY PassFields
<1> QED
  BY <1>1 DEF Range

(* AddInternal moves a pass. *)
LEMMA MovedUp ==
  ASSUME NEW p \in AnyPass
  PROVE  /\ MoveUp(p) \in AnyPass
         /\ MoveUp(p).index = p.index + 1 /\ MoveUp(p).count = p.count + 1
         /\ MoveUp(p).deleted = p.deleted /\ MoveUp(p).current = p.current
         /\ MoveUp(p).start = p.start /\ MoveUp(p).seen = p.seen
         /\ MoveUp(p).newerGone = p.newerGone
<1> DEFINE q == [p EXCEPT !.index = @ + 1, !.count = @ + 1]
<1>1. p.index + 1 \in Int /\ p.count + 1 \in Int
  BY PassFields
<1>2. q \in AnyPass
  BY <1>1 DEF AnyPass
<1>3. q.index = p.index + 1 /\ q.count = p.count + 1
  BY DEF AnyPass
<1>4. /\ q.current = p.current /\ q.start = p.start /\ q.seen = p.seen
  BY DEF AnyPass
<1>5. q.deleted = p.deleted /\ q.newerGone = p.newerGone
  BY DEF AnyPass
<1> QED
  BY <1>2, <1>3, <1>4, <1>5 DEF MoveUp

(* MsgMonitorInstance::Delete moves and marks a pass. *)
LEMMA Deleted ==
  ASSUME NEW p \in AnyPass, NEW mon \in Nat, NEW id \in Ids
  PROVE  LET q == NoteNewer(PassDelete(p, mon), id) IN
         /\ q \in AnyPass
         /\ p.index >= mon => q.index = p.index - 1
         /\ p.index < mon => q.index = p.index
         /\ q.count = p.count - 1
         /\ q.deleted <=> p.deleted \/ p.index = mon
         /\ q.current = p.current /\ q.start = p.start /\ q.seen = p.seen
         /\ q.newerGone <=> p.newerGone \/ id \notin Range(p.start)
<1> DEFINE gone == id \notin Range(p.start)
           mark == p.deleted \/ (p.index = mon /\ p.index >= 0)
           at == IF p.index >= mon /\ p.index >= 0 THEN p.index - 1 ELSE p.index
           r == [p EXCEPT !.deleted = mark, !.index = at, !.count = @ - 1]
           q == [r EXCEPT !.newerGone = @ \/ gone]
<1>1. at \in Int /\ mark \in BOOLEAN /\ gone \in BOOLEAN
  BY PassFields
<1>2. /\ p.index >= mon => at = p.index - 1
      /\ p.index < mon => at = p.index
      /\ mark <=> p.deleted \/ p.index = mon
  BY PassFields
<1>3. PassDelete(p, mon) = r
  BY DEF PassDelete
<1> HIDE DEF at, mark
<1>4. /\ r \in AnyPass /\ r.index = at /\ r.count = p.count - 1 /\ r.deleted = mark
      /\ r.current = p.current /\ r.start = p.start /\ r.seen = p.seen
      /\ r.newerGone = p.newerGone
  <2>1. p.count - 1 \in Int
    BY PassFields
  <2>2. r \in AnyPass
    BY <1>1, <2>1 DEF AnyPass
  <2>3. r.index = at /\ r.count = p.count - 1
    BY DEF AnyPass
  <2>4. r.deleted = mark
    BY DEF AnyPass
  <2>5. r.current = p.current /\ r.start = p.start /\ r.seen = p.seen
    BY DEF AnyPass
  <2>6. r.newerGone = p.newerGone
    BY DEF AnyPass
  <2> QED
    BY <2>2, <2>3, <2>4, <2>5, <2>6
<1> HIDE DEF r
<1>5. NoteNewer(PassDelete(p, mon), id) = q
  BY <1>3, <1>4 DEF NoteNewer
<1> HIDE DEF gone
<1>6. /\ q \in AnyPass /\ q.index = r.index /\ q.count = r.count /\ q.deleted = r.deleted
      /\ q.current = r.current /\ q.start = r.start /\ q.seen = r.seen
      /\ q.newerGone <=> r.newerGone \/ gone
  <2>1. (r.newerGone \/ gone) \in BOOLEAN
    BY <1>1, <1>4, PassFields
  <2>2. r \in AnyPass
    BY <1>4
  <2>3. q \in AnyPass
    BY <2>1, <2>2 DEF AnyPass
  <2>4. q.index = r.index /\ q.count = r.count
    BY <2>2 DEF AnyPass
  <2>5. q.deleted = r.deleted
    BY <2>2 DEF AnyPass
  <2>6. q.current = r.current /\ q.start = r.start /\ q.seen = r.seen
    BY <2>2 DEF AnyPass
  <2>7. q.newerGone = (r.newerGone \/ gone)
    BY <2>2 DEF AnyPass
  <2> QED
    BY <2>3, <2>4, <2>5, <2>6, <2>7
<1> HIDE DEF q
<1> QED
  BY <1>2, <1>4, <1>5, <1>6 DEF gone

(* Dispose. *)
LEMMA Disposed ==
  ASSUME NEW p \in AnyPass
  PROVE  /\ DisposePass(p) \in AnyPass
         /\ DisposePass(p).index = p.index /\ DisposePass(p).count = 0
         /\ DisposePass(p).deleted /\ DisposePass(p).current = p.current
         /\ DisposePass(p).start = p.start /\ DisposePass(p).seen = p.seen
         /\ DisposePass(p).newerGone = p.newerGone
<1> DEFINE yes == TRUE
           none == 0
           q == [p EXCEPT !.count = none, !.deleted = yes]
<1>0. yes \in BOOLEAN /\ yes /\ none \in Int
  OBVIOUS
<1> HIDE DEF yes, none
<1>1. q \in AnyPass
  BY <1>0 DEF AnyPass
<1>2. q.index = p.index /\ q.count = none
  BY DEF AnyPass
<1>3. q.current = p.current /\ q.start = p.start /\ q.seen = p.seen
  BY DEF AnyPass
<1>4. q.deleted = yes /\ q.newerGone = p.newerGone
  BY DEF AnyPass
<1> QED
  BY <1>0, <1>1, <1>2, <1>3, <1>4 DEF DisposePass, yes, none

-----------------------------------------------------------------------------
(* A pass under a change of the array.                                     *)

(* The fields of a monitor. *)
LEMMA MonitorsAre ==
  ASSUME NEW mons, NEW nid, Distinct(mons, nid)
  PROVE  /\ Len(mons) \in Nat /\ nid \in Nat
         /\ \A i \in 1..Len(mons) : /\ mons[i] \in AnyMonitor /\ mons[i].id \in Ids
                                    /\ mons[i].id \in Nat /\ mons[i].id # NoId
                                    /\ mons[i].id < nid /\ mons[i].instances \in Nat
<1>1. Len(mons) \in Nat /\ nid \in Nat /\ \A i \in 1..Len(mons) : mons[i] \in AnyMonitor
  BY DEF Distinct
<1>2. \A i \in 1..Len(mons) : mons[i].id \in Ids /\ mons[i].instances \in Nat
  BY <1>1 DEF AnyMonitor
<1>3. \A u \in Ids : u \in Nat /\ u # NoId
  BY MonitorAssumption DEF Ids, NoId
<1> QED
  BY <1>1, <1>2, <1>3 DEF Distinct

(* Ids are numbers. *)
LEMMA SeenNat ==
  ASSUME NEW p \in AnyPass
  PROVE  \A u \in Range(p.start) \cup Range(p.seen) : u \in Nat
<1>1. \A u \in Ids : u \in Nat
  BY MonitorAssumption DEF Ids
<1> QED
  BY <1>1, RangeIds

(* Where a pass goes on. *)
LEMMA FirstIs ==
  ASSUME NEW p \in AnyPass
  PROVE  First(p) \in Int
BY PassFields DEF First

(* Monitors with other fields but the same ids. *)
LEMMA SameIds ==
  ASSUME NEW p, NEW mons, NEW nid, Distinct(mons, nid), Sound(p, mons, nid),
         NEW mons2 \in Seq(AnyMonitor), Len(mons2) = Len(mons),
         \A i \in 1..Len(mons) : mons2[i].id = mons[i].id
  PROVE  Distinct(mons2, nid) /\ Sound(p, mons2, nid)
<1>1. Distinct(mons2, nid)
  BY DEF Distinct
<1>2. Pointed(p, mons2)
  BY DEF Sound, Pointed
<1>3. Looked(p, mons2)
  BY DEF Sound, Looked
<1> QED
  BY <1>1, <1>2, <1>3 DEF Sound

(* A monitor comes last. *)
LEMMA LastAdded ==
  ASSUME NEW mons, NEW nid, Distinct(mons, nid), NEW m \in AnyMonitor, m.id = nid
  PROVE  /\ Distinct(Append(mons, m), nid + 1)
         /\ \A p \in AnyPass : Sound(p, mons, nid) => Sound(p, Append(mons, m), nid + 1)
<1> DEFINE r == Append(mons, m)
           k == Len(mons)
<1>1. /\ mons \in Seq(AnyMonitor) /\ nid \in Nat \ {0} /\ k \in Nat
      /\ \A i \in 1..k : mons[i].id \in Nat /\ mons[i].id < nid
      /\ \A i, j \in 1..k : mons[i].id = mons[j].id => i = j
  BY MonitorsAre DEF Distinct
<1>2. /\ r \in Seq(AnyMonitor) /\ Len(r) = k + 1
      /\ \A i \in 1..k : r[i] = mons[i]
      /\ r[k + 1] = m
  BY <1>1
<1> HIDE DEF r, k
<1>3. \A i \in 1..Len(r) : \/ i \in 1..k /\ r[i] = mons[i] /\ r[i].id < nid
                           \/ i = k + 1 /\ r[i].id = nid
  BY <1>1, <1>2
<1>4. Distinct(r, nid + 1)
  <2>1. \A i \in 1..Len(r) : r[i].id < nid + 1
    BY <1>1, <1>3
  <2>2. \A i, j \in 1..Len(r) : r[i].id = r[j].id => i = j
    BY <1>1, <1>3
  <2> QED
    BY <1>1, <1>2, <2>1, <2>2 DEF Distinct
<1>5. ASSUME NEW p \in AnyPass, Sound(p, mons, nid)
      PROVE  Sound(p, r, nid + 1)
  <2>1. Pointed(p, mons) /\ Looked(p, mons) /\ Old(p, nid)
    BY <1>5 DEF Sound
  <2>2. /\ p.index \in Int /\ p.count \in Int /\ p.current \in Nat /\ First(p) \in Int
        /\ \A u \in Range(p.start) \cup Range(p.seen) : u \in Nat
    BY PassFields, FirstIs, SeenNat
  <2>3. Old(p, nid + 1)
    BY <1>1, <2>1, <2>2 DEF Old
  <2>4. Pointed(p, r)
    <3>1. p.count <= Len(r)
      BY <1>1, <1>2, <2>1, <2>2 DEF Pointed, k
    <3>2. p.index + 1 \in 1..k => p.index + 1 \in 1..Len(r) /\ r[p.index + 1] = mons[p.index + 1]
      BY <1>1, <1>2, <2>2
    <3>3. p.current # nid
      BY <1>1, <2>1, <2>2 DEF Old
    <3>4. (\A i \in 1..k : mons[i].id # p.current) => \A i \in 1..Len(r) : r[i].id # p.current
      BY <1>3, <3>3
    <3> QED
      BY <2>1, <3>1, <3>2, <3>4 DEF Pointed, k
  <2>5. Looked(p, r)
    <3>1. nid \notin Range(p.start) /\ nid \notin Range(p.seen)
      BY <1>1, <2>1, <2>2 DEF Old
    <3> QED
      BY <1>3, <2>1, <3>1 DEF Looked, k
  <2> QED
    BY <2>3, <2>4, <2>5 DEF Sound
<1> QED
  BY <1>4, <1>5 DEF r

(* A monitor comes first, and the passes move up. *)
LEMMA FirstAdded ==
  ASSUME NEW mons, NEW nid, Distinct(mons, nid), NEW m \in AnyMonitor, m.id = nid
  PROVE  /\ Distinct(<<m>> \o mons, nid + 1)
         /\ \A p \in AnyPass : Sound(p, mons, nid) => Sound(MoveUp(p), <<m>> \o mons, nid + 1)
<1> DEFINE r == <<m>> \o mons
           k == Len(mons)
<1>1. /\ mons \in Seq(AnyMonitor) /\ nid \in Nat \ {0} /\ k \in Nat
      /\ \A i \in 1..k : mons[i].id \in Nat /\ mons[i].id < nid
      /\ \A i, j \in 1..k : mons[i].id = mons[j].id => i = j
  BY MonitorsAre DEF Distinct
<1>2. /\ r \in Seq(AnyMonitor) /\ Len(r) = k + 1
      /\ \A i \in 1..k : r[i + 1] = mons[i]
      /\ r[1] = m
  <2>1. <<m>> \in Seq(AnyMonitor) /\ Len(<<m>>) = 1
    OBVIOUS
  <2> QED
    BY <1>1, <2>1
<1> HIDE DEF r, k
<1>3. \A i \in 1..Len(r) : \/ i - 1 \in 1..k /\ r[i] = mons[i - 1] /\ r[i].id < nid
                           \/ i = 1 /\ r[i].id = nid
  <2>1. ASSUME NEW i \in 1..Len(r), i # 1
        PROVE  i - 1 \in 1..k /\ r[i] = mons[i - 1] /\ r[i].id < nid
    <3>1. i - 1 \in 1..k /\ (i - 1) + 1 = i
      BY <1>1, <1>2, <2>1
    <3> QED
      BY <1>1, <1>2, <3>1
  <2> QED
    BY <1>2, <2>1
<1>4. Distinct(r, nid + 1)
  <2>1. \A i \in 1..Len(r) : r[i].id < nid + 1
    BY <1>1, <1>3
  <2>2. ASSUME NEW i \in 1..Len(r), NEW j \in 1..Len(r), r[i].id = r[j].id
        PROVE  i = j
    <3>1. CASE i = 1
      BY <1>1, <1>3, <2>2, <3>1
    <3>2. CASE i # 1
      <4>1. i - 1 \in 1..k /\ r[i] = mons[i - 1] /\ r[i].id < nid
        BY <1>3, <3>2
      <4>2. j - 1 \in 1..k /\ r[j] = mons[j - 1]
        BY <1>1, <1>3, <2>2, <4>1
      <4>3. i - 1 = j - 1
        BY <1>1, <2>2, <4>1, <4>2
      <4> QED
        BY <4>3
    <3> QED
      BY <3>1, <3>2
  <2> QED
    BY <1>1, <1>2, <2>1, <2>2 DEF Distinct
<1>5. ASSUME NEW p \in AnyPass, Sound(p, mons, nid)
      PROVE  Sound(MoveUp(p), r, nid + 1)
  <2> DEFINE q == MoveUp(p)
  <2>1. Pointed(p, mons) /\ Looked(p, mons) /\ Old(p, nid)
    BY <1>5 DEF Sound
  <2>2. /\ p.index \in Int /\ p.count \in Int /\ p.current \in Nat /\ First(p) \in Int
        /\ \A u \in Range(p.start) \cup Range(p.seen) : u \in Nat
    BY PassFields, FirstIs, SeenNat
  <2>3. /\ q.index = p.index + 1 /\ q.count = p.count + 1
        /\ q.deleted = p.deleted /\ q.current = p.current
        /\ q.start = p.start /\ q.seen = p.seen /\ q.newerGone = p.newerGone
    BY MovedUp
  <2> HIDE DEF q
  <2>4. First(q) = First(p) + 1
    BY <2>2, <2>3 DEF First
  <2>5. Old(q, nid + 1)
    BY <1>1, <2>1, <2>2, <2>3 DEF Old
  <2>6. Pointed(q, r)
    <3>1. q.index >= -1 /\ q.count <= Len(r) /\ (q.current = NoId => q.index >= 0)
      BY <1>1, <1>2, <2>1, <2>2, <2>3 DEF Pointed, k
    <3>2. p.index + 1 \in 1..k => q.index + 1 \in 1..Len(r) /\ r[q.index + 1] = mons[p.index + 1]
      BY <1>1, <1>2, <2>2, <2>3
    <3>3. p.current # nid
      BY <1>1, <2>1, <2>2 DEF Old
    <3>4. (\A i \in 1..k : mons[i].id # p.current) => \A i \in 1..Len(r) : r[i].id # p.current
      BY <1>3, <3>3
    <3> QED
      BY <2>1, <2>3, <3>1, <3>2, <3>4 DEF Pointed, k
  <2>7. ASSUME ~q.newerGone
        PROVE  /\ \A i \in 1..Len(r) :
                    r[i].id \in Range(q.start) /\ r[i].id \notin Range(q.seen) =>
                      First(q) <= i /\ i <= q.count
               /\ \A i \in 1..Len(r) : First(q) <= i => r[i].id \notin Range(q.seen)
               /\ IsInjective(q.seen)
    <3>1. nid \notin Range(p.start) /\ nid \notin Range(p.seen)
      BY <1>1, <2>1, <2>2 DEF Old
    <3>2. /\ \A i \in 1..k : mons[i].id \in Range(p.start) /\ mons[i].id \notin Range(p.seen) =>
               First(p) <= i /\ i <= p.count
          /\ \A i \in 1..k : First(p) <= i => mons[i].id \notin Range(p.seen)
          /\ IsInjective(p.seen)
      BY <2>1, <2>3, <2>7 DEF Looked, k
    <3>3. ASSUME NEW i \in 1..Len(r), r[i].id \in Range(q.start), r[i].id \notin Range(q.seen)
          PROVE  First(q) <= i /\ i <= q.count
      <4>1. i - 1 \in 1..k /\ r[i] = mons[i - 1]
        BY <1>3, <2>3, <3>1, <3>3
      <4>2. First(p) <= i - 1 /\ i - 1 <= p.count
        BY <2>3, <3>2, <3>3, <4>1
      <4> QED
        BY <2>2, <2>3, <2>4, <4>2
    <3>4. ASSUME NEW i \in 1..Len(r), First(q) <= i
          PROVE  r[i].id \notin Range(q.seen)
      <4>1. CASE i - 1 \in 1..k /\ r[i] = mons[i - 1]
        <5>1. First(p) <= i - 1
          BY <2>2, <2>4, <3>4
        <5> QED
          BY <2>3, <3>2, <4>1, <5>1
      <4>2. CASE r[i].id = nid
        BY <2>3, <3>1, <4>2
      <4> QED
        BY <1>3, <4>1, <4>2
    <3> QED
      BY <2>3, <3>2, <3>3, <3>4
  <2> QED
    BY <2>5, <2>6, <2>7 DEF Sound, Looked, q
<1> QED
  BY <1>4, <1>5 DEF r

(* A monitor goes, under passes that all wait for a function. *)
LEMMA OneDeleted ==
  ASSUME NEW mons, NEW nid, Distinct(mons, nid), NEW i \in 1..Len(mons)
  PROVE  /\ Distinct(RemoveAt(mons, i), nid)
         /\ \A n \in 1..Len(RemoveAt(mons, i)) :
              \E m \in 1..Len(mons) : RemoveAt(mons, i)[n] = mons[m]
         /\ \A p \in AnyPass : Sound(p, mons, nid) /\ p.current # NoId =>
              Sound(NoteNewer(PassDelete(p, i - 1), mons[i].id), RemoveAt(mons, i), nid)
<1> DEFINE r == RemoveAt(mons, i)
           k == Len(mons)
           mon == i - 1
           id == mons[i].id
<1>1. /\ mons \in Seq(AnyMonitor) /\ nid \in Nat \ {0} /\ k \in Nat
      /\ \A n \in 1..k : mons[n].id \in Ids /\ mons[n].id \in Nat /\ mons[n].id < nid
      /\ \A n, m \in 1..k : mons[n].id = mons[m].id => n = m
  BY MonitorsAre DEF Distinct
<1>2. /\ r \in Seq(AnyMonitor) /\ Len(r) = k - 1
      /\ \A n \in 1..(k - 1) : r[n] = IF n < i THEN mons[n] ELSE mons[n + 1]
  BY <1>1, RemoveAtIs
<1>3. i \in 1..k /\ mon \in Nat /\ mon + 1 = i /\ id \in Ids
  BY <1>1
<1> HIDE DEF r, k, mon, id
<1>4. \A n \in 1..Len(r) : \/ n < i /\ n \in 1..k /\ r[n] = mons[n]
                           \/ i <= n /\ n + 1 \in 1..k /\ r[n] = mons[n + 1]
  BY <1>1, <1>2, <1>3
<1>5. /\ \A n \in 1..k : n < i => n \in 1..Len(r) /\ r[n] = mons[n]
      /\ \A n \in 1..k : i < n => n - 1 \in 1..Len(r) /\ r[n - 1] = mons[n]
  <2>1. ASSUME NEW n \in 1..k, n < i
        PROVE  n \in 1..Len(r) /\ r[n] = mons[n]
    BY <1>1, <1>2, <1>3, <2>1
  <2>2. ASSUME NEW n \in 1..k, i < n
        PROVE  n - 1 \in 1..Len(r) /\ r[n - 1] = mons[n]
    <3>1. n - 1 \in 1..(k - 1) /\ ~(n - 1 < i) /\ (n - 1) + 1 = n
      BY <1>1, <1>3, <2>2
    <3> QED
      BY <1>2, <3>1
  <2> QED
    BY <2>1, <2>2
<1>6. ASSUME NEW n \in 1..Len(r)
      PROVE  \E m \in 1..k : m # i /\ r[n] = mons[m] /\ m = IF n < i THEN n ELSE n + 1
  BY <1>1, <1>2, <1>3, <1>4
<1>7. Distinct(r, nid)
  <2>1. \A n \in 1..Len(r) : r[n].id < nid
    BY <1>1, <1>6
  <2>2. ASSUME NEW n \in 1..Len(r), NEW m \in 1..Len(r), r[n].id = r[m].id
        PROVE  n = m
    <3>1. PICK a \in 1..k : r[n] = mons[a] /\ a = IF n < i THEN n ELSE n + 1
      BY <1>6
    <3>2. PICK b \in 1..k : r[m] = mons[b] /\ b = IF m < i THEN m ELSE m + 1
      BY <1>6
    <3>3. a = b
      BY <1>1, <2>2, <3>1, <3>2
    <3> QED
      BY <1>1, <1>2, <1>3, <3>1, <3>2, <3>3
  <2> QED
    BY <1>1, <1>2, <2>1, <2>2 DEF Distinct
<1>8. \A n \in 1..Len(r) : r[n].id # id
  <2>1. ASSUME NEW n \in 1..Len(r)
        PROVE  r[n].id # id
    <3>1. PICK m \in 1..k : m # i /\ r[n] = mons[m]
      BY <1>6
    <3> QED
      BY <1>1, <1>3, <3>1 DEF id
  <2> QED
    BY <2>1
<1>9. ASSUME NEW p \in AnyPass, Sound(p, mons, nid), p.current # NoId
      PROVE  Sound(NoteNewer(PassDelete(p, mon), id), r, nid)
  <2> DEFINE q == NoteNewer(PassDelete(p, mon), id)
  <2>1. Pointed(p, mons) /\ Looked(p, mons) /\ Old(p, nid)
    BY <1>9 DEF Sound
  <2>2. /\ p.index \in Int /\ p.count \in Int /\ p.current \in Nat /\ First(p) = p.index + 2
    BY <1>9, PassFields DEF First
  <2>3. /\ p.index >= mon => q.index = p.index - 1
        /\ p.index < mon => q.index = p.index
        /\ q.count = p.count - 1
        /\ q.deleted <=> p.deleted \/ p.index = mon
        /\ q.current = p.current /\ q.start = p.start /\ q.seen = p.seen
        /\ q.newerGone <=> p.newerGone \/ id \notin Range(p.start)
    BY <1>3, Deleted
  <2> HIDE DEF q
  <2>4. First(q) = q.index + 2
    BY <1>9, <2>3 DEF First
  <2>5. Old(q, nid)
    BY <2>1, <2>3 DEF Old
  <2>6. Pointed(q, r)
    <3>1. q.index >= -1 /\ q.count <= Len(r)
      <4>1. p.index >= -1 /\ p.count <= k
        BY <2>1 DEF Pointed, k
      <4> QED
        BY <1>1, <1>2, <1>3, <2>2, <2>3, <4>1
    <3>2. ASSUME ~q.deleted
          PROVE  q.index + 1 \in 1..Len(r) /\ r[q.index + 1].id = q.current
      <4>1. ~p.deleted /\ p.index # mon
        BY <2>3, <3>2
      <4>2. p.index + 1 \in 1..k /\ mons[p.index + 1].id = p.current
        BY <1>9, <2>1, <4>1 DEF Pointed, k
      <4>3. CASE p.index < mon
        <5>1. p.index + 1 < i /\ q.index = p.index
          BY <1>3, <2>2, <2>3, <4>3
        <5> QED
          BY <1>5, <2>3, <4>2, <5>1
      <4>4. CASE p.index > mon
        <5>1. i < p.index + 1 /\ q.index = p.index - 1 /\ q.index + 1 = (p.index + 1) - 1
          BY <1>3, <2>2, <2>3, <4>4
        <5> QED
          BY <1>5, <2>3, <4>2, <5>1
      <4> QED
        BY <1>3, <2>2, <4>1, <4>3, <4>4
    <3>3. ASSUME q.deleted, kind = "OnMessage"
          PROVE  \A n \in 1..Len(r) : r[n].id # q.current
      <4>1. CASE p.deleted
        <5>1. \A n \in 1..k : mons[n].id # p.current
          BY <1>9, <2>1, <3>3, <4>1 DEF Pointed, k
        <5> QED
          BY <1>6, <2>3, <5>1
      <4>2. CASE ~p.deleted
        <5>1. p.index = mon
          BY <2>3, <3>3, <4>2
        <5>2. mons[p.index + 1].id = p.current
          BY <1>9, <2>1, <4>2 DEF Pointed
        <5>3. id = p.current
          BY <1>3, <5>1, <5>2 DEF id
        <5> QED
          BY <1>8, <2>3, <5>3
      <4> QED
        BY <4>1, <4>2
    <3> QED
      BY <1>9, <2>3, <3>1, <3>2, <3>3 DEF Pointed
  <2>7. ASSUME ~q.newerGone
        PROVE  /\ \A n \in 1..Len(r) :
                    r[n].id \in Range(q.start) /\ r[n].id \notin Range(q.seen) =>
                      First(q) <= n /\ n <= q.count
               /\ \A n \in 1..Len(r) : First(q) <= n => r[n].id \notin Range(q.seen)
               /\ IsInjective(q.seen)
    <3>1. ~p.newerGone /\ id \in Range(p.start)
      BY <2>3, <2>7
    <3>2. /\ \A n \in 1..k : mons[n].id \in Range(p.start) /\ mons[n].id \notin Range(p.seen) =>
               First(p) <= n /\ n <= p.count
          /\ \A n \in 1..k : First(p) <= n => mons[n].id \notin Range(p.seen)
          /\ IsInjective(p.seen)
      BY <2>1, <3>1 DEF Looked, k
    <3>3. First(p) <= i => i <= p.count
      BY <1>3, <3>1, <3>2 DEF id
    <3>4. /\ i < First(p) => First(q) = First(p) - 1
          /\ ~(i < First(p)) => First(q) = First(p)
      BY <1>1, <1>3, <2>2, <2>3, <2>4
    <3>5. First(p) \in Int
      BY <2>2
    <3>6. ASSUME NEW n \in 1..Len(r), r[n].id \in Range(q.start), r[n].id \notin Range(q.seen)
          PROVE  First(q) <= n /\ n <= q.count
      <4>1. PICK m \in 1..k : m # i /\ r[n] = mons[m] /\ m = IF n < i THEN n ELSE n + 1
        BY <1>6
      <4>2. First(p) <= m /\ m <= p.count
        BY <2>3, <3>2, <3>6, <4>1
      <4>3. CASE n < i
        <5>1. m = n /\ First(p) <= i
          BY <1>1, <1>2, <1>3, <3>5, <4>1, <4>2, <4>3
        <5> QED
          BY <1>1, <1>2, <1>3, <2>2, <2>3, <3>3, <3>4, <3>5, <4>2, <4>3, <5>1
      <4>4. CASE ~(n < i)
        <5>1. m = n + 1
          BY <4>1, <4>4
        <5> QED
          BY <1>1, <1>2, <1>3, <2>2, <2>3, <3>4, <3>5, <4>2, <4>4, <5>1
      <4> QED
        BY <4>3, <4>4
    <3>7. ASSUME NEW n \in 1..Len(r), First(q) <= n
          PROVE  r[n].id \notin Range(q.seen)
      <4>1. PICK m \in 1..k : m # i /\ r[n] = mons[m] /\ m = IF n < i THEN n ELSE n + 1
        BY <1>6
      <4>2. First(p) <= m
        BY <1>1, <1>2, <1>3, <3>4, <3>5, <3>7, <4>1
      <4> QED
        BY <2>3, <3>2, <4>1, <4>2
    <3> QED
      BY <2>3, <3>2, <3>6, <3>7
  <2> QED
    BY <2>5, <2>6, <2>7 DEF Sound, Looked, q
<1>10. \A n \in 1..Len(r) : \E m \in 1..k : r[n] = mons[m]
  BY <1>6
<1> QED
  BY <1>7, <1>9, <1>10 DEF r, k, mon, id

(* All monitors go. *)
LEMMA AllDisposed ==
  ASSUME NEW mons, NEW nid, Distinct(mons, nid), kind = "Event"
  PROVE  /\ Distinct(<<>>, nid)
         /\ \A p \in AnyPass : Sound(p, mons, nid) => Sound(DisposePass(p), <<>>, nid)
<1>1. Distinct(<<>>, nid)
  BY DEF Distinct
<1>2. ASSUME NEW p \in AnyPass, Sound(p, mons, nid)
      PROVE  Sound(DisposePass(p), <<>>, nid)
  <2> DEFINE q == DisposePass(p)
  <2>1. /\ q.index = p.index /\ q.count = 0 /\ q.deleted /\ q.current = p.current
        /\ q.start = p.start /\ q.seen = p.seen /\ q.newerGone = p.newerGone
    BY Disposed
  <2> HIDE DEF q
  <2>2. Pointed(p, mons) /\ Looked(p, mons) /\ Old(p, nid)
    BY <1>2 DEF Sound
  <2>3. Pointed(q, <<>>)
    BY <2>1, <2>2 DEF Pointed
  <2>4. Looked(q, <<>>)
    <3>1. ~p.newerGone => IsInjective(p.seen)
      BY <2>2 DEF Looked
    <3> QED
      BY <2>1, <3>1 DEF Looked
  <2>5. Old(q, nid)
    BY <2>1, <2>2 DEF Old
  <2> QED
    BY <2>3, <2>4, <2>5 DEF Sound, q
<1> QED
  BY <1>1, <1>2

-----------------------------------------------------------------------------
(* The stack of passes.                                                    *)

(* The top pass goes. *)
LEMMA Popped ==
  ASSUME NEW s, NEW mons, NEW nid, Stacked(s, mons, nid), s # <<>>
  PROVE  /\ Stacked(Front(s), mons, nid) /\ Last(s) \in AnyPass /\ Sound(Last(s), mons, nid)
         /\ \A d \in 1..Len(Front(s)) : Front(s)[d].current # NoId
<1> DEFINE r == Front(s)
<1>1. /\ s \in Seq(AnyPass) /\ \A d \in 1..Len(s) : Sound(s[d], mons, nid)
      /\ \A d \in 1..Len(s) : d < Len(s) => s[d].current # NoId
  BY DEF Stacked
<1>2. /\ r \in Seq(AnyPass) /\ Len(r) = Len(s) - 1 /\ Len(s) \in Nat \ {0}
      /\ \A d \in 1..(Len(s) - 1) : r[d] = s[d]
      /\ Last(s) = s[Len(s)] /\ Last(s) \in AnyPass
  BY <1>1, FrontIs
<1> HIDE DEF r
<1>3. \A d \in 1..Len(r) : d \in 1..Len(s) /\ d < Len(s) /\ r[d] = s[d]
  BY <1>2
<1>4. \A d \in 1..Len(r) : Sound(r[d], mons, nid) /\ r[d].current # NoId
  BY <1>1, <1>3
<1>5. Sound(Last(s), mons, nid)
  BY <1>1, <1>2
<1> QED
  BY <1>2, <1>4, <1>5 DEF Stacked, r

(* A pass comes on top of passes that wait. *)
LEMMA Pushed ==
  ASSUME NEW s, NEW mons, NEW nid, Stacked(s, mons, nid),
         \A d \in 1..Len(s) : s[d].current # NoId,
         NEW p \in AnyPass, Sound(p, mons, nid)
  PROVE  Stacked(Append(s, p), mons, nid)
<1> DEFINE r == Append(s, p)
<1>1. s \in Seq(AnyPass) /\ \A d \in 1..Len(s) : Sound(s[d], mons, nid)
  BY DEF Stacked
<1>2. /\ r \in Seq(AnyPass) /\ Len(r) = Len(s) + 1 /\ Len(s) \in Nat
      /\ \A d \in 1..Len(s) : r[d] = s[d]
      /\ r[Len(s) + 1] = p
  BY <1>1
<1> HIDE DEF r
<1>3. \A d \in 1..Len(r) : d \in 1..Len(s) \/ d = Len(s) + 1
  BY <1>2
<1> QED
  BY <1>1, <1>2, <1>3 DEF Stacked, r

(* The top pass, and the stack with another one there. *)
LEMMA TopIs ==
  ASSUME stack \in Seq(AnyPass), stack # <<>>, NEW p \in AnyPass
  PROVE  Top = Last(stack) /\ Top \in AnyPass /\ WithTop(p) = Append(Front(stack), p)
<1> DEFINE r == Front(stack)
           w == WithTop(p)
           a == Append(r, p)
<1>1. /\ r \in Seq(AnyPass) /\ Len(r) = Len(stack) - 1 /\ Len(stack) \in Nat \ {0}
      /\ \A d \in 1..(Len(stack) - 1) : r[d] = stack[d]
      /\ Last(stack) = stack[Len(stack)] /\ Last(stack) \in AnyPass
  BY FrontIs
<1>2. /\ w \in Seq(AnyPass) /\ Len(w) = Len(stack)
      /\ \A d \in 1..Len(stack) : w[d] = IF d = Len(stack) THEN p ELSE stack[d]
  BY <1>1 DEF WithTop
<1> HIDE DEF r, w
<1>3. /\ a \in Seq(AnyPass) /\ Len(a) = Len(stack)
      /\ \A d \in 1..Len(stack) : a[d] = IF d = Len(stack) THEN p ELSE r[d]
  BY <1>1
<1> HIDE DEF a
<1>4. \A d \in 1..Len(stack) : a[d] = w[d]
  BY <1>1, <1>2, <1>3
<1>5. a = w
  BY <1>2, <1>3, <1>4
<1> QED
  BY <1>1, <1>5 DEF Top, a, r, w

(* How the passes that wait for a monitor change with the top one. *)
LEMMA CountTop ==
  ASSUME stack \in Seq(AnyPass), stack # <<>>, NEW p \in AnyPass, NEW id \in Ids
  PROVE  /\ Count(stack, Waiting(id)) \in Nat
         /\ Count(Front(stack), Waiting(id)) \in Nat
         /\ Count(WithTop(p), Waiting(id)) \in Nat
         /\ Top.current = id => Count(stack, Waiting(id)) = Count(Front(stack), Waiting(id)) + 1
         /\ Top.current # id => Count(stack, Waiting(id)) = Count(Front(stack), Waiting(id))
         /\ p.current = id => Count(WithTop(p), Waiting(id)) = Count(Front(stack), Waiting(id)) + 1
         /\ p.current # id => Count(WithTop(p), Waiting(id)) = Count(Front(stack), Waiting(id))
<1>1. Top = Last(stack) /\ Top \in AnyPass /\ WithTop(p) = Append(Front(stack), p)
  BY TopIs
<1>2. Front(stack) \in Seq(AnyPass)
  BY FrontIs
<1>3. (Last(stack) \in Waiting(id) <=> Top.current = id) /\ (p \in Waiting(id) <=> p.current = id)
  BY <1>1 DEF Waiting
<1>4. /\ Count(stack, Waiting(id)) \in Nat /\ Count(Front(stack), Waiting(id)) \in Nat
      /\ Last(stack) \in Waiting(id) => Count(stack, Waiting(id)) = Count(Front(stack), Waiting(id)) + 1
      /\ Last(stack) \notin Waiting(id) => Count(stack, Waiting(id)) = Count(Front(stack), Waiting(id))
  BY CountFront
<1>5. /\ p \in Waiting(id) => Count(Append(Front(stack), p), Waiting(id)) = Count(Front(stack), Waiting(id)) + 1
      /\ p \notin Waiting(id) => Count(Append(Front(stack), p), Waiting(id)) = Count(Front(stack), Waiting(id))
  BY <1>2, CountAppend
<1> QED
  BY <1>1, <1>3, <1>4, <1>5

(* No pass waits for a monitor that there is not yet. *)
LEMMA NoneWaits ==
  ASSUME NEW s, NEW mons, NEW nid \in Nat, Stacked(s, mons, nid)
  PROVE  Count(s, Waiting(nid)) = 0
<1>1. s \in Seq(AnyPass) /\ \A d \in 1..Len(s) : s[d].current < nid /\ s[d] \in AnyPass
  BY DEF Stacked, Sound, Old
<1>2. \A d \in 1..Len(s) : s[d].current # nid
  BY <1>1, PassFields
<1>3. Places(s, Waiting(nid)) = {}
  BY <1>1, <1>2 DEF Places, Waiting
<1> QED
  BY <1>3, FS_EmptySet DEF Count

(* Passes that are moved or marked wait for the same monitors. *)
LEMMA CountKept ==
  ASSUME NEW s \in Seq(AnyPass), NEW r \in Seq(AnyPass), Len(r) = Len(s),
         \A d \in 1..Len(s) : r[d].current = s[d].current, NEW id
  PROVE  Count(r, Waiting(id)) = Count(s, Waiting(id))
<1>1. \A d \in 1..Len(s) : r[d] \in AnyPass /\ s[d] \in AnyPass
  OBVIOUS
<1>2. \A d \in 1..Len(s) : r[d] \in Waiting(id) <=> s[d] \in Waiting(id)
  BY <1>1 DEF Waiting
<1> QED
  BY <1>2, CountSame

(* What the invariant says of the state. *)
LEMMA Facts ==
  ASSUME IInv
  PROVE  /\ stack \in Seq(AnyPass) /\ monitors \in Seq(AnyMonitor) /\ nextId \in Nat
         /\ Len(stack) \in Nat /\ Len(monitors) \in Nat
         /\ \A d \in 1..Len(stack) : stack[d] \in AnyPass /\ Sound(stack[d], monitors, nextId)
         /\ \A i \in 1..Len(monitors) : /\ monitors[i] \in AnyMonitor
                                        /\ monitors[i].id \in Ids /\ monitors[i].id # NoId
                                        /\ monitors[i].id < nextId
         /\ stack # <<>> => Top \in AnyPass /\ Top = Last(stack) /\ Sound(Top, monitors, nextId)
         /\ ScriptRuns => \A d \in 1..Len(stack) : stack[d].current # NoId
<1>1. Distinct(monitors, nextId) /\ Stacked(stack, monitors, nextId)
  BY DEF IInv
<1>2. /\ stack \in Seq(AnyPass) /\ monitors \in Seq(AnyMonitor) /\ nextId \in Nat
      /\ Len(stack) \in Nat /\ Len(monitors) \in Nat
      /\ \A d \in 1..Len(stack) : stack[d] \in AnyPass /\ Sound(stack[d], monitors, nextId)
  BY <1>1 DEF Stacked, Distinct
<1>3. stack # <<>> => Top \in AnyPass /\ Top = Last(stack) /\ Sound(Top, monitors, nextId)
  <2>1. stack # <<>> => Len(stack) \in 1..Len(stack)
    BY <1>2
  <2> QED
    BY <1>2, <2>1, FrontIs DEF Top
<1>4. ASSUME ScriptRuns, NEW d \in 1..Len(stack)
      PROVE  stack[d].current # NoId
  <2>1. d < Len(stack) \/ d = Len(stack)
    BY <1>2
  <2>2. stack # <<>>
    BY <1>2
  <2> QED
    BY <1>1, <1>4, <2>1, <2>2 DEF Stacked, ScriptRuns, Top
<1> QED
  BY <1>1, <1>2, <1>3, <1>4, MonitorsAre

-----------------------------------------------------------------------------
(* The actions.                                                            *)

(* The kind of list stays what it is, and so do the conditions on it. *)
LEMMA Kept ==
  ASSUME kind \in Kinds, kind' = kind, Distinct(monitors', nextId'),
         Stacked(stack', monitors', nextId'), Counted(stack', monitors')
  PROVE  IInv'
<1>1. Distinct(monitors, nextId)'
  OBVIOUS
<1>2. \A d \in 1..Len(stack') : Pointed(stack[d], monitors)'
  BY DEF Stacked, Sound, Pointed
<1>3. Stacked(stack, monitors, nextId)'
  BY <1>2 DEF Stacked, Sound
<1>4. Counted(stack, monitors)'
  BY DEF Counted
<1> QED
  BY <1>1, <1>3, <1>4 DEF IInv

(* Initially there is no monitor and no pass. *)
LEMMA InitOk ==
  ASSUME Init
  PROVE  IInv
<1>1. kind \in Kinds /\ monitors = <<>> /\ stack = <<>> /\ nextId = 1
  BY DEF Init
<1>2. Distinct(<<>>, 1) /\ Stacked(<<>>, <<>>, 1) /\ Counted(<<>>, <<>>)
  BY DEF Distinct, Stacked, Counted
<1> QED
  BY <1>1, <1>2 DEF IInv

(* A registration. *)
LEMMA NewIs ==
  ASSUME IInv, nextId \in Ids, NEW m \in Msgs, NEW max \in MaxInstances
  PROVE  /\ NewMonitor(m, max) \in AnyMonitor /\ NewMonitor(m, max).id = nextId
         /\ NewMonitor(m, max).instances = 0 /\ Count(stack, Waiting(nextId)) = 0
<1>1. Count(stack, Waiting(nextId)) = 0
  BY Facts, NoneWaits DEF IInv
<1> QED
  BY <1>1 DEF NewMonitor, AnyMonitor

(* At the end of the array. *)
LEMMA AddLastOk ==
  ASSUME IInv, NEW m \in Msgs, NEW max \in MaxInstances, AddLast(m, max)
  PROVE  IInv'
<1> DEFINE n == NewMonitor(m, max)
           r == Append(monitors, n)
<1>1. nextId \in Ids /\ monitors' = r /\ nextId' = nextId + 1 /\ kind' = kind /\ stack' = stack
  BY DEF AddLast
<1>2. n \in AnyMonitor /\ n.id = nextId /\ n.instances = 0 /\ Count(stack, Waiting(nextId)) = 0
  BY <1>1, NewIs
<1>3. /\ kind \in Kinds /\ Distinct(monitors, nextId) /\ Stacked(stack, monitors, nextId)
      /\ Counted(stack, monitors)
  BY DEF IInv
<1> HIDE DEF n
<1>4. /\ Distinct(r, nextId + 1)
      /\ \A p \in AnyPass : Sound(p, monitors, nextId) => Sound(p, r, nextId + 1)
  BY <1>2, <1>3, LastAdded
<1>5. Stacked(stack, r, nextId + 1)
  <2>1. \A d \in 1..Len(stack) : Sound(stack[d], r, nextId + 1)
    BY <1>4, Facts
  <2> QED
    BY <1>3, <2>1 DEF Stacked
<1>6. Counted(stack, r)
  <2>1. /\ Len(monitors) \in Nat /\ Len(r) = Len(monitors) + 1
        /\ \A i \in 1..Len(monitors) : r[i] = monitors[i]
        /\ r[Len(monitors) + 1] = n
    BY <1>2, Facts
  <2> HIDE DEF r
  <2>2. \A i \in 1..Len(r) : i \in 1..Len(monitors) \/ i = Len(monitors) + 1
    BY <2>1
  <2> QED
    BY <1>2, <1>3, <2>1, <2>2 DEF Counted
<1> HIDE DEF r
<1> QED
  BY <1>1, <1>3, <1>4, <1>5, <1>6, Kept

(* At the beginning of the array. *)
LEMMA AddFirstOk ==
  ASSUME IInv, NEW m \in Msgs, NEW max \in MaxInstances, AddFirst(m, max)
  PROVE  IInv'
<1> DEFINE n == NewMonitor(m, max)
           r == <<n>> \o monitors
           w == [d \in 1..Len(stack) |-> MoveUp(stack[d])]
<1>1. /\ nextId \in Ids /\ monitors' = r /\ nextId' = nextId + 1 /\ kind' = kind
      /\ stack' = w /\ ScriptRuns
  BY DEF AddFirst, OnEachPass
<1>2. n \in AnyMonitor /\ n.id = nextId /\ n.instances = 0 /\ Count(stack, Waiting(nextId)) = 0
  BY <1>1, NewIs
<1>3. /\ kind \in Kinds /\ Distinct(monitors, nextId) /\ Counted(stack, monitors)
      /\ stack \in Seq(AnyPass) /\ Len(stack) \in Nat /\ Len(monitors) \in Nat
      /\ \A d \in 1..Len(stack) : /\ stack[d] \in AnyPass /\ Sound(stack[d], monitors, nextId)
                                  /\ stack[d].current # NoId
  BY <1>1, Facts DEF IInv
<1> HIDE DEF n
<1>4. /\ Distinct(r, nextId + 1)
      /\ \A p \in AnyPass : Sound(p, monitors, nextId) => Sound(MoveUp(p), r, nextId + 1)
  BY <1>2, <1>3, FirstAdded
<1>5. /\ w \in Seq(AnyPass) /\ Len(w) = Len(stack)
      /\ \A d \in 1..Len(stack) : w[d] = MoveUp(stack[d]) /\ w[d].current = stack[d].current
  BY <1>3, MovedUp
<1>6. monitors \in Seq(AnyMonitor) /\ <<n>> \in Seq(AnyMonitor) /\ Len(<<n>>) = 1
  BY <1>2, Facts
<1>7. /\ Len(r) = Len(monitors) + 1 /\ r[1] = n
      /\ \A i \in 1..Len(monitors) : r[i + 1] = monitors[i]
  BY <1>3, <1>6
<1> HIDE DEF r, w
<1>8. Stacked(w, r, nextId + 1)
  BY <1>3, <1>4, <1>5 DEF Stacked
<1>9. Counted(w, r)
  <2>1. ASSUME kind = "OnMessage", NEW i \in 1..Len(r)
        PROVE  r[i].instances = Count(w, Waiting(r[i].id))
    <3>1. \A id : Count(w, Waiting(id)) = Count(stack, Waiting(id))
      BY <1>3, <1>5, CountKept
    <3>2. CASE i = 1
      BY <1>2, <1>7, <3>1, <3>2
    <3>3. CASE i # 1
      <4>1. i - 1 \in 1..Len(monitors) /\ (i - 1) + 1 = i
        BY <1>3, <1>7, <3>3
      <4>2. r[i] = monitors[i - 1]
        BY <1>7, <4>1
      <4> QED
        BY <1>3, <2>1, <3>1, <4>1, <4>2 DEF Counted
    <3> QED
      BY <3>2, <3>3
  <2> QED
    BY <2>1 DEF Counted
<1> QED
  BY <1>1, <1>3, <1>4, <1>8, <1>9, Kept

(* Monitors of which only other fields change. *)
LEMMA SameStack ==
  ASSUME IInv, NEW mons \in Seq(AnyMonitor), Len(mons) = Len(monitors),
         \A i \in 1..Len(monitors) : mons[i].id = monitors[i].id
  PROVE  Distinct(mons, nextId) /\ Stacked(stack, mons, nextId)
<1>1. Distinct(monitors, nextId) /\ Stacked(stack, monitors, nextId)
  BY DEF IInv
<1>2. Distinct(mons, nextId)
  BY <1>1 DEF Distinct
<1>3. \A d \in 1..Len(stack) : Sound(stack[d], mons, nextId)
  BY <1>1, SameIds DEF Stacked
<1> QED
  BY <1>1, <1>2, <1>3 DEF Stacked

(* Another limit. *)
LEMMA SetMaxInstancesOk ==
  ASSUME IInv, NEW j \in 1..Len(monitors), NEW max \in MaxInstances, SetMaxInstances(j, max)
  PROVE  IInv'
<1> DEFINE u == [monitors[j] EXCEPT !.max = max]
           r == [monitors EXCEPT ![j] = u]
<1>1. monitors' = r /\ UNCHANGED <<kind, stack, nextId>>
  BY DEF SetMaxInstances
<1>2. /\ monitors \in Seq(AnyMonitor) /\ Len(monitors) \in Nat
      /\ \A i \in 1..Len(monitors) : monitors[i] \in AnyMonitor
  BY Facts
<1>3. u \in AnyMonitor /\ u.id = monitors[j].id /\ u.instances = monitors[j].instances
  BY <1>2 DEF AnyMonitor
<1> HIDE DEF u
<1>4. /\ r \in Seq(AnyMonitor) /\ Len(r) = Len(monitors)
      /\ \A i \in 1..Len(monitors) : r[i] = IF i = j THEN u ELSE monitors[i]
  BY <1>2, <1>3
<1> HIDE DEF r
<1>5. \A i \in 1..Len(monitors) : r[i].id = monitors[i].id /\ r[i].instances = monitors[i].instances
  BY <1>3, <1>4
<1>6. Distinct(r, nextId) /\ Stacked(stack, r, nextId)
  BY <1>4, <1>5, SameStack
<1>7. Counted(stack, r)
  BY <1>4, <1>5 DEF IInv, Counted
<1> QED
  BY <1>1, <1>6, <1>7, Kept DEF IInv

(* A monitor deleted. *)
LEMMA DeleteOk ==
  ASSUME IInv, NEW i \in 1..Len(monitors), Delete(i)
  PROVE  IInv'
<1> DEFINE id == monitors[i].id
           r == RemoveAt(monitors, i)
           Move(p) == NoteNewer(PassDelete(p, i - 1), id)
           w == [d \in 1..Len(stack) |-> Move(stack[d])]
<1>1. monitors' = r /\ stack' = w /\ UNCHANGED <<kind, nextId>> /\ ScriptRuns
  BY DEF Delete, OnEachPass
<1>2. /\ kind \in Kinds /\ Distinct(monitors, nextId) /\ Counted(stack, monitors)
      /\ stack \in Seq(AnyPass) /\ Len(stack) \in Nat /\ Len(monitors) \in Nat
      /\ \A d \in 1..Len(stack) : /\ stack[d] \in AnyPass /\ Sound(stack[d], monitors, nextId)
                                  /\ stack[d].current # NoId
  BY <1>1, Facts DEF IInv
<1>3. id \in Ids /\ i - 1 \in Nat
  BY <1>2, Facts
<1>4. /\ Distinct(r, nextId)
      /\ \A n \in 1..Len(r) : \E m \in 1..Len(monitors) : r[n] = monitors[m]
      /\ \A p \in AnyPass : Sound(p, monitors, nextId) /\ p.current # NoId => Sound(Move(p), r, nextId)
  BY <1>2, OneDeleted
<1>5. \A p \in AnyPass : Move(p) \in AnyPass /\ Move(p).current = p.current
  BY <1>3, Deleted
<1> HIDE DEF r, Move, id
<1>6. /\ w \in Seq(AnyPass) /\ Len(w) = Len(stack)
      /\ \A d \in 1..Len(stack) : w[d] = Move(stack[d]) /\ w[d].current = stack[d].current
  BY <1>2, <1>5
<1> HIDE DEF w
<1>7. Stacked(w, r, nextId)
  BY <1>2, <1>4, <1>6 DEF Stacked
<1>8. Counted(w, r)
  <2>1. \A v : Count(w, Waiting(v)) = Count(stack, Waiting(v))
    BY <1>2, <1>6, CountKept
  <2> QED
    BY <1>2, <1>4, <2>1 DEF Counted
<1> QED
  BY <1>1, <1>2, <1>4, <1>7, <1>8, Kept

(* The owner of the list is gone. *)
LEMMA DisposeOk ==
  ASSUME IInv, Dispose
  PROVE  IInv'
<1> DEFINE w == [d \in 1..Len(stack) |-> DisposePass(stack[d])]
<1>1. /\ monitors' = <<>> /\ stack' = w /\ UNCHANGED <<kind, nextId>>
      /\ ScriptRuns /\ kind = "Event"
  BY DEF Dispose, OnEachPass
<1>2. /\ kind \in Kinds /\ Distinct(monitors, nextId)
      /\ stack \in Seq(AnyPass) /\ Len(stack) \in Nat
      /\ \A d \in 1..Len(stack) : /\ stack[d] \in AnyPass /\ Sound(stack[d], monitors, nextId)
                                  /\ stack[d].current # NoId
  BY <1>1, Facts DEF IInv
<1>3. /\ Distinct(<<>>, nextId)
      /\ \A p \in AnyPass : Sound(p, monitors, nextId) => Sound(DisposePass(p), <<>>, nextId)
  BY <1>1, <1>2, AllDisposed
<1>4. /\ w \in Seq(AnyPass) /\ Len(w) = Len(stack)
      /\ \A d \in 1..Len(stack) : w[d] = DisposePass(stack[d]) /\ w[d].current = stack[d].current
  BY <1>2, Disposed
<1> HIDE DEF w
<1>5. Stacked(w, <<>>, nextId) /\ Counted(w, <<>>)
  BY <1>2, <1>3, <1>4 DEF Stacked, Counted
<1> QED
  BY <1>1, <1>2, <1>3, <1>5, Kept

(* A message arrives: a pass that has looked at nothing, and has everything ahead. *)
LEMMA BeginOk ==
  ASSUME IInv, NEW m \in Msgs, Begin(m)
  PROVE  IInv'
<1> DEFINE ids == IdsOf(monitors)
           k == Len(monitors)
           none == <<>>
           p == [msg |-> m, index |-> 0, count |-> k, deleted |-> FALSE, current |-> NoId,
                 start |-> ids, seen |-> none, newerGone |-> FALSE]
<1>1. stack' = Append(stack, p) /\ UNCHANGED <<kind, monitors, nextId>> /\ ScriptRuns
  BY DEF Begin
<1>2. /\ stack \in Seq(AnyPass) /\ k \in Nat
      /\ \A i \in 1..k : monitors[i].id \in Ids /\ monitors[i].id < nextId
      /\ \A d \in 1..Len(stack) : stack[d].current # NoId
  BY <1>1, Facts
<1>3. /\ ids \in Seq(Ids) /\ \A u \in Range(ids) : u < nextId
  BY <1>2 DEF IdsOf, Range
<1>4. none \in Seq(Ids) /\ Range(none) = {} /\ IsInjective(none)
  BY DEF Range, IsInjective
<1> HIDE DEF ids, none
<1>5. p \in AnyPass
  <2>1. k \in Int /\ 0 \in Int /\ NoId \in Ids \cup {NoId}
    BY <1>2
  <2> QED
    BY <1>3, <1>4, <2>1 DEF AnyPass
<1>6. /\ p.index = 0 /\ p.count = k /\ ~p.deleted /\ p.current = NoId
      /\ p.start = ids /\ p.seen = none
  OBVIOUS
<1> HIDE DEF p
<1>7. First(p) = 1
  BY <1>6 DEF First
<1>8. Pointed(p, monitors)
  BY <1>2, <1>6 DEF Pointed, k
<1>9. Looked(p, monitors)
  <2>1. \A i \in 1..k : 1 <= i /\ i <= k
    BY <1>2
  <2> QED
    BY <1>4, <1>6, <1>7, <2>1 DEF Looked, k
<1>10. Old(p, nextId)
  <2>1. NoId < nextId
    BY DEF IInv, Distinct, NoId
  <2> QED
    BY <1>3, <1>4, <1>6, <2>1 DEF Old
<1>11. Sound(p, monitors, nextId) /\ Stacked(stack, monitors, nextId)
  BY <1>8, <1>9, <1>10 DEF Sound, IInv
<1>12. Stacked(Append(stack, p), monitors, nextId)
  BY <1>2, <1>5, <1>11, Pushed
<1>13. Counted(Append(stack, p), monitors)
  <2>1. ASSUME NEW id \in Ids
        PROVE  Count(Append(stack, p), Waiting(id)) = Count(stack, Waiting(id))
    <3>1. p \notin Waiting(id)
      BY <1>6, Facts, MonitorAssumption DEF Waiting, Ids, NoId
    <3> QED
      BY <1>2, <1>5, <3>1, CountAppend
  <2> QED
    BY <1>2, <2>1 DEF IInv, Counted, k
<1> QED
  BY <1>1, <1>12, <1>13, Kept DEF IInv

(* A pass looks at the monitor where it is and goes past it or waits for it. *)
LEMMA LookedOn ==
  ASSUME NEW mons, NEW nid, Distinct(mons, nid), NEW p \in AnyPass, Sound(p, mons, nid),
         p.current = NoId, p.index + 1 \in 1..Len(mons), NEW q \in AnyPass,
         q.seen = Append(p.seen, mons[p.index + 1].id), q.start = p.start, q.count = p.count,
         q.deleted <=> p.deleted, q.newerGone <=> p.newerGone,
         \/ q.index = p.index + 1 /\ q.current = NoId
         \/ q.index = p.index /\ q.current = mons[p.index + 1].id
  PROVE  Sound(q, mons, nid)
<1> DEFINE k == Len(mons)
           at == p.index + 1
           id == mons[at].id
<1>1. /\ k \in Nat /\ \A i \in 1..k : mons[i].id \in Ids /\ mons[i].id # NoId /\ mons[i].id < nid
      /\ \A i, j \in 1..k : mons[i].id = mons[j].id => i = j
      /\ nid \in Nat \ {0}
  BY MonitorsAre DEF Distinct
<1>2. p.index \in Int /\ p.count \in Int /\ p.seen \in Seq(Ids)
  BY PassFields
<1>3. Pointed(p, mons) /\ Looked(p, mons) /\ Old(p, nid)
  BY DEF Sound
<1>4. at \in 1..k /\ id \in Ids /\ id # NoId /\ id < nid
  BY <1>1
<1>5. /\ Range(q.seen) = Range(p.seen) \cup {id}
      /\ IsInjective(p.seen) /\ id \notin Range(p.seen) => IsInjective(q.seen)
  BY <1>2, <1>4, AppendIs
<1>6. First(p) = at /\ First(q) = at + 1
  <2>1. First(p) = at
    BY DEF First
  <2>2. First(q) = at + 1
    BY <1>2, <1>4 DEF First
  <2> QED
    BY <2>1, <2>2
<1>7. Pointed(q, mons)
  <2>1. p.index >= -1 /\ p.count <= k /\ p.index >= 0 /\ (kind = "OnMessage" => ~p.deleted)
    BY <1>3 DEF Pointed, k
  <2>2. q.index >= 0 /\ q.index >= -1
    BY <1>2, <2>1
  <2>3. q.current # NoId => q.index + 1 = at /\ q.current = id
    BY <1>4
  <2> QED
    BY <1>4, <2>1, <2>2, <2>3 DEF Pointed, k
<1>8. ASSUME ~q.newerGone
      PROVE  /\ \A i \in 1..k :
                  mons[i].id \in Range(q.start) /\ mons[i].id \notin Range(q.seen) =>
                    First(q) <= i /\ i <= q.count
             /\ \A i \in 1..k : First(q) <= i => mons[i].id \notin Range(q.seen)
             /\ IsInjective(q.seen)
  <2>1. /\ \A i \in 1..k : mons[i].id \in Range(p.start) /\ mons[i].id \notin Range(p.seen) =>
             First(p) <= i /\ i <= p.count
        /\ \A i \in 1..k : First(p) <= i => mons[i].id \notin Range(p.seen)
        /\ IsInjective(p.seen)
    BY <1>3, <1>8 DEF Looked, k
  <2>2. id \notin Range(p.seen)
    BY <1>2, <1>4, <1>6, <2>1
  <2>3. ASSUME NEW i \in 1..k, mons[i].id \in Range(q.start), mons[i].id \notin Range(q.seen)
        PROVE  First(q) <= i /\ i <= q.count
    <3>1. mons[i].id \notin Range(p.seen) /\ i # at
      BY <1>5, <2>3
    <3>2. at <= i /\ i <= p.count
      BY <1>6, <2>1, <2>3, <3>1
    <3> QED
      BY <1>2, <1>6, <3>1, <3>2
  <2>4. ASSUME NEW i \in 1..k, First(q) <= i
        PROVE  mons[i].id \notin Range(q.seen)
    <3>1. at <= i /\ i # at
      BY <1>2, <1>6, <2>4
    <3>2. mons[i].id \notin Range(p.seen) /\ mons[i].id # id
      BY <1>1, <1>4, <1>6, <2>1, <3>1
    <3> QED
      BY <1>5, <3>2
  <2> QED
    BY <1>5, <2>1, <2>2, <2>3, <2>4
<1>9. Old(q, nid)
  <2>1. NoId < nid
    BY <1>1 DEF NoId
  <2> QED
    BY <1>3, <1>4, <1>5, <2>1 DEF Old
<1> QED
  BY <1>7, <1>8, <1>9 DEF Sound, Looked, k

(* The monitor where the top pass looks. *)
LEMMA LookingAt ==
  ASSUME IInv, Looking
  PROVE  /\ stack # <<>> /\ Top \in AnyPass /\ Sound(Top, monitors, nextId)
         /\ Top.current = NoId /\ Top.index + 1 \in 1..Len(monitors)
         /\ Here = monitors[Top.index + 1] /\ Here \in AnyMonitor /\ Here.id \in Ids
         /\ (kind = "OnMessage" => ~Top.deleted)
<1>1. stack # <<>> /\ Top.current = NoId /\ Top.index < Top.count
  BY DEF Looking
<1>2. /\ Top \in AnyPass /\ Sound(Top, monitors, nextId) /\ Len(monitors) \in Nat
      /\ \A i \in 1..Len(monitors) : monitors[i] \in AnyMonitor /\ monitors[i].id \in Ids
  BY <1>1, Facts
<1>3. Top.index >= 0 /\ Top.count <= Len(monitors) /\ (kind = "OnMessage" => ~Top.deleted)
  BY <1>1, <1>2 DEF Sound, Pointed
<1>4. Top.index + 1 \in 1..Len(monitors)
  BY <1>1, <1>2, <1>3, PassFields
<1> QED
  BY <1>1, <1>2, <1>3, <1>4 DEF Here

(* The top pass replaced by one that is sound. *)
LEMMA TopReplaced ==
  ASSUME IInv, stack # <<>>, NEW q \in AnyPass, NEW mons,
         Stacked(stack, mons, nextId), Sound(q, mons, nextId)
  PROVE  Stacked(WithTop(q), mons, nextId) /\ Stacked(Front(stack), mons, nextId)
<1>1. WithTop(q) = Append(Front(stack), q)
  BY Facts, TopIs
<1>2. /\ Stacked(Front(stack), mons, nextId)
      /\ \A d \in 1..Len(Front(stack)) : Front(stack)[d].current # NoId
  BY Popped
<1> QED
  BY <1>1, <1>2, Pushed

(* What a pass has looked at grows. *)
LEMMA LookIs ==
  ASSUME IInv, Looking
  PROVE  LET p == Look(Top) IN
         /\ p \in AnyPass /\ p.seen = Append(Top.seen, Here.id)
         /\ p.index = Top.index /\ p.count = Top.count /\ p.current = Top.current
         /\ p.start = Top.start /\ p.deleted = Top.deleted /\ p.newerGone = Top.newerGone
<1> DEFINE t == Top
           a == Append(t.seen, Here.id)
           p == [t EXCEPT !.seen = a]
<1>1. t \in AnyPass
  BY LookingAt
<1>2. a \in Seq(Ids)
  BY <1>1, LookingAt, PassFields
<1>3. Look(Top) = p
  BY DEF Look
<1> HIDE DEF a, t
<1>4. p \in AnyPass
  BY <1>1, <1>2 DEF AnyPass
<1>5. p.seen = a /\ p.start = t.start
  BY <1>1 DEF AnyPass
<1>6. p.index = t.index /\ p.count = t.count /\ p.current = t.current
  BY <1>1 DEF AnyPass
<1>7. p.deleted = t.deleted /\ p.newerGone = t.newerGone
  BY <1>1 DEF AnyPass
<1> QED
  BY <1>3, <1>4, <1>5, <1>6, <1>7 DEF a, t

(* A monitor is passed by. *)
LEMMA PassByOk ==
  ASSUME IInv, PassBy
  PROVE  IInv'
<1> DEFINE l == Look(Top)
           q == [l EXCEPT !.index = @ + 1]
<1>1. Looking /\ stack' = WithTop(q) /\ UNCHANGED <<kind, monitors, nextId>>
  BY DEF PassBy
<1>2. /\ stack # <<>> /\ Top \in AnyPass /\ Sound(Top, monitors, nextId)
      /\ Top.current = NoId /\ Top.index + 1 \in 1..Len(monitors)
      /\ Here = monitors[Top.index + 1]
  BY <1>1, LookingAt
<1>3. /\ l \in AnyPass /\ l.seen = Append(Top.seen, Here.id)
      /\ l.index = Top.index /\ l.count = Top.count /\ l.current = Top.current
      /\ l.start = Top.start /\ l.deleted = Top.deleted /\ l.newerGone = Top.newerGone
  BY <1>1, LookIs
<1> HIDE DEF l
<1>4. /\ q \in AnyPass /\ q.seen = l.seen /\ q.start = l.start
      /\ q.index = l.index + 1 /\ q.count = l.count /\ q.current = l.current
      /\ q.deleted = l.deleted /\ q.newerGone = l.newerGone
  <2>1. l.index + 1 \in Int
    BY <1>3, PassFields
  <2>2. q \in AnyPass
    BY <1>3, <2>1 DEF AnyPass
  <2>3. q.seen = l.seen /\ q.start = l.start
    BY <1>3 DEF AnyPass
  <2>4. q.index = l.index + 1 /\ q.count = l.count /\ q.current = l.current
    BY <1>3 DEF AnyPass
  <2>5. q.deleted = l.deleted /\ q.newerGone = l.newerGone
    BY <1>3 DEF AnyPass
  <2> QED
    BY <2>2, <2>3, <2>4, <2>5
<1> HIDE DEF q
<1>5. /\ kind \in Kinds /\ Distinct(monitors, nextId) /\ Stacked(stack, monitors, nextId)
      /\ Counted(stack, monitors) /\ stack \in Seq(AnyPass)
  BY Facts DEF IInv
<1>6. Sound(q, monitors, nextId)
  BY <1>2, <1>3, <1>4, <1>5, LookedOn
<1>7. Stacked(WithTop(q), monitors, nextId)
  BY <1>2, <1>4, <1>5, <1>6, TopReplaced
<1>8. Counted(WithTop(q), monitors)
  <2>1. ASSUME NEW i \in 1..Len(monitors)
        PROVE  Count(WithTop(q), Waiting(monitors[i].id)) = Count(stack, Waiting(monitors[i].id))
    <3>1. monitors[i].id \in Ids /\ Top.current # monitors[i].id /\ q.current # monitors[i].id
      BY <1>2, <1>3, <1>4, Facts
    <3> QED
      BY <1>2, <1>4, <1>5, <3>1, CountTop
  <2> QED
    BY <1>5, <2>1 DEF Counted
<1> QED
  BY <1>1, <1>5, <1>7, <1>8, Kept

(* Another instance_count for a monitor. *)
LEMMA InstancesSet ==
  ASSUME IInv, NEW j \in 1..Len(monitors), NEW n \in Nat
  PROVE  LET r == [monitors EXCEPT ![j].instances = n] IN
         /\ r \in Seq(AnyMonitor) /\ Len(r) = Len(monitors)
         /\ \A i \in 1..Len(monitors) : r[i].id = monitors[i].id
         /\ r[j].instances = n
         /\ \A i \in 1..Len(monitors) : i # j => r[i].instances = monitors[i].instances
<1> DEFINE u == [monitors[j] EXCEPT !.instances = n]
           r == [monitors EXCEPT ![j] = u]
<1>1. monitors \in Seq(AnyMonitor) /\ Len(monitors) \in Nat /\ monitors[j] \in AnyMonitor
  BY Facts
<1>2. u \in AnyMonitor /\ u.id = monitors[j].id /\ u.instances = n
  BY <1>1 DEF AnyMonitor
<1> HIDE DEF u
<1>3. /\ r \in Seq(AnyMonitor) /\ Len(r) = Len(monitors)
      /\ \A i \in 1..Len(monitors) : r[i] = IF i = j THEN u ELSE monitors[i]
  BY <1>1, <1>2
<1>4. [monitors EXCEPT ![j].instances = n] = r
  BY DEF u
<1> HIDE DEF r
<1>5. /\ \A i \in 1..Len(monitors) : r[i].id = monitors[i].id
      /\ r[j].instances = n
      /\ \A i \in 1..Len(monitors) : i # j => r[i].instances = monitors[i].instances
  BY <1>2, <1>3
<1> QED
  BY <1>3, <1>4, <1>5

(* A monitor's function is called. *)
LEMMA CallOk ==
  ASSUME IInv, Call
  PROVE  IInv'
<1> DEFINE l == Look(Top)
           q == [l EXCEPT !.current = Here.id]
           j == Top.index + 1
           n == monitors[j].instances + 1
           r == [monitors EXCEPT ![j].instances = n]
           mons == IF kind = "OnMessage" THEN r ELSE monitors
<1>1. Looking /\ stack' = WithTop(q) /\ UNCHANGED <<kind, nextId>> /\ monitors' = mons
  BY DEF Call
<1>2. /\ stack # <<>> /\ Top \in AnyPass /\ Sound(Top, monitors, nextId)
      /\ Top.current = NoId /\ Top.index + 1 \in 1..Len(monitors)
      /\ Here = monitors[Top.index + 1] /\ Here.id \in Ids
  BY <1>1, LookingAt
<1>3. /\ l \in AnyPass /\ l.seen = Append(Top.seen, Here.id)
      /\ l.index = Top.index /\ l.count = Top.count /\ l.current = Top.current
      /\ l.start = Top.start /\ l.deleted = Top.deleted /\ l.newerGone = Top.newerGone
  BY <1>1, LookIs
<1> HIDE DEF l
<1>4. /\ q \in AnyPass /\ q.seen = l.seen /\ q.start = l.start
      /\ q.index = l.index /\ q.count = l.count /\ q.current = Here.id
      /\ q.deleted = l.deleted /\ q.newerGone = l.newerGone
  <2>1. q \in AnyPass
    BY <1>2, <1>3 DEF AnyPass
  <2>2. q.seen = l.seen /\ q.start = l.start
    BY <1>3 DEF AnyPass
  <2>3. q.index = l.index /\ q.count = l.count /\ q.current = Here.id
    BY <1>3 DEF AnyPass
  <2>4. q.deleted = l.deleted /\ q.newerGone = l.newerGone
    BY <1>3 DEF AnyPass
  <2> QED
    BY <2>1, <2>2, <2>3, <2>4
<1> HIDE DEF q
<1>5. /\ kind \in Kinds /\ Distinct(monitors, nextId) /\ Stacked(stack, monitors, nextId)
      /\ Counted(stack, monitors) /\ stack \in Seq(AnyPass) /\ monitors \in Seq(AnyMonitor)
  BY Facts DEF IInv
<1>6. j \in 1..Len(monitors) /\ n \in Nat /\ Here.id = monitors[j].id
  BY <1>2, <1>5, MonitorsAre
<1> HIDE DEF n
<1>7. /\ r \in Seq(AnyMonitor) /\ Len(r) = Len(monitors)
      /\ \A i \in 1..Len(monitors) : r[i].id = monitors[i].id
      /\ r[j].instances = n
      /\ \A i \in 1..Len(monitors) : i # j => r[i].instances = monitors[i].instances
  BY <1>6, InstancesSet
<1> HIDE DEF r, j
<1>8. /\ mons \in Seq(AnyMonitor) /\ Len(mons) = Len(monitors)
      /\ \A i \in 1..Len(monitors) : mons[i].id = monitors[i].id
  BY <1>5, <1>7
<1>9. Distinct(mons, nextId) /\ Stacked(stack, mons, nextId)
  BY <1>8, SameStack
<1>10. Sound(q, monitors, nextId)
  BY <1>2, <1>3, <1>4, <1>5, LookedOn
<1>11. Sound(q, mons, nextId)
  BY <1>5, <1>8, <1>10, SameIds
<1>12. Stacked(WithTop(q), mons, nextId)
  BY <1>2, <1>4, <1>9, <1>11, TopReplaced
<1>13. Counted(WithTop(q), mons)
  <2>1. ASSUME kind = "OnMessage", NEW i \in 1..Len(mons)
        PROVE  mons[i].instances = Count(WithTop(q), Waiting(mons[i].id))
    <3> DEFINE id == monitors[i].id
    <3>1. i \in 1..Len(monitors) /\ mons = r /\ mons[i].id = id
      BY <1>8, <2>1
    <3>2. id \in Ids /\ id # NoId
      BY <3>1, Facts
    <3>3. monitors[i].instances = Count(stack, Waiting(id))
      BY <1>5, <2>1, <3>1 DEF Counted
    <3>4. /\ Count(stack, Waiting(id)) \in Nat /\ Count(Front(stack), Waiting(id)) \in Nat
          /\ Count(stack, Waiting(id)) = Count(Front(stack), Waiting(id))
          /\ q.current = id => Count(WithTop(q), Waiting(id)) = Count(Front(stack), Waiting(id)) + 1
          /\ q.current # id => Count(WithTop(q), Waiting(id)) = Count(Front(stack), Waiting(id))
      BY <1>2, <1>4, <1>5, <3>2, CountTop
    <3>5. CASE i = j
      <4>1. q.current = id /\ n = monitors[i].instances + 1
        BY <1>4, <1>6, <3>5 DEF n
      <4> QED
        BY <1>7, <3>1, <3>3, <3>4, <3>5, <4>1
    <3>6. CASE i # j
      <4>1. q.current # id
        BY <1>4, <1>5, <1>6, <3>1, <3>6 DEF Distinct
      <4> QED
        BY <1>7, <3>1, <3>3, <3>4, <3>6, <4>1
    <3> QED
      BY <3>5, <3>6
  <2> QED
    BY <2>1 DEF Counted
<1> HIDE DEF mons
<1> QED
  BY <1>1, <1>5, <1>9, <1>12, <1>13, Kept

(* The count of the monitor whose function returns, without the top pass. *)
LEMMA CountedOut ==
  ASSUME IInv, stack # <<>>, Top.current # NoId, NEW mons,
         kind = "OnMessage" /\ CountOut =>
           mons = [monitors EXCEPT ![Top.index + 1].instances = @ - 1],
         ~(kind = "OnMessage" /\ CountOut) => mons = monitors
  PROVE  /\ Distinct(mons, nextId) /\ Stacked(stack, mons, nextId)
         /\ Counted(Front(stack), mons)
         /\ mons \in Seq(AnyMonitor) /\ Len(mons) = Len(monitors)
         /\ \A i \in 1..Len(monitors) : mons[i].id = monitors[i].id
<1> DEFINE j == Top.index + 1
           n == monitors[j].instances - 1
           r == [monitors EXCEPT ![j].instances = n]
<1>1. /\ Distinct(monitors, nextId) /\ Stacked(stack, monitors, nextId)
      /\ Counted(stack, monitors) /\ stack \in Seq(AnyPass) /\ monitors \in Seq(AnyMonitor)
      /\ Top \in AnyPass /\ Sound(Top, monitors, nextId)
      /\ \A i \in 1..Len(monitors) : monitors[i].id \in Ids
  BY Facts DEF IInv
<1>2. ASSUME NEW i \in 1..Len(monitors)
      PROVE  /\ Count(stack, Waiting(monitors[i].id)) \in Nat
             /\ Count(Front(stack), Waiting(monitors[i].id)) \in Nat
             /\ Top.current = monitors[i].id =>
                  Count(stack, Waiting(monitors[i].id)) = Count(Front(stack), Waiting(monitors[i].id)) + 1
             /\ Top.current # monitors[i].id =>
                  Count(stack, Waiting(monitors[i].id)) = Count(Front(stack), Waiting(monitors[i].id))
  BY <1>1, CountTop
<1>3. CASE kind = "OnMessage" /\ CountOut
  <2>1. ~Top.deleted /\ monitors[j].instances > 0
    BY <1>3 DEF CountOut
  <2>2. j \in 1..Len(monitors) /\ monitors[j].id = Top.current
    BY <1>1, <2>1 DEF Sound, Pointed
  <2>3. n \in Nat
    BY <1>1, <2>1, <2>2, MonitorsAre
  <2>4. mons = r
    BY <1>3
  <2>5. /\ r \in Seq(AnyMonitor) /\ Len(r) = Len(monitors)
        /\ \A i \in 1..Len(monitors) : r[i].id = monitors[i].id
        /\ r[j].instances = n
        /\ \A i \in 1..Len(monitors) : i # j => r[i].instances = monitors[i].instances
    <3> HIDE DEF n, j
    <3> QED
      BY <2>2, <2>3, InstancesSet
  <2> HIDE DEF r, j
  <2>6. Distinct(r, nextId) /\ Stacked(stack, r, nextId)
    BY <2>5, SameStack
  <2>7. ASSUME NEW i \in 1..Len(monitors)
        PROVE  r[i].instances = Count(Front(stack), Waiting(monitors[i].id))
    <3>1. monitors[i].instances = Count(stack, Waiting(monitors[i].id))
      BY <1>1, <1>3 DEF Counted
    <3>2. CASE i = j
      BY <1>2, <2>2, <2>5, <3>1, <3>2
    <3>3. CASE i # j
      <4>1. Top.current # monitors[i].id
        BY <1>1, <2>2, <3>3 DEF Distinct
      <4> QED
        BY <1>2, <2>5, <3>1, <3>3, <4>1
    <3> QED
      BY <3>2, <3>3
  <2>8. Counted(Front(stack), r)
    BY <2>5, <2>7 DEF Counted
  <2> QED
    BY <2>4, <2>5, <2>6, <2>8
<1>4. CASE ~(kind = "OnMessage" /\ CountOut)
  <2>1. mons = monitors
    BY <1>4
  <2>2. ASSUME kind = "OnMessage", NEW i \in 1..Len(monitors)
        PROVE  monitors[i].instances = Count(Front(stack), Waiting(monitors[i].id))
    <3>1. monitors[i].instances = Count(stack, Waiting(monitors[i].id))
      BY <1>1, <2>2 DEF Counted
    <3>2. Top.current # monitors[i].id
      <4>1. CASE Top.deleted
        BY <1>1, <2>2, <4>1 DEF Sound, Pointed
      <4>2. CASE ~Top.deleted
        <5>1. j \in 1..Len(monitors) /\ monitors[j].id = Top.current
          BY <1>1, <4>2 DEF Sound, Pointed
        <5>2. ~(monitors[j].instances > 0)
          BY <1>4, <2>2, <4>2 DEF CountOut
        <5> HIDE DEF j
        <5>3. monitors[j].instances = Count(stack, Waiting(monitors[j].id))
          BY <1>1, <2>2, <5>1 DEF Counted
        <5>4. FALSE
          BY <1>2, <5>1, <5>2, <5>3
        <5> QED
          BY <5>4
      <4> QED
        BY <4>1, <4>2
    <3> QED
      BY <1>2, <3>1, <3>2
  <2> QED
    BY <1>1, <2>1, <2>2 DEF Counted
<1> QED
  BY <1>3, <1>4

(* A monitor's function returns. *)
LEMMA ReturnOk ==
  ASSUME IInv, NEW stop \in BOOLEAN, Return(stop)
  PROVE  IInv'
<1> DEFINE c == ClearMark(Top)
           q == [c EXCEPT !.index = @ + 1, !.current = NoId]
<1>1. /\ stack # <<>> /\ Top.current # NoId /\ UNCHANGED <<kind, nextId>>
      /\ kind = "OnMessage" /\ CountOut =>
           monitors' = [monitors EXCEPT ![Top.index + 1].instances = @ - 1]
      /\ ~(kind = "OnMessage" /\ CountOut) => monitors' = monitors
      /\ stack' = IF stop THEN Front(stack) ELSE WithTop(q)
  BY DEF Return
<1>2. PICK mons : mons = monitors'
  OBVIOUS
<1>3. /\ Distinct(mons, nextId) /\ Stacked(stack, mons, nextId)
      /\ Counted(Front(stack), mons)
      /\ mons \in Seq(AnyMonitor) /\ Len(mons) = Len(monitors)
      /\ \A i \in 1..Len(monitors) : mons[i].id = monitors[i].id
  BY <1>1, <1>2, CountedOut
<1>4. kind \in Kinds /\ Distinct(monitors, nextId) /\ stack \in Seq(AnyPass)
  BY Facts DEF IInv
<1>5. CASE stop
  <2>1. Stacked(Front(stack), mons, nextId)
    BY <1>1, <1>3, Popped
  <2> QED
    BY <1>1, <1>2, <1>3, <1>4, <1>5, <2>1, Kept
<1>6. CASE ~stop
  <2>1. Top \in AnyPass /\ Sound(Top, monitors, nextId)
    BY <1>1, Facts
  <2>2. /\ c \in AnyPass /\ c.index = Top.index /\ c.count = Top.count
        /\ c.start = Top.start /\ c.seen = Top.seen /\ c.newerGone = Top.newerGone
        /\ kind = "OnMessage" => ~c.deleted
    <3>1. CASE kind = "OnMessage"
      <4> DEFINE no == FALSE
                 t == Top
                 e == [t EXCEPT !.deleted = no]
      <4>0. no \in BOOLEAN /\ ~no /\ t \in AnyPass
        BY <2>1
      <4>1. c = e
        BY <3>1 DEF ClearMark
      <4> HIDE DEF no, t, c
      <4>2. e \in AnyPass
        BY <4>0 DEF AnyPass
      <4>3. e.index = t.index /\ e.count = t.count
        BY <4>0 DEF AnyPass
      <4>4. e.start = t.start /\ e.seen = t.seen
        BY <4>0 DEF AnyPass
      <4>5. e.deleted = no /\ e.newerGone = t.newerGone
        BY <4>0 DEF AnyPass
      <4> QED
        BY <4>0, <4>1, <4>2, <4>3, <4>4, <4>5 DEF t
    <3>2. CASE kind # "OnMessage"
      BY <2>1, <3>2 DEF ClearMark
    <3> QED
      BY <3>1, <3>2
  <2> HIDE DEF c
  <2>3. /\ q \in AnyPass /\ q.seen = c.seen /\ q.start = c.start
        /\ q.index = c.index + 1 /\ q.count = c.count /\ q.current = NoId
        /\ q.deleted = c.deleted /\ q.newerGone = c.newerGone
    <3>1. c.index + 1 \in Int
      BY <2>2, PassFields
    <3>2. q \in AnyPass
      BY <2>2, <3>1 DEF AnyPass
    <3>3. q.seen = c.seen /\ q.start = c.start
      BY <2>2 DEF AnyPass
    <3>4. q.index = c.index + 1 /\ q.count = c.count /\ q.current = NoId
      BY <2>2 DEF AnyPass
    <3>5. q.deleted = c.deleted /\ q.newerGone = c.newerGone
      BY <2>2 DEF AnyPass
    <3> QED
      BY <3>2, <3>3, <3>4, <3>5
  <2> HIDE DEF q
  <2>4. Sound(q, monitors, nextId)
    <3>1. Pointed(Top, monitors) /\ Looked(Top, monitors) /\ Old(Top, nextId)
      BY <2>1 DEF Sound
    <3>2. Top.index \in Int /\ Top.count \in Int /\ Top.index >= -1
      BY <2>1, <3>1, PassFields DEF Pointed
    <3>3. First(q) = First(Top)
      <4>1. First(Top) = Top.index + 2
        BY <1>1 DEF First
      <4>2. First(q) = q.index + 1
        BY <2>3 DEF First
      <4> QED
        BY <2>2, <2>3, <3>2, <4>1, <4>2
    <3>4. Pointed(q, monitors)
      <4>1. q.index >= 0 /\ q.index >= -1
        BY <2>2, <2>3, <3>2
      <4> QED
        BY <2>2, <2>3, <3>1, <4>1 DEF Pointed
    <3>5. Looked(q, monitors)
      BY <2>2, <2>3, <3>1, <3>3 DEF Looked
    <3>6. Old(q, nextId)
      <4>1. NoId < nextId
        BY <1>4 DEF Distinct, NoId
      <4> QED
        BY <2>2, <2>3, <3>1, <4>1 DEF Old
    <3> QED
      BY <3>4, <3>5, <3>6 DEF Sound
  <2>5. Sound(q, mons, nextId)
    BY <1>3, <1>4, <2>4, SameIds
  <2>6. Stacked(WithTop(q), mons, nextId)
    BY <1>1, <1>3, <2>3, <2>5, TopReplaced
  <2>7. Counted(WithTop(q), mons)
    <3>1. ASSUME NEW i \in 1..Len(mons)
          PROVE  Count(WithTop(q), Waiting(mons[i].id)) = Count(Front(stack), Waiting(mons[i].id))
      <4>1. mons[i].id \in Ids /\ mons[i].id # NoId
        BY <1>3, Facts
      <4> QED
        BY <1>1, <1>4, <2>3, <4>1, CountTop
    <3> QED
      BY <1>3, <3>1 DEF Counted
  <2>8. stack' = WithTop(q)
    BY <1>1, <1>6 DEF q, c
  <2> QED
    BY <1>1, <1>2, <1>3, <1>4, <2>6, <2>7, <2>8, Kept
<1> QED
  BY <1>5, <1>6

(* A pass ends. *)
LEMMA EndOk ==
  ASSUME IInv, End
  PROVE  IInv'
<1>1. /\ stack # <<>> /\ Top.current = NoId /\ stack' = Front(stack)
      /\ UNCHANGED <<kind, monitors, nextId>>
  BY DEF End
<1>2. /\ Distinct(monitors, nextId) /\ Stacked(stack, monitors, nextId)
      /\ Counted(stack, monitors) /\ stack \in Seq(AnyPass) /\ Top \in AnyPass
  BY <1>1, Facts DEF IInv
<1>3. Stacked(Front(stack), monitors, nextId)
  BY <1>1, <1>2, Popped
<1>4. Counted(Front(stack), monitors)
  <2>1. ASSUME NEW i \in 1..Len(monitors)
        PROVE  Count(Front(stack), Waiting(monitors[i].id)) = Count(stack, Waiting(monitors[i].id))
    <3>1. monitors[i].id \in Ids /\ Top.current # monitors[i].id
      BY <1>1, Facts
    <3> QED
      BY <1>1, <1>2, <3>1, CountTop
  <2> QED
    BY <1>2, <2>1 DEF Counted
<1> QED
  BY <1>1, <1>2, <1>3, <1>4, Kept DEF IInv

-----------------------------------------------------------------------------
(* The theorems.                                                           *)

(* Every step keeps the invariant. *)
LEMMA NextOk ==
  ASSUME IInv, [Next]_monVars
  PROVE  IInv'
<1>1. CASE UNCHANGED monVars
  <2>1. Distinct(monitors, nextId) /\ Stacked(stack, monitors, nextId) /\ Counted(stack, monitors)
        /\ kind \in Kinds
    BY DEF IInv
  <2> QED
    BY <1>1, <2>1, Kept DEF monVars
<1>2. CASE Script
  <2>1. CASE \E m \in Msgs, max \in MaxInstances : AddLast(m, max) \/ AddFirst(m, max)
    BY <2>1, AddLastOk, AddFirstOk
  <2>2. CASE \E i \in 1..Len(monitors) : Delete(i)
    BY <2>2, DeleteOk
  <2>3. CASE \E i \in 1..Len(monitors), max \in MaxInstances : SetMaxInstances(i, max)
    BY <2>3, SetMaxInstancesOk
  <2>4. CASE Dispose \/ \E m \in Msgs : Begin(m)
    BY <2>4, DisposeOk, BeginOk
  <2>5. CASE AutoExecEnds
    <3>1. UNCHANGED <<kind, monitors, stack, nextId>>
      BY <2>5 DEF AutoExecEnds
    <3>2. /\ Distinct(monitors, nextId) /\ Stacked(stack, monitors, nextId)
          /\ Counted(stack, monitors) /\ kind \in Kinds
      BY DEF IInv
    <3> QED
      BY <3>1, <3>2, Kept
  <2> QED
    BY <1>2, <2>1, <2>2, <2>3, <2>4, <2>5 DEF Script
<1>3. CASE PassBy \/ Call \/ (\E stop \in BOOLEAN : Return(stop)) \/ End
  BY <1>3, PassByOk, CallOk, ReturnOk, EndOk
<1> QED
  BY <1>1, <1>2, <1>3 DEF Next

(* Always: each pass stands on the monitor it has called or is marked, it has ahead
   what it has not looked at, and the counts are those of the stack. *)
THEOREM Inductive == Spec => []IInv
<1>1. Init => IInv
  BY InitOk
<1>2. IInv /\ [Next]_monVars => IInv'
  BY NextOk
<1> QED
  BY <1>1, <1>2, PTL DEF Spec

(* The ids in the array. *)
LEMMA PresentIs ==
  ASSUME IInv, NEW u
  PROVE  u \in Present <=> \E i \in 1..Len(monitors) : monitors[i].id = u
BY DEF Present, Range, IdsOf

(* MsgMonitorInstance::Delete and AddInternal keep every index on its monitor:
   a pass never runs off the array, however it was changed under the pass. *)
THEOREM AlwaysTracks == Spec => []IndexTracks
<1>1. IInv => IndexTracks
  <2>1. ASSUME IInv, NEW d \in 1..Len(stack)
        PROVE  /\ stack[d].count <= Len(monitors)
               /\ stack[d].index < stack[d].count =>
                    stack[d].index + 1 \in DOMAIN monitors \/ stack[d].index = -1
               /\ stack[d].current # NoId /\ ~stack[d].deleted =>
                    /\ stack[d].index + 1 \in DOMAIN monitors
                    /\ monitors[stack[d].index + 1].id = stack[d].current
               /\ stack[d].current # NoId /\ stack[d].current \notin Present => stack[d].deleted
    <3> DEFINE p == stack[d]
    <3>1. p \in AnyPass /\ Sound(p, monitors, nextId) /\ monitors \in Seq(AnyMonitor)
      BY <2>1, Facts
    <3>2. DOMAIN monitors = 1..Len(monitors) /\ Len(monitors) \in Nat
      BY <3>1
    <3>3. p.index \in Int /\ p.count \in Int
      BY <3>1, PassFields
    <3> HIDE DEF p
    <3>4. /\ p.index >= -1 /\ p.count <= Len(monitors)
          /\ p.current # NoId /\ ~p.deleted =>
               p.index + 1 \in 1..Len(monitors) /\ monitors[p.index + 1].id = p.current
      BY <3>1 DEF Sound, Pointed
    <3>5. p.index < p.count => p.index + 1 \in 1..Len(monitors) \/ p.index = -1
      BY <3>2, <3>3, <3>4
    <3>6. p.current # NoId /\ p.current \notin Present => p.deleted
      BY <2>1, <3>4, PresentIs
    <3> QED
      BY <3>2, <3>4, <3>5, <3>6 DEF p
  <2> QED
    BY <2>1 DEF IndexTracks
<1> QED
  BY <1>1, Inductive, PTL

(* instance_count is never wrong, so that MaxThreads of OnMessage limits what it
   says: no call is counted out of another monitor. *)
THEOREM CountsExact == Spec => []InstancesExact
<1>1. IInv => InstancesExact
  <2>1. ASSUME IInv, kind = "OnMessage", NEW i \in 1..Len(monitors)
        PROVE  monitors[i].instances =
                 Cardinality({d \in 1..Len(stack) : stack[d].current = monitors[i].id})
    <3>1. stack \in Seq(AnyPass) /\ \A d \in 1..Len(stack) : stack[d] \in AnyPass
      BY <2>1, Facts
    <3>2. monitors[i].instances = Count(stack, Waiting(monitors[i].id))
      BY <2>1 DEF IInv, Counted
    <3>3. Places(stack, Waiting(monitors[i].id)) =
            {d \in 1..Len(stack) : stack[d].current = monitors[i].id}
      BY <3>1 DEF Places, Waiting
    <3> QED
      BY <3>2, <3>3 DEF Count
  <2> QED
    BY <2>1 DEF InstancesExact
<1> QED
  BY <1>1, Inductive, PTL

(* What the comment on Delete promises: deleting older monitors, and adding any,
   makes no pass skip a monitor or call one twice. *)
THEOREM OlderNeverSkipped == Spec => []OlderNoneSkipped
<1>1. IInv => OlderNoneSkipped
  <2>1. ASSUME IInv, NEW p \in Range(stack), p.current = NoId, p.index >= p.count, ~p.newerGone
        PROVE  /\ Range(p.start) \cap Present \subseteq Range(p.seen)
               /\ IsInjective(p.seen)
    <3>1. p \in AnyPass /\ Sound(p, monitors, nextId)
      <4>1. PICK d \in DOMAIN stack : p = stack[d]
        BY <2>1 DEF Range
      <4>2. d \in 1..Len(stack)
        BY <2>1, Facts
      <4> QED
        BY <2>1, <4>1, <4>2, Facts
    <3>2. /\ \A i \in 1..Len(monitors) :
               monitors[i].id \in Range(p.start) /\ monitors[i].id \notin Range(p.seen) =>
                 First(p) <= i /\ i <= p.count
          /\ IsInjective(p.seen)
      BY <2>1, <3>1 DEF Sound, Looked
    <3>3. First(p) = p.index + 1 /\ p.index \in Int /\ p.count \in Int
      BY <2>1, <3>1, PassFields DEF First
    <3>4. ASSUME NEW i \in 1..Len(monitors), monitors[i].id \in Range(p.start)
          PROVE  monitors[i].id \in Range(p.seen)
      BY <2>1, <3>2, <3>3, <3>4
    <3> QED
      BY <2>1, <3>2, <3>4, PresentIs
  <2> QED
    BY <2>1 DEF OlderNoneSkipped
<1> QED
  BY <1>1, Inductive, PTL

-----------------------------------------------------------------------------
(* How far the counters go.                                                *)

(* #MaxThreads bounds the functions that passes wait for, and the nesting of the
   passes leaves room for one that launches nothing; Call counts no instances. *)
Bounded ==
  /\ nextId <= MaxIds + 1 /\ autoExec \in BOOLEAN
  /\ Len(stack) <= MaxThreads + 1
  /\ kind = "OnMessage" /\ ScriptRuns => Len(stack) <= MaxThreads
  /\ kind = "Event" => \A i \in 1..Len(monitors) : monitors[i].instances = 0

(* While the top pass looks, the threads are those of the passes beneath it and,
   until its section ends, the auto-execute thread. *)
LEMMA ThreadsOfLooking ==
  ASSUME IInv, Looking
  PROVE  Threads \in Int /\ Len(stack) - 1 <= Threads
<1>1. /\ stack \in Seq(AnyPass) /\ Len(stack) \in Nat \ {0} /\ Top.current = NoId
      /\ \A d \in 1..Len(stack) : d < Len(stack) => stack[d].current # NoId
  BY Facts DEF IInv, Stacked, Looking
<1>2. {d \in DOMAIN stack : stack[d].current # NoId} = 1..(Len(stack) - 1)
  BY <1>1 DEF Top
<1>3. Cardinality(1..(Len(stack) - 1)) = Len(stack) - 1
  BY <1>1, FS_Interval
<1>4. Threads = (IF autoExec THEN 1 ELSE 0) + (Len(stack) - 1)
  BY <1>2, <1>3 DEF Threads
<1> QED
  BY <1>1, <1>4

(* A stack of the same height, or of one pass less, on which the script runs only
   if it did before. *)
LEMMA HeightKept ==
  ASSUME IInv, Bounded, kind' = kind,
         \/ Len(stack') = Len(stack) /\ (ScriptRuns' => ScriptRuns)
         \/ Len(stack') = Len(stack) - 1
  PROVE  /\ Len(stack') <= MaxThreads + 1
         /\ kind' = "OnMessage" /\ ScriptRuns' => Len(stack') <= MaxThreads
<1>1. Len(stack) \in Nat /\ MaxThreads \in Nat
  BY Facts, MonitorAssumption
<1> QED
  BY <1>1 DEF Bounded

(* The height of the stack after a step. *)
LEMMA HeightBounded ==
  ASSUME IInv, Bounded, Next
  PROVE  /\ Len(stack') <= MaxThreads + 1
         /\ kind' = "OnMessage" /\ ScriptRuns' => Len(stack') <= MaxThreads
<1>1. /\ Len(stack) \in Nat /\ MaxThreads \in Nat /\ stack \in Seq(AnyPass)
      /\ \A p : stack # <<>> => Len(WithTop(p)) = Len(stack) /\ Len(Front(stack)) = Len(stack) - 1
      /\ \A p : stack # <<>> => WithTop(p) # <<>> /\ WithTop(p)[Len(WithTop(p))] = p
  BY Facts, MonitorAssumption, FrontIs DEF WithTop
<1>2. CASE \E m \in Msgs, max \in MaxInstances : AddLast(m, max) \/ AddFirst(m, max)
  <2>1. ScriptRuns /\ kind' = kind /\ Len(stack') = Len(stack)
    BY <1>1, <1>2 DEF AddLast, AddFirst, OnEachPass
  <2> QED
    BY <2>1, HeightKept
<1>3. CASE \E i \in 1..Len(monitors) :
             Delete(i) \/ \E max \in MaxInstances : SetMaxInstances(i, max)
  <2>1. ScriptRuns /\ kind' = kind /\ Len(stack') = Len(stack)
    BY <1>1, <1>3 DEF Delete, SetMaxInstances, OnEachPass
  <2> QED
    BY <2>1, HeightKept
<1>4. CASE Dispose
  <2>1. ScriptRuns /\ kind' = kind /\ Len(stack') = Len(stack)
    BY <1>1, <1>4 DEF Dispose, OnEachPass
  <2> QED
    BY <2>1, HeightKept
<1>10. CASE AutoExecEnds
  BY <1>1, <1>10, HeightKept DEF AutoExecEnds, ScriptRuns
<1>5. ASSUME NEW m \in Msgs, Begin(m)
      PROVE  /\ Len(stack') <= MaxThreads + 1
             /\ kind' = "OnMessage" /\ ScriptRuns' => Len(stack') <= MaxThreads
  <2>1. PICK p : stack' = Append(stack, p) /\ p.current = NoId
    BY <1>5 DEF Begin
  <2>2. Len(stack) <= MaxThreads
    BY <1>5 DEF Begin
  <2>3. Len(Append(stack, p)) = Len(stack) + 1 /\ Append(stack, p)[Len(stack) + 1] = p
    BY <1>1
  <2>4. ~ScriptRuns'
    BY <1>1, <2>1, <2>3 DEF ScriptRuns, Top
  <2> QED
    BY <1>1, <2>1, <2>2, <2>3, <2>4
<1>6. CASE PassBy
  <2> DEFINE p == [Look(Top) EXCEPT !.index = @ + 1]
  <2>1. stack # <<>> /\ stack' = WithTop(p) /\ kind' = kind /\ Looking
    BY <1>6 DEF PassBy, Looking
  <2>2. p.current = NoId
    BY <2>1, LookIs DEF AnyPass, Looking
  <2> HIDE DEF p
  <2>3. ~ScriptRuns'
    BY <1>1, <2>1, <2>2 DEF ScriptRuns, Top
  <2> QED
    BY <1>1, <2>1, <2>3, HeightKept
<1>7. CASE Call
  <2>1. /\ stack # <<>> /\ Len(stack') = Len(stack) /\ kind' = kind /\ Looking
        /\ kind = "OnMessage" => Threads < MaxThreads
    BY <1>1, <1>7 DEF Call, MayLaunch, Looking
  <2> QED
    BY <1>1, <2>1, ThreadsOfLooking DEF Bounded
<1>8. ASSUME NEW stop \in BOOLEAN, Return(stop)
      PROVE  /\ Len(stack') <= MaxThreads + 1
             /\ kind' = "OnMessage" /\ ScriptRuns' => Len(stack') <= MaxThreads
  <2>1. kind' = kind /\ stack # <<>> /\ Top.current # NoId
    BY <1>8 DEF Return
  <2>2. CASE stop
    BY <1>1, <1>8, <2>1, <2>2, HeightKept DEF Return
  <2>3. CASE ~stop
    <3>1. Len(stack') = Len(stack)
      BY <1>1, <1>8, <2>1, <2>3 DEF Return
    <3>2. ScriptRuns
      BY <2>1 DEF ScriptRuns
    <3> QED
      BY <2>1, <3>1, <3>2, HeightKept
  <2> QED
    BY <2>2, <2>3
<1>9. CASE End
  BY <1>1, <1>9, HeightKept DEF End
<1> QED
  BY <1>2, <1>3, <1>4, <1>5, <1>6, <1>7, <1>8, <1>9, <1>10 DEF Next, Script

(* The lists of Call count no instances. *)
LEMMA NoInstances ==
  ASSUME IInv, Bounded, Next, kind = "Event"
  PROVE  kind' = "Event" /\ \A i \in 1..Len(monitors') : monitors'[i].instances = 0
<1>1. /\ monitors \in Seq(AnyMonitor) /\ Len(monitors) \in Nat
      /\ \A i \in 1..Len(monitors) : monitors[i].instances = 0 /\ monitors[i] \in AnyMonitor
  BY Facts DEF Bounded
<1>2. ASSUME NEW m \in Msgs, NEW max \in MaxInstances, AddLast(m, max) \/ AddFirst(m, max)
      PROVE  kind' = "Event" /\ \A i \in 1..Len(monitors') : monitors'[i].instances = 0
  <2> DEFINE n == NewMonitor(m, max)
             a == Append(monitors, n)
             f == <<n>> \o monitors
  <2>1. kind' = kind /\ (monitors' = a \/ monitors' = f) /\ nextId \in Ids
    BY <1>2 DEF AddLast, AddFirst
  <2>2. n \in AnyMonitor /\ n.instances = 0
    BY <2>1, NewIs
  <2> HIDE DEF n
  <2>3. /\ Len(a) = Len(monitors) + 1 /\ a[Len(monitors) + 1] = n
        /\ \A i \in 1..Len(monitors) : a[i] = monitors[i]
    BY <1>1, <2>2
  <2>4. \A i \in 1..Len(a) : a[i].instances = 0
    <3> HIDE DEF a
    <3>1. \A i \in 1..Len(a) : i \in 1..Len(monitors) \/ i = Len(monitors) + 1
      BY <1>1, <2>3
    <3> QED
      BY <1>1, <2>2, <2>3, <3>1
  <2>5. <<n>> \in Seq(AnyMonitor) /\ Len(<<n>>) = 1 /\ <<n>>[1] = n
    BY <2>2
  <2>6. /\ Len(f) = Len(monitors) + 1 /\ f[1] = n
        /\ \A i \in 1..Len(monitors) : f[i + 1] = monitors[i]
    BY <1>1, <2>5
  <2>7. \A i \in 1..Len(f) : f[i].instances = 0
    <3> HIDE DEF f
    <3>1. \A i \in 1..Len(f) : i = 1 \/ (i - 1 \in 1..Len(monitors) /\ (i - 1) + 1 = i)
      BY <1>1, <2>6
    <3>2. \A j \in 1..Len(monitors) : f[j + 1].instances = 0
      BY <1>1, <2>6
    <3> QED
      BY <2>2, <2>6, <3>1, <3>2
  <2> QED
    BY <2>1, <2>4, <2>7
<1>3. ASSUME NEW j \in 1..Len(monitors), Delete(j)
      PROVE  kind' = "Event" /\ \A i \in 1..Len(monitors') : monitors'[i].instances = 0
  <2> DEFINE r == RemoveAt(monitors, j)
  <2>1. kind' = kind /\ monitors' = r
    BY <1>3 DEF Delete
  <2>2. /\ Len(r) = Len(monitors) - 1
        /\ \A i \in 1..(Len(monitors) - 1) : r[i] = IF i < j THEN monitors[i] ELSE monitors[i + 1]
    BY <1>1, RemoveAtIs
  <2> HIDE DEF r
  <2>3. ASSUME NEW i \in 1..Len(r)
        PROVE  r[i].instances = 0
    <3>1. i \in 1..(Len(monitors) - 1) /\ i \in 1..Len(monitors) /\ i + 1 \in 1..Len(monitors)
      BY <1>1, <2>2
    <3>2. r[i] = monitors[i] \/ r[i] = monitors[i + 1]
      BY <2>2, <3>1
    <3> QED
      BY <1>1, <3>1, <3>2
  <2> QED
    BY <2>1, <2>3
<1>4. ASSUME NEW j \in 1..Len(monitors), NEW max \in MaxInstances, SetMaxInstances(j, max)
      PROVE  kind' = "Event" /\ \A i \in 1..Len(monitors') : monitors'[i].instances = 0
  <2> DEFINE u == [monitors[j] EXCEPT !.max = max]
             r == [monitors EXCEPT ![j] = u]
  <2>1. kind' = kind /\ monitors' = r
    BY <1>4 DEF SetMaxInstances
  <2>2. u \in AnyMonitor /\ u.instances = monitors[j].instances
    BY <1>1 DEF AnyMonitor
  <2> HIDE DEF u
  <2>3. Len(r) = Len(monitors) /\ \A i \in 1..Len(monitors) : r[i] = IF i = j THEN u ELSE monitors[i]
    BY <1>1, <2>2
  <2> HIDE DEF r
  <2> QED
    BY <1>1, <2>1, <2>2, <2>3
<1>5. CASE Dispose
  BY <1>5 DEF Dispose
<1>6. CASE \/ PassBy \/ Call \/ (\E stop \in BOOLEAN : Return(stop)) \/ End \/ AutoExecEnds
           \/ \E m \in Msgs : Begin(m)
  <2>1. kind' = kind /\ monitors' = monitors
    BY <1>6 DEF PassBy, Call, Return, End, Begin, AutoExecEnds
  <2> QED
    BY <1>1, <2>1
<1> QED
  BY <1>2, <1>3, <1>4, <1>5, <1>6 DEF Next, Script

(* The bounds hold always. *)
LEMMA AlwaysBounded == Spec => [](IInv /\ Bounded)
<1>1. Init => Bounded
  BY MonitorAssumption DEF Init, Bounded
<1>2. ASSUME IInv, Bounded, [Next]_monVars
      PROVE  Bounded'
  <2>1. CASE UNCHANGED monVars
    BY <1>2, <2>1 DEF monVars, Bounded, ScriptRuns, Top
  <2>2. CASE Next
    <3>0. autoExec' \in BOOLEAN
      BY <1>2, <2>2
        DEF Next, Script, AddLast, AddFirst, Delete, SetMaxInstances, Dispose, AutoExecEnds, Begin,
            PassBy, Call, Return, End, Bounded
    <3>1. nextId' <= MaxIds + 1
      <4>1. (nextId \in Ids /\ nextId' = nextId + 1) \/ nextId' = nextId
        BY <2>2 DEF Next, Script, AddLast, AddFirst, Delete, SetMaxInstances, Dispose, AutoExecEnds, Begin,
                    PassBy, Call, Return, End
      <4> QED
        BY <1>2, <4>1, MonitorAssumption, Facts DEF Bounded, Ids
    <3>2. kind' = kind /\ kind \in {"OnMessage", "Event"}
      BY <1>2, <2>2, MonitorAssumption
        DEF IInv, Next, Script, AddLast, AddFirst, Delete, SetMaxInstances, Dispose, AutoExecEnds, Begin,
            PassBy, Call, Return, End
    <3>3. /\ Len(stack') <= MaxThreads + 1
          /\ kind' = "OnMessage" /\ ScriptRuns' => Len(stack') <= MaxThreads
      BY <1>2, <2>2, HeightBounded
    <3>4. kind' = "Event" => \A i \in 1..Len(monitors') : monitors'[i].instances = 0
      BY <1>2, <2>2, <3>2, NoInstances
    <3> QED
      BY <3>0, <3>1, <3>3, <3>4 DEF Bounded
  <2> QED
    BY <1>2, <2>1, <2>2
<1> QED
  BY <1>1, <1>2, InitOk, NextOk, PTL DEF Spec

(* instance_count is at most g_MaxThreadsTotal, which #MaxThreads keeps within 255,
   so that a byte holds it, and every other variable has its type, too. *)
THEOREM TypeCorrect == Spec => []TypeOK
<1>1. ASSUME IInv, Bounded
      PROVE  TypeOK
  <2>1. /\ stack \in Seq(AnyPass) /\ Len(stack) \in Nat /\ MaxThreads \in Nat \ {0}
        /\ monitors \in Seq(AnyMonitor) /\ Len(monitors) \in Nat /\ kind \in {"OnMessage", "Event"}
        /\ kind \in Kinds
    BY <1>1, Facts, MonitorAssumption DEF IInv
  <2>2. ASSUME NEW i \in 1..Len(monitors), kind = "OnMessage"
        PROVE  monitors[i].instances \in 0..MaxThreads
    <3> DEFINE id == monitors[i].id
               places == Places(stack, Waiting(id))
               last == IF ScriptRuns THEN Len(stack) ELSE Len(stack) - 1
    <3>1. /\ monitors[i].instances = Count(stack, Waiting(id))
          /\ id # NoId
      BY <1>1, <2>2, Facts DEF IInv, Counted
    <3>2. last \in Nat /\ last <= MaxThreads
      <4>1. CASE ScriptRuns
        BY <1>1, <2>1, <2>2, <4>1 DEF Bounded
      <4>2. CASE ~ScriptRuns
        <5>1. Len(stack) # 0
          BY <2>1, <4>2 DEF ScriptRuns
        <5> QED
          BY <1>1, <2>1, <4>2, <5>1 DEF Bounded
      <4> QED
        BY <4>1, <4>2
    <3>3. places \in SUBSET (1..last)
      <4>1. ASSUME NEW d \in 1..Len(stack), stack[d].current = id
            PROVE  d \in 1..last
        <5>1. ~ScriptRuns => d # Len(stack)
          BY <3>1, <4>1 DEF ScriptRuns, Top
        <5> QED
          BY <2>1, <5>1
      <4> QED
        BY <2>1, <4>1 DEF Places, Waiting
    <3> HIDE DEF last
    <3>4. IsFiniteSet(1..last) /\ Cardinality(1..last) = last
      BY <3>2, FS_Interval
    <3>5. Cardinality(places) <= last /\ Cardinality(places) \in Nat
      BY <3>3, <3>4, FS_Subset, FS_CardinalityType
    <3> QED
      BY <2>1, <3>1, <3>2, <3>5 DEF Count
  <2>3. \A i \in 1..Len(monitors) : monitors[i] \in Monitor
    <3>1. ASSUME NEW i \in 1..Len(monitors)
          PROVE  monitors[i] \in Monitor
      <4>1. monitors[i] \in AnyMonitor
        BY <2>1
      <4>2. monitors[i].instances \in 0..MaxThreads
        BY <1>1, <2>1, <2>2 DEF Bounded
      <4> QED
        BY <4>1, <4>2 DEF AnyMonitor, Monitor
    <3> QED
      BY <3>1
  <2>4. monitors \in Seq(Monitor)
    BY <2>1, <2>3
  <2>5. nextId \in 1..(MaxIds + 1)
    BY <1>1, MonitorAssumption DEF IInv, Distinct, Bounded
  <2>6. autoExec \in BOOLEAN
    BY <1>1 DEF Bounded
  <2>7. Pass = AnyPass
    BY DEF Pass, AnyPass
  <2> QED
    BY <2>1, <2>4, <2>5, <2>6, <2>7 DEF TypeOK
<1> QED
  BY <1>1, AlwaysBounded, PTL
=============================================================================
