--------------------------- MODULE MeteringProofs ---------------------------
(***************************************************************************)
(* The meter's and the reporter's books for any traffic, any number of     *)
(* workloads and connections, and any batch, outbox and buffer size:       *)
(* types, nothing lost, nothing billed twice, requests billed in time.     *)
(*                                                                         *)
(* NothingLost is inductive with the types.  BilledOnce is not: that two   *)
(* aggregates share no traffic depends on every place traffic passes       *)
(* through before it is filed (Once), and a batch may be taken again only  *)
(* because what was taken is still on file with its id (Billable).         *)
(***************************************************************************)
EXTENDS Metering, FiniteSetTheorems, SequenceTheorems, WellFoundedInduction, TLAPS

RestOK ==
    /\ at \in {"sleep", "conns", "shards", "collect", "begin", "send", "stopped"}
    /\ backoff \in {"none", "waiting", "due"}
    /\ woken \in Minutes

Typed == TypeOK /\ IsFiniteSet(drained)

In(u, S) == \E x \in S : u \in x.units

InConn(u) == \E c \in Conns : u \in carried[c]

InBucket(u) == \E k \in Minutes \X Workloads : u \in buckets[k]

\* Each place holds a unit at most once ...
OnceEach(u) ==
    /\ \A x, y \in adding : u \in x.units /\ u \in y.units => x = y
    /\ \A c, d \in Conns : u \in carried[c] /\ u \in carried[d] => c = d
    /\ \A k, l \in Minutes \X Workloads : u \in buckets[k] /\ u \in buckets[l] => k = l
    /\ \A x, y \in drained : u \in x.units /\ u \in y.units => x = y
    /\ \A x, y \in Filed : u \in x.units /\ u \in y.units => x = y

\* ... and of these places only one.
OnePlace(u) ==
    /\ In(u, adding) => ~InConn(u) /\ ~InBucket(u) /\ ~In(u, drained) /\ ~In(u, Filed)
    /\ InConn(u) => ~InBucket(u) /\ ~In(u, drained) /\ ~In(u, Filed)
    /\ InBucket(u) => ~In(u, drained) /\ ~In(u, Filed)
    /\ In(u, drained) => ~In(u, Filed)

Once(u) == OnceEach(u) /\ OnePlace(u)

Billable ==
    /\ accepted \subseteq Filed
    /\ \A a \in Filed : a.id <= ids
    /\ \A a, b \in Filed : a.id = b.id => a = b

---------------------------------------------------------------------------
\* Sequences and counts.

\* What pruneLocked drops is well defined: it stops at the first aggregate it
\* may keep, or at the end.
LEMMA DroppedExists ==
    ASSUME Typed, NEW q \in Seq(Aggregates)
    PROVE  /\ Dropped(q) \in 0..Len(q)
           /\ Len(q) - Dropped(q) <= MaxPending
<1> DEFINE May(i) == TooOld(q[i]) \/ Surplus(Len(q) - i + 1)
           Stops == {d \in 0..Len(q) : d < Len(q) => ~May(d + 1)}
           Fits(d) == /\ \A i \in 1..d : TooOld(q[i]) \/ Surplus(Len(q) - i + 1)
                      /\ d < Len(q) => ~TooOld(q[d + 1]) /\ ~Surplus(Len(q) - d)
<1>1. Len(q) \in Nat /\ Len(q) \in Stops /\ Stops \subseteq Nat
  OBVIOUS
<1>2. PICK d \in Stops : \A e \in Stops : <<e, d>> \notin OpToRel(<, Nat)
  <2>1. Stops # {}
    BY <1>1
  <2> HIDE DEF Stops
  <2> QED BY ONLY <1>1, <2>1, WFMin, NatLessThanWellFounded, Zenon
<1>3. \A e \in Stops : ~(e < d)
  <2> SUFFICES ASSUME NEW e \in Stops, e < d PROVE FALSE
    OBVIOUS
  <2>1. e \in Nat /\ d \in Nat /\ <<e, d>> \notin OpToRel(<, Nat)
    BY <1>1, <1>2, Zenon
  <2> QED BY <2>1, Zenon DEF OpToRel
<1>4. ASSUME NEW i \in 1..d PROVE May(i)
  <2>1. i - 1 \notin Stops
    BY <1>1, <1>3, <1>4
  <2>2. i - 1 \in 0..Len(q) /\ i - 1 < Len(q) /\ (i - 1) + 1 = i
    BY <1>1, <1>4
  <2> HIDE DEF May
  <2> QED BY <2>1, <2>2
<1>5. Fits(d)
  <2>1. d < Len(q) => Len(q) - (d + 1) + 1 = Len(q) - d
    BY <1>1
  <2>2. d < Len(q) => ~May(d + 1)
    OBVIOUS
  <2> QED BY <1>4, <2>1, <2>2
<1>6. Dropped(q) \in 0..Len(q) /\ Fits(Dropped(q))
  <2>1. d \in 0..Len(q)
    OBVIOUS
  <2>2. Dropped(q) = CHOOSE e \in 0..Len(q) : Fits(e)
    BY DEF Dropped
  <2> HIDE DEF Fits
  <2> QED BY <1>5, <2>1, <2>2
<1>7. Len(q) - Dropped(q) <= MaxPending
  BY <1>1, <1>6, MeteringAssumption DEF Surplus
<1> QED BY <1>6, <1>7

\* A sequence cut in two has the same elements.
LEMMA CutInTwo ==
    ASSUME NEW S, NEW q \in Seq(S), NEW n \in 0..Len(q)
    PROVE  /\ SubSeq(q, 1, n) \in Seq(S) /\ SubSeq(q, n + 1, Len(q)) \in Seq(S)
           /\ Len(SubSeq(q, n + 1, Len(q))) = Len(q) - n
           /\ Range(SubSeq(q, 1, n)) = {q[i] : i \in 1..n}
           /\ Range(q) = Range(SubSeq(q, 1, n)) \cup Range(SubSeq(q, n + 1, Len(q)))
<1> DEFINE front == SubSeq(q, 1, n)
           back == SubSeq(q, n + 1, Len(q))
<1>1. Len(q) \in Nat /\ n \in Nat /\ n <= Len(q)
  OBVIOUS
<1>2. \A i \in 1..Len(q) : q[i] \in S
  OBVIOUS
<1>3. front \in Seq(S) /\ Len(front) = n /\ \A i \in 1..n : front[i] = q[i]
  <2>1. \A i \in 1..n : q[i] \in S
    BY <1>1, <1>2
  <2> QED BY <1>1, <2>1, SubSeqProperties
<1>4. /\ back \in Seq(S) /\ Len(back) = Len(q) - n
      /\ \A i \in 1..(Len(q) - n) : back[i] = q[n + i]
  <2>1. \A i \in (n + 1)..Len(q) : q[i] \in S
    BY <1>1, <1>2
  <2>2. n + 1 \in Int /\ Len(q) \in Int
    BY <1>1
  <2>3. /\ SubSeq(q, n + 1, Len(q)) \in Seq(S)
        /\ Len(SubSeq(q, n + 1, Len(q))) = IF n + 1 <= Len(q) THEN Len(q) - (n + 1) + 1 ELSE 0
        /\ \A i \in 1..(Len(q) - (n + 1) + 1) : SubSeq(q, n + 1, Len(q))[i] = q[n + 1 + i - 1]
    BY ONLY <2>1, <2>2, SubSeqProperties
  <2>4. Len(back) = Len(q) - n /\ Len(q) - (n + 1) + 1 = Len(q) - n
    BY <1>1, <2>3
  <2>5. \A i \in 1..(Len(q) - n) : n + 1 + i - 1 = n + i
    BY <1>1
  <2> HIDE DEF back
  <2> QED BY <2>3, <2>4, <2>5 DEF back
<1> HIDE DEF front, back
<1>5. /\ DOMAIN front = 1..n /\ DOMAIN back = 1..(Len(q) - n) /\ DOMAIN q = 1..Len(q)
  BY <1>3, <1>4
<1>6. Range(q) \subseteq Range(front) \cup Range(back)
  <2> SUFFICES ASSUME NEW i \in 1..Len(q) PROVE q[i] \in Range(front) \cup Range(back)
    BY <1>5 DEF Range
  <2>1. CASE i <= n
    <3>1. i \in 1..n
      BY <2>1
    <3> QED BY <1>3, <1>5, <3>1 DEF Range
  <2>2. CASE i > n
    <3>1. i - n \in 1..(Len(q) - n) /\ n + (i - n) = i
      BY <1>1, <2>2
    <3>2. back[i - n] = q[i]
      BY <1>4, <3>1
    <3> QED BY <1>5, <3>1, <3>2 DEF Range
  <2> QED BY <1>1, <2>1, <2>2
<1>7. Range(front) \subseteq Range(q)
  <2> SUFFICES ASSUME NEW i \in 1..n PROVE front[i] \in Range(q)
    BY <1>5 DEF Range
  <2>1. i \in 1..Len(q)
    BY <1>1
  <2> QED BY <1>3, <1>5, <2>1 DEF Range
<1>8. Range(back) \subseteq Range(q)
  <2> SUFFICES ASSUME NEW i \in 1..(Len(q) - n) PROVE back[i] \in Range(q)
    BY <1>5 DEF Range
  <2>1. n + i \in 1..Len(q)
    BY <1>1
  <2> QED BY <1>4, <1>5, <2>1 DEF Range
<1>9. Range(front) = {q[i] : i \in 1..n}
  BY <1>3, <1>5 DEF Range
<1> QED BY <1>3, <1>4, <1>6, <1>7, <1>8, <1>9 DEF front, back

\* What the outbox holds is aggregates, and nothing else is filed.
LEMMA OutboxAggregates ==
    ASSUME Typed
    PROVE  Range(outbox) \subseteq Aggregates /\ Filed \subseteq Aggregates
<1>1. Range(outbox) \subseteq Aggregates
  BY DEF Typed, TypeOK, FilingOK, Range
<1> QED BY <1>1 DEF Typed, TypeOK, FilingOK, Filed

\* send's batch and what it leaves are the outbox.
LEMMA BatchAndRest ==
    ASSUME Typed
    PROVE  /\ Range(outbox) = Range(Batch) \cup Range(Rest)
           /\ Range(Batch) \subseteq Aggregates
           /\ Rest \in Seq(Aggregates) /\ Len(Rest) <= MaxPending
<1>1. outbox \in Seq(Aggregates) /\ Len(outbox) <= MaxPending /\ Len(outbox) \in Nat
  BY DEF Typed, TypeOK, FilingOK
<1>2. BatchLen \in 0..Len(outbox)
  BY <1>1, MeteringAssumption DEF BatchLen
<1>3. /\ Range(outbox) = Range(Batch) \cup Range(Rest)
      /\ Rest \in Seq(Aggregates) /\ Len(Rest) = Len(outbox) - BatchLen
  BY ONLY <1>1, <1>2, CutInTwo DEF Batch, Rest
<1> QED BY <1>1, <1>2, <1>3, OutboxAggregates, MeteringAssumption

\* Drain takes finitely many buckets from a shard.
LEMMA TakenFinite ==
    ASSUME Typed, NEW w \in Workloads
    PROVE  IsFiniteSet({[minute |-> m, workload |-> w, units |-> buckets[<<m, w>>]] :
                           m \in {n \in Minutes : n < limit /\ buckets[<<n, w>>] # {}}})
<1> DEFINE T == {n \in Minutes : n < limit /\ buckets[<<n, w>>] # {}}
           bucket(m) == [minute |-> m, workload |-> w, units |-> buckets[<<m, w>>]]
           R == {bucket(m) : m \in T}
           f == [m \in T |-> bucket(m)]
<1>1. IsFiniteSet(T)
  <2>1. IsFiniteSet(Minutes)
    BY FS_Interval, MeteringAssumption DEF Minutes
  <2> QED BY <2>1, FS_Subset
<1>2. f \in Surjection(T, R)
  BY DEF Surjection
<1> HIDE DEF T, R, f
<1>3. IsFiniteSet(R)
  BY <1>1, <1>2, FS_Surjection
<1> QED BY <1>3 DEF R, T

\* What collect makes of the drained buckets: aggregates behind the outbox, cut
\* in two by pruneLocked.
LEMMA Collected ==
    ASSUME Typed, NEW order \in Orders(drained),
           NEW q, q = outbox \o [i \in DOMAIN order |-> Aggregate(order[i], i)],
           NEW d, d = Dropped(q)
    PROVE  /\ DOMAIN order = 1..Cardinality(drained) /\ Cardinality(drained) \in Nat
           /\ \A i \in DOMAIN order : order[i] \in drained
           /\ \A i, j \in DOMAIN order : order[i] = order[j] => i = j
           /\ \A b \in drained : \E i \in DOMAIN order : order[i] = b
           /\ SubSeq(q, d + 1, Len(q)) \in Seq(Aggregates)
           /\ Len(SubSeq(q, d + 1, Len(q))) <= MaxPending
           /\ Range(SubSeq(q, 1, d)) \subseteq Aggregates
           /\ Range(SubSeq(q, 1, d)) \cup Range(SubSeq(q, d + 1, Len(q)))
                = Range(outbox) \cup {Aggregate(order[i], i) : i \in DOMAIN order}
<1> DEFINE new == [i \in DOMAIN order |-> Aggregate(order[i], i)]
<1>1. Cardinality(drained) \in Nat
  BY FS_CardinalityType DEF Typed
<1>2. /\ DOMAIN order = 1..Cardinality(drained)
      /\ \A i \in DOMAIN order : order[i] \in drained
      /\ \A i, j \in DOMAIN order : order[i] = order[j] => i = j
      /\ \A b \in drained : \E i \in DOMAIN order : order[i] = b
  BY DEF Orders, Bijection, Injection, Surjection, IsInjective
<1>3. new \in Seq(Aggregates) /\ Len(new) = Cardinality(drained)
  <2>1. \A i \in DOMAIN order : Aggregate(order[i], i) \in Aggregates
    BY <1>1, <1>2 DEF Aggregate, Aggregates, Counts, Typed, TypeOK, DrainOK, FilingOK
  <2> QED BY <1>1, <1>2, <2>1
<1>4. Range(new) = {Aggregate(order[i], i) : i \in DOMAIN order}
  BY DEF Range
<1>5. outbox \in Seq(Aggregates)
  BY DEF Typed, TypeOK, FilingOK
<1> HIDE DEF new
<1>6. /\ q \in Seq(Aggregates) /\ Range(q) = Range(outbox) \cup Range(new)
      /\ Len(q) = Len(outbox) + Len(new)
  <2>1. q = outbox \o new
    BY DEF new
  <2>2. /\ q \in Seq(Aggregates) /\ Len(q) = Len(outbox) + Len(new)
        /\ \A i \in 1..(Len(outbox) + Len(new)) :
              q[i] = IF i <= Len(outbox) THEN outbox[i] ELSE new[i - Len(outbox)]
    BY ONLY <1>3, <1>5, <2>1, ConcatProperties
  <2>3. /\ Len(outbox) \in Nat /\ Len(new) \in Nat /\ DOMAIN q = 1..Len(q)
        /\ DOMAIN outbox = 1..Len(outbox) /\ DOMAIN new = 1..Len(new)
    BY <1>3, <1>5, <2>2
  <2>4. Range(outbox) \subseteq Range(q)
    <3> SUFFICES ASSUME NEW i \in 1..Len(outbox) PROVE outbox[i] \in Range(q)
      BY <2>3 DEF Range
    <3>1. i \in 1..Len(q) /\ i <= Len(outbox) /\ i \in 1..(Len(outbox) + Len(new))
      BY <2>2, <2>3
    <3>2. q[i] = outbox[i]
      BY <2>2, <3>1
    <3> QED BY <2>3, <3>1, <3>2 DEF Range
  <2>5. Range(new) \subseteq Range(q)
    <3> SUFFICES ASSUME NEW i \in 1..Len(new) PROVE new[i] \in Range(q)
      BY <2>3 DEF Range
    <3>1. /\ Len(outbox) + i \in 1..Len(q) /\ ~(Len(outbox) + i <= Len(outbox))
          /\ (Len(outbox) + i) - Len(outbox) = i
      BY <2>2, <2>3
    <3>2. q[Len(outbox) + i] = new[i]
      BY <2>2, <3>1
    <3> QED BY <2>3, <3>1, <3>2 DEF Range
  <2>6. Range(q) \subseteq Range(outbox) \cup Range(new)
    <3> SUFFICES ASSUME NEW i \in 1..Len(q) PROVE q[i] \in Range(outbox) \cup Range(new)
      BY <2>3 DEF Range
    <3>1. CASE i <= Len(outbox)
      <4>1. i \in 1..Len(outbox) /\ q[i] = outbox[i]
        BY <2>2, <2>3, <3>1
      <4> QED BY <2>3, <4>1 DEF Range
    <3>2. CASE ~(i <= Len(outbox))
      <4>1. i - Len(outbox) \in 1..Len(new) /\ q[i] = new[i - Len(outbox)]
        BY <2>2, <2>3, <3>2
      <4> QED BY <2>3, <4>1 DEF Range
    <3> QED BY <3>1, <3>2
  <2> QED BY <2>2, <2>4, <2>5, <2>6
<1>7. d \in 0..Len(q) /\ Len(q) - d <= MaxPending
  BY <1>6, DroppedExists
<1>8. /\ SubSeq(q, 1, d) \in Seq(Aggregates) /\ SubSeq(q, d + 1, Len(q)) \in Seq(Aggregates)
      /\ Len(SubSeq(q, d + 1, Len(q))) = Len(q) - d
      /\ Range(SubSeq(q, 1, d)) = {q[i] : i \in 1..d}
      /\ Range(q) = Range(SubSeq(q, 1, d)) \cup Range(SubSeq(q, d + 1, Len(q)))
  BY ONLY <1>6, <1>7, CutInTwo
<1>9. Range(SubSeq(q, 1, d)) \subseteq Aggregates
  <2> DEFINE s == SubSeq(q, 1, d)
  <2>1. s \in Seq(Aggregates)
    BY <1>8
  <2> HIDE DEF s
  <2>2. Range(s) \subseteq Aggregates
    BY <2>1 DEF Range
  <2> QED BY <2>2 DEF s
<1> QED BY <1>1, <1>2, <1>4, <1>6, <1>7, <1>8, <1>9

---------------------------------------------------------------------------
\* Types.

LEMMA TypeStep == Typed /\ [Next]_vars => Typed'
<1> SUFFICES ASSUME Typed, [Next]_vars PROVE Typed'
  OBVIOUS
<1> USE MeteringAssumption
    DEF Typed, TypeOK, MeterOK, DrainOK, FilingOK, WorldOK, Minutes, Counts,
        meter, drain, filing, reporter, world
<1>1. ASSUME NEW w \in Workloads, Finish(w) PROVE Typed'
  <2>1. New(Requests) \in Requests
    BY <1>1 DEF Finish, New
  <2> QED BY <1>1, <2>1 DEF Finish
<1>2. ASSUME NEW x \in adding, Add(x) PROVE Typed'
  BY <1>2 DEF Add
<1>3. ASSUME NEW c \in Conns, Track(c) PROVE Typed'
  BY <1>3 DEF Track
<1>4. ASSUME NEW c \in Conns, Carry(c) PROVE Typed'
  <2>1. New(Units \ Requests) \in Units
    BY <1>4 DEF Carry, New
  <2> QED BY <1>4, <2>1 DEF Carry
<1>5. ASSUME NEW c \in Conns, Untrack(c) PROVE Typed'
  BY <1>5 DEF Untrack
<1>6. ASSUME Wake PROVE Typed'
  BY <1>6 DEF Wake
<1>7. ASSUME Flush PROVE Typed'
  BY <1>7 DEF Flush
<1>8. ASSUME DrainConns PROVE Typed'
  BY <1>8 DEF DrainConns
<1>9. ASSUME NEW w \in Workloads, DrainShard(w) PROVE Typed'
  <2>1. IsFiniteSet(drained')
    BY <1>9, TakenFinite, FS_Union DEF DrainShard
  <2>2. drained' \subseteq Counts
    <3>1. \A m \in Minutes :
            [minute |-> m, workload |-> w, units |-> buckets[<<m, w>>]] \in Counts
      OBVIOUS
    <3>2. \A b \in drained' : b \in drained \/ \E m \in Minutes :
            b = [minute |-> m, workload |-> w, units |-> buckets[<<m, w>>]]
      BY <1>9 DEF DrainShard
    <3>3. drained \subseteq Counts
      OBVIOUS
    <3> QED BY ONLY <3>1, <3>2, <3>3
  <2>3. buckets' \in [Minutes \X Workloads -> SUBSET Units]
    BY <1>9 DEF DrainShard
  <2>4. /\ shards' \subseteq Workloads /\ at' \in {"shards", "collect"}
        /\ UNCHANGED <<adding, conn, carried, backoff, woken, limit, filing, world>>
    BY <1>9 DEF DrainShard
  <2> QED BY <2>1, <2>2, <2>3, <2>4
<1>10. ASSUME CollectOff PROVE Typed'
  BY <1>10, FS_EmptySet DEF CollectOff
<1>11. ASSUME Collect PROVE Typed'
  <2>1. PICK order \in Orders(drained) :
          LET q == outbox \o [i \in DOMAIN order |-> Aggregate(order[i], i)]
              d == Dropped(q) IN
          /\ outbox' = SubSeq(q, d + 1, Len(q))
          /\ dropped' = dropped \cup Range(SubSeq(q, 1, d))
    BY <1>11 DEF Collect
  <2>2. /\ outbox' \in Seq(Aggregates) /\ Len(outbox') <= MaxPending
        /\ dropped' \subseteq Aggregates /\ Cardinality(drained) \in Nat
    BY <2>1, Collected
  <2>3. IsFiniteSet(drained') /\ drained' = {}
    BY <1>11, FS_EmptySet DEF Collect
  <2>4. /\ ids' = ids + Cardinality(drained) /\ at' = "begin"
        /\ UNCHANGED <<meter, backoff, woken, limit, shards, sent, discarded, world>>
    BY <1>11 DEF Collect
  <2>5. FilingOK'
    BY <2>2, <2>4
  <2>6. MeterOK' /\ DrainOK' /\ WorldOK' /\ woken' \in Minutes
    BY <2>3, <2>4
  <2> QED BY <2>3, <2>4, <2>5, <2>6
<1>12. ASSUME SendBegin PROVE Typed'
  BY <1>12 DEF SendBegin, Asleep
<1>13. ASSUME SendEnd PROVE Typed'
  BY <1>13 DEF SendEnd, Asleep
<1>14. ASSUME Posted PROVE Typed'
  BY <1>14, BatchAndRest DEF Posted
<1>15. ASSUME Refused PROVE Typed'
  BY <1>15, BatchAndRest DEF Refused
<1>16. ASSUME PostFailed PROVE Typed'
  BY <1>16, BatchAndRest DEF PostFailed, Asleep
<1>17. ASSUME Tick PROVE Typed'
  BY <1>17 DEF Tick
<1>18. ASSUME RetryDue \/ SetTarget \/ Shutdown PROVE Typed'
  BY <1>18 DEF RetryDue, SetTarget, Shutdown
<1>19. ASSUME UNCHANGED vars PROVE Typed'
  BY <1>19 DEF vars
<1> QED BY <1>1, <1>2, <1>3, <1>4, <1>5, <1>6, <1>7, <1>8, <1>9, <1>10, <1>11, <1>12,
           <1>13, <1>14, <1>15, <1>16, <1>17, <1>18, <1>19 DEF Next, Loop, Answered

LEMMA TypeInit == Init => Typed
<1> SUFFICES ASSUME Init PROVE Typed
  OBVIOUS
<1> USE MeteringAssumption DEF Init
<1>1. IsFiniteSet(drained) /\ DrainOK
  BY FS_EmptySet DEF DrainOK
<1>2. MeterOK /\ WorldOK
  <2>1. 1 \in 1..LastMinute
    OBVIOUS
  <2>2. [c \in Conns |-> "new"] \in [Conns -> {"new", "live", "closed"}]
    OBVIOUS
  <2> QED BY <2>1, <2>2 DEF MeterOK, WorldOK
<1>3. FilingOK
  BY DEF FilingOK
<1> QED BY <1>1, <1>2, <1>3 DEF Typed, TypeOK, Minutes

\* Every variable of the meter and the reporter keeps its type; the outbox never
\* holds more than pruneLocked's maximum.
THEOREM TypeCorrect == Spec => []TypeOK
<1>1. Spec => []Typed
  BY TypeInit, TypeStep, PTL DEF Spec
<1>2. Typed => TypeOK
  BY DEF Typed
<1> QED BY <1>1, <1>2, PTL
---------------------------------------------------------------------------
\* Nothing is lost.

Holds(u) ==
    \/ In(u, adding) \/ InConn(u) \/ InBucket(u)
    \/ In(u, drained) \/ In(u, discarded) \/ In(u, Filed)

\* Kept, unit by unit
KeptHeld == \A u : u \in Kept <=> Holds(u)

LEMMA KeptIsHeld == KeptHeld
<1> SUFFICES ASSUME NEW u PROVE u \in Kept <=> Holds(u)
  BY DEF KeptHeld
<1> DEFINE pieces == UNION {p.units : p \in Pieces}
           onConns == UNION {carried[c] : c \in Conns}
           open == UNION {buckets[k] : k \in Minutes \X Workloads}
<1>1. u \in pieces
        <=> In(u, adding) \/ In(u, drained) \/ In(u, discarded) \/ In(u, Filed)
  BY DEF Pieces, In
<1>2. u \in onConns <=> InConn(u)
  BY DEF InConn
<1>3. u \in open <=> InBucket(u)
  BY DEF InBucket
<1>4. Kept = pieces \cup onConns \cup open
  BY DEF Kept
<1> HIDE DEF pieces, onConns, open
<1> QED BY <1>1, <1>2, <1>3, <1>4 DEF Holds

\* Sending moves aggregates between the outbox and what was sent or dropped.
LEMMA SendFiles == Typed /\ (Posted \/ Refused \/ PostFailed) => Filed' = Filed
<1> SUFFICES ASSUME Typed, Posted \/ Refused \/ PostFailed PROVE Filed' = Filed
  OBVIOUS
<1>1. Range(outbox) = Range(Batch) \cup Range(Rest)
  BY BatchAndRest
<1>2. CASE Posted
  <2>1. Range(outbox') = Range(Rest) /\ sent' = sent \cup Range(Batch) /\ dropped' = dropped
    BY <1>2 DEF Posted
  <2> QED BY <1>1, <2>1 DEF Filed
<1>3. CASE Refused
  <2>1. Range(outbox') = Range(Rest) /\ dropped' = dropped \cup Range(Batch) /\ sent' = sent
    BY <1>3 DEF Refused
  <2> QED BY <1>1, <2>1 DEF Filed
<1>4. CASE PostFailed
  BY <1>4 DEF PostFailed, filing, Filed
<1> QED BY <1>2, <1>3, <1>4

\* collect files an aggregate for each drained bucket, with an id of its own.
LEMMA CollectFiles ==
    ASSUME Typed, Collect
    PROVE  \E order \in [1..Cardinality(drained) -> drained] :
              /\ \A i, j \in DOMAIN order : order[i] = order[j] => i = j
              /\ \A b \in drained : \E i \in DOMAIN order : order[i] = b
              /\ Filed' = Filed \cup {Aggregate(order[i], i) : i \in DOMAIN order}
<1>1. PICK order \in Orders(drained) :
        LET q == outbox \o [i \in DOMAIN order |-> Aggregate(order[i], i)]
            d == Dropped(q) IN
        /\ outbox' = SubSeq(q, d + 1, Len(q))
        /\ dropped' = dropped \cup Range(SubSeq(q, 1, d))
  BY DEF Collect
<1> DEFINE q == outbox \o [i \in DOMAIN order |-> Aggregate(order[i], i)]
           d == Dropped(q)
<1>2. outbox' = SubSeq(q, d + 1, Len(q)) /\ dropped' = dropped \cup Range(SubSeq(q, 1, d))
  BY <1>1
<1> HIDE DEF q, d
<1>3. /\ \A i, j \in DOMAIN order : order[i] = order[j] => i = j
      /\ \A b \in drained : \E i \in DOMAIN order : order[i] = b
      /\ Range(SubSeq(q, 1, d)) \cup Range(SubSeq(q, d + 1, Len(q)))
           = Range(outbox) \cup {Aggregate(order[i], i) : i \in DOMAIN order}
  <2>1. /\ q = outbox \o [i \in DOMAIN order |-> Aggregate(order[i], i)]
        /\ d = Dropped(q)
    BY DEF q, d
  <2> QED BY <2>1, Collected
<1>4. order \in [1..Cardinality(drained) -> drained]
  BY DEF Orders, Bijection, Injection
<1>5. sent' = sent
  BY DEF Collect
<1>6. Filed' = Filed \cup {Aggregate(order[i], i) : i \in DOMAIN order}
  BY <1>2, <1>3, <1>5 DEF Filed
<1> QED BY <1>3, <1>4, <1>6

LEMMA HoldsStep ==
    ASSUME Typed, [Next]_vars, NEW u, u \in recorded <=> Holds(u)
    PROVE  u \in recorded' <=> Holds(u)'
<1> USE DEF Holds, In, InConn, InBucket
<1>1. ASSUME NEW w \in Workloads, Finish(w) PROVE u \in recorded' <=> Holds(u)'
  <2>1. PICK y : adding' = adding \cup {y} /\ y.units = {New(Requests)}
    <3> DEFINE y == [minute |-> minute, workload |-> w, units |-> {New(Requests)}]
    <3>1. adding' = adding \cup {y} /\ y.units = {New(Requests)}
      BY <1>1 DEF Finish
    <3> HIDE DEF y
    <3> QED BY <3>1
  <2>2. recorded' = recorded \cup {New(Requests)}
        /\ UNCHANGED <<carried, buckets, drained, discarded, outbox, sent, dropped>>
    BY <1>1 DEF Finish, reporter, drain, filing
  <2>3. (\E z \in adding' : u \in z.units) <=> In(u, adding) \/ u = New(Requests)
    BY <2>1
  <2> QED BY <2>2, <2>3 DEF Filed
<1>2. ASSUME NEW x \in adding, Add(x) PROVE u \in recorded' <=> Holds(u)'
  <2>1. /\ <<x.minute, x.workload>> \in Minutes \X Workloads
        /\ buckets \in [Minutes \X Workloads -> SUBSET Units]
    BY DEF Typed, TypeOK, MeterOK, Counts
  <2>2. InBucket(u)' <=> InBucket(u) \/ u \in x.units
    BY <1>2, <2>1 DEF Add
  <2>3. (\E y \in adding' : u \in y.units) \/ u \in x.units <=> In(u, adding)
    BY <1>2 DEF Add
  <2> QED BY <1>2, <2>2, <2>3 DEF Add, reporter, drain, filing, world, Filed
<1>3. ASSUME NEW c \in Conns, Track(c) PROVE u \in recorded' <=> Holds(u)'
  BY <1>3 DEF Track, reporter, drain, filing, world, Filed
<1>4. ASSUME NEW c \in Conns, Carry(c) PROVE u \in recorded' <=> Holds(u)'
  <2>1. carried \in [Conns -> SUBSET Units]
    BY DEF Typed, TypeOK, MeterOK
  <2>2. InConn(u)' <=> InConn(u) \/ u = New(Units \ Requests)
    BY <1>4, <2>1 DEF Carry
  <2> QED BY <1>4, <2>2 DEF Carry, reporter, drain, filing, Filed
<1>5. ASSUME NEW c \in Conns, Untrack(c) PROVE u \in recorded' <=> Holds(u)'
  <2>1. carried \in [Conns -> SUBSET Units]
    BY DEF Typed, TypeOK, MeterOK
  <2>2. InConn(u)' \/ u \in carried[c] <=> InConn(u)
    BY <1>5, <2>1 DEF Untrack
  <2>3. (\E y \in adding' : u \in y.units) <=> In(u, adding) \/ u \in carried[c]
    <3>1. CASE carried[c] = {}
      BY <1>5, <3>1 DEF Untrack
    <3>2. CASE carried[c] # {}
      <4> DEFINE y == [minute |-> minute, workload |-> Owner[c], units |-> carried[c]]
      <4>1. adding' = adding \cup {y} /\ y.units = carried[c]
        BY <1>5, <3>2 DEF Untrack
      <4> HIDE DEF y
      <4> QED BY <4>1
    <3> QED BY <3>1, <3>2
  <2> QED BY <1>5, <2>2, <2>3 DEF Untrack, reporter, drain, filing, world, Filed
<1>6. ASSUME Wake \/ Flush PROVE u \in recorded' <=> Holds(u)'
  BY <1>6 DEF Wake, Flush, meter, filing, world, Filed
<1>7. ASSUME DrainConns PROVE u \in recorded' <=> Holds(u)'
  <2>1. InBucket(u)' \/ InConn(u)' <=> InBucket(u) \/ InConn(u)
    <3> DEFINE m == IF Final THEN minute ELSE minute - 1
    <3>0. m \in Minutes
      BY MeteringAssumption DEF Typed, TypeOK, WorldOK, Minutes
    <3>1.
            buckets' = [k \in Minutes \X Workloads |->
                IF k[1] = m
                THEN buckets[k] \cup
                     UNION {carried[c] : c \in {e \in Conns : conn[e] = "live" /\ Owner[e] = k[2]}}
                ELSE buckets[k]]
      BY <1>7 DEF DrainConns
    <3> HIDE DEF m
    <3>2. carried' = [c \in Conns |-> IF conn[c] = "live" THEN {} ELSE carried[c]]
      BY <1>7 DEF DrainConns
    <3>3. ASSUME NEW c \in Conns, u \in carried[c], conn[c] = "live" PROVE InBucket(u)'
      <4>1. <<m, Owner[c]>> \in Minutes \X Workloads
        BY <3>0, MeteringAssumption
      <4>2. u \in buckets'[<<m, Owner[c]>>]
        BY <3>1, <3>3, <4>1
      <4> QED BY <4>1, <4>2
    <3> QED BY <3>1, <3>2, <3>3
  <2> QED BY <1>7, <2>1 DEF DrainConns, filing, world, Filed
<1>8. ASSUME NEW w \in Workloads, DrainShard(w) PROVE u \in recorded' <=> Holds(u)'
  <2>1. InBucket(u)' \/ In(u, drained)' <=> InBucket(u) \/ In(u, drained)
    <3>1. \A b \in drained' : u \in b.units => In(u, drained) \/ InBucket(u)
      <4>1. \A b \in drained' : b \in drained \/ \E m \in Minutes :
              b = [minute |-> m, workload |-> w, units |-> buckets[<<m, w>>]]
        BY <1>8 DEF DrainShard
      <4>2. \A m \in Minutes : <<m, w>> \in Minutes \X Workloads
        OBVIOUS
      <4> SUFFICES ASSUME NEW b \in drained', u \in b.units, b \notin drained
                   PROVE  InBucket(u)
        OBVIOUS
      <4>3. PICK m \in Minutes : b = [minute |-> m, workload |-> w, units |-> buckets[<<m, w>>]]
        BY <4>1
      <4>4. u \in buckets[<<m, w>>]
        BY <4>3
      <4> QED BY <4>2, <4>4
    <3>2. \A b \in drained : b \in drained'
      BY <1>8 DEF DrainShard
    <3>3. InBucket(u)' => InBucket(u)
      BY <1>8 DEF DrainShard
    <3>4. ASSUME NEW k \in Minutes \X Workloads, u \in buckets[k], ~InBucket(u)'
          PROVE  In(u, drained)'
      <4>1. k[2] = w /\ k[1] < limit /\ k[1] \in Minutes /\ k = <<k[1], w>>
        BY <1>8, <3>4 DEF DrainShard
      <4>2. [minute |-> k[1], workload |-> w, units |-> buckets[k]] \in drained'
        BY <1>8, <3>4, <4>1 DEF DrainShard
      <4> QED BY <3>4, <4>2
    <3> QED BY <3>1, <3>2, <3>3, <3>4
  <2> QED BY <1>8, <2>1 DEF DrainShard, filing, world, Filed
<1>9. ASSUME CollectOff PROVE u \in recorded' <=> Holds(u)'
  BY <1>9 DEF CollectOff, meter, world, Filed
<1>10. ASSUME Collect PROVE u \in recorded' <=> Holds(u)'
  <2>1. In(u, Filed)' <=> In(u, Filed) \/ In(u, drained)
    <3>1. PICK order \in [1..Cardinality(drained) -> drained] :
            /\ \A b \in drained : \E i \in DOMAIN order : order[i] = b
            /\ Filed' = Filed \cup {Aggregate(order[i], i) : i \in DOMAIN order}
      BY <1>10, CollectFiles
    <3> DEFINE filed == {Aggregate(order[i], i) : i \in DOMAIN order}
    <3>2. (\E a \in filed : u \in a.units) <=> In(u, drained)
      <4>1. \A i \in DOMAIN order : Aggregate(order[i], i).units = order[i].units
        BY DEF Aggregate
      <4>2. \A i \in DOMAIN order : order[i] \in drained
        OBVIOUS
      <4>3. ASSUME NEW b \in drained, u \in b.units PROVE \E a \in filed : u \in a.units
        <5>1. PICK i \in DOMAIN order : order[i] = b
          BY <3>1
        <5>2. Aggregate(order[i], i) \in filed /\ u \in Aggregate(order[i], i).units
          BY <4>1, <4>3, <5>1
        <5> QED BY <5>2
      <4>4. ASSUME NEW a \in filed, u \in a.units PROVE In(u, drained)
        <5>1. PICK i \in DOMAIN order : a = Aggregate(order[i], i)
          OBVIOUS
        <5> QED BY <4>1, <4>2, <4>4, <5>1
      <4> QED BY <4>3, <4>4
    <3>3. Filed' = Filed \cup filed
      BY <3>1
    <3> HIDE DEF filed
    <3> QED BY <3>2, <3>3
  <2> QED BY <1>10, <2>1 DEF Collect, meter, world
<1>11. ASSUME SendBegin \/ SendEnd PROVE u \in recorded' <=> Holds(u)'
  BY <1>11 DEF SendBegin, SendEnd, meter, drain, filing, world, Filed
<1>12. ASSUME Posted \/ Refused \/ PostFailed PROVE u \in recorded' <=> Holds(u)'
  <2>1. Filed' = Filed
    BY <1>12, SendFiles
  <2>2. UNCHANGED <<recorded, adding, carried, buckets, drained, discarded>>
    BY <1>12 DEF Posted, Refused, PostFailed, meter, drain, filing, world
  <2> QED BY <2>1, <2>2
<1>13. ASSUME Tick \/ RetryDue \/ SetTarget \/ Shutdown \/ UNCHANGED vars
       PROVE  u \in recorded' <=> Holds(u)'
  <2>1. UNCHANGED <<recorded, adding, carried, buckets, drained, discarded, outbox, sent, dropped>>
    BY <1>13 DEF Tick, RetryDue, SetTarget, Shutdown, vars, meter, reporter, drain, filing, world
  <2> QED BY <2>1 DEF Filed
<1> HIDE DEF Holds
<1> QED BY <1>1, <1>2, <1>3, <1>4, <1>5, <1>6, <1>7, <1>8, <1>9, <1>10, <1>11, <1>12, <1>13
        DEF Next, Loop, Answered

LEMMA LostStep == Typed /\ NothingLost /\ [Next]_vars => NothingLost'
<1> SUFFICES ASSUME Typed, NothingLost, [Next]_vars, NEW u
             PROVE  u \in recorded' <=> u \in Kept'
  BY DEF NothingLost
<1>1. u \in recorded <=> Holds(u)
  BY KeptIsHeld DEF KeptHeld, NothingLost
<1>2. u \in recorded' <=> Holds(u)'
  BY <1>1, HoldsStep
<1>3. KeptHeld'
  BY KeptIsHeld, PTL
<1> QED BY <1>2, <1>3 DEF KeptHeld

LEMMA LostInit == Init => NothingLost
<1> SUFFICES ASSUME Init, NEW u PROVE ~(u \in Kept)
  BY DEF NothingLost, Init
<1>1. Filed = {}
  BY DEF Init, Filed, Range
<1>2. ~Holds(u)
  BY <1>1 DEF Init, Holds, In, InConn, InBucket
<1> QED BY <1>2, KeptIsHeld DEF KeptHeld

\* All traffic recorded is in the meter's or the reporter's books: no order of
\* records, drains, closing connections, failed sends and shutdown loses any.
THEOREM Conservation == Spec => []NothingLost
BY TypeInit, TypeStep, LostInit, LostStep, PTL DEF Spec
---------------------------------------------------------------------------
\* Nothing is billed twice.

\* A unit passes from place to place and is never in two.
LEMMA OnceStep ==
    ASSUME Typed, [Next]_vars, NEW u, u \in recorded <=> Holds(u), Once(u)
    PROVE  Once(u)'
<1> USE DEF Once, OnceEach, OnePlace, In, InConn, InBucket
<1>1. ASSUME NEW w \in Workloads, Finish(w) PROVE Once(u)'
  <2>1. PICK y : adding' = adding \cup {y} /\ y.units = {New(Requests)}
    <3> DEFINE y == [minute |-> minute, workload |-> w, units |-> {New(Requests)}]
    <3>1. adding' = adding \cup {y} /\ y.units = {New(Requests)}
      BY <1>1 DEF Finish
    <3> HIDE DEF y
    <3> QED BY <3>1
  <2>2. UNCHANGED <<carried, buckets, drained, outbox, sent, dropped>>
    BY <1>1 DEF Finish, reporter, drain, filing
  <2>3. u = New(Requests) => ~Holds(u)
    <3>1. \E v \in Requests : v \notin recorded
      BY <1>1 DEF Finish, Typed, TypeOK, WorldOK
    <3>2. New(Requests) \notin recorded
      BY <3>1 DEF New
    <3> QED BY <3>2
  <2>4. UNCHANGED Filed
    BY <2>2 DEF Filed
  <2> QED BY <2>1, <2>2, <2>3, <2>4 DEF Holds
<1>2. ASSUME NEW x \in adding, Add(x) PROVE Once(u)'
  <2>1. /\ <<x.minute, x.workload>> \in Minutes \X Workloads
        /\ buckets \in [Minutes \X Workloads -> SUBSET Units]
    BY DEF Typed, TypeOK, MeterOK, Counts
  <2>2. \A k \in Minutes \X Workloads :
          u \in buckets'[k] <=> u \in buckets[k] \/ (k = <<x.minute, x.workload>> /\ u \in x.units)
    BY <1>2, <2>1 DEF Add
  <2>3. adding' = adding \ {x} /\ UNCHANGED <<carried, drained, outbox, sent, dropped>>
    BY <1>2 DEF Add, reporter, drain, filing
  <2>4. UNCHANGED Filed
    BY <2>3 DEF Filed
  <2> QED BY <2>2, <2>3, <2>4
<1>3. ASSUME NEW c \in Conns, Track(c) PROVE Once(u)'
  BY <1>3 DEF Track, reporter, drain, filing, world, Filed
<1>4. ASSUME NEW c \in Conns, Carry(c) PROVE Once(u)'
  <2>1. \A d \in Conns : u \in carried'[d] <=> u \in carried[d] \/ (d = c /\ u = New(Units \ Requests))
    BY <1>4 DEF Carry, Typed, TypeOK, MeterOK
  <2>2. UNCHANGED <<adding, buckets, drained, outbox, sent, dropped>>
    BY <1>4 DEF Carry, reporter, drain, filing
  <2>3. u = New(Units \ Requests) => ~Holds(u)
    <3>1. \E v \in Units \ Requests : v \notin recorded
      BY <1>4 DEF Carry, Typed, TypeOK, WorldOK
    <3>2. New(Units \ Requests) \notin recorded
      BY <3>1 DEF New
    <3> QED BY <3>2
  <2>4. UNCHANGED Filed
    BY <2>2 DEF Filed
  <2> QED BY <2>1, <2>2, <2>3, <2>4 DEF Holds
<1>5. ASSUME NEW c \in Conns, Untrack(c) PROVE Once(u)'
  <2>1. \A d \in Conns : u \in carried'[d] <=> u \in carried[d] /\ d # c
    BY <1>5 DEF Untrack, Typed, TypeOK, MeterOK
  <2>2. UNCHANGED <<buckets, drained, outbox, sent, dropped>>
    BY <1>5 DEF Untrack, reporter, drain, filing, world
  <2>3. UNCHANGED Filed
    BY <2>2 DEF Filed
  <2>4. CASE carried[c] = {}
    <3>1. adding' = adding
      BY <1>5, <2>4 DEF Untrack
    <3> QED BY <2>1, <2>2, <2>3, <3>1
  <2>5. CASE carried[c] # {}
    <3> DEFINE y == [minute |-> minute, workload |-> Owner[c], units |-> carried[c]]
    <3>1. adding' = adding \cup {y} /\ y.units = carried[c]
      BY <1>5, <2>5 DEF Untrack
    <3> HIDE DEF y
    <3> QED BY <2>1, <2>2, <2>3, <3>1
  <2> QED BY <2>4, <2>5
<1>6. ASSUME Wake \/ Flush PROVE Once(u)'
  BY <1>6 DEF Wake, Flush, meter, filing, world, Filed
<1>7. ASSUME DrainConns PROVE Once(u)'
  <2> DEFINE m == IF Final THEN minute ELSE minute - 1
             Moved(k) == k[1] = m /\ \E c \in Conns :
                            conn[c] = "live" /\ Owner[c] = k[2] /\ u \in carried[c]
  <2>1. m \in Minutes
    BY MeteringAssumption DEF Typed, TypeOK, WorldOK, Minutes
  <2>2. buckets' = [k \in Minutes \X Workloads |->
            IF k[1] = m
            THEN buckets[k] \cup
                 UNION {carried[c] : c \in {e \in Conns : conn[e] = "live" /\ Owner[e] = k[2]}}
            ELSE buckets[k]]
    BY <1>7 DEF DrainConns
  <2>3. \A c \in Conns : u \in carried'[c] <=> u \in carried[c] /\ conn[c] # "live"
    BY <1>7 DEF DrainConns
  <2>4. UNCHANGED <<adding, drained, outbox, sent, dropped>>
    BY <1>7 DEF DrainConns, filing
  <2>5. UNCHANGED Filed
    BY <2>4 DEF Filed
  <2> HIDE DEF m
  <2>6. \A k \in Minutes \X Workloads : u \in buckets'[k] <=> u \in buckets[k] \/ Moved(k)
    BY <2>2
  <2>7. \A k, l \in Minutes \X Workloads : Moved(k) /\ Moved(l) => k = l
    <3> SUFFICES ASSUME NEW k \in Minutes \X Workloads, NEW l \in Minutes \X Workloads,
                        Moved(k), Moved(l)
                 PROVE  k = l
      OBVIOUS
    <3>1. k[1] = l[1] /\ k[2] = l[2]
      OBVIOUS
    <3> QED BY <3>1
  <2>8. \A k \in Minutes \X Workloads :
          Moved(k) => \E c \in Conns : u \in carried[c] /\ conn[c] = "live"
    OBVIOUS
  <2> HIDE DEF Moved
  <2> QED BY <2>3, <2>4, <2>5, <2>6, <2>7, <2>8
<1>8. ASSUME NEW w \in Workloads, DrainShard(w) PROVE Once(u)'
  <2> DEFINE bucket(m) == [minute |-> m, workload |-> w, units |-> buckets[<<m, w>>]]
  <2>1. \A b \in drained' : b \in drained \/ \E m \in Minutes : m < limit /\ b = bucket(m)
    BY <1>8 DEF DrainShard
  <2>2. \A k \in Minutes \X Workloads :
          u \in buckets'[k] <=> u \in buckets[k] /\ ~(k[2] = w /\ k[1] < limit)
    BY <1>8 DEF DrainShard
  <2>3. UNCHANGED <<adding, carried, outbox, sent, dropped>>
    BY <1>8 DEF DrainShard, filing
  <2>4. UNCHANGED Filed
    BY <2>3 DEF Filed
  <2>5. \A m \in Minutes : <<m, w>> \in Minutes \X Workloads /\ bucket(m).units = buckets[<<m, w>>]
    OBVIOUS
  <2>6. \A b \in drained' : u \in b.units =>
          b \in drained \/ \E m \in Minutes : m < limit /\ b = bucket(m) /\ u \in buckets[<<m, w>>]
    BY <2>1, <2>5
  <2>7. \A m, n \in Minutes : u \in buckets[<<m, w>>] /\ u \in buckets[<<n, w>>] => m = n
    <3> SUFFICES ASSUME NEW m \in Minutes, NEW n \in Minutes,
                        u \in buckets[<<m, w>>], u \in buckets[<<n, w>>]
                 PROVE  m = n
      OBVIOUS
    <3>1. <<m, w>> = <<n, w>>
      BY <2>5
    <3> QED BY <3>1
  <2>8. ASSUME NEW m \in Minutes, m < limit, u \in buckets[<<m, w>>] PROVE ~InBucket(u)'
    <3> SUFFICES ASSUME NEW k \in Minutes \X Workloads, u \in buckets'[k] PROVE FALSE
      OBVIOUS
    <3>1. k = <<m, w>> /\ ~(k[2] = w /\ k[1] < limit)
      BY <2>2, <2>5, <2>8
    <3> QED BY <2>8, <3>1
  <2> HIDE DEF bucket
  <2>9. \A m \in Minutes : u \in buckets[<<m, w>>] => InBucket(u)
    BY <2>5
  <2>10. \A x, y \in drained' : u \in x.units /\ u \in y.units => x = y
    BY <2>6, <2>7, <2>9
  <2>11. InBucket(u)' => InBucket(u) /\ ~In(u, drained)'
    BY <2>2, <2>6, <2>8
  <2>12. In(u, drained)' => In(u, drained) \/ InBucket(u)
    BY <2>6, <2>9
  <2> QED BY <2>2, <2>3, <2>4, <2>10, <2>11, <2>12
<1>9. ASSUME CollectOff PROVE Once(u)'
  BY <1>9 DEF CollectOff, meter, world, Filed
<1>10. ASSUME Collect PROVE Once(u)'
  <2>1. PICK order \in [1..Cardinality(drained) -> drained] :
          /\ \A i, j \in DOMAIN order : order[i] = order[j] => i = j
          /\ Filed' = Filed \cup {Aggregate(order[i], i) : i \in DOMAIN order}
    BY <1>10, CollectFiles
  <2> DEFINE filed == {Aggregate(order[i], i) : i \in DOMAIN order}
  <2>2. \A a \in filed : u \in a.units =>
          \E i \in DOMAIN order : a = Aggregate(order[i], i) /\ u \in order[i].units
    BY DEF Aggregate
  <2>3. \A i \in DOMAIN order : order[i] \in drained
    OBVIOUS
  <2>4. drained' = {} /\ UNCHANGED <<adding, carried, buckets>>
    BY <1>10 DEF Collect, meter
  <2>5. Filed' = Filed \cup filed
    BY <2>1
  <2> HIDE DEF filed
  <2>6. \A a, b \in filed : u \in a.units /\ u \in b.units => a = b
    BY <2>1, <2>2, <2>3
  <2>7. \A a \in filed : u \in a.units => In(u, drained)
    BY <2>2, <2>3
  <2> QED BY <2>4, <2>5, <2>6, <2>7
<1>11. ASSUME SendBegin \/ SendEnd PROVE Once(u)'
  BY <1>11 DEF SendBegin, SendEnd, meter, drain, filing, world, Filed
<1>12. ASSUME Posted \/ Refused \/ PostFailed PROVE Once(u)'
  <2>1. Filed' = Filed
    BY <1>12, SendFiles
  <2>2. UNCHANGED <<adding, carried, buckets, drained>>
    BY <1>12 DEF Posted, Refused, PostFailed, meter, drain
  <2> QED BY <2>1, <2>2
<1>13. ASSUME Tick \/ RetryDue \/ SetTarget \/ Shutdown \/ UNCHANGED vars PROVE Once(u)'
  <2>1. UNCHANGED <<adding, carried, buckets, drained, outbox, sent, dropped>>
    BY <1>13 DEF Tick, RetryDue, SetTarget, Shutdown, vars, meter, reporter, drain, filing
  <2> QED BY <2>1 DEF Filed
<1> HIDE DEF Once
<1> QED BY <1>1, <1>2, <1>3, <1>4, <1>5, <1>6, <1>7, <1>8, <1>9, <1>10, <1>11, <1>12, <1>13
        DEF Next, Loop, Answered

\* Whatever the website took is on file, and ids on file are never given again.
LEMMA BillableStep == Typed /\ Billable /\ [Next]_vars => Billable'
<1> SUFFICES ASSUME Typed, Billable, [Next]_vars PROVE Billable'
  OBVIOUS
<1>1. Range(Batch) \subseteq Filed
  BY BatchAndRest DEF Filed
<1>2. ASSUME Collect PROVE Billable'
  <2>1. PICK order \in [1..Cardinality(drained) -> drained] :
          Filed' = Filed \cup {Aggregate(order[i], i) : i \in DOMAIN order}
    BY <1>2, CollectFiles
  <2>2. accepted' = accepted /\ ids' = ids + Cardinality(drained)
    BY <1>2 DEF Collect, world
  <2>3. ids \in Nat /\ Cardinality(drained) \in Nat /\ \A a \in Filed : a.id \in Nat
    BY FS_CardinalityType, OutboxAggregates DEF Typed, TypeOK, FilingOK, Aggregates
  <2>4. \A i \in DOMAIN order : i \in 1..Cardinality(drained) /\ Aggregate(order[i], i).id = ids + i
    BY DEF Aggregate
  <2>5. \A a \in Filed' : a \in Filed \/ \E i \in DOMAIN order : a = Aggregate(order[i], i)
    BY <2>1
  <2>6. \A a \in Filed' : a.id <= ids'
    <3> SUFFICES ASSUME NEW a \in Filed' PROVE a.id <= ids'
      OBVIOUS
    <3>1. CASE a \in Filed
      BY <2>2, <2>3, <3>1 DEF Billable
    <3>2. CASE \E i \in DOMAIN order : a = Aggregate(order[i], i)
      BY <2>2, <2>3, <2>4, <3>2
    <3> QED BY <2>5, <3>1, <3>2
  <2>7. ASSUME NEW a \in Filed', NEW b \in Filed', a.id = b.id PROVE a = b
    <3>1. CASE a \in Filed /\ b \in Filed
      BY <2>7, <3>1 DEF Billable
    <3>2. ASSUME NEW i \in DOMAIN order, a = Aggregate(order[i], i), b \in Filed PROVE a = b
      BY <2>3, <2>4, <2>7, <3>2 DEF Billable
    <3>3. ASSUME NEW j \in DOMAIN order, b = Aggregate(order[j], j), a \in Filed PROVE a = b
      BY <2>3, <2>4, <2>7, <3>3 DEF Billable
    <3>4. ASSUME NEW i \in DOMAIN order, NEW j \in DOMAIN order,
                 a = Aggregate(order[i], i), b = Aggregate(order[j], j)
          PROVE  a = b
      <4>1. i = j
        BY <2>3, <2>4, <2>7, <3>4
      <4> QED BY <3>4, <4>1
    <3> QED BY <2>5, <3>1, <3>2, <3>3, <3>4
  <2>8. accepted' \subseteq Filed'
    BY <2>1, <2>2 DEF Billable
  <2> QED BY <2>6, <2>7, <2>8 DEF Billable
<1>3. ASSUME Posted \/ Refused \/ PostFailed PROVE Billable'
  <2>1. Filed' = Filed
    BY <1>3, SendFiles
  <2>2. ids' = ids /\ accepted' \subseteq accepted \cup Range(Batch)
    BY <1>3 DEF Posted, Refused, PostFailed, filing, world
  <2> QED BY <1>1, <2>1, <2>2 DEF Billable
<1>4. ASSUME UNCHANGED <<filing, accepted>> PROVE Billable'
  BY <1>4 DEF filing, Filed, Billable
<1>5. ASSUME CollectOff PROVE Billable'
  BY <1>5 DEF CollectOff, world, Filed, Billable
<1>6. Collect \/ Posted \/ Refused \/ PostFailed \/ CollectOff \/ UNCHANGED <<filing, accepted>>
  BY DEF Next, Loop, Answered, Finish, Add, Track, Carry, Untrack, Wake, Flush, DrainConns,
         DrainShard, SendBegin, SendEnd, Tick, RetryDue, SetTarget, Shutdown,
         vars, reporter, world
<1> QED BY <1>2, <1>3, <1>4, <1>5, <1>6

BooksRight == Typed /\ NothingLost /\ Billable /\ \A u : Once(u)

LEMMA BooksStep == BooksRight /\ [Next]_vars => BooksRight'
<1> SUFFICES ASSUME BooksRight, [Next]_vars PROVE BooksRight'
  OBVIOUS
<1>1. Typed' /\ NothingLost' /\ Billable'
  BY TypeStep, LostStep, BillableStep DEF BooksRight
<1>2. ASSUME NEW u PROVE Once(u)'
  <2>1. u \in recorded <=> Holds(u)
    BY KeptIsHeld DEF BooksRight, KeptHeld, NothingLost
  <2> QED BY <2>1, OnceStep DEF BooksRight
<1> QED BY <1>1, <1>2 DEF BooksRight

LEMMA BooksInit == Init => BooksRight
<1> SUFFICES ASSUME Init PROVE BooksRight
  OBVIOUS
<1>1. Filed = {}
  BY DEF Init, Filed, Range
<1>2. Billable
  BY <1>1 DEF Init, Billable
<1>3. ASSUME NEW u PROVE Once(u)
  BY <1>1 DEF Init, Once, OnceEach, OnePlace, In, InConn, InBucket
<1> QED BY <1>2, <1>3, TypeInit, LostInit DEF BooksRight

\* No traffic is in two of the aggregates the website took, and no two have the
\* same id, however often a batch is sent again after its answer was lost.
THEOREM Billing == Spec => []BilledOnce
<1>1. Spec => []BooksRight
  BY BooksInit, BooksStep, PTL DEF Spec
<1>2. BooksRight => BilledOnce
  BY DEF BooksRight, Billable, BilledOnce, Once, OnceEach
<1> QED BY <1>1, <1>2, PTL
---------------------------------------------------------------------------
\* Requests are billed for their minute, once that is over.

\* A request's unit is only in places of its minute and its workload: never in a
\* connection's counter, whose bytes take the minute they are drained in.
Placed(u, m, w) ==
    /\ ~InConn(u)
    /\ \A x \in adding \cup drained \cup Filed : u \in x.units => x.minute = m /\ x.workload = w
    /\ \A k \in Minutes \X Workloads : u \in buckets[k] => k = <<m, w>>

FinishedPlaced ==
    \A f \in finished : \E u \in recorded : f.units = {u} /\ Placed(u, f.minute, f.workload)

\* Drain's limit is not after the minute the reporter woke in.
Over ==
    /\ \A x \in drained \cup Filed : x.minute < minute \/ Final
    /\ limit <= minute \/ Final
    /\ Final => at # "sleep"

LEMMA PlacedStep ==
    ASSUME Typed, [Next]_vars, NEW u \in recorded, NEW m, NEW n, Placed(u, m, n)
    PROVE  Placed(u, m, n)'
<1> USE DEF Placed, InConn
<1>1. ASSUME NEW w \in Workloads, Finish(w) PROVE Placed(u, m, n)'
  <2>1. PICK y : adding' = adding \cup {y} /\ y.units = {New(Requests)}
    <3> DEFINE y == [minute |-> minute, workload |-> w, units |-> {New(Requests)}]
    <3>1. adding' = adding \cup {y} /\ y.units = {New(Requests)}
      BY <1>1 DEF Finish
    <3> HIDE DEF y
    <3> QED BY <3>1
  <2>2. UNCHANGED <<carried, buckets, drained, outbox, sent, dropped>>
    BY <1>1 DEF Finish, reporter, drain, filing
  <2>3. u # New(Requests)
    <3>1. \E v \in Requests : v \notin recorded
      BY <1>1 DEF Finish, Typed, TypeOK, WorldOK
    <3> QED BY <3>1 DEF New
  <2>4. UNCHANGED Filed
    BY <2>2 DEF Filed
  <2> QED BY <2>1, <2>2, <2>3, <2>4
<1>2. ASSUME NEW x \in adding, Add(x) PROVE Placed(u, m, n)'
  <2>1. /\ <<x.minute, x.workload>> \in Minutes \X Workloads
        /\ buckets \in [Minutes \X Workloads -> SUBSET Units]
    BY DEF Typed, TypeOK, MeterOK, Counts
  <2>2. \A k \in Minutes \X Workloads :
          u \in buckets'[k] <=> u \in buckets[k] \/ (k = <<x.minute, x.workload>> /\ u \in x.units)
    BY <1>2, <2>1 DEF Add
  <2>3. adding' = adding \ {x} /\ UNCHANGED <<carried, drained, outbox, sent, dropped>>
    BY <1>2 DEF Add, reporter, drain, filing
  <2>4. UNCHANGED Filed
    BY <2>3 DEF Filed
  <2> QED BY <2>2, <2>3, <2>4
<1>3. ASSUME NEW c \in Conns, Carry(c) PROVE Placed(u, m, n)'
  <2>1. \A d \in Conns : u \in carried'[d] <=>
          u \in carried[d] \/ (d = c /\ u = New(Units \ Requests))
    BY <1>3 DEF Carry, Typed, TypeOK, MeterOK
  <2>2. UNCHANGED <<adding, buckets, drained, outbox, sent, dropped>>
    BY <1>3 DEF Carry, reporter, drain, filing
  <2>3. u # New(Units \ Requests)
    <3>1. \E v \in Units \ Requests : v \notin recorded
      BY <1>3 DEF Carry, Typed, TypeOK, WorldOK
    <3> QED BY <3>1 DEF New
  <2>4. UNCHANGED Filed
    BY <2>2 DEF Filed
  <2> QED BY <2>1, <2>2, <2>3, <2>4
<1>4. ASSUME NEW c \in Conns, Untrack(c) PROVE Placed(u, m, n)'
  <2>1. \A d \in Conns : u \in carried'[d] => u \in carried[d]
    BY <1>4 DEF Untrack, Typed, TypeOK, MeterOK
  <2>2. UNCHANGED <<buckets, drained, outbox, sent, dropped>>
    BY <1>4 DEF Untrack, reporter, drain, filing, world
  <2>3. UNCHANGED Filed
    BY <2>2 DEF Filed
  <2>4. CASE carried[c] = {}
    <3>1. adding' = adding
      BY <1>4, <2>4 DEF Untrack
    <3> QED BY <2>1, <2>2, <2>3, <3>1
  <2>5. CASE carried[c] # {}
    <3> DEFINE y == [minute |-> minute, workload |-> Owner[c], units |-> carried[c]]
    <3>1. adding' = adding \cup {y} /\ y.units = carried[c]
      BY <1>4, <2>5 DEF Untrack
    <3> HIDE DEF y
    <3> QED BY <2>1, <2>2, <2>3, <3>1
  <2> QED BY <2>4, <2>5
<1>5. ASSUME DrainConns PROVE Placed(u, m, n)'
  <2> DEFINE t == IF Final THEN minute ELSE minute - 1
  <2>1. buckets' = [k \in Minutes \X Workloads |->
            IF k[1] = t
            THEN buckets[k] \cup
                 UNION {carried[c] : c \in {e \in Conns : conn[e] = "live" /\ Owner[e] = k[2]}}
            ELSE buckets[k]]
    BY <1>5 DEF DrainConns
  <2> HIDE DEF t
  <2>2. \A c \in Conns : u \in carried'[c] => u \in carried[c]
    BY <1>5 DEF DrainConns
  <2>3. UNCHANGED <<adding, drained, outbox, sent, dropped>>
    BY <1>5 DEF DrainConns, filing
  <2>4. UNCHANGED Filed
    BY <2>3 DEF Filed
  <2>5. \A k \in Minutes \X Workloads : u \in buckets'[k] => u \in buckets[k]
    BY <2>1
  <2> QED BY <2>2, <2>3, <2>4, <2>5
<1>6. ASSUME NEW w \in Workloads, DrainShard(w) PROVE Placed(u, m, n)'
  <2> DEFINE bucket(t) == [minute |-> t, workload |-> w, units |-> buckets[<<t, w>>]]
  <2>1. \A b \in drained' : b \in drained \/ \E t \in Minutes : b = bucket(t)
    BY <1>6 DEF DrainShard
  <2>2. \A k \in Minutes \X Workloads : u \in buckets'[k] => u \in buckets[k]
    BY <1>6 DEF DrainShard
  <2>3. UNCHANGED <<adding, carried, outbox, sent, dropped>>
    BY <1>6 DEF DrainShard, filing
  <2>4. UNCHANGED Filed
    BY <2>3 DEF Filed
  <2>5. \A t \in Minutes : u \in bucket(t).units => bucket(t).minute = m /\ bucket(t).workload = n
    <3> SUFFICES ASSUME NEW t \in Minutes, u \in buckets[<<t, w>>] PROVE t = m /\ w = n
      OBVIOUS
    <3>1. <<t, w>> \in Minutes \X Workloads
      OBVIOUS
    <3>2. <<t, w>> = <<m, n>>
      BY <3>1
    <3> QED BY <3>2
  <2> HIDE DEF bucket
  <2>6. \A b \in drained' : u \in b.units => b.minute = m /\ b.workload = n
    BY <2>1, <2>5
  <2> QED BY <2>2, <2>3, <2>4, <2>6
<1>7. ASSUME CollectOff PROVE Placed(u, m, n)'
  BY <1>7 DEF CollectOff, meter, world, Filed
<1>8. ASSUME Collect PROVE Placed(u, m, n)'
  <2>1. PICK order \in [1..Cardinality(drained) -> drained] :
          Filed' = Filed \cup {Aggregate(order[i], i) : i \in DOMAIN order}
    BY <1>8, CollectFiles
  <2>2. drained' = {} /\ UNCHANGED <<adding, carried, buckets>>
    BY <1>8 DEF Collect, meter
  <2>3. \A i \in DOMAIN order :
          /\ order[i] \in drained
          /\ Aggregate(order[i], i).units = order[i].units
          /\ Aggregate(order[i], i).minute = order[i].minute
          /\ Aggregate(order[i], i).workload = order[i].workload
    BY DEF Aggregate
  <2>4. \A a \in Filed' : a \in Filed \/ \E i \in DOMAIN order : a = Aggregate(order[i], i)
    BY <2>1
  <2>5. \A a \in Filed' : u \in a.units => a.minute = m /\ a.workload = n
    <3> SUFFICES ASSUME NEW a \in Filed', u \in a.units, a \notin Filed
                 PROVE  a.minute = m /\ a.workload = n
      OBVIOUS
    <3>1. PICK i \in DOMAIN order : a = Aggregate(order[i], i)
      BY <2>4
    <3> QED BY <2>3, <3>1
  <2> QED BY <2>2, <2>5
<1>9. ASSUME Posted \/ Refused \/ PostFailed PROVE Placed(u, m, n)'
  <2>1. Filed' = Filed
    BY <1>9, SendFiles
  <2>2. UNCHANGED <<adding, carried, buckets, drained>>
    BY <1>9 DEF Posted, Refused, PostFailed, meter, drain
  <2> QED BY <2>1, <2>2
<1>10. ASSUME UNCHANGED <<adding, carried, buckets, drained, outbox, sent, dropped>>
       PROVE  Placed(u, m, n)'
  BY <1>10 DEF Filed
<1>11. ASSUME \/ \E c \in Conns : Track(c)
              \/ Wake \/ Flush \/ SendBegin \/ SendEnd
              \/ Tick \/ RetryDue \/ SetTarget \/ Shutdown \/ UNCHANGED vars
       PROVE  UNCHANGED <<adding, carried, buckets, drained, outbox, sent, dropped>>
  BY <1>11 DEF Track, Wake, Flush, SendBegin, SendEnd, Tick, RetryDue, SetTarget, Shutdown,
               vars, meter, reporter, drain, filing, world
<1> HIDE DEF Placed
<1> QED BY <1>1, <1>2, <1>3, <1>4, <1>5, <1>6, <1>7, <1>8, <1>9, <1>10, <1>11
        DEF Next, Loop, Answered

\* A request enters the books at its minute.
LEMMA FinishedStep ==
    ASSUME Typed, NothingLost, FinishedPlaced, [Next]_vars
    PROVE  FinishedPlaced'
<1>1. recorded \subseteq recorded'
  BY DEF Next, Loop, Answered, Finish, Add, Track, Carry, Untrack, Wake, Flush, DrainConns,
         DrainShard, CollectOff, Collect, SendBegin, SendEnd, PostFailed, Posted, Refused,
         Tick, RetryDue, SetTarget, Shutdown, vars, reporter, world
<1>2. \A f \in finished : \E u \in recorded' : f.units = {u} /\ Placed(u, f.minute, f.workload)'
  <2> SUFFICES ASSUME NEW f \in finished
               PROVE  \E u \in recorded' : f.units = {u} /\ Placed(u, f.minute, f.workload)'
    OBVIOUS
  <2>1. PICK u \in recorded : f.units = {u} /\ Placed(u, f.minute, f.workload)
    BY DEF FinishedPlaced
  <2>2. PICK m, n : m = f.minute /\ n = f.workload
    OBVIOUS
  <2>3. Placed(u, m, n)'
    BY <2>1, <2>2, PlacedStep
  <2> QED BY <1>1, <2>1, <2>2, <2>3
<1>3. ASSUME NEW w \in Workloads, Finish(w) PROVE FinishedPlaced'
  <2>1. PICK u, y : /\ u = New(Requests) /\ y = [minute |-> minute, workload |-> w, units |-> {u}]
                    /\ adding' = adding \cup {y} /\ finished' = finished \cup {y}
                    /\ recorded' = recorded \cup {u}
    BY <1>3 DEF Finish
  <2>2. u \notin recorded
    <3>1. \E v \in Requests : v \notin recorded
      BY <1>3 DEF Finish
    <3> QED BY <2>1, <3>1 DEF New
  <2>3. ~Holds(u)
    BY <2>2, KeptIsHeld DEF KeptHeld, NothingLost
  <2>4. UNCHANGED <<carried, buckets, drained, outbox, sent, dropped>>
    BY <1>3 DEF Finish, reporter, drain, filing
  <2>5. UNCHANGED Filed
    BY <2>4 DEF Filed
  <2>6. PICK m, n : m = y.minute /\ n = y.workload
    OBVIOUS
  <2>7. Placed(u, m, n)'
    BY <2>1, <2>3, <2>4, <2>5, <2>6 DEF Placed, Holds, In, InConn, InBucket
  <2>8. \E v \in recorded' : y.units = {v} /\ Placed(v, y.minute, y.workload)'
    BY <2>1, <2>6, <2>7
  <2> QED BY <1>2, <2>1, <2>8 DEF FinishedPlaced
<1>4. ASSUME UNCHANGED finished PROVE FinishedPlaced'
  BY <1>2, <1>4 DEF FinishedPlaced
<1>5. (\E w \in Workloads : Finish(w)) \/ UNCHANGED finished
  BY DEF Next, Loop, Answered, Add, Track, Carry, Untrack, Wake, Flush, DrainConns,
         DrainShard, CollectOff, Collect, SendBegin, SendEnd, PostFailed, Posted, Refused,
         Tick, RetryDue, SetTarget, Shutdown, vars, world
<1> QED BY <1>3, <1>4, <1>5

\* Only minutes that are over are drained, and time does not go back.
LEMMA OverStep ==
    ASSUME Typed, Over, [Next]_vars
    PROVE  Over'
<1>0. /\ minute \in Int /\ LastMinute \in Int /\ minute <= LastMinute /\ limit \in Int
      /\ \A x \in drained \cup Filed : x.minute \in Int
  BY OutboxAggregates, MeteringAssumption
     DEF Typed, TypeOK, WorldOK, DrainOK, Aggregates, Counts, Minutes
<1>1. ASSUME Wake PROVE Over'
  <2>1. limit' = minute /\ minute' = minute /\ at' = "conns" /\ UNCHANGED <<drained, filing>>
    BY <1>1 DEF Wake, world
  <2>2. Filed' = Filed /\ ~Final /\ ~Final'
    BY <1>0, <1>1, <2>1 DEF Over, Wake, Filed, filing, Final
  <2> QED BY <1>0, <2>1, <2>2 DEF Over
<1>2. ASSUME Flush PROVE Over'
  BY <1>2 DEF Flush, Over, Final
<1>3. ASSUME NEW w \in Workloads, DrainShard(w) PROVE Over'
  <2>1. \A b \in drained' : b \in drained \/ (b.minute \in Minutes /\ b.minute < limit)
    <3>1. \A b \in drained' : b \in drained \/ \E m \in Minutes :
            m < limit /\ b = [minute |-> m, workload |-> w, units |-> buckets[<<m, w>>]]
      BY <1>3 DEF DrainShard
    <3> SUFFICES ASSUME NEW b \in drained', b \notin drained
                 PROVE  b.minute \in Minutes /\ b.minute < limit
      OBVIOUS
    <3>2. PICK m \in Minutes :
            m < limit /\ b = [minute |-> m, workload |-> w, units |-> buckets[<<m, w>>]]
      BY <3>1
    <3>3. b.minute = m
      BY <3>2
    <3> QED BY <3>2, <3>3
  <2>2. /\ at = "shards" /\ at' \in {"shards", "collect"}
        /\ UNCHANGED <<limit, minute, outbox, sent, dropped>>
    BY <1>3 DEF DrainShard, filing, world
  <2>3. Filed' = Filed /\ Final' = Final
    BY <2>2 DEF Filed, Final
  <2>4. \A b \in drained' : b.minute < minute \/ Final
    <3> SUFFICES ASSUME NEW b \in drained' PROVE b.minute < minute \/ Final
      OBVIOUS
    <3>1. CASE b \in drained
      BY <3>1 DEF Over
    <3>2. CASE b.minute \in Minutes /\ b.minute < limit
      <4>1. b.minute \in Int
        BY <3>2 DEF Minutes
      <4> QED BY <1>0, <3>2, <4>1 DEF Over
    <3> QED BY <2>1, <3>1, <3>2
  <2> QED BY <2>2, <2>3, <2>4 DEF Over
<1>4. ASSUME Collect PROVE Over'
  <2>1. PICK order \in [1..Cardinality(drained) -> drained] :
          Filed' = Filed \cup {Aggregate(order[i], i) : i \in DOMAIN order}
    BY <1>4, CollectFiles
  <2>2. drained' = {} /\ at' = "begin" /\ UNCHANGED <<limit, minute>>
    BY <1>4 DEF Collect, world
  <2>3. Final' = Final
    BY <2>2 DEF Final
  <2>4. \A i \in DOMAIN order :
          order[i] \in drained /\ Aggregate(order[i], i).minute = order[i].minute
    BY DEF Aggregate
  <2>5. \A a \in Filed' : a \in Filed \/ \E i \in DOMAIN order : a = Aggregate(order[i], i)
    BY <2>1
  <2>6. \A a \in Filed' : a.minute < minute \/ Final
    <3> SUFFICES ASSUME NEW a \in Filed', a \notin Filed PROVE a.minute < minute \/ Final
      BY DEF Over
    <3>1. PICK i \in DOMAIN order : a = Aggregate(order[i], i)
      BY <2>5
    <3>2. a.minute = order[i].minute /\ order[i] \in drained
      BY <2>4, <3>1
    <3> QED BY <3>2 DEF Over
  <2> QED BY <2>2, <2>3, <2>6 DEF Over
<1>5. ASSUME Posted \/ Refused \/ PostFailed PROVE Over'
  <2>1. Filed' = Filed
    BY <1>5, SendFiles
  <2>2. /\ UNCHANGED <<drained, limit, minute>>
        /\ at' = at \/ at' = Asleep
    BY <1>5 DEF Posted, Refused, PostFailed, drain, filing, world
  <2>3. Final' = Final /\ (Final => at' # "sleep")
    BY <2>2 DEF Final, Asleep, Over
  <2> QED BY <2>1, <2>2, <2>3 DEF Over
<1>6. ASSUME SendBegin \/ SendEnd \/ DrainConns \/ CollectOff PROVE Over'
  <2>1. /\ drained' \subseteq drained /\ UNCHANGED <<limit, minute, outbox, sent, dropped>>
        /\ at' # "sleep" \/ at' = Asleep
    BY <1>6 DEF SendBegin, SendEnd, DrainConns, CollectOff, drain, filing, world
  <2>2. Final' = Final /\ Filed' = Filed /\ (Final => at' # "sleep")
    BY <2>1 DEF Final, Asleep, Filed
  <2> QED BY <2>1, <2>2 DEF Over
<1>7. ASSUME Tick PROVE Over'
  <2>1. minute' = minute + 1 /\ UNCHANGED <<drained, limit, outbox, sent, dropped, at>>
    BY <1>7 DEF Tick, reporter, drain, filing
  <2>2. Final' = Final /\ Filed' = Filed
    BY <2>1 DEF Final, Filed
  <2>3. \A x \in drained \cup Filed : x.minute < minute + 1 \/ Final
    BY <1>0 DEF Over
  <2> QED BY <1>0, <2>1, <2>2, <2>3 DEF Over
<1>8. ASSUME UNCHANGED <<drained, limit, minute, outbox, sent, dropped, at>> PROVE Over'
  BY <1>8 DEF Over, Final, Filed
<1>9. ASSUME \/ \E w \in Workloads : Finish(w)
             \/ \E x \in adding : Add(x)
             \/ \E c \in Conns : Track(c) \/ Carry(c) \/ Untrack(c)
             \/ RetryDue \/ SetTarget \/ Shutdown \/ UNCHANGED vars
      PROVE  UNCHANGED <<drained, limit, minute, outbox, sent, dropped, at>>
  BY <1>9 DEF Finish, Add, Track, Carry, Untrack, RetryDue, SetTarget, Shutdown,
              vars, meter, reporter, drain, filing, world
<1> QED BY <1>1, <1>2, <1>3, <1>4, <1>5, <1>6, <1>7, <1>8, <1>9 DEF Next, Loop, Answered

TimesRight == BooksRight /\ FinishedPlaced /\ Over

LEMMA TimesStep == TimesRight /\ [Next]_vars => TimesRight'
<1> SUFFICES ASSUME TimesRight, [Next]_vars PROVE TimesRight'
  OBVIOUS
<1>1. BooksRight'
  BY BooksStep DEF TimesRight
<1>2. FinishedPlaced'
  BY FinishedStep DEF TimesRight, BooksRight
<1>3. Over'
  BY OverStep DEF TimesRight, BooksRight
<1> QED BY <1>1, <1>2, <1>3 DEF TimesRight

LEMMA TimesInit == Init => TimesRight
<1> SUFFICES ASSUME Init PROVE TimesRight
  OBVIOUS
<1>1. Filed = {}
  BY DEF Init, Filed, Range
<1>2. FinishedPlaced /\ Over
  BY <1>1, MeteringAssumption DEF Init, FinishedPlaced, Over, Final
<1> QED BY <1>2, BooksInit DEF TimesRight

\* No request is billed to another workload or for another minute than its own, and
\* none (a shutdown's last report aside) before its minute is over, whatever delays
\* its count on the way to its bucket and its aggregate in the outbox.
THEOREM InTime == Spec => []BilledInTime
<1>1. Spec => []TimesRight
  BY TimesInit, TimesStep, PTL DEF Spec
<1>2. TimesRight => BilledInTime
  <2> SUFFICES ASSUME TimesRight, NEW a \in accepted
               PROVE  /\ a.minute < minute \/ Final
                      /\ \A f \in finished : f.units \subseteq a.units =>
                            f.minute = a.minute /\ f.workload = a.workload
    BY DEF BilledInTime
  <2>1. a \in Filed
    BY DEF TimesRight, BooksRight, Billable
  <2>2. a.minute < minute \/ Final
    BY <2>1 DEF TimesRight, Over
  <2>3. ASSUME NEW f \in finished, f.units \subseteq a.units
        PROVE  f.minute = a.minute /\ f.workload = a.workload
    <3>1. PICK u \in recorded : f.units = {u} /\ Placed(u, f.minute, f.workload)
      BY DEF TimesRight, FinishedPlaced
    <3>2. u \in a.units
      BY <2>3, <3>1
    <3> QED BY <2>1, <3>1, <3>2 DEF Placed
  <2> QED BY <2>2, <2>3
<1> QED BY <1>1, <1>2, PTL
=============================================================================
