---------------------------- MODULE VolumesProofs ----------------------------
(***************************************************************************)
(* Whose volume is whose, and who runs a workload, for any number of VMs,  *)
(* images and families, any pool and any addresses.                        *)
(***************************************************************************)
EXTENDS Volumes, FiniteSetTheorems, WellFoundedInduction, TLAPS

Job == [pc : Positions, id : Ids \cup {0}, noted : BOOLEAN,
        root : Ids \cup {0}, origin : Ids \cup {0}]
Contents == {"none", "blank"} \cup Vms \cup Images \cup Families

\* TypeOK in parts.
DisksType ==
    /\ counter \in 0..(MaxId + 1)
    /\ volume \in [Ids -> Contents]
    /\ mapped \in [Names -> Ids \cup {0}] /\ record \in [Recordable -> Ids \cup {0}]
RunsType ==
    /\ up \subseteq Vms /\ template \in Images \cup {Nobody}
    /\ docker \in [Vms -> {"none", "stopped", "running"}]
RestType ==
    /\ world \in Worlds /\ allowed \subseteq Vms
    /\ drive \subseteq Vms /\ ran \subseteq Vms /\ erased \subseteq Vms
    /\ stuck \subseteq Names /\ crossed \in BOOLEAN
JobsType == job \in [Users -> Job]
LocksType ==
    /\ builder \in [Families -> Vms \cup {Nobody}]
    /\ \A f \in Families : builder[f] # Nobody => job[builder[f]].pc \in {"family", "fill"}

LEMMA TypeParts ==
  /\ TypeOK <=> DisksType /\ RunsType /\ RestType /\ JobsType /\ LocksType
  /\ TypeOK' <=> DisksType' /\ RunsType' /\ RestType' /\ JobsType' /\ LocksType'
  BY DEF TypeOK, DisksType, RunsType, RestType, JobsType, LocksType, Job, Contents

---------------------------------------------------------------------------
\* What a call's job looks like at its position.
ImagePositions == {"idle", "base", "export", "warm", "template", "serving", "cut",
                   "done"}
VmPositions    == {"idle", "clone", "deps", "family", "fill", "save", "boot", "removing"}

Shape(u) ==
    /\ u \in Images => job[u].pc \in ImagePositions
    /\ u \in Vms => job[u].pc \in VmPositions
    /\ job[u].pc = "idle" => job[u] = NoJob
    /\ job[u].root = 0 <=> job[u].pc \in {"idle", "base", "clone", "removing"}
    /\ job[u].pc \in {"template", "serving", "cut", "done", "fill"} =>
          job[u].id # 0 /\ (crossed \/ job[u].id # job[u].root)
    /\ job[u].noted => job[u].pc \in Allocating /\ job[u].id # 0

\* Volumes that are recorded, being made or cloned from exist, and what is cloned
\* from is no VM's: no VM's deletion takes it away.
Held ==
  ~crossed =>
    /\ \A m \in Names \ erased : record[m] # 0 => volume[record[m]] # "none"
    /\ \A u \in Users : \A d \in Making(u) : volume[d] # "none"
    /\ \A u \in Users : job[u].origin # 0 =>
          /\ volume[job[u].origin] # "none"
          /\ \A v \in Vms : Owned(v) # job[u].origin /\ job[u].origin \notin Making(v)

\* The id of a volume that is gone, in the record of a deletion that was cut off, is
\* no one's next.
Spared ==
  ~crossed => \A v \in erased, u \in Users : Idle(v) => job[u].id # record[v]

\* Who may run as a microVM, and who has a meta.json.
Driven(v) ==
    /\ Knows(v) \/ ~Idle(v) => v \in allowed /\ docker[v] # "running"
    /\ v \in up \/ job[v].pc = "boot" => Knows(v)
    /\ job[v].pc = "removing" => v \in erased /\ v \notin up
    /\ v \in erased => Knows(v) /\ job[v].pc \in {"idle", "removing"}

Shapes == \A u \in Users : Shape(u)
AllDriven == \A v \in Vms : Driven(v)

IInv == TypeOK /\ Shapes /\ OneOwner /\ Held /\ Spared /\ AllDriven

---------------------------------------------------------------------------
\* Changes of jobs.

\* Only u's job changes.
Alone(u) == \A t \in Users \ {u} : job'[t] = job[t]

LEMMA PutDoes ==
  ASSUME JobsType, NEW u \in Users, NEW x \in Job, job' = [job EXCEPT ![u] = x]
  PROVE  JobsType' /\ Alone(u) /\ job'[u] = x
  BY DEF JobsType, Alone

LEMMA NoJobType ==
  /\ NoJob \in Job /\ NoJob.pc = "idle" /\ NoJob.id = 0 /\ ~NoJob.noted
  /\ NoJob.root = 0 /\ NoJob.origin = 0
  BY DEF NoJob, Job, Positions

\* The volume made is noted by its id: as root if another is to follow.
LEMMA AfterDoes ==
  ASSUME NEW j \in Job, j.pc \in Allocating
  PROVE  LET k == After(j) IN
         /\ k \in Job /\ ~k.noted /\ k.origin = j.origin /\ k.pc = Then[j.pc]
         /\ j.pc \in {"base", "clone"} => k.root = j.id /\ k.id = 0
         /\ j.pc \notin {"base", "clone"} => k.root = j.root /\ k.id = j.id
<1> DEFINE k == [j EXCEPT !.pc = Then[j.pc], !.noted = FALSE]
           l == [k EXCEPT !.root = j.id, !.id = 0]
<1>1. Then[j.pc] \in Positions
  BY DEF Allocating, Then, Positions
<1>2. k \in Job /\ k.noted = FALSE /\ k.origin = j.origin /\ k.pc = Then[j.pc]
      /\ k.root = j.root /\ k.id = j.id
  BY <1>1 DEF Job
<1> HIDE DEF k
<1>3. l \in Job /\ l.noted = FALSE /\ l.origin = j.origin /\ l.pc = Then[j.pc]
      /\ l.root = j.id /\ l.id = 0
  BY <1>2 DEF Job
<1> HIDE DEF l
<1>4. After(j) = IF j.pc \in {"base", "clone"} THEN l ELSE k
  BY DEF After, k, l
<1> QED  BY <1>2, <1>3, <1>4

\* The parts of the invariant that only u's job can disturb.

LEMMA Here ==
  ASSUME IInv
  PROVE  /\ DisksType /\ RunsType /\ RestType /\ JobsType /\ LocksType
         /\ Shapes /\ OneOwner /\ Held /\ Spared /\ AllDriven
         /\ \A u \in Users : job[u] \in Job /\ Shape(u)
         /\ 0 \notin Ids /\ \A v \in Vms : v \in Users /\ v \in Names /\ v \notin Images
         /\ \A i \in Images : i \in Users /\ i \notin Vms
  BY TypeParts, NamesAssumption DEF IInv, Shapes, JobsType, Ids, Users, Names

LEMMA ShapesAlone ==
  ASSUME Shapes, NEW u \in Users, Alone(u), Shape(u)', UNCHANGED crossed
  PROVE  Shapes'
  BY DEF Shapes, Shape, Alone

LEMMA LocksKept ==
  ASSUME LocksType, NEW u \in Users, Alone(u), UNCHANGED builder,
         job[u].pc \in {"family", "fill"} => job'[u].pc \in {"family", "fill"}
  PROVE  LocksType'
  BY DEF LocksType, Alone, Users

LEMMA LocksFreed ==
  ASSUME LocksType, NEW u \in Users, Alone(u), Unlock(u)
  PROVE  LocksType'
  BY NamesAssumption DEF LocksType, Alone, Unlock, Users

\* A VM's call that is neither ended nor in a deletion.
Busy(u) == u \in Images \/ job[u].pc \notin {"idle", "removing"}

LEMMA BusyHasVolume ==
  ASSUME IInv, NEW u \in Users, Busy(u)
  PROVE  u \notin erased /\ job[u].pc # "removing"
  BY Here DEF Busy, AllDriven, Driven, RestType, Shape, ImagePositions

LEMMA DrivenAlone ==
  ASSUME IInv, NEW u \in Users, Alone(u), UNCHANGED <<docker, up, allowed, erased>>, Busy(u),
         \A v \in Vms : record'[v] = record[v],
         job'[u].pc \notin {"boot", "removing"} \/ job'[u].pc = job[u].pc
  PROVE  AllDriven'
<1> SUFFICES ASSUME NEW v \in Vms PROVE Driven(v)'
  BY DEF AllDriven
<1>1. Driven(v) /\ v \in Users /\ v \notin Images
  BY Here DEF AllDriven
<1>2. CASE v = u
  BY <1>1, <1>2, NoJobType, BusyHasVolume DEF Driven, Knows, Idle, Busy
<1>3. CASE v # u
  BY <1>1, <1>3 DEF Driven, Knows, Idle, Alone
<1> QED  BY <1>2, <1>3

\* A call that makes nothing new, and nothing that was there goes.
Fewer(u) ==
    /\ Making(u)' \subseteq Making(u)
    /\ job[u].pc = "boot" /\ Making(u)' # {} => job'[u].pc = "boot"
    /\ job'[u].origin \in {0, job[u].origin} \cup (IF u \in Images THEN Making(u) ELSE {})
    /\ job'[u].id \in {0, job[u].id} \/ \A v \in erased : job'[u].id # record[v]
    /\ job[u].pc = "removing" => job'[u].pc = "removing" \/ record'[u] = 0

\* What a deletion that is over stood for goes with it.
Erased ==
    /\ \A v \in erased' : v \in erased /\ record'[v] = record[v]
    /\ \A v \in erased \ erased' : record'[v] = 0

LEMMA OwnersKept ==
  ASSUME IInv, \A u \in Users : Fewer(u), Erased, UNCHANGED crossed,
         \A m \in Names : record'[m] \in {0, record[m]},
         \A d \in Ids : volume[d] # "none" => volume'[d] # "none"
  PROVE  OneOwner' /\ Held' /\ Spared'
<1> SUFFICES ASSUME ~crossed, ~crossed'
             PROVE  OneOwner' /\ Held' /\ Spared'
  BY DEF OneOwner, Held, Spared
<1>0. OneOwner /\ Held /\ DisksType
  BY Here
<1>1. ASSUME NEW m \in Names
      PROVE  Owned(m)' \in {0, Owned(m)}
  <2>1. CASE m \in Vms /\ job[m].pc = "removing"
    <3>1. m \in Users
      BY <2>1, Here
    <3>2. job'[m].pc = "removing" \/ record'[m] = 0
      BY <2>1, <3>1 DEF Fewer
    <3> QED  BY <3>2 DEF Owned
  <2>2. CASE ~(m \in Vms /\ job[m].pc = "removing")
    BY <2>2 DEF Owned
  <2> QED  BY <2>1, <2>2
<1>2. ASSUME NEW u \in Users, NEW m \in Names, Owned(m)' \in Making(u)'
      PROVE  m = u /\ job'[u].pc = "boot"
  <2>1. Owned(m)' # 0
    BY <1>2 DEF Making
  <2>2. Owned(m) \in Making(u)
    BY <1>1, <1>2, <2>1 DEF Fewer
  <2> QED  BY <1>0, <1>2, <2>2 DEF OneOwner, Fewer
<1>3. ASSUME NEW u \in Users, NEW t \in Users, u # t
      PROVE  Making(u)' \cap Making(t)' = {}
  BY <1>0, <1>3 DEF OneOwner, Fewer
<1>4. OneOwner'
  <2>1. \A m, n \in Names : m # n /\ Owned(m)' # 0 => Owned(m)' # Owned(n)'
    BY <1>0, <1>1 DEF OneOwner
  <2> QED  BY <1>2, <1>3, <2>1 DEF OneOwner
<1>5. ASSUME NEW u \in Users
      PROVE  Making(u) \subseteq Ids
  BY Here DEF Making, Job
<1>6. ASSUME NEW m \in Names \ erased', record'[m] # 0
      PROVE  volume'[record'[m]] # "none"
  <2>1. record[m] = record'[m] /\ record[m] \in Ids /\ m \notin erased
    BY <1>0, <1>6 DEF DisksType, Recordable, Erased
  <2>2. volume[record[m]] # "none"
    BY <1>0, <1>6, <2>1 DEF Held
  <2> QED  BY <2>1, <2>2
<1>7. ASSUME NEW u \in Users, NEW d \in Making(u)'
      PROVE  volume'[d] # "none"
  BY <1>0, <1>5 DEF Held, Fewer
<1>8. ASSUME NEW u \in Users, job'[u].origin # 0
      PROVE  /\ volume'[job'[u].origin] # "none"
             /\ \A v \in Vms : Owned(v)' # job'[u].origin /\ job'[u].origin \notin Making(v)'
  <2>1. CASE job'[u].origin = job[u].origin
    <3>1. job[u].origin \in Ids
      BY <1>8, <2>1, Here DEF Job
    <3>2. volume[job[u].origin] # "none"
          /\ \A v \in Vms : Owned(v) # job[u].origin /\ job[u].origin \notin Making(v)
      BY <1>0, <1>8, <2>1 DEF Held
    <3>3. \A v \in Vms : Owned(v)' \in {0, Owned(v)} /\ Making(v)' \subseteq Making(v)
      BY <1>1, Here DEF Fewer
    <3> QED  BY <1>8, <2>1, <3>1, <3>2, <3>3
  <2>2. CASE u \in Images /\ job'[u].origin \in Making(u)
    <3>1. job'[u].origin \in Ids
      BY <2>2, <1>5
    <3>2. volume[job'[u].origin] # "none"
      BY <1>0, <2>2 DEF Held
    <3>3. ASSUME NEW v \in Vms
          PROVE  Owned(v) # job'[u].origin /\ job'[u].origin \notin Making(v)
      BY <1>0, <2>2, Here DEF OneOwner
    <3>4. \A v \in Vms : Owned(v)' \in {0, Owned(v)} /\ Making(v)' \subseteq Making(v)
      BY <1>1, Here DEF Fewer
    <3> QED  BY <1>8, <3>1, <3>2, <3>3, <3>4
  <2> QED  BY <1>8, <2>1, <2>2 DEF Fewer
<1>9. Held'
  BY <1>6, <1>7, <1>8 DEF Held
<1>10. Spared'
  <2>1. SUFFICES ASSUME NEW v \in erased', NEW u \in Users, Idle(v)'
                 PROVE  job'[u].id # record'[v]
    BY DEF Spared
  <2>2. v \in erased /\ record'[v] = record[v] /\ v \in Vms /\ v \in Users /\ Shape(v) /\ Fewer(v)
        /\ Driven(v) /\ Spared /\ Fewer(u)
    BY <2>1, Here DEF Erased, RestType, AllDriven
  <2>3. Idle(v) /\ record[v] # 0
    BY <2>1, <2>2, NoJobType DEF Fewer, Driven, Knows, Shape, Idle
  <2> QED  BY <2>2, <2>3 DEF Fewer, Spared
<1> QED  BY <1>4, <1>9, <1>10

\* The same, of one call.
LEMMA OwnersAlone ==
  ASSUME IInv, NEW u \in Users, Alone(u), Fewer(u), Erased, UNCHANGED crossed,
         \A m \in Names : record'[m] \in {0, record[m]},
         \A d \in Ids : volume[d] # "none" => volume'[d] # "none"
  PROVE  OneOwner' /\ Held' /\ Spared'
<1>1. ASSUME NEW t \in Users, t # u
      PROVE  Fewer(t)
  BY <1>1 DEF Alone, Fewer, Making
<1> QED  BY <1>1, OwnersKept

\* A call that only goes on: nothing is recorded, or mapped away.
LEMMA GoesOn ==
  ASSUME IInv, NEW u \in Users, Alone(u), JobsType', Shape(u)', Fewer(u), LocksType',
         DisksType', RestType', RunsType',
         UNCHANGED <<up, docker, allowed, erased, crossed>>, Busy(u),
         \A m \in Names : record'[m] = record[m],
         \A d \in Ids : volume[d] # "none" => volume'[d] # "none",
         job'[u].pc \notin {"boot", "removing"} \/ job'[u].pc = job[u].pc
  PROVE  IInv'
<1>0. Erased
  BY Here DEF Erased, RestType
<1>1. Shapes'  BY Here, ShapesAlone
<1>2. OneOwner' /\ Held' /\ Spared'  BY <1>0, OwnersAlone
<1>3. AllDriven'  BY DrivenAlone, Here
<1> QED  BY <1>1, <1>2, <1>3, TypeParts DEF IInv

---------------------------------------------------------------------------
\* Device ids.

\* Steps that write no table.
LEMMA TablesKept ==
  ASSUME IInv, UNCHANGED <<world, disks, runs, allowed, drive, past>>
  PROVE  /\ DisksType' /\ RestType' /\ RunsType' /\ UNCHANGED <<up, docker, allowed, erased, crossed>>
         /\ \A m \in Names : record'[m] = record[m]
         /\ \A d \in Ids : volume[d] # "none" => volume'[d] # "none"
  BY Here DEF DisksType, RestType, RunsType, disks, runs, past

\* The largest id that is recorded is no less than any of a VM's.
LEMMA MaxIs ==
  ASSUME NEW S \in SUBSET (Ids \cup {0}), S # {}
  PROVE  Max(S) \in S /\ \A y \in S : Max(S) >= y
<1> DEFINE T == {MaxId - y : y \in S}
<1>0. MaxId \in Nat /\ \A y \in S : y \in Nat /\ MaxId - y \in Nat
  BY ConstantsAssumption DEF Ids
<1>1. T \subseteq Nat /\ T # {}
  BY <1>0
<1>2. PICK d \in T : \A e \in T : <<e, d>> \notin OpToRel(<, Nat)
  <2> HIDE DEF T
  <2> QED  BY ONLY <1>1, WFMin, NatLessThanWellFounded, Zenon
<1>3. \A e \in T : ~(e < d)
  <2> SUFFICES ASSUME NEW e \in T, e < d PROVE FALSE
    OBVIOUS
  <2>1. e \in Nat /\ d \in Nat /\ <<e, d>> \notin OpToRel(<, Nat)
    BY <1>1, <1>2, Zenon
  <2> QED  BY <2>1, Zenon DEF OpToRel
<1>4. PICK x \in S : d = MaxId - x
  OBVIOUS
<1>5. \A y \in S : x >= y
  <2> SUFFICES ASSUME NEW y \in S PROVE x >= y
    OBVIOUS
  <2>1. ~(MaxId - y < MaxId - x)
    BY <1>3, <1>4
  <2>2. x \in Int /\ y \in Int /\ MaxId \in Int
    BY <1>0
  <2> QED  BY <2>1, <2>2
<1> QED  BY <1>5 DEF Max

LEMMA Higher ==
  ASSUME IInv, NEW v \in Vms
  PROVE  /\ HighWaterMark \in Nat /\ record[v] \in Nat /\ record[v] <= HighWaterMark
         /\ counter \in Nat /\ Max({counter, HighWaterMark + 1}) > record[v]
<1> DEFINE S == {record[m] : m \in Recordable \ Families} \cup {0}
           n == Max({counter, HighWaterMark + 1})
<1>1. DisksType /\ v \in Recordable \ Families /\ MaxId \in Nat
  BY NamesAssumption, ConstantsAssumption, Here DEF Recordable
<1>2. S \in SUBSET (Ids \cup {0}) /\ S # {} /\ record[v] \in S
  BY <1>1 DEF DisksType
<1>3. HighWaterMark = Max(S)
  BY DEF HighWaterMark
<1> HIDE DEF S
<1>4. HighWaterMark \in S /\ HighWaterMark >= record[v]
  BY <1>2, <1>3, MaxIs
<1>5. HighWaterMark \in Nat /\ record[v] \in Nat /\ counter \in Nat
  BY <1>1, <1>2, <1>4 DEF Ids, DisksType
<1>6. n >= HighWaterMark + 1 /\ n \in Nat
  <2>1. PICK h \in Nat : h = HighWaterMark + 1
    BY <1>5
  <2>2. counter \in {counter, h} /\ h \in {counter, h} /\ (counter >= h \/ h >= counter)
        /\ counter >= counter /\ h >= h
    BY <1>5, <2>1
  <2>3. \E x \in {counter, h} : \A y \in {counter, h} : x >= y
    BY <2>2
  <2>4. Max({counter, h}) \in {counter, h} /\ Max({counter, h}) >= h
    BY <2>3 DEF Max
  <2> QED  BY <1>5, <2>1, <2>4
<1> HIDE DEF n
<1>7. n > record[v]
  BY <1>4, <1>5, <1>6
<1> QED  BY <1>4, <1>5, <1>7 DEF n

LEMMA NextDevIDStep ==
  ASSUME IInv, NEW u \in Users, NextDevID(u)
  PROVE  IInv'
<1>0. JobsType /\ LocksType /\ job[u] \in Job /\ Shape(u)
      /\ job[u].pc \in Allocating /\ job[u].id = 0
  BY Here DEF NextDevID
<1>1. PICK n \in Ids : /\ job' = [job EXCEPT ![u].id = n]
                        /\ n = Max({counter, HighWaterMark + 1})
  BY DEF NextDevID
<1>7. \A v \in erased : n # record[v]
  <2> SUFFICES ASSUME NEW v \in erased PROVE n # record[v]
    OBVIOUS
  <2>1. v \in Vms /\ n \in Nat
    BY <1>1, Here, ConstantsAssumption DEF RestType, Ids
  <2>2. n > record[v] /\ record[v] \in Nat
    BY <1>1, <2>1, Higher
  <2> QED  BY <2>1, <2>2
<1> DEFINE x == [job[u] EXCEPT !.id = n]
<1>2. x \in Job /\ x.id = n /\ x.pc = job[u].pc /\ x.noted = job[u].noted
      /\ x.root = job[u].root /\ x.origin = job[u].origin
  BY <1>0 DEF Job
<1>3. job' = [job EXCEPT ![u] = x]
  BY <1>1
<1> HIDE DEF x
<1>4. JobsType' /\ Alone(u) /\ job'[u] = x
  BY <1>0, <1>2, <1>3, PutDoes
<1>5. Shape(u)' /\ Fewer(u)
  BY <1>0, <1>2, <1>4, <1>7, NoJobType DEF Shape, Fewer, Making, Allocating
<1>6. LocksType'
  BY <1>0, <1>2, <1>4, LocksKept DEF NextDevID
<1> QED  BY <1>0, <1>2, <1>4, <1>5, <1>6, TablesKept, NoJobType, GoesOn DEF NextDevID, Allocating, Busy

LEMMA NoteDevIDStep ==
  ASSUME IInv, NEW u \in Users, NoteDevID(u)
  PROVE  IInv'
<1>0. DisksType /\ RestType /\ RunsType /\ JobsType /\ LocksType /\ job[u] \in Job /\ Shape(u)
      /\ job[u].pc \in Allocating /\ job[u].id # 0
  BY Here DEF NoteDevID
<1> DEFINE x == [job[u] EXCEPT !.noted = TRUE]
<1>1. x \in Job /\ x.id = job[u].id /\ x.pc = job[u].pc /\ x.noted = TRUE
      /\ x.root = job[u].root /\ x.origin = job[u].origin
  BY <1>0 DEF Job
<1>2. job' = [job EXCEPT ![u] = x]
  BY DEF NoteDevID
<1> HIDE DEF x
<1>3. JobsType' /\ Alone(u) /\ job'[u] = x
  BY <1>0, <1>1, <1>2, PutDoes
<1>4. Shape(u)' /\ Fewer(u)
  BY <1>0, <1>1, <1>3, NoJobType DEF Shape, Fewer, Making, Allocating
<1>5. LocksType'
  BY <1>0, <1>1, <1>3, LocksKept DEF NoteDevID
<1>6. counter' \in 0..(MaxId + 1)
  <2>1. counter' = job[u].id + 1 /\ job[u].id \in 1..MaxId
    BY <1>0 DEF NoteDevID, Job, Ids
  <2> QED  BY <2>1, ConstantsAssumption
<1>7. DisksType' /\ RestType' /\ RunsType'
      /\ UNCHANGED <<up, docker, allowed, record, volume, erased, crossed>>
  BY <1>0, <1>6 DEF NoteDevID, DisksType, RestType, RunsType, runs, past
<1> QED  BY <1>0, <1>1, <1>3, <1>4, <1>5, <1>7, NoJobType, GoesOn DEF Allocating, Busy

LEMMA TargetNamed ==
  ASSUME NEW u \in Users, Shape(u), job[u].pc \in Allocating
  PROVE  Target(u) \in Names
<1>1. CASE u \in Images
  <2>1. Target(u) = Base(u) \/ Target(u) = Warm(u)
    BY <1>1 DEF Target, Shape, ImagePositions, Allocating, Base, Warm
  <2> QED  BY <1>1, <2>1 DEF Names, OfImages
<1>2. CASE u \notin Images
  BY <1>2, ConstantsAssumption DEF Target, Names, Users
<1> QED  BY <1>1, <1>2

LEMMA CollideStep ==
  ASSUME IInv, NEW u \in Users, Collide(u)
  PROVE  IInv'
<1>0. DisksType /\ RestType /\ RunsType /\ JobsType /\ LocksType /\ job[u] \in Job /\ Shape(u)
      /\ job[u].pc \in Allocating
  BY Here DEF Collide, Shape
<1> DEFINE x == [job[u] EXCEPT !.id = 0, !.noted = FALSE]
<1>1. x \in Job /\ x.id = 0 /\ x.pc = job[u].pc /\ x.noted = FALSE
      /\ x.root = job[u].root /\ x.origin = job[u].origin
  BY <1>0 DEF Job
<1>2. job' = [job EXCEPT ![u] = x]
  BY DEF Collide
<1> HIDE DEF x
<1>3. JobsType' /\ Alone(u) /\ job'[u] = x
  BY <1>0, <1>1, <1>2, PutDoes
<1>4. Shape(u)' /\ Fewer(u)
  BY <1>0, <1>1, <1>3, NoJobType DEF Shape, Fewer, Making, Allocating
<1>5. LocksType'
  BY <1>0, <1>1, <1>3, LocksKept DEF Collide
<1>6. mapped' \in [Names -> Ids \cup {0}]
  BY <1>0 DEF Collide, DisksType
<1>7. DisksType' /\ RestType' /\ RunsType'
      /\ UNCHANGED <<up, docker, allowed, record, volume, erased, crossed>>
  BY <1>0, <1>6 DEF Collide, DisksType, RestType, RunsType, runs, past
<1> QED  BY <1>0, <1>1, <1>3, <1>4, <1>5, <1>7, NoJobType, GoesOn DEF Allocating, Busy

\* A volume the pool does not hold is nobody's.
LEMMA FreeIsNobodys ==
  ASSUME IInv, ~crossed, NEW u \in Users, job[u].id \in Ids, IsFree(job[u].id)
  PROVE  LET d == job[u].id IN
         /\ \A m \in Names : Owned(m) # d
         /\ \A t \in Users : d \notin Making(t) /\ job[t].origin # d
<1> DEFINE d == job[u].id
<1>1. ASSUME NEW m \in Names, Owned(m) = d
      PROVE  FALSE
  <2>1. record[m] = d /\ record[m] # 0 /\ (m \in Vms => job[m].pc # "removing")
    BY <1>1, Here DEF Owned
  <2>2. CASE m \in erased
    <3>1. m \in Vms /\ Driven(m) /\ Shape(m) /\ Spared
      BY <2>2, Here DEF RestType, AllDriven
    <3>2. Idle(m)
      BY <2>1, <2>2, <3>1 DEF Driven, Shape, Idle
    <3> QED  BY <2>1, <2>2, <3>1, <3>2 DEF Spared
  <2>3. CASE m \notin erased
    BY <2>1, <2>3, Here DEF Held, IsFree
  <2> QED  BY <2>2, <2>3
<1>2. \A t \in Users : d \notin Making(t) /\ job[t].origin # d
  BY Here DEF Held, IsFree
<1> QED  BY <1>1, <1>2

\* A volume is made: it is u's alone.
LEMMA MakeStep ==
  ASSUME IInv, NEW u \in Users, Make(u)
  PROVE  IInv'
<1> DEFINE d == job[u].id
           k == After(job[u])
<1>0. DisksType /\ RestType /\ RunsType /\ JobsType /\ LocksType /\ job[u] \in Job /\ Shape(u)
      /\ OneOwner /\ Held /\ job[u].pc \in Allocating /\ d \in Ids /\ IsFree(d)
      /\ UNCHANGED <<erased, crossed>> /\ Busy(u)
  BY Here DEF Make, Shape, Job, Busy, Allocating
<1>1. /\ k \in Job /\ ~k.noted /\ k.origin = job[u].origin /\ k.pc = Then[job[u].pc]
      /\ job[u].pc \in {"base", "clone"} => k.root = d /\ k.id = 0
      /\ job[u].pc \notin {"base", "clone"} => k.root = job[u].root /\ k.id = d
  BY <1>0, AfterDoes
<1>2. job' = [job EXCEPT ![u] = k]
  BY DEF Make
<1> HIDE DEF k
<1>3. JobsType' /\ Alone(u) /\ job'[u] = k
  BY <1>0, <1>1, <1>2, PutDoes
<1>4. ~crossed => /\ \A m \in Names : Owned(m) # d
                  /\ \A t \in Users : d \notin Making(t) /\ job[t].origin # d
  BY <1>0, FreeIsNobodys
<1>5. Making(u)' = Making(u) \cup {d} /\ k.pc \notin {"boot", "idle"}
  BY <1>0, <1>1, <1>3, Here DEF Making, Shape, Allocating, Then
<1>6. Shape(u)'
  <2>1. job[u].pc \in {"warm", "family"} => job[u].root # 0 /\ (crossed \/ job[u].root # d)
    BY <1>0, <1>4 DEF Shape, Making
  <2>2. u \in Images => job[u].pc \in {"base", "warm"}
    BY <1>0 DEF Shape, ImagePositions, Allocating
  <2>3. u \in Vms => job[u].pc \in {"clone", "family"}
    BY <1>0 DEF Shape, VmPositions, Allocating
  <2> QED  BY <1>0, <1>1, <1>3, <2>1, <2>2, <2>3, Here
           DEF Shape, Then, Allocating, ImagePositions, VmPositions
<1>7. LocksType'
  <2>1. job[u].pc = "family" => k.pc = "fill"
    BY <1>1 DEF Then
  <2>2. job[u].pc # "fill" /\ UNCHANGED builder
    BY <1>0 DEF Make, Allocating
  <2> QED  BY <1>0, <1>3, <2>1, <2>2, LocksKept
<1>8. /\ \A e \in Ids \ {d} : volume'[e] = volume[e]
      /\ volume'[d] = IF job[u].origin = 0 THEN "blank" ELSE volume[job[u].origin]
      /\ volume' \in [Ids -> Contents]
  BY <1>0 DEF Make, DisksType, Job, Contents
<1>9. mapped' \in [Names -> Ids \cup {0}] /\ stuck' \subseteq Names
  BY <1>0, TargetNamed DEF Make, DisksType, RestType, Activated
<1>10. DisksType' /\ RestType' /\ RunsType' /\ UNCHANGED <<up, docker, allowed, record>>
  BY <1>0, <1>8, <1>9 DEF Make, DisksType, RestType, RunsType, runs
<1>16. job'[u].pc # "removing" /\ job[u].pc # "removing"
       /\ \A m \in Names : Owned(m)' = Owned(m)
  <2>1. k.pc # "removing" /\ job[u].pc # "removing"
    BY <1>0, <1>1 DEF Allocating, Then
  <2>2. ASSUME NEW m \in Names
        PROVE  Owned(m)' = Owned(m)
    <3>1. CASE m = u
      BY <1>3, <1>10, <2>1, <3>1 DEF Owned
    <3>2. CASE m # u
      BY <1>3, <1>10, <3>2, Here DEF Owned, Alone
    <3> QED  BY <3>1, <3>2
  <2> QED  BY <1>3, <2>1, <2>2
<1>11. \A t \in Users \ {u} : Making(t)' = Making(t)
  BY <1>3 DEF Alone, Making
<1>12. OneOwner'
  <2> SUFFICES ASSUME ~crossed PROVE OneOwner'
    BY <1>0 DEF OneOwner
  <2>1. \A m, n \in Names : m # n /\ Owned(m)' # 0 => Owned(m)' # Owned(n)'
    BY <1>0, <1>16 DEF OneOwner
  <2>2. ASSUME NEW t \in Users, NEW m \in Names, Owned(m)' \in Making(t)'
        PROVE  m = t /\ job'[t].pc = "boot"
    <3>1. Owned(m) \in Making(t)
      BY <1>4, <1>5, <1>16, <1>11, <2>2
    <3>2. m = t /\ job[t].pc = "boot"
      BY <1>0, <3>1 DEF OneOwner
    <3> QED  BY <1>0, <1>3, <3>2 DEF Alone, Allocating
  <2>3. ASSUME NEW s \in Users, NEW t \in Users, s # t
        PROVE  Making(s)' \cap Making(t)' = {}
    BY <1>0, <1>4, <1>5, <1>11, <2>3 DEF OneOwner
  <2> QED  BY <2>1, <2>2, <2>3 DEF OneOwner
<1>13. Held'
  <2> SUFFICES ASSUME ~crossed PROVE Held'
    BY <1>0 DEF Held
  <2>0. volume'[d] # "none"
    BY <1>0, <1>8, Here DEF Held
  <2>1. ASSUME NEW m \in Names \ erased', record'[m] # 0
        PROVE  volume'[record'[m]] # "none"
    <3>1. record[m] \in Ids /\ record'[m] = record[m] /\ m \notin erased
      BY <1>0, <1>10, <2>1 DEF DisksType, Recordable
    <3> QED  BY <1>0, <1>8, <2>0, <2>1, <3>1 DEF Held
  <2>2. ASSUME NEW t \in Users, NEW e \in Making(t)'
        PROVE  volume'[e] # "none"
    <3>1. e \in Ids
      BY <1>3, <2>2 DEF Making, JobsType, Job
    <3>2. e = d \/ e \in Making(t)
      BY <1>5, <1>11, <2>2
    <3> QED  BY <1>0, <1>8, <2>0, <3>1, <3>2 DEF Held
  <2>3. ASSUME NEW t \in Users, job'[t].origin # 0
        PROVE  /\ volume'[job'[t].origin] # "none"
               /\ \A v \in Vms : Owned(v)' # job'[t].origin /\ job'[t].origin \notin Making(v)'
    <3>1. job'[t].origin = job[t].origin /\ job[t].origin \in Ids \ {d}
      BY <1>1, <1>3, <1>4, <2>3, Here DEF Alone, Job
    <3>2. volume[job[t].origin] # "none"
          /\ \A v \in Vms : Owned(v) # job[t].origin /\ job[t].origin \notin Making(v)
      BY <1>0, <2>3, <3>1 DEF Held
    <3>3. \A v \in Vms : Making(v)' \subseteq Making(v) \cup {d}
      BY <1>5, <1>11, Here
    <3> QED  BY <1>8, <1>16, <3>1, <3>2, <3>3, Here
  <2> QED  BY <2>1, <2>2, <2>3 DEF Held
<1>17. Spared'
  <2>1. SUFFICES ASSUME ~crossed, NEW v \in erased', NEW t \in Users, Idle(v)'
                 PROVE  job'[t].id # record'[v]
    BY <1>0 DEF Spared
  <2>2. v \in erased /\ v \in Vms /\ v \in Users /\ v \in Names /\ record'[v] = record[v]
        /\ v # u /\ Spared /\ Driven(v)
    BY <1>0, <1>10, BusyHasVolume, Here DEF RestType, AllDriven
  <2>3. Idle(v) /\ record[v] # 0
    BY <1>3, <2>1, <2>2 DEF Idle, Alone, Driven, Knows
  <2>4. k.id \in {0, d}
    BY <1>1
  <2>5. job'[t].id \in {0, job[t].id}
    BY <1>3, <2>4 DEF Alone
  <2> QED  BY <2>1, <2>2, <2>3, <2>5 DEF Spared
<1>14. Shapes'  BY <1>0, <1>3, <1>6, ShapesAlone, Here
<1>15. AllDriven'
  <2>2. \A v \in Vms : record'[v] = record[v]
    BY <1>10
  <2> QED  BY <1>0, <1>3, <1>5, <1>10, <1>16, <2>2, DrivenAlone
<1> QED  BY <1>3, <1>7, <1>10, <1>12, <1>13, <1>14, <1>15, <1>17, TypeParts DEF IInv

---------------------------------------------------------------------------
\* The rest of allocation, and images.

\* u's call ends.
LEMMA Ends ==
  ASSUME IInv, NEW u \in Users, Alone(u), job'[u] = NoJob, Busy(u) \/ Idle(u)
  PROVE  Shape(u)' /\ Fewer(u) /\ Making(u)' = {}
  BY Here, NoJobType DEF Shape, Fewer, Making, ImagePositions, VmPositions, Busy, Idle

LEMMA AllocateFailsStep ==
  ASSUME IInv, NEW u \in Users, AllocateFails(u)
  PROVE  IInv'
<1>0. DisksType /\ RestType /\ RunsType /\ JobsType /\ LocksType /\ job[u] \in Job /\ Shape(u)
      /\ job[u].pc \in Allocating /\ job[u].id \in Ids /\ Busy(u)
      /\ UNCHANGED <<erased, crossed>>
  BY Here DEF AllocateFails, Shape, Job, Busy, Allocating, past
<1> DEFINE y == [job[u] EXCEPT !.pc = "save", !.id = 0, !.noted = FALSE]
           x == IF job[u].pc # "family" THEN NoJob ELSE y
<1>1. y \in Job /\ y.id = 0 /\ y.pc = "save" /\ y.noted = FALSE
      /\ y.root = job[u].root /\ y.origin = job[u].origin
  BY <1>0 DEF Job, Positions
<1>2. job' = [job EXCEPT ![u] = x]
  BY DEF AllocateFails
<1> HIDE DEF y
<1>3. x \in Job
  BY <1>1, NoJobType
<1> HIDE DEF x
<1>4. JobsType' /\ Alone(u) /\ job'[u] = x
  BY <1>0, <1>2, <1>3, PutDoes
<1>5. Shape(u)' /\ Fewer(u) /\ job'[u].pc \notin {"boot", "removing"}
  <2>1. CASE job[u].pc # "family"
    BY <1>0, <1>4, <2>1, Ends, NoJobType DEF x
  <2>2. CASE job[u].pc = "family"
    <3>1. x = y /\ u \notin Images
      BY <1>0, <2>2, Here DEF x, Shape, ImagePositions
    <3> QED  BY <1>0, <1>1, <1>4, <2>2, <3>1 DEF Shape, Fewer, Making, VmPositions
  <2> QED  BY <2>1, <2>2
<1>6. LocksType'
  BY <1>0, <1>4, LocksFreed DEF AllocateFails
<1>7. volume' \in [Ids -> Contents] /\ \A d \in Ids : volume[d] # "none" => volume'[d] # "none"
  <2>1. \/ UNCHANGED volume
        \/ IsFree(job[u].id) /\ volume' = [volume EXCEPT ![job[u].id] =
                                            IF job[u].origin = 0 THEN "blank"
                                            ELSE volume[job[u].origin]]
    BY DEF AllocateFails
  <2>2. job[u].origin = 0 \/ job[u].origin \in Ids
    BY <1>0 DEF Job
  <2> QED  BY <1>0, <2>1, <2>2 DEF DisksType, IsFree, Contents
<1>8. DisksType' /\ RestType' /\ RunsType' /\ UNCHANGED <<up, docker, allowed, record>>
  <2>1. mapped' \in [Names -> Ids \cup {0}]
    BY <1>0 DEF AllocateFails, DisksType
  <2> QED  BY <1>0, <1>7, <2>1 DEF AllocateFails, DisksType, RestType, RunsType, runs, past
<1> QED  BY <1>0, <1>4, <1>5, <1>6, <1>7, <1>8, GoesOn

LEMMA CallPrepareStep ==
  ASSUME IInv, NEW i \in Images, CallPrepare(i)
  PROVE  IInv'
<1>0. JobsType /\ LocksType /\ job[i] = NoJob /\ i \in Users
  BY Here DEF CallPrepare, Idle
<1> DEFINE x == [NoJob EXCEPT !.pc = "base"]
<1>1. x \in Job /\ x.id = 0 /\ x.pc = "base" /\ ~x.noted /\ x.root = 0 /\ x.origin = 0
  BY DEF NoJob, Job, Positions, Allocating
<1>2. job' = [job EXCEPT ![i] = x]
  BY <1>0 DEF CallPrepare
<1> HIDE DEF x
<1>3. JobsType' /\ Alone(i) /\ job'[i] = x
  BY <1>0, <1>1, <1>2, PutDoes
<1>4. Shape(i)' /\ Fewer(i)
  BY <1>0, <1>1, <1>3, NoJobType, Here DEF Shape, Fewer, Making, ImagePositions
<1>5. LocksType'
  BY <1>0, <1>3, NoJobType, LocksKept DEF CallPrepare
<1> QED  BY <1>0, <1>1, <1>3, <1>4, <1>5, TablesKept, GoesOn DEF CallPrepare, Busy

\* A call of an image ends and writes no table but the record of its template VM.
LEMMA ImageEnds ==
  ASSUME IInv, NEW i \in Images, job' = [job EXCEPT ![i] = NoJob],
         template' \in Images \cup {Nobody}, record' \in [Recordable -> Ids \cup {0}],
         \A m \in Names : record'[m] = record[m],
         UNCHANGED <<world, counter, volume, mapped, up, docker, allowed, builder, drive, past>>
  PROVE  IInv'
<1>0. DisksType /\ RestType /\ RunsType /\ JobsType /\ LocksType /\ i \in Users /\ Shape(i)
  BY Here
<1>1. JobsType' /\ Alone(i) /\ job'[i] = NoJob
  BY <1>0, NoJobType, PutDoes
<1>2. LocksType'
  BY <1>0, <1>1, NoJobType, LocksKept, Here DEF Shape, ImagePositions
<1>3. DisksType' /\ RestType' /\ RunsType' /\ UNCHANGED <<erased, crossed>>
  BY <1>0 DEF DisksType, RestType, RunsType, past
<1>4. Busy(i)
  BY DEF Busy
<1> QED  BY <1>0, <1>1, <1>2, <1>3, <1>4, Ends, NoJobType, GoesOn

LEMMA PrepareFailsStep ==
  ASSUME IInv, NEW i \in Images, PrepareFails(i)
  PROVE  IInv'
  BY ImageEnds, Here DEF PrepareFails, RunsType, DisksType, disks

LEMMA ExportStep ==
  ASSUME IInv, NEW i \in Images, Export(i)
  PROVE  IInv'
<1>0. DisksType /\ RestType /\ RunsType /\ JobsType /\ LocksType /\ i \in Users /\ Shape(i)
      /\ job[i] \in Job /\ job[i].pc = "export"
  BY Here DEF Export
<1> DEFINE x == [job[i] EXCEPT !.pc = "warm", !.origin = job[i].root]
<1>1. x \in Job /\ x.id = job[i].id /\ x.pc = "warm" /\ x.noted = job[i].noted
      /\ x.root = job[i].root /\ x.origin = job[i].root
  BY <1>0 DEF Job, Positions, Allocating
<1>2. job' = [job EXCEPT ![i] = x]
  BY DEF Export
<1> HIDE DEF x
<1>3. JobsType' /\ Alone(i) /\ job'[i] = x
  BY <1>0, <1>1, <1>2, PutDoes
<1>4. Shape(i)' /\ Fewer(i)
  BY <1>0, <1>1, <1>3, NoJobType, Here DEF Shape, Fewer, Making, ImagePositions, Allocating
<1>5. LocksType'
  BY <1>0, <1>3, LocksKept DEF Export
<1>6. volume' \in [Ids -> Contents] /\ \A d \in Ids : volume[d] # "none" => volume'[d] # "none"
  BY <1>0, NamesAssumption DEF Export, DisksType, Contents
<1>7. DisksType' /\ RestType' /\ RunsType'
      /\ UNCHANGED <<up, docker, allowed, record, erased, crossed>>
  BY <1>0, <1>6 DEF Export, DisksType, RestType, RunsType, runs, past
<1> QED  BY <1>0, <1>1, <1>3, <1>4, <1>5, <1>6, <1>7, GoesOn DEF Busy

\* Template VMs are recorded under names of their own.
LEMMA TplApart ==
  ASSUME NEW i \in Images
  PROVE  Tpl(i) \in Recordable /\ Tpl(i) \notin Names
  BY NamesAssumption DEF Recordable, Names, OfImages, Tpl, Base, Warm

LEMMA TemplateBootStep ==
  ASSUME IInv, NEW i \in Images, TemplateBoot(i)
  PROVE  IInv'
<1>0. DisksType /\ RestType /\ RunsType /\ JobsType /\ LocksType /\ i \in Users /\ Shape(i)
      /\ Shapes /\ job[i] \in Job /\ job[i].pc = "template" /\ job[i].id \in Ids
  BY Here DEF TemplateBoot, Shape, Job
<1>1. record' \in [Recordable -> Ids \cup {0}] /\ \A m \in Names : record'[m] = record[m]
  BY <1>0, TplApart DEF TemplateBoot, DisksType, Recordable
<1>2. UNCHANGED <<world, counter, volume, mapped, up, docker, allowed, builder, drive, past>>
  BY DEF TemplateBoot
<1>3. DisksType' /\ RestType' /\ (template' \in Images \cup {Nobody} => RunsType')
      /\ UNCHANGED <<erased, crossed>>
  BY <1>0, <1>1, <1>2 DEF DisksType, RestType, RunsType, past
<1>4. CASE template' = i /\ job' = [job EXCEPT ![i].pc = "serving"]
  <2> DEFINE x == [job[i] EXCEPT !.pc = "serving"]
  <2>1. x \in Job /\ x.id = job[i].id /\ x.pc = "serving" /\ x.noted = job[i].noted
        /\ x.root = job[i].root /\ x.origin = job[i].origin
    BY <1>0 DEF Job, Positions
  <2>2. job' = [job EXCEPT ![i] = x]
    BY <1>4
  <2> HIDE DEF x
  <2>3. JobsType' /\ Alone(i) /\ job'[i] = x
    BY <1>0, <2>1, <2>2, PutDoes
  <2>4. Shape(i)' /\ Fewer(i)
    BY <1>0, <1>3, <2>1, <2>3, NoJobType, Here DEF Shape, Fewer, Making, ImagePositions, Allocating
  <2>5. LocksType'
    BY <1>0, <1>2, <2>3, LocksKept
  <2> QED  BY <1>0, <1>1, <1>2, <1>3, <1>4, <2>1, <2>3, <2>4, <2>5, GoesOn DEF Busy
<1>5. CASE /\ job' = [u \in Users |-> IF u = i THEN NoJob
                                      ELSE [job[u] EXCEPT !.pc =
                                              IF u = template /\ @ = "serving" THEN "cut" ELSE @]]
           /\ UNCHANGED template
  <2>1. job'[i] = NoJob
    BY <1>0, <1>5
  <2>2. ASSUME NEW u \in Users, u # i
        PROVE  \/ job'[u] = job[u]
               \/ /\ u \in Images /\ job[u].pc = "serving" /\ job'[u].pc = "cut" /\ job'[u] \in Job
                  /\ job'[u].id = job[u].id /\ job'[u].noted = job[u].noted
                  /\ job'[u].root = job[u].root /\ job'[u].origin = job[u].origin
    <3> DEFINE y == IF u = template /\ job[u].pc = "serving" THEN "cut" ELSE job[u].pc
               x == [job[u] EXCEPT !.pc = y]
    <3>1. job'[u] = x
      BY <1>5, <2>2
    <3>2. job[u] \in Job /\ Shape(u) /\ y \in Positions
      BY Here DEF Job, Positions
    <3> HIDE DEF y
    <3>3. x \in Job /\ x.id = job[u].id /\ x.noted = job[u].noted /\ x.pc = y
          /\ x.root = job[u].root /\ x.origin = job[u].origin
      BY <3>2 DEF Job
    <3>4. CASE y = job[u].pc
      BY <3>1, <3>2, <3>4 DEF Job
    <3>5. CASE y # job[u].pc
      <4>1. y = "cut" /\ job[u].pc = "serving"
        BY <3>5 DEF y
      <4>2. u \in Images
        BY <3>2, <4>1 DEF Shape, VmPositions, Users
      <4> HIDE DEF x
      <4> QED  BY <3>1, <3>3, <4>1, <4>2
    <3> QED  BY <3>4, <3>5
  <2>3. JobsType'
    <3>1. job' = [u \in Users |-> job'[u]]
      BY <1>5
    <3>2. \A u \in Users : job'[u] \in Job
      BY <2>1, <2>2, NoJobType, Here
    <3> QED  BY <3>1, <3>2 DEF JobsType
  <2>4. ASSUME NEW u \in Users
        PROVE  Shape(u)' /\ Fewer(u)
    <3>1. Shape(u) /\ job[u] \in Job
      BY Here
    <3>2. CASE u = i
      BY <2>1, <3>2, NoJobType, Here DEF Shape, Fewer, Making, ImagePositions
    <3>3. CASE u # i
      BY <1>3, <2>2, <3>1, <3>3, NoJobType, Here DEF Shape, Fewer, Making, ImagePositions, Allocating
    <3> QED  BY <3>2, <3>3
  <2>5. LocksType'
    <3>1. \A v \in Vms : v # i /\ job'[v] = job[v]
      BY <2>2, Here
    <3> QED  BY <1>0, <1>2, <3>1 DEF LocksType
  <2>6. AllDriven'
    <3>1. \A v \in Vms : v # i /\ job'[v] = job[v] /\ record'[v] = record[v]
      BY <1>1, <2>2, Here
    <3> QED  BY <1>2, <1>3, <3>1, Here DEF AllDriven, Driven, Knows, Idle, NoJob
  <2>7. OneOwner' /\ Held' /\ Spared'
    <3>1. Erased
      BY <1>1, <1>3, Here DEF Erased, RestType
    <3> QED  BY <1>1, <1>2, <1>3, <2>4, <3>1, OwnersKept
  <2>8. RunsType' /\ Shapes'
    BY <1>0, <1>3, <1>5, <2>4 DEF RunsType, Shapes
  <2> QED  BY <1>3, <2>3, <2>5, <2>6, <2>7, <2>8, TypeParts DEF IInv
<1> QED  BY <1>4, <1>5 DEF TemplateBoot

---------------------------------------------------------------------------
\* Records are written and taken away.

\* u's call, which is in no deletion, may write u's record and no other VM's.
LEMMA OwnedBeside ==
  ASSUME NEW u \in Users, Alone(u), job[u].pc # "removing", job'[u].pc # "removing",
         NEW m \in Names, m \in Vms => m \in Users
  PROVE  /\ Owned(m)' = (IF m \in Vms /\ job[m].pc = "removing" THEN 0 ELSE record'[m])
         /\ record'[m] = record[m] => Owned(m)' = Owned(m)
<1>1. CASE m = u
  BY <1>1 DEF Owned
<1>2. CASE m # u
  BY <1>2 DEF Owned, Alone
<1> QED  BY <1>1, <1>2

\* u's call records what it made.
LEMMA OwnersRecorded ==
  ASSUME IInv, NEW u \in Users, Alone(u), Busy(u), UNCHANGED <<erased, crossed>>,
         job[u].pc # "boot", job'[u].pc # "removing", job'[u].id \in {0, job[u].id},
         \A m \in Names : record'[m] = record[m] \/ record'[m] \in Making(u),
         ~crossed => \A m, n \in Names :
             m # n /\ record'[m] # record[m] /\ record'[n] # record[n] => record'[m] # record'[n],
         \A v \in Vms : record'[v] = record[v] \/ v = u,
         Making(u)' \subseteq Making(u),
         ~crossed => \A m \in Names :
             record'[m] # record[m] /\ record'[m] \in Making(u)' => m = u /\ job'[u].pc = "boot",
         job'[u].origin \in {0, job[u].origin},
         \A d \in Ids : volume[d] # "none" => volume'[d] # "none"
  PROVE  OneOwner' /\ Held' /\ Spared'
<1> SUFFICES ASSUME ~crossed, ~crossed'
             PROVE  OneOwner' /\ Held' /\ Spared'
  BY DEF OneOwner, Held, Spared
<1>0. OneOwner /\ Held /\ Spared /\ DisksType /\ job[u].pc # "removing" /\ u \notin erased
  BY Here, BusyHasVolume
<1>1. \A t \in Users : Making(t) \subseteq Ids /\ 0 \notin Making(t)
  BY Here DEF Making, Job
<1>2. \A t \in Users \ {u} : Making(t)' = Making(t) /\ job'[t] = job[t]
  BY DEF Alone, Making
<1>11. ASSUME NEW m \in Names
       PROVE  \/ Owned(m)' = Owned(m)
              \/ Owned(m)' \in Making(u) /\ Owned(m)' = record'[m] /\ record'[m] # record[m]
  <2>1. m \in Vms => m \in Users
    BY Here
  <2>2. /\ Owned(m)' = (IF m \in Vms /\ job[m].pc = "removing" THEN 0 ELSE record'[m])
        /\ record'[m] = record[m] => Owned(m)' = Owned(m)
    BY <1>0, <2>1, OwnedBeside
  <2>3. CASE record'[m] = record[m]
    BY <2>2, <2>3
  <2>4. CASE record'[m] # record[m]
    BY <1>0, <2>2, <2>4
  <2> QED  BY <2>3, <2>4
<1>12. \A m \in Names : Owned(m) \notin Making(u)
  BY <1>0 DEF OneOwner
<1>3. ASSUME NEW m \in Names, NEW n \in Names, m # n, Owned(m)' # 0
      PROVE  Owned(m)' # Owned(n)'
  <2>1. CASE Owned(m)' = Owned(m) /\ Owned(n)' = Owned(n)
    BY <1>0, <1>3, <2>1 DEF OneOwner
  <2>2. CASE Owned(m)' \in Making(u) /\ Owned(m)' = record'[m] /\ record'[m] # record[m]
    BY <1>3, <1>11, <1>12, <2>2
  <2>3. CASE Owned(n)' \in Making(u) /\ Owned(n)' = record'[n] /\ record'[n] # record[n]
    BY <1>3, <1>11, <1>12, <2>3
  <2> QED  BY <1>11, <2>1, <2>2, <2>3
<1>4. ASSUME NEW t \in Users, NEW m \in Names, Owned(m)' \in Making(t)'
      PROVE  m = t /\ job'[t].pc = "boot"
  <2>1. CASE t = u
    BY <1>4, <1>11, <1>12, <2>1
  <2>2. CASE t # u
    <3>1. Owned(m)' \notin Making(u)
      BY <1>0, <1>2, <1>4, <2>2 DEF OneOwner
    <3>2. Owned(m) \in Making(t)
      BY <1>2, <1>4, <1>11, <2>2, <3>1
    <3> QED  BY <1>0, <1>2, <2>2, <3>2 DEF OneOwner
  <2> QED  BY <2>1, <2>2
<1>5. ASSUME NEW s \in Users, NEW t \in Users, s # t
      PROVE  Making(s)' \cap Making(t)' = {}
  <2>1. Making(s)' \subseteq Making(s) /\ Making(t)' \subseteq Making(t)
    BY <1>2
  <2> QED  BY <1>0, <1>5, <2>1 DEF OneOwner
<1>6. OneOwner'
  BY <1>3, <1>4, <1>5 DEF OneOwner
<1>7. ASSUME NEW m \in Names \ erased', record'[m] # 0
      PROVE  volume'[record'[m]] # "none"
  <2>1. CASE record'[m] \in Making(u)
    BY <1>0, <1>1, <2>1 DEF Held
  <2>2. CASE record'[m] = record[m]
    <3>1. record[m] \in Ids /\ volume[record[m]] # "none"
      BY <1>0, <1>7, <2>2 DEF Held, DisksType, Recordable
    <3> QED  BY <2>2, <3>1
  <2> QED  BY <2>1, <2>2
<1>8. ASSUME NEW t \in Users, NEW d \in Making(t)'
      PROVE  volume'[d] # "none"
  <2>1. d \in Making(t)
    BY <1>2
  <2> QED  BY <1>0, <1>1, <2>1 DEF Held
<1>9. ASSUME NEW t \in Users, job'[t].origin # 0
      PROVE  /\ volume'[job'[t].origin] # "none"
             /\ \A v \in Vms : Owned(v)' # job'[t].origin /\ job'[t].origin \notin Making(v)'
  <2>1. job'[t].origin = job[t].origin
    BY <1>2, <1>9
  <2>2. /\ job[t].origin \in Ids /\ volume[job[t].origin] # "none"
        /\ \A v \in Vms : Owned(v) # job[t].origin /\ job[t].origin \notin Making(v)
    BY <1>0, <1>9, <2>1, Here DEF Held, Job
  <2>3. ASSUME NEW v \in Vms
        PROVE  Making(v)' \subseteq Making(v) /\ (Owned(v)' = Owned(v) \/ Owned(v)' \in Making(v))
    <3>1. v \in Users /\ v \in Names
      BY Here
    <3> QED  BY <1>2, <1>11, <3>1
  <2> QED  BY <2>1, <2>2, <2>3
<1>10. Held'
  BY <1>7, <1>8, <1>9 DEF Held
<1>13. Spared'
  <2>1. SUFFICES ASSUME NEW v \in erased', NEW t \in Users, Idle(v)'
                 PROVE  job'[t].id # record'[v]
    BY DEF Spared
  <2>2. v \in erased /\ v \in Vms /\ v \in Users /\ v # u /\ record'[v] = record[v] /\ Driven(v)
    BY <1>0, <2>1, Here DEF RestType, AllDriven
  <2>3. Idle(v) /\ record[v] # 0
    BY <1>2, <2>1, <2>2 DEF Idle, Driven, Knows
  <2>4. job'[t].id \in {0, job[t].id}
    BY <1>2
  <2> QED  BY <1>0, <2>2, <2>3, <2>4 DEF Spared
<1> QED  BY <1>6, <1>10, <1>13

\* The volume recorded for v goes.
LEMMA EraseDoes ==
  ASSUME IInv, NEW v \in Vms, NEW from \in Ids \cup {0}, Erase(v, from), UNCHANGED counter
  PROVE  /\ record[v] \in Ids /\ v \in Names /\ v \in Users
         /\ DisksType' /\ up' = up \ {v} /\ up' \subseteq Vms
         /\ erased' = erased \cup {v} /\ erased' \subseteq Vms
         /\ \A d \in Ids \ {record[v]} : volume'[d] = volume[d]
         /\ volume'[record[v]] = "none"
         /\ JobsType' /\ Alone(v) /\ job'[v].pc = "removing" /\ job'[v].origin = from
         /\ job'[v].id = 0 /\ job'[v].root = 0 /\ Shape(v)' /\ Making(v)' = {}
         /\ job[v].pc \in {"idle", "boot"} /\ UNCHANGED builder => LocksType'
<1> DEFINE x == [NoJob EXCEPT !.pc = "removing", !.origin = from]
<1>0. DisksType /\ RunsType /\ RestType /\ JobsType /\ LocksType
      /\ v \in Names /\ v \in Users /\ v \notin Images
  BY Here
<1>1. record[v] \in Ids
  BY <1>0 DEF Erase, Knows, DisksType, Recordable
<1>2. mapped' \in [Names -> Ids \cup {0}] /\ volume' \in [Ids -> Contents] /\ UNCHANGED record
      /\ \A d \in Ids \ {record[v]} : volume'[d] = volume[d]
      /\ volume'[record[v]] = "none"
  BY <1>0, <1>1 DEF Erase, DisksType, Contents
<1>3. DisksType'
  BY <1>0, <1>2 DEF DisksType
<1>4. x \in Job /\ x.pc = "removing" /\ x.origin = from /\ x.id = 0 /\ x.root = 0 /\ x.noted = FALSE
  BY DEF NoJob, Job, Positions
<1>5. job' = [job EXCEPT ![v] = x]
  BY DEF Erase
<1> HIDE DEF x
<1>6. JobsType' /\ Alone(v) /\ job'[v] = x
  BY <1>0, <1>4, <1>5, PutDoes
<1>7. Shape(v)' /\ Making(v)' = {}
  BY <1>0, <1>4, <1>6, NoJobType DEF Shape, Making, VmPositions
<1>8. job[v].pc \in {"idle", "boot"} /\ UNCHANGED builder => LocksType'
  BY <1>0, <1>6, LocksKept
<1> QED  BY <1>0, <1>1, <1>2, <1>3, <1>4, <1>6, <1>7, <1>8 DEF Erase, RunsType, RestType

LEMMA OwnersReleased ==
  ASSUME IInv, NEW v \in Vms, NEW from \in Ids \cup {0}, Erase(v, from),
         UNCHANGED <<counter, crossed>>, job[v].pc # "removing",
         from = 0 \/ \E i \in Images : from = record[Warm(i)]
  PROVE  OneOwner' /\ Held' /\ Spared'
<1> SUFFICES ASSUME ~crossed, ~crossed'
             PROVE  OneOwner' /\ Held' /\ Spared'
  BY DEF OneOwner, Held, Spared
<1>0. OneOwner /\ Held /\ Spared /\ DisksType /\ UNCHANGED record /\ RestType
  BY Here DEF Erase
<1>1. /\ record[v] \in Ids /\ v \in Names /\ v \in Users /\ Alone(v)
      /\ erased' = erased \cup {v} /\ \A d \in Ids \ {record[v]} : volume'[d] = volume[d]
      /\ job'[v].pc = "removing" /\ job'[v].origin = from /\ job'[v].id = 0 /\ Making(v)' = {}
      /\ 0 \notin Ids
  BY EraseDoes, Here
<1>2. \A t \in Users \ {v} : Making(t)' = Making(t) /\ job'[t] = job[t]
  BY <1>1 DEF Alone, Making
<1>3. Owned(v) = record[v] /\ Owned(v)' = 0 /\ \A m \in Names \ {v} : Owned(m)' = Owned(m)
  <2>1. Owned(v) = record[v] /\ Owned(v)' = 0
    BY <1>1 DEF Owned
  <2>2. ASSUME NEW m \in Names \ {v}
        PROVE  Owned(m)' = Owned(m)
    BY <1>0, <1>2, Here DEF Owned
  <2> QED  BY <2>1, <2>2
<1>5. \A t \in Users : Making(t)' \subseteq Making(t)
  BY <1>1, <1>2
<1>6. OneOwner'
  <2>1. \A m, n \in Names : m # n /\ Owned(m)' # 0 => Owned(m)' # Owned(n)'
    BY <1>0, <1>3 DEF OneOwner
  <2>2. ASSUME NEW t \in Users, NEW m \in Names, Owned(m)' \in Making(t)'
        PROVE  m = t /\ job'[t].pc = "boot"
    <3>1. t # v /\ m # v
      BY <1>1, <1>3, <1>5, <2>2 DEF Making
    <3>2. Owned(m) \in Making(t) /\ job'[t] = job[t]
      BY <1>2, <1>3, <2>2, <3>1
    <3> QED  BY <1>0, <3>2 DEF OneOwner
  <2>3. \A s, t \in Users : s # t => Making(s)' \cap Making(t)' = {}
    BY <1>0, <1>5 DEF OneOwner
  <2> QED  BY <2>1, <2>2, <2>3 DEF OneOwner
<1>7. ASSUME NEW m \in Names \ erased', record'[m] # 0
      PROVE  volume'[record'[m]] # "none"
  <2>1. m # v /\ m \notin erased /\ record'[m] = record[m] /\ record[m] \in Ids
    BY <1>0, <1>1, <1>7 DEF DisksType, Recordable
  <2>2. m \in Vms => Driven(m)
    BY Here DEF AllDriven
  <2>3. Owned(m) = record[m]
    BY <2>1, <2>2 DEF Owned, Driven
  <2>4. record[m] # record[v]
    BY <1>0, <1>1, <1>3, <2>1, <2>3 DEF OneOwner
  <2> QED  BY <1>0, <1>1, <1>7, <2>1, <2>4 DEF Held
<1>8. ASSUME NEW t \in Users, NEW d \in Making(t)'
      PROVE  volume'[d] # "none"
  <2>1. t # v /\ d \in Making(t) /\ d \in Ids
    BY <1>1, <1>2, <1>8, Here DEF Making, Job
  <2>2. d # record[v]
    BY <1>0, <1>1, <1>3, <2>1 DEF OneOwner
  <2> QED  BY <1>0, <1>1, <2>1, <2>2 DEF Held
<1>9. ASSUME NEW t \in Users, job'[t].origin # 0
      PROVE  /\ volume'[job'[t].origin] # "none"
             /\ \A w \in Vms : Owned(w)' # job'[t].origin /\ job'[t].origin \notin Making(w)'
  <2>1. \A w \in Vms : Owned(w)' \in {0, Owned(w)} /\ Making(w)' \subseteq Making(w)
    BY <1>3, <1>5, Here
  <2>2. CASE t # v
    <3>1. /\ job'[t].origin = job[t].origin /\ job[t].origin \in Ids
          /\ volume[job[t].origin] # "none"
          /\ \A w \in Vms : Owned(w) # job[t].origin /\ job[t].origin \notin Making(w)
      BY <1>0, <1>2, <1>9, <2>2, Here DEF Held, Job
    <3> QED  BY <1>1, <1>3, <1>9, <2>1, <3>1
  <2>3. CASE t = v
    <3>1. PICK i \in Images : from = record[Warm(i)]
      BY <1>1, <1>9, <2>3
    <3>2. Warm(i) \in Names /\ Warm(i) \notin Vms
      BY NamesAssumption DEF Names, OfImages
    <3>3. record[Warm(i)] \in Ids /\ volume[record[Warm(i)]] # "none" /\ Owned(Warm(i)) = record[Warm(i)]
      BY <1>0, <1>1, <1>9, <2>3, <3>1, <3>2 DEF Held, DisksType, Recordable, RestType, Owned
    <3>4. ASSUME NEW w \in Vms
          PROVE  Owned(w) # record[Warm(i)] /\ record[Warm(i)] \notin Making(w)
      BY <1>0, <1>1, <3>2, <3>3, Here DEF OneOwner
    <3> QED  BY <1>1, <1>3, <1>9, <2>1, <2>3, <3>1, <3>3, <3>4
  <2> QED  BY <2>2, <2>3
<1>10. Held'
  BY <1>7, <1>8, <1>9 DEF Held
<1>11. Spared'
  <2>1. SUFFICES ASSUME NEW w \in erased', NEW t \in Users, Idle(w)'
                 PROVE  job'[t].id # record'[w]
    BY DEF Spared
  <2>2. w # v /\ w \in erased /\ w \in Vms /\ w \in Users /\ Driven(w)
    BY <1>0, <1>1, <2>1, NoJobType, Here DEF Idle, RestType, AllDriven
  <2>3. Idle(w) /\ record[w] # 0
    BY <1>2, <2>1, <2>2 DEF Idle, Driven, Knows
  <2>4. job'[t].id \in {0, job[t].id}
    BY <1>1, <1>2
  <2> QED  BY <1>0, <2>2, <2>3, <2>4 DEF Spared
<1> QED  BY <1>6, <1>10, <1>11

\* A call begins to clone an image.
LEMMA OwnersCloning ==
  ASSUME IInv, NEW v \in Vms, Idle(v), Alone(v), JobsType', Making(v)' = {}, job'[v].id = 0,
         job'[v].pc # "removing",
         job'[v].origin = 0 \/ \E i \in Images : job'[v].origin = record[Warm(i)],
         UNCHANGED <<volume, record, erased, crossed>>, ~Knows(v)
  PROVE  OneOwner' /\ Held' /\ Spared'
<1> SUFFICES ASSUME ~crossed, ~crossed'
             PROVE  OneOwner' /\ Held' /\ Spared'
  BY DEF OneOwner, Held, Spared
<1>0. OneOwner /\ Held /\ Spared /\ DisksType /\ RestType /\ job[v].pc # "removing" /\ v \in Users
      /\ 0 \notin Ids /\ Driven(v)
  BY NoJobType, Here DEF Idle, AllDriven
<1>1. \A t \in Users \ {v} : Making(t)' = Making(t) /\ job'[t] = job[t]
  BY DEF Alone, Making
<1>2. \A m \in Names : Owned(m)' = Owned(m)
  BY <1>0, OwnedBeside, Here
<1>3. \A t \in Users : Making(t)' \subseteq Making(t) /\ Making(t) \subseteq Ids
  BY <1>1, Here DEF Making, Job
<1>4. OneOwner'
  <2>1. \A m, n \in Names : m # n /\ Owned(m)' # 0 => Owned(m)' # Owned(n)'
    BY <1>0, <1>2 DEF OneOwner
  <2>2. ASSUME NEW t \in Users, NEW m \in Names, Owned(m)' \in Making(t)'
        PROVE  m = t /\ job'[t].pc = "boot"
    BY <1>0, <1>1, <1>2, <2>2 DEF OneOwner
  <2>3. \A s, t \in Users : s # t => Making(s)' \cap Making(t)' = {}
    BY <1>0, <1>3 DEF OneOwner
  <2> QED  BY <2>1, <2>2, <2>3 DEF OneOwner
<1>5. ASSUME NEW t \in Users, job'[t].origin # 0
      PROVE  /\ volume'[job'[t].origin] # "none"
             /\ \A w \in Vms : Owned(w)' # job'[t].origin /\ job'[t].origin \notin Making(w)'
  <2>1. \A w \in Vms : Owned(w)' = Owned(w) /\ Making(w)' \subseteq Making(w)
    BY <1>2, <1>3, Here
  <2>2. CASE t # v
    BY <1>0, <1>1, <1>5, <2>1, <2>2 DEF Held
  <2>3. CASE t = v
    <3>1. PICK i \in Images : job'[v].origin = record[Warm(i)]
      BY <1>5, <2>3
    <3>2. Warm(i) \in Names /\ Warm(i) \notin Vms
      BY NamesAssumption DEF Names, OfImages
    <3>3. record[Warm(i)] # 0 /\ volume[record[Warm(i)]] # "none" /\ Owned(Warm(i)) = record[Warm(i)]
      BY <1>0, <1>5, <2>3, <3>1, <3>2 DEF Held, RestType, Owned
    <3>4. ASSUME NEW w \in Vms
          PROVE  Owned(w) # record[Warm(i)] /\ record[Warm(i)] \notin Making(w)
      BY <1>0, <3>2, <3>3, Here DEF OneOwner
    <3> QED  BY <2>1, <2>3, <3>1, <3>3, <3>4
  <2> QED  BY <2>2, <2>3
<1>6. Held'
  <2>1. \A m \in Names \ erased' : record'[m] # 0 => volume'[record'[m]] # "none"
    BY <1>0 DEF Held
  <2>2. \A t \in Users : \A d \in Making(t)' : volume'[d] # "none"
    BY <1>0, <1>3 DEF Held
  <2> QED  BY <1>5, <2>1, <2>2 DEF Held
<1>7. Spared'
  <2>1. SUFFICES ASSUME NEW w \in erased', NEW t \in Users, Idle(w)'
                 PROVE  job'[t].id # record'[w]
    BY DEF Spared
  <2>2. w \in erased /\ w \in Vms /\ w \in Users /\ w # v /\ Driven(w)
    BY <1>0, <2>1, Here DEF RestType, Driven, AllDriven
  <2>3. Idle(w) /\ record[w] # 0
    BY <1>1, <2>1, <2>2 DEF Idle, Driven, Knows
  <2>4. job'[t].id \in {0, job[t].id}
    BY <1>1
  <2> QED  BY <1>0, <2>2, <2>3, <2>4 DEF Spared
<1> QED  BY <1>4, <1>6, <1>7

LEMMA TemplateEndsStep ==
  ASSUME IInv, NEW i \in Images, TemplateEnds(i)
  PROVE  IInv'
<1>0. DisksType /\ RunsType /\ RestType /\ JobsType /\ LocksType /\ i \in Users /\ Shape(i)
      /\ job[i] \in Job /\ job[i].pc \in {"serving", "cut"}
      /\ UNCHANGED <<world, counter, volume, mapped, up, docker, allowed, builder, drive, past>>
  BY Here DEF TemplateEnds
<1>1. CASE UNCHANGED record /\ job' = [job EXCEPT ![i] = NoJob]
  BY <1>0, <1>1, ImageEnds DEF TemplateEnds, DisksType
<1>2. CASE record' = [record EXCEPT ![Tpl(i)] = 0] /\ job' = [job EXCEPT ![i].pc = "done"]
  <2> DEFINE x == [job[i] EXCEPT !.pc = "done"]
  <2>1. x \in Job /\ x.id = job[i].id /\ x.pc = "done" /\ x.noted = job[i].noted
        /\ x.root = job[i].root /\ x.origin = job[i].origin
    BY <1>0 DEF Job, Positions
  <2>2. job' = [job EXCEPT ![i] = x]
    BY <1>2
  <2> HIDE DEF x
  <2>3. JobsType' /\ Alone(i) /\ job'[i] = x
    BY <1>0, <2>1, <2>2, PutDoes
  <2>4. record' \in [Recordable -> Ids \cup {0}] /\ \A m \in Names : record'[m] = record[m]
    BY <1>0, <1>2, TplApart DEF DisksType, Recordable
  <2>5. DisksType' /\ RestType' /\ RunsType' /\ UNCHANGED <<erased, crossed>>
    BY <1>0, <2>4 DEF TemplateEnds, DisksType, RestType, RunsType, past
  <2>6. Shape(i)' /\ Fewer(i)
    BY <1>0, <2>1, <2>3, <2>5, NoJobType, Here DEF Shape, Fewer, Making, ImagePositions, Allocating
  <2>7. LocksType'
    BY <1>0, <2>3, LocksKept
  <2> QED  BY <1>0, <2>1, <2>3, <2>4, <2>5, <2>6, <2>7, GoesOn DEF Busy
<1> QED  BY <1>1, <1>2 DEF TemplateEnds

LEMMA RecordImageStep ==
  ASSUME IInv, NEW i \in Images, RecordImage(i)
  PROVE  IInv'
<1>0. DisksType /\ RunsType /\ RestType /\ JobsType /\ LocksType /\ i \in Users /\ Shape(i)
      /\ job[i] \in Job /\ job[i].pc = "done" /\ OneOwner /\ Busy(i)
      /\ UNCHANGED <<world, counter, volume, mapped, runs, allowed, builder, drive, past>>
      /\ UNCHANGED <<erased, crossed>>
  BY Here DEF RecordImage, Busy, past
<1>1. record' = [record EXCEPT ![Base(i)] = job[i].root, ![Warm(i)] = job[i].id]
  BY DEF RecordImage
<1>2. /\ Base(i) # Warm(i) /\ {Base(i), Warm(i)} \subseteq Names
      /\ \A v \in Vms : v \notin {Base(i), Warm(i)}
  BY NamesAssumption DEF Base, Warm, Names, OfImages
<1>3. /\ job[i].root \in Ids /\ job[i].id \in Ids /\ (crossed \/ job[i].root # job[i].id)
      /\ Making(i) = {job[i].root, job[i].id}
  BY <1>0, Here DEF Making, Shape, Job
<1>4. /\ record'[Base(i)] = job[i].root /\ record'[Warm(i)] = job[i].id
      /\ \A m \in Names \ {Base(i), Warm(i)} : record'[m] = record[m]
      /\ record' \in [Recordable -> Ids \cup {0}]
  BY <1>0, <1>1, <1>2, <1>3 DEF DisksType, Recordable
<1>5. JobsType' /\ Alone(i) /\ job'[i] = NoJob
  BY <1>0, NoJobType, PutDoes DEF RecordImage
<1>6. Shape(i)' /\ Making(i)' = {}
  BY <1>0, <1>5, Ends
<1>7. DisksType' /\ RunsType' /\ RestType' /\ UNCHANGED <<up, docker, allowed, volume, builder>>
  BY <1>0, <1>4 DEF DisksType, RunsType, RestType, runs, past
<1>8. OneOwner' /\ Held' /\ Spared'
  <2>1. \A m \in Names : record'[m] = record[m] \/ record'[m] \in Making(i)
    BY <1>3, <1>4
  <2>2. ~crossed => \A m, n \in Names :
            m # n /\ record'[m] # record[m] /\ record'[n] # record[n] => record'[m] # record'[n]
    BY <1>3, <1>4
  <2>3. \A v \in Vms : record'[v] = record[v]
    BY <1>2, <1>4, Here
  <2>4. job'[i].origin = 0 /\ job[i].pc # "boot" /\ job'[i].id = 0 /\ job'[i].pc # "removing"
    BY <1>0, <1>5, NoJobType
  <2> QED  BY <1>0, <1>5, <1>6, <1>7, <2>1, <2>2, <2>3, <2>4, OwnersRecorded
<1>9. LocksType'
  BY <1>0, <1>5, <1>7, LocksKept
<1>10. AllDriven'
  BY <1>0, <1>2, <1>4, <1>5, <1>7, NoJobType, Here, DrivenAlone
<1>11. Shapes'
  BY <1>0, <1>5, <1>6, ShapesAlone, Here
<1> QED  BY <1>5, <1>7, <1>8, <1>9, <1>10, <1>11, TypeParts DEF IInv

LEMMA RedoStep ==
  ASSUME IInv, NEW i \in Images, Redo(i)
  PROVE  IInv'
<1>0. DisksType /\ RunsType /\ RestType /\ JobsType /\ LocksType /\ Shapes /\ AllDriven
  BY Here
<1>1. record' = [record EXCEPT ![Base(i)] = 0, ![Warm(i)] = 0]
      /\ UNCHANGED <<world, counter, volume, mapped, runs, allowed, job, builder, drive, past>>
  BY DEF Redo
<1>8. UNCHANGED <<erased, crossed>>
  BY <1>1 DEF past
<1>2. /\ record' \in [Recordable -> Ids \cup {0}] /\ \A v \in Vms : record'[v] = record[v]
      /\ \A m \in Names : record'[m] \in {0, record[m]}
  <2>1. \A v \in Vms : v \in Names /\ v \notin {Base(i), Warm(i)}
    BY NamesAssumption, Here
  <2> QED  BY <1>0, <1>1, <2>1 DEF DisksType, Recordable
<1>3. DisksType' /\ RunsType' /\ RestType' /\ JobsType'
  BY <1>0, <1>1, <1>2 DEF DisksType, RunsType, RestType, JobsType, runs, past
<1>4. LocksType' /\ Shapes'
  BY <1>0, <1>1, <1>8 DEF LocksType, Shapes, Shape
<1>5. \A u \in Users : Fewer(u)
  BY <1>1 DEF Fewer, Making
<1>6. OneOwner' /\ Held' /\ Spared'
  <2>1. Erased
    BY <1>0, <1>2, <1>8 DEF Erased, RestType
  <2> QED  BY <1>1, <1>2, <1>5, <1>8, <2>1, OwnersKept
<1>7. AllDriven'
  BY <1>0, <1>1, <1>2, <1>8 DEF AllDriven, Driven, Knows, Idle, runs
<1> QED  BY <1>3, <1>4, <1>6, <1>7, TypeParts DEF IInv

---------------------------------------------------------------------------
\* A workload's calls.

\* Only v changes hands.
LEMMA DrivenHere ==
  ASSUME IInv, NEW v \in Vms, Alone(v), UNCHANGED allowed,
         \A w \in Vms \ {v} : /\ record'[w] = record[w] /\ docker'[w] = docker[w]
                               /\ (w \in erased' <=> w \in erased),
         \A w \in up' : w \in up \/ w = v, Driven(v)'
  PROVE  AllDriven'
<1> SUFFICES ASSUME NEW w \in Vms, w # v PROVE Driven(w)'
  BY DEF AllDriven
<1>1. Driven(w) /\ w \in Users /\ job'[w] = job[w]
  BY Here DEF AllDriven, Alone
<1> QED  BY <1>1 DEF Driven, Knows, Idle

\* v's volume is deleted; its record and its place among the VMs stay.
LEMMA Deleted ==
  ASSUME IInv, NEW v \in Vms, NEW from \in Ids \cup {0}, Erase(v, from), job[v].pc # "removing",
         UNCHANGED <<world, counter, template, allowed, builder, stuck, crossed>>,
         job[v].pc \in {"idle", "boot"},
         from = 0 \/ \E i \in Images : from = record[Warm(i)],
         docker' \in [Vms -> {"none", "stopped", "running"}],
         \A w \in Vms \ {v} : docker'[w] = docker[w], docker'[v] # "running"
  PROVE  IInv'
<1>0. DisksType /\ RunsType /\ RestType /\ Shapes /\ Driven(v)
      /\ UNCHANGED <<record, ran, drive>> /\ Knows(v)
  BY Here DEF Erase, AllDriven
<1>1. /\ v \in Users /\ v \in Names
      /\ DisksType' /\ up' = up \ {v} /\ up' \subseteq Vms
      /\ erased' = erased \cup {v} /\ erased' \subseteq Vms
      /\ JobsType' /\ Alone(v) /\ job'[v].pc = "removing" /\ Shape(v)' /\ LocksType'
  BY EraseDoes
<1>2. RunsType' /\ RestType'
  BY <1>0, <1>1 DEF RunsType, RestType
<1>3. OneOwner' /\ Held' /\ Spared'
  BY OwnersReleased
<1>4. Shapes'
  BY <1>0, <1>1, ShapesAlone, Here
<1>5. Driven(v)'
  BY <1>0, <1>1 DEF Driven, Knows
<1>6. AllDriven'
  BY <1>0, <1>1, <1>5, DrivenHere, Here
<1> QED  BY <1>1, <1>2, <1>3, <1>4, <1>6, TypeParts DEF IInv

LEMMA StoppedDoes ==
  ASSUME IInv, NEW v \in Vms
  PROVE  /\ Stopped(v) \in [Vms -> {"none", "stopped", "running"}]
         /\ \A w \in Vms \ {v} : Stopped(v)[w] = docker[w]
         /\ Stopped(v)[v] # "running"
<1>1. RunsType /\ Driven(v)
  BY Here DEF AllDriven
<1> QED  BY <1>1 DEF Stopped, Driven, RunsType

\* A call that goes on after a deletion, if only to end.
LEMMA CloneJob ==
  ASSUME IInv, NEW v \in Vms, NEW d \in Ids \cup {0}, job' = [job EXCEPT ![v] = Cloning(d)]
  PROVE  /\ JobsType' /\ Alone(v) /\ Making(v)' = {} /\ job'[v].root = 0 /\ job'[v].id = 0
         /\ UNCHANGED crossed => Shape(v)'
         /\ job'[v].pc \in {"idle", "clone"} /\ job'[v].origin = d
         /\ (job[v].pc \in {"idle", "removing"}) /\ UNCHANGED builder => LocksType'
<1>0. JobsType /\ LocksType /\ v \in Users /\ v \notin Images
  BY Here
<1> DEFINE x == Cloning(d)
<1>1. x \in Job /\ x.pc \in {"idle", "clone"} /\ x.origin = d /\ x.id = 0 /\ x.root = 0
      /\ x.noted = FALSE /\ (x.pc = "idle" => x = NoJob)
  BY DEF Cloning, NoJob, Job, Positions, Allocating
<1> HIDE DEF x
<1>3. JobsType' /\ Alone(v) /\ job'[v] = x
  BY <1>0, <1>1, PutDoes DEF x
<1>4. Making(v)' = {} /\ (UNCHANGED crossed => Shape(v)')
  BY <1>0, <1>1, <1>3, NoJobType DEF Shape, Making, VmPositions
<1>5. (job[v].pc \in {"idle", "removing"}) /\ UNCHANGED builder => LocksType'
  BY <1>0, <1>3, LocksKept
<1> QED  BY <1>1, <1>3, <1>4, <1>5

\* The image a VM is cloned from.
LEMMA OfImage ==
  ASSUME IInv, NEW v \in Vms
  PROVE  /\ ImageOf[v] \in Images /\ record[Warm(ImageOf[v])] \in Ids \cup {0}
         /\ \E i \in Images : record[Warm(ImageOf[v])] = record[Warm(i)]
  BY ConstantsAssumption, Here DEF DisksType, Recordable, Names, OfImages

\* The record of what was deleted goes; what was to be cloned has its volume still.
LEMMA ForgetStep ==
  ASSUME IInv, NEW v \in Vms, Forget(v)
  PROVE  IInv'
<1>0. /\ DisksType /\ RunsType /\ RestType /\ LocksType /\ Shapes /\ Driven(v)
      /\ v \in Users /\ v \in Names /\ job[v].pc = "removing" /\ job[v].origin \in Ids \cup {0}
      /\ UNCHANGED <<world, counter, volume, mapped, runs, allowed, builder, stuck, crossed>>
  BY Here DEF Forget, AllDriven, Job
<1>1. /\ record' = [record EXCEPT ![v] = 0] /\ ran' = ran \ {v} /\ drive' = drive \ {v}
      /\ erased' = erased \ {v}
  BY DEF Forget
<1>2. /\ JobsType' /\ Alone(v) /\ Making(v)' = {} /\ Shape(v)' /\ LocksType' /\ job'[v].id = 0
      /\ job'[v].pc \in {"idle", "clone"} /\ job'[v].origin = job[v].origin
  <2>1. PICK d \in Ids \cup {0} : d = job[v].origin
    BY <1>0
  <2>2. job' = [job EXCEPT ![v] = Cloning(d)]
    BY <2>1 DEF Forget
  <2> QED  BY <1>0, <2>1, <2>2, CloneJob
<1>3. /\ record' \in [Recordable -> Ids \cup {0}] /\ record'[v] = 0
      /\ \A m \in Names \ {v} : record'[m] = record[m]
  BY <1>0, <1>1 DEF DisksType, Recordable
<1>4. DisksType' /\ RunsType' /\ RestType' /\ UNCHANGED <<up, docker, allowed>>
  BY <1>0, <1>1, <1>3 DEF DisksType, RunsType, RestType, runs
<1>5. OneOwner' /\ Held' /\ Spared'
  <2>1. Fewer(v)
    BY <1>0, <1>2, <1>3 DEF Fewer
  <2>2. Erased
    BY <1>0, <1>1, <1>3, Here DEF Erased, RestType
  <2> QED  BY <1>0, <1>2, <1>3, <2>1, <2>2, OwnersAlone
<1>6. Driven(v)'
  BY <1>0, <1>1, <1>2, <1>3, <1>4 DEF Driven, Knows, Idle, NoJob
<1>7. AllDriven'
  BY <1>0, <1>1, <1>2, <1>3, <1>4, <1>6, DrivenHere, Here
<1>8. Shapes'
  BY <1>0, <1>2, ShapesAlone
<1> QED  BY <1>2, <1>4, <1>5, <1>7, <1>8, TypeParts DEF IInv

\* Nothing is known of v that a call could take away.
LEMMA NothingGoes ==
  ASSUME IInv, NEW v \in Vms, Idle(v), Alone(v), JobsType', Shape(v)', LocksType', Fewer(v),
         UNCHANGED <<world, counter, mapped, volume, record, erased, template, allowed, stuck, crossed>>,
         up' \subseteq up, ran' \subseteq ran, drive' \subseteq drive,
         docker' \in [Vms -> {"none", "stopped", "running"}],
         \A w \in Vms \ {v} : docker'[w] = docker[w], Driven(v)'
  PROVE  IInv'
<1>0. DisksType /\ RunsType /\ RestType /\ Shapes /\ v \in Users
  BY Here
<1>1. DisksType' /\ RunsType' /\ RestType'
  BY <1>0 DEF DisksType, RunsType, RestType
<1>2. OneOwner' /\ Held' /\ Spared'
  BY <1>0, OwnersAlone DEF Erased
<1>3. AllDriven'
  BY DrivenHere, Here
<1>4. Shapes'
  BY <1>0, ShapesAlone
<1> QED  BY <1>1, <1>2, <1>3, <1>4, TypeParts DEF IInv

LEMMA JobKept ==
  ASSUME IInv, NEW v \in Vms, UNCHANGED <<job, builder, crossed>>
  PROVE  Alone(v) /\ JobsType' /\ Shape(v)' /\ LocksType' /\ Fewer(v)
<1>1. JobsType /\ LocksType /\ Shape(v)
  BY Here
<1> QED  BY <1>1 DEF Alone, JobsType, Shape, LocksType, Fewer, Making

LEMMA CreateStep ==
  ASSUME IInv, NEW v \in Vms, Create(v)
  PROVE  IInv'
<1>0. /\ RunsType /\ RestType /\ LocksType /\ Driven(v) /\ v \in Users /\ Idle(v)
      /\ job[v].pc = "idle"
      /\ UNCHANGED <<world, counter, template, allowed, builder, stuck, crossed>>
  BY NoJobType, Here DEF Create, AllDriven, Idle
<1>1. PICK warm \in Ids \cup {0} : warm = record[Warm(ImageOf[v])]
  BY OfImage
<1>2. CASE v \in allowed /\ Erase(v, warm) /\ docker' = Stopped(v)
  BY <1>0, <1>1, <1>2, OfImage, StoppedDoes, Deleted
<1>3. CASE /\ v \in allowed /\ ~Knows(v)
           /\ job' = [job EXCEPT ![v] = Cloning(warm)]
           /\ ran' = ran \ {v} /\ drive' = drive \ {v}
           /\ docker' = Stopped(v)
           /\ UNCHANGED <<up, mapped, volume, record, erased>>
  <2>1. /\ JobsType' /\ Alone(v) /\ Making(v)' = {} /\ Shape(v)' /\ LocksType' /\ job'[v].id = 0
        /\ job'[v].pc \in {"idle", "clone"} /\ job'[v].origin = warm
    BY <1>0, <1>3, CloneJob
  <2>2. Driven(v)'
    BY <1>0, <1>3, <2>1, StoppedDoes DEF Driven, Knows, Idle
  <2>3. OneOwner' /\ Held' /\ Spared'
    <3>1. \E i \in Images : job'[v].origin = record[Warm(i)]
      BY <1>1, <2>1, OfImage
    <3>2. job'[v].pc # "removing"
      BY <2>1
    <3> QED  BY <1>0, <1>3, <2>1, <3>1, <3>2, OwnersCloning
  <2>4. DisksType' /\ RunsType' /\ RestType' /\ Shapes'
    BY <1>0, <1>3, <2>1, StoppedDoes, ShapesAlone, Here DEF DisksType, RunsType, RestType
  <2>5. AllDriven'
    BY <1>0, <1>3, <2>1, <2>2, StoppedDoes, DrivenHere
  <2> QED  BY <2>1, <2>3, <2>4, <2>5, TypeParts DEF IInv
<1>4. CASE /\ v \notin allowed
           /\ up' = up \ {v}
           /\ docker' = [docker EXCEPT ![v] = "running"]
           /\ UNCHANGED <<mapped, volume, record, ran, drive, erased, job>>
  <2>1. ~Knows(v) /\ v \notin erased
    BY <1>0, <1>4 DEF Driven
  <2>2. docker' \in [Vms -> {"none", "stopped", "running"}]
        /\ \A w \in Vms \ {v} : docker'[w] = docker[w]
    BY <1>0, <1>4 DEF RunsType
  <2>3. Driven(v)'
    BY <1>0, <1>4, <2>1, NoJobType DEF Driven, Knows, Idle
  <2> QED  BY <1>0, <1>4, <2>2, <2>3, JobKept, NothingGoes
<1> QED  BY <1>1, <1>2, <1>3, <1>4 DEF Create

LEMMA DeleteStep ==
  ASSUME IInv, NEW v \in Vms, Delete(v)
  PROVE  IInv'
<1>0. /\ RunsType /\ Driven(v) /\ Idle(v) /\ job[v].pc = "idle" /\ docker' = Stopped(v)
      /\ UNCHANGED <<world, counter, template, allowed, builder, stuck, crossed>>
  BY NoJobType, Here DEF Delete, AllDriven, Idle
<1>1. CASE Erase(v, 0)
  BY <1>0, <1>1, StoppedDoes, Deleted
<1>2. CASE ~Knows(v) /\ UNCHANGED <<up, mapped, volume, record, ran, drive, erased, job>>
  <2>1. Driven(v)'
    BY <1>0, <1>2, StoppedDoes DEF Driven, Knows, Idle
  <2> QED  BY <1>0, <1>2, <2>1, StoppedDoes, JobKept, NothingGoes
<1> QED  BY <1>1, <1>2 DEF Delete

LEMMA CreateBootFailsStep ==
  ASSUME IInv, NEW v \in Vms, CreateBootFails(v)
  PROVE  IInv'
<1>1. /\ Erase(v, 0) /\ job[v].pc = "boot" /\ RunsType /\ Driven(v)
      /\ UNCHANGED <<world, counter, template, docker, allowed, builder, stuck, crossed>>
  BY Here DEF CreateBootFails, AllDriven
<1>2. docker[v] # "running" /\ docker \in [Vms -> {"none", "stopped", "running"}]
  BY <1>1 DEF Driven, RunsType
<1> QED  BY <1>1, <1>2, Deleted

LEMMA DepsStep ==
  ASSUME IInv, NEW v \in Vms, Deps(v)
  PROVE  IInv'
<1> DEFINE f == FamilyOf[v]
<1>0. /\ DisksType /\ RestType /\ RunsType /\ JobsType /\ LocksType /\ v \in Users /\ v \notin Images
      /\ Shape(v) /\ job[v] \in Job /\ job[v].pc = "deps" /\ job[v] # NoJob /\ builder[f] = Nobody
      /\ f \in Families /\ f \in Names
      /\ UNCHANGED <<world, counter, volume, record, runs, allowed, past>>
      /\ UNCHANGED <<erased, crossed>> /\ Busy(v)
  BY Here, NoJobType, ConstantsAssumption DEF Deps, Names, Busy, past
<1>1. CASE record[f] # 0
  <2> DEFINE x == [job[v] EXCEPT !.pc = "save"]
  <2>1. x \in Job /\ x.id = job[v].id /\ x.pc = "save" /\ x.noted = job[v].noted
        /\ x.root = job[v].root /\ x.origin = job[v].origin
    BY <1>0 DEF Job, Positions
  <2>2. /\ job' = [job EXCEPT ![v] = x] /\ mapped' = Activated(f, record[f])
        /\ drive' = drive \cup {v} /\ UNCHANGED builder
    BY <1>1 DEF Deps
  <2> HIDE DEF x
  <2>3. JobsType' /\ Alone(v) /\ job'[v] = x
    BY <1>0, <2>1, <2>2, PutDoes
  <2>4. Shape(v)' /\ Fewer(v)
    BY <1>0, <2>1, <2>3, NoJobType DEF Shape, Fewer, Making, VmPositions, Allocating
  <2>5. LocksType'
    BY <1>0, <2>2, <2>3, LocksKept
  <2>6. mapped' \in [Names -> Ids \cup {0}]
    BY <1>0, <2>2 DEF Activated, DisksType, Recordable
  <2>7. DisksType' /\ RestType' /\ RunsType' /\ UNCHANGED <<up, docker>>
    BY <1>0, <2>2, <2>6 DEF DisksType, RestType, RunsType, runs, past
  <2> QED  BY <1>0, <2>1, <2>3, <2>4, <2>5, <2>7, GoesOn
<1>2. CASE record[f] = 0
  <2> DEFINE x == [job[v] EXCEPT !.pc = "family", !.origin = 0]
  <2>1. x \in Job /\ x.id = job[v].id /\ x.pc = "family" /\ x.noted = job[v].noted
        /\ x.root = job[v].root /\ x.origin = 0
    BY <1>0 DEF Job, Positions, Allocating
  <2>2. /\ job' = [job EXCEPT ![v] = x] /\ builder' = [builder EXCEPT ![f] = v]
        /\ UNCHANGED <<mapped, drive>>
    BY <1>2 DEF Deps
  <2> HIDE DEF x
  <2>3. JobsType' /\ Alone(v) /\ job'[v] = x
    BY <1>0, <2>1, <2>2, PutDoes
  <2>4. Shape(v)' /\ Fewer(v)
    BY <1>0, <2>1, <2>3, NoJobType DEF Shape, Fewer, Making, VmPositions, Allocating
  <2>5. LocksType'
    <3>1. builder' \in [Families -> Vms \cup {Nobody}]
      BY <1>0, <2>2 DEF LocksType
    <3>2. ASSUME NEW g \in Families, builder'[g] # Nobody
          PROVE  job'[builder'[g]].pc \in {"family", "fill"}
      <4>1. CASE g = f
        BY <1>0, <2>1, <2>2, <2>3, <4>1 DEF LocksType
      <4>2. CASE g # f
        <5>1. builder'[g] = builder[g] /\ builder[g] \in Vms
              /\ job[builder[g]].pc \in {"family", "fill"}
          BY <1>0, <2>2, <3>2, <4>2 DEF LocksType
        <5>2. builder[g] # v /\ builder[g] \in Users
          BY <1>0, <5>1, Here
        <5> QED  BY <2>3, <5>1, <5>2 DEF Alone
      <4> QED  BY <4>1, <4>2
    <3> QED  BY <3>1, <3>2 DEF LocksType
  <2>6. DisksType' /\ RestType' /\ RunsType' /\ UNCHANGED <<up, docker>>
    BY <1>0, <2>2 DEF DisksType, RestType, RunsType, runs, past
  <2> QED  BY <1>0, <2>1, <2>3, <2>4, <2>5, <2>6, GoesOn
<1> QED  BY <1>1, <1>2

LEMMA FillStep ==
  ASSUME IInv, NEW v \in Vms, Fill(v)
  PROVE  IInv'
<1> DEFINE f == FamilyOf[v]
           x == [job[v] EXCEPT !.pc = "save", !.id = 0]
<1>0. /\ DisksType /\ RestType /\ RunsType /\ JobsType /\ LocksType /\ OneOwner
      /\ v \in Users /\ v \notin Images
      /\ Shape(v) /\ job[v] \in Job /\ job[v].pc = "fill" /\ job[v] # NoJob
      /\ f \in Families /\ f \in Names /\ mapped[f] \in Ids
      /\ UNCHANGED <<world, counter, mapped, runs, allowed, past>> /\ Unlock(v)
      /\ UNCHANGED <<erased, crossed>> /\ Busy(v)
  BY Here, NoJobType, ConstantsAssumption DEF Fill, Names, DisksType, Busy, past
<1>1. x \in Job /\ x.id = 0 /\ x.pc = "save" /\ x.noted = job[v].noted
      /\ x.root = job[v].root /\ x.origin = job[v].origin
  BY <1>0 DEF Job, Positions
<1>2. job' = [job EXCEPT ![v] = x]
  BY DEF Fill
<1> HIDE DEF x
<1>3. JobsType' /\ Alone(v) /\ job'[v] = x
  BY <1>0, <1>1, <1>2, PutDoes
<1>4. Shape(v)' /\ Fewer(v) /\ Making(v)' = {job[v].root} /\ Making(v) = {job[v].root, job[v].id}
      /\ (crossed \/ job[v].id # job[v].root) /\ job[v].id \in Ids
  BY <1>0, <1>1, <1>3, NoJobType DEF Shape, Fewer, Making, VmPositions, Allocating, Job, Ids
<1>5. LocksType'
  BY <1>0, <1>3, LocksFreed
<1>6. CASE UNCHANGED <<volume, record, drive>>
  <2>1. DisksType' /\ RestType' /\ RunsType' /\ UNCHANGED <<up, docker>>
    BY <1>0, <1>6 DEF DisksType, RestType, RunsType, runs, past
  <2> QED  BY <1>0, <1>1, <1>3, <1>4, <1>5, <1>6, <2>1, GoesOn
<1>7. CASE Copied(v)
  <2>1. /\ volume' \in [Ids -> Contents] /\ \A d \in Ids : volume[d] # "none" => volume'[d] # "none"
    BY <1>0, <1>7, NamesAssumption DEF Copied, DisksType, Contents
  <2>2. /\ record' \in [Recordable -> Ids \cup {0}] /\ record'[f] = job[v].id
        /\ \A m \in Names \ {f} : record'[m] = record[m]
    BY <1>0, <1>4, <1>7 DEF Copied, DisksType, Recordable
  <2>3. drive' = drive \cup {v}
    BY <1>7 DEF Copied
  <2>4. DisksType' /\ RestType' /\ RunsType' /\ UNCHANGED <<up, docker>>
    BY <1>0, <2>1, <2>2, <2>3 DEF DisksType, RestType, RunsType, runs, past
  <2>6. \A w \in Vms : record'[w] = record[w]
    BY <1>0, <2>2, NamesAssumption, Here
  <2>7. OneOwner' /\ Held' /\ Spared'
    <3>1. \A m \in Names : record'[m] = record[m] \/ record'[m] \in Making(v)
      BY <1>4, <2>2
    <3>2. ~crossed => \A m, n \in Names :
              m # n /\ record'[m] # record[m] /\ record'[n] # record[n] => record'[m] # record'[n]
      BY <2>2
    <3>3. ~crossed => \A m \in Names : record'[m] # record[m] /\ record'[m] \in Making(v)'
              => m = v /\ job'[v].pc = "boot"
      BY <1>4, <2>2
    <3>4. job[v].pc # "boot" /\ job'[v].pc # "removing" /\ job'[v].id = 0
          /\ job'[v].origin = job[v].origin /\ Making(v)' \subseteq Making(v)
      BY <1>0, <1>1, <1>3, <1>4
    <3> QED  BY <1>0, <1>3, <2>1, <2>6, <3>1, <3>2, <3>3, <3>4, OwnersRecorded
  <2>8. AllDriven'
    BY <1>0, <1>1, <1>3, <2>4, <2>6, DrivenAlone
  <2>9. Shapes'
    BY <1>0, <1>3, <1>4, ShapesAlone, Here
  <2> QED  BY <1>3, <1>5, <2>4, <2>7, <2>8, <2>9, TypeParts DEF IInv
<1> QED  BY <1>6, <1>7 DEF Fill

LEMMA SaveMetaStep ==
  ASSUME IInv, NEW v \in Vms, SaveMeta(v)
  PROVE  IInv'
<1> DEFINE x == [job[v] EXCEPT !.pc = "boot"]
<1>0. /\ DisksType /\ RestType /\ RunsType /\ JobsType /\ LocksType /\ OneOwner /\ Driven(v)
      /\ v \in Users /\ v \in Names /\ v \notin Images
      /\ Shape(v) /\ job[v] \in Job /\ job[v].pc = "save" /\ job[v] # NoJob
      /\ record' = [record EXCEPT ![v] = job[v].root]
      /\ UNCHANGED <<world, counter, volume, mapped, runs, allowed, builder, drive, past>>
      /\ UNCHANGED <<erased, crossed>> /\ Busy(v) /\ v \notin erased
  BY Here, NoJobType DEF SaveMeta, AllDriven, Driven, Busy, past
<1>1. x \in Job /\ x.id = job[v].id /\ x.pc = "boot" /\ x.noted = job[v].noted
      /\ x.root = job[v].root /\ x.origin = job[v].origin
  BY <1>0 DEF Job, Positions
<1>2. job' = [job EXCEPT ![v] = x]
  BY DEF SaveMeta
<1> HIDE DEF x
<1>3. JobsType' /\ Alone(v) /\ job'[v] = x
  BY <1>0, <1>1, <1>2, PutDoes
<1>4. Shape(v)' /\ Making(v) = {job[v].root} /\ Making(v)' = {job[v].root} /\ job[v].root \in Ids
  BY <1>0, <1>1, <1>3, NoJobType DEF Shape, Making, VmPositions, Allocating, Job, Ids
<1>5. LocksType'
  BY <1>0, <1>3, LocksKept
<1>6. /\ record' \in [Recordable -> Ids \cup {0}] /\ record'[v] = job[v].root
      /\ \A m \in Names \ {v} : record'[m] = record[m]
  BY <1>0, <1>4 DEF DisksType, Recordable
<1>7. DisksType' /\ RestType' /\ RunsType' /\ UNCHANGED <<up, docker>>
  BY <1>0, <1>6 DEF DisksType, RestType, RunsType, runs, past
<1>8. OneOwner' /\ Held' /\ Spared'
  <2>1. \A m \in Names : record'[m] = record[m] \/ record'[m] \in Making(v)
    BY <1>4, <1>6
  <2>2. ~crossed => \A m, n \in Names :
            m # n /\ record'[m] # record[m] /\ record'[n] # record[n] => record'[m] # record'[n]
    BY <1>6
  <2>3. ~crossed => \A m \in Names : record'[m] # record[m] /\ record'[m] \in Making(v)'
            => m = v /\ job'[v].pc = "boot"
    BY <1>1, <1>3, <1>6
  <2>4. \A w \in Vms : record'[w] = record[w] \/ w = v
    BY <1>6, Here
  <2>5. job[v].pc # "boot" /\ job'[v].pc # "removing" /\ job'[v].id = job[v].id
        /\ job'[v].origin = job[v].origin /\ Making(v)' \subseteq Making(v)
    BY <1>0, <1>1, <1>3, <1>4
  <2> QED  BY <1>0, <1>3, <2>1, <2>2, <2>3, <2>4, <2>5, OwnersRecorded
<1>9. Driven(v)'
  BY <1>0, <1>1, <1>3, <1>4, <1>6, <1>7, Here DEF Driven, Knows, Idle
<1>10. AllDriven'
  BY <1>0, <1>3, <1>6, <1>7, <1>9, DrivenHere, Here
<1>11. Shapes'
  BY <1>0, <1>3, <1>4, ShapesAlone, Here
<1> QED  BY <1>3, <1>5, <1>7, <1>8, <1>10, <1>11, TypeParts DEF IInv

\* The guest writes to a volume that is there or is not.
LEMMA Written ==
  ASSUME IInv, NEW v \in Vms, NEW d, Runs(v, d)
  PROVE  /\ volume' \in [Ids -> Contents] /\ \A e \in Ids : volume[e] # "none" => volume'[e] # "none"
         /\ up' = up \cup {v} /\ ran' = ran \cup {v} /\ up' \subseteq Vms /\ ran' \subseteq Vms
  BY Here, NamesAssumption DEF Runs, DisksType, RunsType, RestType, Contents

LEMMA CreateBootsStep ==
  ASSUME IInv, NEW v \in Vms, CreateBoots(v)
  PROVE  IInv'
<1>0. /\ DisksType /\ RestType /\ RunsType /\ JobsType /\ LocksType /\ Driven(v) /\ v \in Users
      /\ job[v].pc = "boot" /\ job[v] # NoJob /\ Runs(v, mapped[v])
      /\ job' = [job EXCEPT ![v] = NoJob]
      /\ UNCHANGED <<world, counter, mapped, record, template, docker, allowed, builder, drive,
                     erased, stuck, crossed>>
      /\ Busy(v) /\ v \notin erased
  BY Here, NoJobType DEF CreateBoots, AllDriven, Driven, Busy
<1>1. /\ JobsType' /\ Alone(v) /\ job'[v] = NoJob /\ LocksType'
  BY <1>0, NoJobType, PutDoes, LocksKept
<1>8. Shape(v)' /\ Making(v)' = {} /\ Fewer(v)
  BY <1>0, <1>1, Ends
<1>2. /\ volume' \in [Ids -> Contents] /\ \A e \in Ids : volume[e] # "none" => volume'[e] # "none"
      /\ up' = up \cup {v} /\ ran' = ran \cup {v} /\ up' \subseteq Vms /\ ran' \subseteq Vms
  BY <1>0, Written
<1>3. DisksType' /\ RestType' /\ RunsType'
  BY <1>0, <1>2 DEF DisksType, RestType, RunsType
<1>4. OneOwner' /\ Held' /\ Spared'
  BY <1>0, <1>1, <1>2, <1>8, OwnersAlone, Here DEF Erased
<1>5. Driven(v)'
  BY <1>0, <1>1, NoJobType DEF Driven, Knows, Idle
<1>6. AllDriven'
  BY <1>0, <1>1, <1>2, <1>5, DrivenHere, Here
<1>7. Shapes'
  BY <1>0, <1>1, <1>8, ShapesAlone, Here
<1> QED  BY <1>1, <1>3, <1>4, <1>6, <1>7, TypeParts DEF IInv

LEMMA StartStep ==
  ASSUME IInv, NEW v \in Vms, Start(v)
  PROVE  IInv'
<1> DEFINE f == FamilyOf[v]
           now == [name \in Names |->
                     IF mapped[name] = 0 /\ (name = v \/ (name = f /\ v \in drive))
                     THEN record[name] ELSE mapped[name]]
<1>0. /\ DisksType /\ RestType /\ RunsType /\ JobsType /\ LocksType /\ Shapes /\ Driven(v)
      /\ v \in Users /\ Idle(v)
      /\ UNCHANGED <<world, counter, record, template, allowed, builder, drive, erased, stuck, crossed>>
  BY Here DEF Start, AllDriven
<1>1. \/ Knows(v) /\ mapped' = now /\ Runs(v, now[v]) /\ UNCHANGED <<docker, job>>
      \/ ~Knows(v) /\ docker' = [docker EXCEPT ![v] = "running"]
         /\ UNCHANGED <<mapped, volume, up, ran, job>>
  BY DEF Start, StartsVm
<1>2. UNCHANGED job
  BY <1>1
<1>3. now \in [Names -> Ids \cup {0}]
  BY <1>0 DEF DisksType, Recordable
<1> HIDE DEF now
<1>4. /\ volume' \in [Ids -> Contents] /\ \A e \in Ids : volume[e] # "none" => volume'[e] # "none"
      /\ ran' \subseteq Vms /\ up' \subseteq Vms /\ \A w \in up' : w \in up \/ w = v
  BY <1>0, <1>1, Written DEF DisksType, RestType, RunsType
<1>5. docker' \in [Vms -> {"none", "stopped", "running"}]
      /\ \A w \in Vms \ {v} : docker'[w] = docker[w]
  BY <1>0, <1>1 DEF RunsType
<1>6. DisksType' /\ RestType' /\ RunsType' /\ JobsType'
  BY <1>0, <1>1, <1>2, <1>3, <1>4, <1>5 DEF DisksType, RestType, RunsType, JobsType
<1>7. LocksType' /\ Shapes' /\ Alone(v)
  BY <1>0, <1>2 DEF LocksType, Shapes, Shape, Alone
<1>8. \A u \in Users : Fewer(u)
  BY <1>2 DEF Fewer, Making
<1>9. OneOwner' /\ Held' /\ Spared'
  BY <1>0, <1>4, <1>8, OwnersKept DEF Erased
<1>10. Driven(v)'
  <2>1. CASE Knows(v)
    BY <1>0, <1>1, <1>2, <2>1, NoJobType DEF Driven, Knows, Idle
  <2>2. CASE ~Knows(v)
    <3>1. v \notin up /\ UNCHANGED up
      BY <1>0, <1>1, <2>2 DEF Driven
    <3> QED  BY <1>0, <1>1, <1>2, <2>2, <3>1, NoJobType DEF Driven, Knows, Idle
  <2> QED  BY <2>1, <2>2
<1>11. AllDriven'
  BY <1>0, <1>4, <1>5, <1>7, <1>10, DrivenHere
<1> QED  BY <1>6, <1>7, <1>9, <1>11, TypeParts DEF IInv

LEMMA SuspendStep ==
  ASSUME IInv, NEW v \in Vms, Suspend(v)
  PROVE  IInv'
<1>0. /\ DisksType /\ RestType /\ RunsType /\ JobsType /\ LocksType /\ Shapes /\ AllDriven
      /\ UNCHANGED <<world, disks, template, allowed, job, builder, drive, past>>
  BY Here DEF Suspend
<1>1. up' \subseteq up /\ docker' \in [Vms -> {"none", "stopped", "running"}]
      /\ \A w \in Vms : docker'[w] = "running" => docker[w] = "running"
  BY <1>0 DEF Suspend, RunsType
<1>2. DisksType' /\ RestType' /\ RunsType' /\ JobsType' /\ LocksType' /\ Shapes'
  BY <1>0, <1>1 DEF DisksType, RestType, RunsType, JobsType, LocksType, Shapes, Shape, disks, past
<1>3. \A u \in Users : Fewer(u)
  BY <1>0 DEF Fewer, Making
<1>4. OneOwner' /\ Held' /\ Spared'
  BY <1>0, <1>3, OwnersKept DEF disks, past, Erased
<1>5. AllDriven'
  BY <1>0, <1>1 DEF AllDriven, Driven, Knows, Idle, disks, past
<1> QED  BY <1>2, <1>4, <1>5, TypeParts DEF IInv

---------------------------------------------------------------------------
\* The host.

LEMMA LoseStep ==
  ASSUME IInv, Lose
  PROVE  IInv'
<1>0. /\ DisksType /\ RestType /\ RunsType /\ JobsType /\ LocksType /\ Shapes /\ AllDriven
      /\ counter' = 0
      /\ UNCHANGED <<world, volume, mapped, record, runs, allowed, job, builder, drive, past>>
  BY Here DEF Lose
<1>1. DisksType' /\ RestType' /\ RunsType' /\ JobsType' /\ LocksType' /\ Shapes' /\ AllDriven'
  BY <1>0, ConstantsAssumption
     DEF DisksType, RestType, RunsType, JobsType, LocksType, Shapes, Shape, AllDriven, Driven,
         Knows, Idle, runs, past
<1>2. \A u \in Users : Fewer(u)
  BY <1>0 DEF Fewer, Making
<1>3. OneOwner' /\ Held' /\ Spared'
  BY <1>0, <1>2, OwnersKept DEF Erased, past
<1> QED  BY <1>1, <1>3, TypeParts DEF IInv

\* Every call is cut short.  What an erased VM's record stood for is gone, or it is
\* the case that OneOwner leaves out.
LEMMA AllCut ==
  ASSUME IInv, job' = [u \in Users |-> NoJob], builder' = [f \in Families |-> Nobody],
         crossed' = (crossed \/ Reused),
         UNCHANGED <<world, counter, volume, record, drive, ran, erased, stuck>>,
         mapped' \in [Names -> Ids \cup {0}], template' \in Images \cup {Nobody},
         allowed' \subseteq Vms, allowed \subseteq allowed', up' \subseteq up,
         docker' \in [Vms -> {"none", "stopped", "running"}],
         \A w \in Vms : docker'[w] = "running" => docker[w] = "running"
  PROVE  IInv'
<1>0. DisksType /\ RestType /\ RunsType /\ AllDriven /\ OneOwner /\ Held
  BY Here
<1>1. DisksType' /\ RestType' /\ RunsType'
  BY <1>0 DEF DisksType, RestType, RunsType, Reused
<1>2. \A u \in Users : job'[u] = NoJob /\ Shape(u)' /\ Making(u)' = {}
  BY NoJobType DEF Shape, Making, ImagePositions, VmPositions
<1>3. JobsType' /\ LocksType' /\ Shapes'
  BY <1>2, NoJobType DEF JobsType, LocksType, Shapes
<1>4. OneOwner' /\ Held' /\ Spared'
  <2> SUFFICES ASSUME ~crossed, ~Reused
               PROVE  OneOwner' /\ Held' /\ Spared'
    BY DEF OneOwner, Held, Spared
  <2>1. \A m \in Names : Owned(m)' = record[m]
    BY <1>2, NoJobType, Here DEF Owned
  <2>2. ASSUME NEW m \in Names \ erased
        PROVE  Owned(m) = record[m]
    BY <1>0, <2>2 DEF Owned, AllDriven, Driven
  <2>3. ASSUME NEW m \in Names, NEW n \in Names, m # n, record[m] # 0, record[m] = record[n]
        PROVE  FALSE
    <3>1. CASE m \in erased /\ n \in erased
      BY <2>3, <3>1 DEF Reused
    <3>2. CASE m \notin erased /\ n \notin erased
      BY <1>0, <2>2, <2>3, <3>2 DEF OneOwner
    <3>3. CASE m \in erased /\ n \notin erased
      BY <1>0, <2>3, <3>3 DEF Held, Reused
    <3>4. CASE m \notin erased /\ n \in erased
      BY <1>0, <2>3, <3>4 DEF Held, Reused
    <3> QED  BY <3>1, <3>2, <3>3, <3>4
  <2>4. OneOwner'
    BY <1>2, <2>1, <2>3 DEF OneOwner
  <2>5. Held'
    BY <1>0, <1>2, NoJobType DEF Held
  <2>6. Spared'
    <3>1. ASSUME NEW v \in erased
          PROVE  record[v] # 0
      BY <1>0, <3>1 DEF RestType, AllDriven, Driven, Knows
    <3> QED  BY <1>2, <3>1, NoJobType DEF Spared
  <2> QED  BY <2>4, <2>5, <2>6
<1>5. AllDriven'
  BY <1>0, <1>2, NoJobType, Here DEF AllDriven, Driven, Knows, Idle
<1> QED  BY <1>1, <1>3, <1>4, <1>5, TypeParts DEF IInv

LEMMA ReactivatedType ==
  ASSUME IInv, NEW m \in [Names -> Ids \cup {0}]
  PROVE  Reactivated(m) \in [Names -> Ids \cup {0}]
  BY Here DEF Reactivated, DisksType, Recordable

LEMMA CrashStep ==
  ASSUME IInv, Crash
  PROVE  IInv'
<1>1. DisksType /\ RunsType /\ RestType
  BY Here
<1>2. mapped' \in [Names -> Ids \cup {0}]
  BY <1>1, ReactivatedType DEF Crash, DisksType
<1>3. allowed' \subseteq Vms /\ allowed \subseteq allowed'
  BY <1>1 DEF Crash, RestType
<1> QED  BY <1>1, <1>2, <1>3, AllCut DEF Crash, RunsType, runs

LEMMA RebootStep ==
  ASSUME IInv, Reboot
  PROVE  IInv'
<1>1. RunsType /\ RestType
  BY Here
<1>2. [name \in Names |-> 0] \in [Names -> Ids \cup {0}]
  OBVIOUS
<1>3. mapped' \in [Names -> Ids \cup {0}]
  BY <1>2, ReactivatedType DEF Reboot
<1>4. docker' \in [Vms -> {"none", "stopped", "running"}]
      /\ \A w \in Vms : docker'[w] # "running"
  BY DEF Reboot
<1> QED  BY <1>1, <1>3, <1>4, AllCut DEF Reboot, RestType

LEMMA Stutter ==
  ASSUME IInv, UNCHANGED vars
  PROVE  IInv'
<1>0. /\ DisksType /\ RestType /\ RunsType /\ JobsType /\ LocksType /\ Shapes /\ AllDriven
      /\ UNCHANGED <<world, disks, runs, allowed, job, builder, drive, past>>
  BY Here DEF vars
<1>1. DisksType' /\ RestType' /\ RunsType' /\ JobsType' /\ LocksType' /\ Shapes' /\ AllDriven'
  BY <1>0 DEF DisksType, RestType, RunsType, JobsType, LocksType, Shapes, Shape, AllDriven, Driven,
              Knows, Idle, disks, runs, past
<1>2. \A u \in Users : Fewer(u)
  BY <1>0 DEF Fewer, Making
<1>3. OneOwner' /\ Held' /\ Spared'
  BY <1>0, <1>2, OwnersKept DEF disks, past, Erased
<1> QED  BY <1>1, <1>3, TypeParts DEF IInv

---------------------------------------------------------------------------
\* The invariant holds.

\* The ids of the volumes there are to begin with fit in the pool, and each is one
\* image's.
LEMMA InitHolds ==
  ASSUME Init
  PROVE  IInv
<1> DEFINE S == {Base(i) : i \in world.ready} \cup {Warm(i) : i \in world.ready}
           n == 2 * Cardinality(world.ready)
<1>1. world \in Worlds /\ world.ready \subseteq Images /\ IsFiniteSet(world.ready) /\ n <= MaxId
      /\ world.allow \subseteq Vms
  BY ConstantsAssumption DEF Init
<1>2. n \in Nat /\ n + 1 \in 1..(MaxId + 1) /\ 1..n \subseteq Ids
  BY <1>1, FS_CardinalityType, ConstantsAssumption DEF Ids
<1>3. PICK ids \in [S -> 1..n] :
          /\ \A m, k \in S : m # k => ids[m] # ids[k]
          /\ counter = IF n = 0 THEN 0 ELSE n + 1
          /\ record = [m \in Recordable |-> IF m \in S THEN ids[m] ELSE 0]
          /\ volume = [d \in Ids |-> IF \E m \in S : ids[m] = d
                                     THEN (CHOOSE m \in S : ids[m] = d)[2] ELSE "none"]
  BY DEF Init
<1>4. S \subseteq OfImages /\ \A m \in S : m[2] \in Images
  BY <1>1 DEF OfImages, Base, Warm
<1>5. S \subseteq Recordable /\ S \subseteq Names
  BY <1>4 DEF Recordable, Names
<1> HIDE DEF n, S
<1>6. record \in [Recordable -> Ids \cup {0}]
  BY <1>2, <1>3
<1>7. ASSUME NEW d \in Ids
      PROVE  /\ volume[d] \in Contents
             /\ \A m \in S : ids[m] = d => volume[d] # "none"
  <2>1. CASE \E m \in S : ids[m] = d
    <3>1. (CHOOSE m \in S : ids[m] = d) \in S
      BY <2>1
    <3>2. volume[d] \in Images
      BY <1>3, <1>4, <2>1, <3>1
    <3> QED  BY <3>2, NamesAssumption DEF Contents
  <2>2. CASE ~\E m \in S : ids[m] = d
    BY <1>3, <2>2 DEF Contents
  <2> QED  BY <2>1, <2>2
<1>8. volume \in [Ids -> Contents]
  BY <1>3, <1>7
<1>9. counter \in 0..(MaxId + 1)
  BY <1>2, <1>3, ConstantsAssumption
<1>10. /\ mapped = [m \in Names |-> record[m]] /\ up = {} /\ template = Nobody
       /\ docker = [v \in Vms |-> "none"] /\ allowed = world.allow
       /\ job = [u \in Users |-> NoJob] /\ builder = [f \in Families |-> Nobody]
       /\ drive = {} /\ ran = {} /\ erased = {} /\ stuck = {} /\ crossed = FALSE
  BY DEF Init
<1>11. DisksType
  BY <1>6, <1>8, <1>9, <1>10 DEF DisksType, Recordable
<1>12. RunsType /\ RestType /\ JobsType /\ LocksType
  BY <1>1, <1>10, NoJobType DEF RunsType, RestType, JobsType, LocksType
<1>13. Shapes
  BY <1>10, NoJobType DEF Shapes, Shape, ImagePositions, VmPositions
<1>14. /\ \A u \in Users : Making(u) = {} /\ job[u].origin = 0
       /\ \A m \in Names : Owned(m) = record[m]
  BY <1>10, NoJobType, NamesAssumption DEF Making, Owned, Users
<1>15. ASSUME NEW m \in Names, record[m] # 0
       PROVE  m \in S /\ record[m] = ids[m] /\ record[m] \in Ids
  BY <1>2, <1>3, <1>15 DEF Recordable
<1>16. OneOwner
  <2>1. ASSUME NEW m \in Names, NEW k \in Names, m # k, record[m] # 0
        PROVE  record[m] # record[k]
    BY <1>3, <1>15, <2>1
  <2> QED  BY <1>14, <2>1 DEF OneOwner
<1>17. Held /\ Spared
  BY <1>7, <1>10, <1>14, <1>15 DEF Held, Spared
<1>18. AllDriven
  <2>1. ASSUME NEW v \in Vms
        PROVE  record[v] = 0
    BY <1>4, <1>15, <2>1, NamesAssumption DEF OfImages, Names
  <2> QED  BY <1>10, <2>1, NoJobType DEF AllDriven, Driven, Knows, Idle, Users
<1> QED  BY <1>11, <1>12, <1>13, <1>16, <1>17, <1>18, TypeParts DEF IInv

LEMMA NextKeeps ==
  ASSUME IInv, [Next]_vars
  PROVE  IInv'
<1>1. ASSUME NEW u \in Users,
             NextDevID(u) \/ NoteDevID(u) \/ Make(u) \/ Collide(u) \/ AllocateFails(u)
      PROVE  IInv'
  BY <1>1, NextDevIDStep, NoteDevIDStep, MakeStep, CollideStep, AllocateFailsStep
<1>2. ASSUME NEW i \in Images,
             CallPrepare(i) \/ PrepareFails(i) \/ Export(i) \/ TemplateBoot(i)
             \/ TemplateEnds(i) \/ RecordImage(i) \/ Redo(i)
      PROVE  IInv'
  BY <1>2, CallPrepareStep, PrepareFailsStep, ExportStep, TemplateBootStep, TemplateEndsStep,
     RecordImageStep, RedoStep
<1>3. ASSUME NEW v \in Vms,
             \/ Create(v) \/ Deps(v) \/ Fill(v) \/ SaveMeta(v) \/ CreateBoots(v)
             \/ CreateBootFails(v) \/ Start(v) \/ Suspend(v) \/ Delete(v)
             \/ Forget(v)
      PROVE  IInv'
  BY <1>3, CreateStep, DepsStep, FillStep, SaveMetaStep, CreateBootsStep, CreateBootFailsStep,
     StartStep, SuspendStep, DeleteStep, ForgetStep
<1> QED  BY <1>1, <1>2, <1>3, LoseStep, CrashStep, RebootStep, Stutter DEF Next

LEMMA Invariance == Spec => []IInv
<1>1. Init => IInv
  BY InitHolds
<1>2. IInv /\ [Next]_vars => IInv'
  BY NextKeeps
<1> QED  BY <1>1, <1>2, PTL DEF Spec

---------------------------------------------------------------------------
\* The tables and jobs of fc_host.go, fc_image.go and fc_deps.go stay well formed.
THEOREM TypeCorrect == Spec => []TypeOK
<1>1. IInv => TypeOK
  BY DEF IInv
<1> QED  BY <1>1, Invariance, PTL

\* However often the counter file is lost, and whoever reads it between another's
\* read and write (nextDevID, fc_host.go), no volume of the pool is given, recorded
\* or being made for two: no VM writes to another's disk, an image's or a family's.
THEOREM Owners == Spec => []OneOwner
<1>1. IInv => OneOwner
  BY DEF IInv
<1> QED  BY <1>1, Invariance, PTL

\* While the allowlist only grows, a workload never runs as a microVM and as a
\* container, though Create and Start choose by different tests (mux.go).
THEOREM Once == Spec => []RunsOnce
<1>1. IInv => RunsOnce
  BY Here DEF AllDriven, Driven, RunsOnce
<1> QED  BY <1>1, Invariance, PTL
---------------------------------------------------------------------------
\* What the volumes hold, and what the names stand for.

\* Whose the volumes that a call makes are, the first and the second; at which
\* positions there is a second one.
First(u)  == IF u \in Images THEN Base(u) ELSE u
Second(u) == IF u \in Images THEN Warm(u) ELSE FamilyOf[u]
SecondMade == {"template", "serving", "cut", "done", "fill"}
MadeBy(u, m, d) ==
    \/ d = job[u].root /\ m = First(u)
    \/ d = job[u].id /\ m = Second(u) /\ job[u].pc \in SecondMade

\* The volume d is recorded or being made for m; or m is mapped to it.
Proper(m, d) == Owned(m) = d \/ \E u \in Users : MadeBy(u, m, d)
Claims(m, d) == mapped[m] = d \/ Proper(m, d)

\* What a call makes is not recorded yet.
VmMaking == {"clone", "deps", "family", "fill", "save"}
Afresh(u) ==
    /\ u \in Images /\ job[u].pc # "idle" => record[Base(u)] = 0 /\ record[Warm(u)] = 0
    /\ u \in Vms /\ job[u].pc \in VmMaking => record[u] = 0
    /\ job[u].pc = "boot" => record[u] = job[u].root
    /\ job[u].pc \in {"family", "fill"} => builder[FamilyOf[u]] = u /\ record[FamilyOf[u]] = 0
AllAfresh ==
    /\ \A u \in Users : Afresh(u)
    /\ \A i \in Images : record[Base(i)] = 0 <=> record[Warm(i)] = 0
    /\ \A v \in ran : record[v] # 0

\* No volume has two names, the mappings that calls left behind included; what is
\* mapped exists; and a name stands for what is recorded or made for it.
OneClaim == \A m, n \in Names, d \in Ids : Claims(m, d) /\ Claims(n, d) => m = n
Present  == \A m \in Names : mapped[m] # 0 => volume[mapped[m]] # "none"
Straight == \A m \in Names \ stuck, d \in Ids : Proper(m, d) => mapped[m] \in {0, d}

\* The volume d is to hold what is m's by now.
Own(m) == IF m \in OfImages THEN m[2] ELSE m
FirstDue == {"warm", "template", "serving", "cut", "done"}
LastDue  == {"serving", "cut", "done"}
Due(m, d) ==
    \/ record[m] = d /\ (m \in Vms => m \in ran \ erased)
    \/ \E i \in Images : \/ m = Base(i) /\ job[i].root = d /\ job[i].pc \in FirstDue
                         \/ m = Warm(i) /\ job[i].id = d /\ job[i].pc \in LastDue
Full == \A m \in Names \ stuck, d \in Ids : Due(m, d) => volume[d] = Own(m)

\* Of a VM whose volume was deleted nothing is left, once its deletion was cut off.
Gone == \A v \in erased : mapped[v] = 0 /\ (Idle(v) => volume[record[v]] = "none")

Tied == AllAfresh /\ OneClaim /\ Present /\ Straight /\ Full /\ Gone

LEMMA Apart ==
  /\ \A i, j \in Images : /\ Base(i) = Base(j) => i = j
                          /\ Warm(i) = Warm(j) => i = j
                          /\ Base(i) # Warm(j)
  /\ \A i \in Images, m \in Vms \cup Families : m # Base(i) /\ m # Warm(i)
  /\ \A v \in Vms : v \notin Families /\ v \notin Images /\ v \notin OfImages
                    /\ FamilyOf[v] \in Families
  /\ \A f \in Families : f \notin OfImages
  /\ \A i \in Images : {Base(i), Warm(i)} \subseteq OfImages /\ Own(Base(i)) = i /\ Own(Warm(i)) = i
<1>1. /\ \A i \in Images, m \in Vms \cup Families : m # Base(i) /\ m # Warm(i)
      /\ \A v \in Vms : v \notin Families /\ v \notin Images /\ FamilyOf[v] \in Families
  BY NamesAssumption, ConstantsAssumption
<1>2. \A i \in Images : {Base(i), Warm(i)} \subseteq OfImages /\ Base(i)[2] = i /\ Warm(i)[2] = i
  BY DEF OfImages, Base, Warm
<1>3. \A m \in Vms \cup Families : m \notin OfImages
  BY <1>1 DEF OfImages
<1> QED  BY <1>1, <1>2, <1>3 DEF Base, Warm, Own

\* What a call makes, it makes at these positions.
LEMMA MadeWhen ==
  ASSUME IInv, NEW u \in Users, NEW m, NEW d \in Ids, MadeBy(u, m, d)
  PROVE  /\ d \in Making(u) /\ job[u].pc # "idle"
         /\ \/ m = First(u) /\ d = job[u].root
            \/ m = Second(u) /\ d = job[u].id /\ job[u].pc \in SecondMade
         /\ u \in Vms => job[u].pc \in {"deps", "family", "fill", "save", "boot"}
         /\ u \in Vms /\ m # u => job[u].pc = "fill"
         /\ u \in Images => job[u].pc \in {"export", "warm", "template", "serving", "cut", "done"}
<1>1. Shape(u) /\ d # 0
  BY Here
<1>2. d \in Making(u)
  BY <1>1 DEF MadeBy, Making, SecondMade
<1>3. job[u].pc \notin {"idle", "base", "clone", "removing"}
  BY <1>1 DEF MadeBy, Shape, SecondMade
<1>4. u \in Vms => u \notin Images /\ First(u) = u
  BY Apart DEF First
<1> QED  BY <1>1, <1>2, <1>3, <1>4, Here DEF MadeBy, Shape, SecondMade, ImagePositions, VmPositions

\* A name has one volume that is recorded or being made.
LEMMA OneProper ==
  ASSUME IInv, AllAfresh, NEW m \in Names, NEW d \in Ids, NEW e \in Ids, Proper(m, d), Proper(m, e)
  PROVE  d = e
<1>1. ASSUME NEW u \in Users, NEW c \in Ids, MadeBy(u, m, c)
      PROVE  Owned(m) \in {0, c}
  <2> SUFFICES record[m] \in {0, c}
    BY DEF Owned
  <2>0. Afresh(u)
    BY DEF AllAfresh
  <2>1. CASE u \in Images
    <3>1. m \in {Base(u), Warm(u)} /\ job[u].pc # "idle"
      BY <1>1, <2>1, MadeWhen DEF First, Second
    <3> QED  BY <2>0, <2>1, <3>1 DEF Afresh
  <2>2. CASE u \in Vms /\ m = u
    <3>1. job[u].pc \in VmMaking \cup {"boot"}
      BY <1>1, <2>2, MadeWhen DEF VmMaking
    <3>2. c = job[u].root
      BY <1>1, <2>2, Apart DEF MadeBy, Second
    <3> QED  BY <2>0, <2>2, <3>1, <3>2 DEF Afresh
  <2>3. CASE u \in Vms /\ m # u
    <3>1. m = FamilyOf[u] /\ job[u].pc = "fill"
      BY <1>1, <2>3, MadeWhen, Apart DEF First, Second
    <3> QED  BY <2>0, <3>1 DEF Afresh
  <2> QED  BY <2>1, <2>2, <2>3 DEF Users
<1>2. ASSUME NEW u \in Users, NEW t \in Users, MadeBy(u, m, d), MadeBy(t, m, e)
      PROVE  d = e
  <2>1. u = t
    <3>1. CASE u \in Images
      <4>1. m \in {Base(u), Warm(u)}
        BY <1>2, <3>1 DEF MadeBy, First, Second
      <4>2. t \in Images
        BY <1>2, <3>1, <4>1, Apart DEF MadeBy, First, Second, Users
      <4>3. m \in {Base(t), Warm(t)}
        BY <1>2, <4>2 DEF MadeBy, First, Second
      <4> QED  BY <3>1, <4>1, <4>2, <4>3, Apart
    <3>2. CASE u \in Vms
      <4>1. m \in Vms \cup Families /\ m \in {u, FamilyOf[u]}
        BY <1>2, <3>2, Apart DEF MadeBy, First, Second
      <4>2. t \in Vms /\ m \in {t, FamilyOf[t]}
        BY <1>2, <4>1, Apart DEF MadeBy, First, Second, Users
      <4>3. CASE m \in Vms
        BY <3>2, <4>1, <4>2, <4>3, Apart
      <4>4. CASE m \in Families
        <5>1. m = FamilyOf[u] /\ m = FamilyOf[t] /\ m # u /\ m # t
          BY <3>2, <4>1, <4>2, <4>4, Apart
        <5>2. job[u].pc = "fill" /\ job[t].pc = "fill"
          BY <1>2, <3>2, <4>2, <5>1, MadeWhen
        <5>3. builder[m] = u /\ builder[m] = t
          BY <5>1, <5>2 DEF AllAfresh, Afresh
        <5> QED  BY <5>3
      <4> QED  BY <4>1, <4>3, <4>4
    <3> QED  BY <3>1, <3>2 DEF Users
  <2>2. First(u) # Second(u)
    BY Apart DEF First, Second, Users
  <2> QED  BY <1>2, <2>1, <2>2 DEF MadeBy
<1>3. CASE Owned(m) = d
  <2>1. CASE Owned(m) = e
    BY <1>3, <2>1
  <2>2. CASE Owned(m) # e
    <3>1. PICK u \in Users : MadeBy(u, m, e)
      BY <2>2 DEF Proper
    <3> QED  BY <1>1, <1>3, <3>1, Here
  <2> QED  BY <2>1, <2>2
<1>4. CASE Owned(m) # d
  <2>1. PICK u \in Users : MadeBy(u, m, d)
    BY <1>4 DEF Proper
  <2>2. CASE Owned(m) = e
    BY <1>1, <2>1, <2>2, Here
  <2>3. CASE Owned(m) # e
    <3>1. PICK t \in Users : MadeBy(t, m, e)
      BY <2>3 DEF Proper
    <3> QED  BY <1>2, <2>1, <3>1
  <2> QED  BY <2>2, <2>3
<1> QED  BY <1>3, <1>4

\* What m is mapped to: what it was, or anew to what is recorded.
Mapped(m) == mapped'[m] \in {0, mapped[m]} \/ (m \notin erased /\ mapped'[m] = record[m])

\* No deletion is cut off, and nothing new is known of those that were.
Calm == \A v \in erased' : v \in erased /\ record'[v] = record[v] /\ (Idle(v)' => Idle(v))

\* What is not in the course of a deletion stands for what is recorded.
LEMMA OwnedIs ==
  ASSUME IInv, NEW m \in Names \ erased
  PROVE  Owned(m) = record[m]
<1>1. m \in Vms => Driven(m)
  BY Here DEF AllDriven
<1> QED  BY <1>1 DEF Owned, Driven

LEMMA ClaimedIs ==
  ASSUME IInv, Tied, ~crossed, NEW m \in Names \ erased, NEW d \in Ids, Claims(m, d)
  PROVE  volume[d] # "none"
<1>1. CASE mapped[m] = d
  BY <1>1, Here DEF Tied, Present
<1>2. CASE Owned(m) = d
  BY <1>2, OwnedIs, Here DEF Held
<1>3. ASSUME NEW u \in Users, MadeBy(u, m, d)
      PROVE  volume[d] # "none"
  <2>1. d \in Making(u)
    BY <1>3, MadeWhen
  <2> QED  BY <2>1, Here DEF Held
<1> QED  BY <1>1, <1>2, <1>3 DEF Claims, Proper

\* A step that makes no volume: what is recorded or being made was so before.
LEMMA TiedKept ==
  ASSUME IInv, Tied, ~crossed, AllAfresh', Gone', UNCHANGED stuck,
         \A m \in Names, d \in Ids : Proper(m, d)' => Proper(m, d),
         \A m \in Names : Mapped(m),
         \A d \in Ids : volume'[d] = "none" /\ volume[d] # "none" =>
                           \E n \in Names : Proper(n, d) /\ mapped'[n] = 0,
         \A m \in Names \ stuck, d \in Ids : Due(m, d)' =>
                           volume'[d] = Own(m) \/ (Due(m, d) /\ volume'[d] = volume[d])
  PROVE  Tied'
<1>0. /\ DisksType /\ Held /\ AllAfresh /\ OneClaim /\ Present /\ Straight /\ Full
      /\ \A m \in Names : mapped[m] \in Ids \cup {0} /\ record[m] \in Ids \cup {0}
      /\ 0 \notin Ids
  BY Here DEF Tied, DisksType, Recordable
<1>1. ASSUME NEW m \in Names, NEW d \in Ids, Claims(m, d)'
      PROVE  Claims(m, d)
  <2>1. CASE mapped'[m] = d
    BY <1>0, <2>1, OwnedIs DEF Claims, Proper, Mapped
  <2>2. CASE Proper(m, d)'
    BY <2>2 DEF Claims
  <2> QED  BY <1>1, <2>1, <2>2 DEF Claims
<1>2. OneClaim'
  BY <1>0, <1>1 DEF OneClaim
<1>3. Present'
  <2>1. SUFFICES ASSUME NEW m \in Names, mapped'[m] # 0, volume'[mapped'[m]] = "none"
                 PROVE  FALSE
    BY DEF Present
  <2>2. PICK d \in Ids : d = mapped'[m]
    BY <1>0, <2>1 DEF Mapped
  <2>3. Claims(m, d) /\ volume[d] # "none"
    <3>1. CASE mapped[m] = d
      BY <1>0, <3>1 DEF Present, Claims
    <3>2. CASE m \notin erased /\ record[m] = d
      BY <1>0, <3>2, OwnedIs DEF Held, Claims, Proper
    <3> QED  BY <1>0, <2>1, <2>2, <3>1, <3>2 DEF Mapped
  <2>4. PICK n \in Names : Proper(n, d) /\ mapped'[n] = 0
    BY <2>1, <2>2, <2>3
  <2>5. n = m
    BY <1>0, <2>3, <2>4 DEF OneClaim, Claims
  <2> QED  BY <2>1, <2>4, <2>5
<1>4. Straight'
  <2>1. SUFFICES ASSUME NEW m \in Names \ stuck, NEW d \in Ids, Proper(m, d)'
                 PROVE  mapped'[m] \in {0, d}
    BY DEF Straight
  <2>2. Proper(m, d) /\ mapped[m] \in {0, d}
    BY <1>0, <2>1 DEF Straight
  <2>3. m \notin erased /\ record[m] # 0 => Proper(m, record[m]) /\ record[m] \in Ids
    BY <1>0, OwnedIs DEF Proper
  <2>4. m \notin erased => record[m] \in {0, d}
    BY <1>0, <2>2, <2>3, OneProper
  <2> QED  BY <2>2, <2>4 DEF Mapped
<1>5. Full'
  BY <1>0 DEF Full
<1> QED  BY <1>2, <1>3, <1>4, <1>5 DEF Tied

\* What is due is recorded or being made.
LEMMA DueIsProper ==
  ASSUME IInv, NEW m \in Names, NEW d, Due(m, d)
  PROVE  Proper(m, d) /\ m \notin erased
<1>1. ASSUME NEW i \in Images,
             \/ m = Base(i) /\ job[i].root = d
             \/ m = Warm(i) /\ job[i].id = d /\ job[i].pc \in LastDue
      PROVE  i \in Users /\ MadeBy(i, m, d) /\ m \notin Vms
  BY <1>1, Apart DEF MadeBy, First, Second, SecondMade, LastDue, Users
<1>2. erased \subseteq Vms
  BY Here DEF RestType
<1>3. CASE record[m] = d /\ (m \in Vms => m \in ran \ erased)
  BY <1>2, <1>3, OwnedIs DEF Proper
<1> QED  BY <1>1, <1>2, <1>3 DEF Due, Proper

\* The same if no volume goes, and one is written to by whom its name is.
LEMMA TiedWritten ==
  ASSUME IInv, Tied, ~crossed, AllAfresh', UNCHANGED stuck, Calm,
         \A m \in Names, d \in Ids : Proper(m, d)' => Proper(m, d),
         \A m \in Names : Mapped(m),
         NEW n \in Names \ erased, NEW x \in Ids, Claims(n, x),
         volume' \in {volume, [volume EXCEPT ![x] = Own(n)]}, Own(n) # "none",
         \A m \in Names \ stuck, d \in Ids : Due(m, d)' =>
             Due(m, d) \/ (m = n /\ d = x /\ volume'[d] = Own(m))
  PROVE  Tied'
<1>0. DisksType /\ OneClaim /\ Gone
  BY Here DEF Tied
<1>1. \A d \in Ids : volume'[d] = volume[d] \/ (d = x /\ volume'[d] = Own(n))
  BY <1>0 DEF DisksType
<1>2. \A d \in Ids : volume'[d] = "none" => volume[d] = "none"
  BY <1>1
<1>3. ASSUME NEW m \in Names \ stuck, NEW d \in Ids, Due(m, d)'
      PROVE  volume'[d] = Own(m) \/ (Due(m, d) /\ volume'[d] = volume[d])
  <2>1. CASE Due(m, d)
    <3>1. Claims(m, d)
      BY <2>1, DueIsProper DEF Claims
    <3>2. d = x => m = n
      BY <1>0, <3>1 DEF OneClaim
    <3> QED  BY <1>1, <2>1, <3>2
  <2>2. CASE ~Due(m, d)
    BY <1>3, <2>2
  <2> QED  BY <2>1, <2>2
<1>4. Gone'
  <2>1. volume[x] # "none"
    BY ClaimedIs
  <2>2. SUFFICES ASSUME NEW v \in erased'
                 PROVE  mapped'[v] = 0 /\ (Idle(v)' => volume'[record'[v]] = "none")
    BY DEF Gone
  <2>3. /\ v \in erased /\ record'[v] = record[v] /\ (Idle(v)' => Idle(v)) /\ v \in Names
        /\ record[v] \in Ids
    BY <1>0, <2>2, Here DEF Calm, RestType, AllDriven, Driven, Knows, DisksType, Recordable
  <2>4. Mapped(v) /\ mapped[v] = 0 /\ (Idle(v) => volume[record[v]] = "none")
    BY <1>0, <2>3 DEF Gone
  <2> QED  BY <1>1, <2>1, <2>3, <2>4 DEF Mapped
<1> QED  BY <1>2, <1>3, <1>4, TiedKept

\* The same if no volume is written to.
LEMMA TiedQuiet ==
  ASSUME IInv, Tied, ~crossed, AllAfresh', UNCHANGED <<stuck, volume>>, Calm,
         \A m \in Names, d \in Ids : Proper(m, d)' => Proper(m, d),
         \A m \in Names : Mapped(m),
         \A m \in Names \ stuck, d \in Ids : Due(m, d)' => Due(m, d) \/ volume[d] = Own(m)
  PROVE  Tied'
<1>1. ASSUME NEW m \in Names \ stuck, NEW d \in Ids, Due(m, d)'
      PROVE  volume'[d] = Own(m) \/ (Due(m, d) /\ volume'[d] = volume[d])
  BY <1>1
<1>2. \A d \in Ids : volume'[d] = "none" => volume[d] = "none"
  OBVIOUS
<1>3. Gone'
  <2>1. \A v \in erased : v \in Names
    BY Here DEF RestType
  <2> QED  BY <2>1 DEF Tied, Gone, Calm, Mapped
<1> QED  BY <1>1, <1>2, <1>3, TiedKept

\* Only u's job changes, and what is recorded is for u or its family.
LEMMA AfreshBeside ==
  ASSUME IInv, Tied, ~crossed, NEW u \in Users, Alone(u), Afresh(u)',
         \A i \in Images \ {u} : record'[Base(i)] = record[Base(i)] /\ record'[Warm(i)] = record[Warm(i)],
         \A v \in Vms \ {u} : /\ record'[v] = record[v]
                              /\ job[v].pc \in {"family", "fill"} =>
                                    /\ builder'[FamilyOf[v]] = builder[FamilyOf[v]]
                                    /\ record'[FamilyOf[v]] = record[FamilyOf[v]],
         u \in Images => (record'[Base(u)] = 0 <=> record'[Warm(u)] = 0),
         \A v \in ran' : record'[v] # 0
  PROVE  AllAfresh'
<1>1. ASSUME NEW t \in Users, t # u
      PROVE  Afresh(t)'
  <2>0. Afresh(t) /\ job'[t] = job[t]
    BY <1>1 DEF Tied, AllAfresh, Alone
  <2>1. CASE t \in Images
    <3>1. job[t].pc \notin {"boot", "family", "fill"} /\ t \notin Vms
      BY <2>1, Here DEF Shape, ImagePositions
    <3> QED  BY <1>1, <2>0, <2>1, <3>1 DEF Afresh
  <2>2. CASE t \in Vms
    <3>1. t \notin Images
      BY <2>2, Apart
    <3> QED  BY <1>1, <2>0, <2>2, <3>1 DEF Afresh
  <2> QED  BY <2>1, <2>2 DEF Users
<1>2. \A i \in Images : record'[Base(i)] = 0 <=> record'[Warm(i)] = 0
  BY DEF Tied, AllAfresh
<1> QED  BY <1>1, <1>2 DEF AllAfresh

\* Nothing is recorded, and only u's job changes.
LEMMA AfreshAlone ==
  ASSUME IInv, Tied, ~crossed, NEW u \in Users, Alone(u), Afresh(u)', \A m \in Names : record'[m] = record[m],
         \A v \in Vms \ {u} : job[v].pc \in {"family", "fill"} =>
                                 builder'[FamilyOf[v]] = builder[FamilyOf[v]],
         \A v \in ran' : record[v] # 0, ran' \subseteq Vms
  PROVE  AllAfresh'
<1>1. /\ \A i \in Images : Base(i) \in Names /\ Warm(i) \in Names
      /\ \A v \in Vms : v \in Names /\ FamilyOf[v] \in Names
  BY Apart DEF Names
<1>2. u \in Images => (record'[Base(u)] = 0 <=> record'[Warm(u)] = 0)
  BY <1>1 DEF Tied, AllAfresh
<1>3. \A v \in ran' : record'[v] # 0
  BY <1>1
<1> QED  BY <1>1, <1>2, <1>3, AfreshBeside

\* Only u's call changes what is being made.
LEMMA ProperAlone ==
  ASSUME IInv, NEW u \in Users, Alone(u), job[u].pc # "removing", job'[u].pc # "removing",
         job'[u].root \in {0, job[u].root},
         job'[u].pc \in SecondMade => job[u].pc \in SecondMade /\ job'[u].id = job[u].id,
         NEW m \in Names, NEW d \in Ids, record'[m] = record[m] \/ (record'[m] = d => Proper(m, d)),
         Proper(m, d)'
  PROVE  Proper(m, d)
<1>0. 0 \notin Ids
  BY Here
<1>1. ASSUME NEW t \in Users, MadeBy(t, m, d)'
      PROVE  MadeBy(t, m, d)
  <2>1. CASE t = u
    BY <1>0, <1>1, <2>1 DEF MadeBy, First, Second
  <2>2. CASE t # u
    BY <1>1, <2>2 DEF MadeBy, First, Second, Alone
  <2> QED  BY <2>1, <2>2
<1>2. CASE Owned(m)' = d
  <2>1. m \in Vms => m \in Users
    BY Here
  <2>2. Owned(m)' = record'[m] /\ (record'[m] = record[m] => Owned(m)' = Owned(m))
    BY <1>0, <1>2, <2>1, OwnedBeside
  <2> QED  BY <1>2, <2>2 DEF Proper
<1> QED  BY <1>1, <1>2 DEF Proper

LEMMA DueAlone ==
  ASSUME NEW u \in Users, Alone(u), 0 \notin Ids, ran' \ erased' \subseteq ran \ erased,
         u \in Images /\ job'[u].pc \in FirstDue =>
             job[u].pc \in FirstDue /\ job'[u].root = job[u].root,
         u \in Images /\ job'[u].pc \in LastDue =>
             job[u].pc \in LastDue /\ job'[u].id = job[u].id,
         NEW m \in Names, NEW d \in Ids, record'[m] \in {0, record[m]}, Due(m, d)'
  PROVE  Due(m, d)
<1>1. CASE record'[m] = d /\ (m \in Vms => m \in ran' \ erased')
  BY <1>1 DEF Due
<1>2. ASSUME NEW i \in Images,
             \/ m = Base(i) /\ job'[i].root = d /\ job'[i].pc \in FirstDue
             \/ m = Warm(i) /\ job'[i].id = d /\ job'[i].pc \in LastDue
      PROVE  Due(m, d)
  <2>1. CASE i = u
    BY <1>2, <2>1 DEF Due
  <2>2. CASE i # u
    BY <1>2, <2>2 DEF Due, Alone, Users
  <2> QED  BY <2>1, <2>2
<1> QED  BY <1>1, <1>2 DEF Due

\* A call goes on, or ends, and neither records nor writes anything, but to a volume
\* of its own that nothing knows of.
LEMMA Onward ==
  ASSUME IInv, Tied, ~crossed, NEW u \in Users, Alone(u), Afresh(u)',
         u \notin erased, job[u].pc # "removing", job'[u].pc # "removing",
         \A m \in Names : record'[m] = record[m],
         UNCHANGED <<stuck, erased>>, ran' \subseteq ran,
         \A v \in Vms \ {u} : job[v].pc \in {"family", "fill"} =>
                                 builder'[FamilyOf[v]] = builder[FamilyOf[v]],
         job'[u].root \in {0, job[u].root},
         job'[u].pc \in SecondMade => job[u].pc \in SecondMade /\ job'[u].id = job[u].id,
         u \in Images /\ job'[u].pc \in FirstDue =>
             job[u].pc \in FirstDue /\ job'[u].root = job[u].root,
         u \in Images /\ job'[u].pc \in LastDue => job[u].pc \in LastDue,
         \A m \in Names : Mapped(m),
         \A d \in Ids : volume'[d] = volume[d]
                        \/ (d = job[u].id /\ IsFree(d) /\ volume'[d] # "none")
  PROVE  Tied'
<1>0. 0 \notin Ids /\ ran \subseteq Vms /\ (\A v \in ran : record[v] # 0) /\ Spared /\ Gone
      /\ \A v \in erased : v \in Vms /\ v \in Users /\ v \in Names
  BY Here DEF Tied, AllAfresh, RestType
<1>1. AllAfresh'
  BY <1>0, AfreshAlone
<1>2. ASSUME NEW m \in Names, NEW d \in Ids, Proper(m, d)'
      PROVE  Proper(m, d)
  BY <1>0, <1>2, ProperAlone
<1>3. ASSUME NEW m \in Names, NEW d \in Ids, Due(m, d)'
      PROVE  Due(m, d) /\ volume'[d] = volume[d]
  <2>1. u \in Images /\ job'[u].pc \in LastDue =>
             job[u].pc \in LastDue /\ job'[u].id = job[u].id
    BY DEF SecondMade, LastDue
  <2>2. Due(m, d)
    BY <1>0, <1>3, <2>1, DueAlone
  <2>3. Proper(m, d)
    BY <2>2, DueIsProper
  <2>4. ~(d = job[u].id /\ IsFree(d))
    <3>1. SUFFICES ASSUME d = job[u].id, IsFree(d) PROVE FALSE
      OBVIOUS
    <3>2. Owned(m) # d /\ \A t \in Users : d \notin Making(t)
      BY <3>1, FreeIsNobodys
    <3>3. PICK t \in Users : MadeBy(t, m, d)
      BY <2>3, <3>2 DEF Proper
    <3>4. d \in Making(t)
      BY <3>3, MadeWhen
    <3> QED  BY <3>2, <3>4
  <2> QED  BY <2>2, <2>4
<1>4. \A d \in Ids : volume'[d] = "none" => volume[d] = "none"
  OBVIOUS
<1>5. Gone'
  <2>1. SUFFICES ASSUME NEW v \in erased
                 PROVE  mapped'[v] = 0 /\ (Idle(v)' => volume'[record'[v]] = "none")
    BY DEF Gone
  <2>2. job'[v] = job[v] /\ record'[v] = record[v] /\ Mapped(v) /\ record[v] \in Ids
    BY <1>0, <2>1, Here DEF Alone, AllDriven, Driven, Knows, DisksType, Recordable
  <2>3. mapped[v] = 0 /\ (Idle(v) => volume[record[v]] = "none" /\ job[u].id # record[v])
    BY <1>0, <2>1 DEF Gone, Spared
  <2> QED  BY <2>1, <2>2, <2>3 DEF Mapped, Idle
<1> QED  BY <1>1, <1>2, <1>3, <1>4, <1>5, TiedKept

LEMMA AfreshNext ==
  ASSUME IInv, Tied, ~crossed, NEW u \in Users, \A m \in Names : record'[m] = record[m],
         u \in Images => job[u].pc # "idle" \/ job'[u].pc = "idle",
         u \in Vms /\ job'[u].pc \in VmMaking => job[u].pc \in VmMaking,
         job'[u].pc = "boot" => job[u].pc = "boot" /\ job'[u].root = job[u].root,
         job'[u].pc \in {"family", "fill"} =>
             job[u].pc \in {"family", "fill"} /\ builder'[FamilyOf[u]] = builder[FamilyOf[u]]
  PROVE  Afresh(u)'
<1>0. Afresh(u) /\ Shape(u)
  BY Here DEF Tied, AllAfresh
<1>1. CASE u \in Images
  <2>1. record'[Base(u)] = record[Base(u)] /\ record'[Warm(u)] = record[Warm(u)] /\ u \notin Vms
    BY <1>1, Apart, Here DEF Names
  <2>2. job[u].pc \notin {"boot", "family", "fill"}
    BY <1>0, <1>1 DEF Shape, ImagePositions
  <2> QED  BY <1>0, <1>1, <2>1, <2>2 DEF Afresh
<1>2. CASE u \in Vms
  <2>1. record'[u] = record[u] /\ record'[FamilyOf[u]] = record[FamilyOf[u]] /\ u \notin Images
    BY <1>2, Apart DEF Names
  <2> QED  BY <1>0, <1>2, <2>1 DEF Afresh
<1> QED  BY <1>1, <1>2 DEF Users

LEMMA NextDevIDTied ==
  ASSUME IInv, Tied, ~crossed, NEW u \in Users, NextDevID(u)
  PROVE  Tied'
<1>0. JobsType /\ job[u] \in Job /\ job[u].pc \in Allocating
  BY Here DEF NextDevID
<1>1. PICK n \in Ids : job' = [job EXCEPT ![u].id = n]
  BY DEF NextDevID
<1>2. /\ Alone(u) /\ job'[u].pc = job[u].pc /\ job'[u].root = job[u].root
  BY <1>0, <1>1 DEF JobsType, Job, Alone
<1>3. /\ \A m \in Names : record'[m] = record[m]
      /\ UNCHANGED <<stuck, ran, erased, volume, mapped, builder>>
  BY DEF NextDevID, disks, past
<1>4. Afresh(u)'
  BY <1>2, <1>3, AfreshNext
<1>5. u \notin erased /\ job[u].pc # "removing" /\ job'[u].pc # "removing"
  BY <1>0, <1>2, BusyHasVolume DEF Busy, Allocating
<1> QED  BY <1>0, <1>2, <1>3, <1>4, <1>5, Onward DEF Allocating, SecondMade, FirstDue, LastDue, Mapped

LEMMA NoteDevIDTied ==
  ASSUME IInv, Tied, ~crossed, NEW u \in Users, NoteDevID(u)
  PROVE  Tied'
<1>0. JobsType /\ job[u] \in Job /\ job[u].pc \in Allocating
  BY Here DEF NoteDevID
<1>2. /\ Alone(u) /\ job'[u].pc = job[u].pc /\ job'[u].root = job[u].root
  BY <1>0 DEF NoteDevID, JobsType, Job, Alone
<1>3. /\ \A m \in Names : record'[m] = record[m]
      /\ UNCHANGED <<stuck, ran, erased, volume, mapped, builder>>
  BY DEF NoteDevID, past
<1>4. Afresh(u)'
  BY <1>2, <1>3, AfreshNext
<1>5. u \notin erased /\ job[u].pc # "removing" /\ job'[u].pc # "removing"
  BY <1>0, <1>2, BusyHasVolume DEF Busy, Allocating
<1> QED  BY <1>0, <1>2, <1>3, <1>4, <1>5, Onward DEF Allocating, SecondMade, FirstDue, LastDue, Mapped

LEMMA CollideTied ==
  ASSUME IInv, Tied, ~crossed, NEW u \in Users, Collide(u)
  PROVE  Tied'
<1>0. JobsType /\ job[u] \in Job /\ job[u].pc \in Allocating /\ DisksType
  BY Here DEF Collide, Shape
<1>1. job' = [job EXCEPT ![u] = [job[u] EXCEPT !.id = 0, !.noted = FALSE]]
  BY DEF Collide
<1>2. /\ Alone(u) /\ job'[u].pc = job[u].pc /\ job'[u].root = job[u].root
  BY <1>0, <1>1 DEF JobsType, Job, Alone
<1>3. /\ \A m \in Names : record'[m] = record[m] /\ mapped'[m] \in {0, mapped[m]}
      /\ UNCHANGED <<stuck, ran, erased, volume, builder>>
  BY <1>0 DEF Collide, DisksType, past
<1>4. Afresh(u)'
  BY <1>2, <1>3, AfreshNext
<1>5. u \notin erased /\ job[u].pc # "removing" /\ job'[u].pc # "removing"
  BY <1>0, <1>2, BusyHasVolume DEF Busy, Allocating
<1> QED  BY <1>0, <1>2, <1>3, <1>4, <1>5, Onward DEF Allocating, SecondMade, FirstDue, LastDue, Mapped

LEMMA AllocateFailsTied ==
  ASSUME IInv, Tied, ~crossed, NEW u \in Users, AllocateFails(u)
  PROVE  Tied'
<1>0. /\ JobsType /\ job[u] \in Job /\ job[u].pc \in Allocating /\ job[u].id \in Ids /\ DisksType
      /\ Shape(u) /\ RestType /\ LocksType
  BY Here DEF AllocateFails, Shape, Job
<1> DEFINE y == [job[u] EXCEPT !.pc = "save", !.id = 0, !.noted = FALSE]
           x == IF job[u].pc # "family" THEN NoJob ELSE y
<1>1. y.pc = "save" /\ y.root = job[u].root
  BY <1>0 DEF Job
<1>2. job' = [job EXCEPT ![u] = x]
  BY DEF AllocateFails
<1> HIDE DEF y
<1>3. x.root \in {0, job[u].root} /\ x.pc \in {"idle", "save"} /\ (x.pc = "save" => job[u].pc = "family")
  BY <1>1, NoJobType
<1> HIDE DEF x
<1>4. Alone(u) /\ job'[u] = x
  BY <1>0, <1>2 DEF JobsType, Alone
<1>5. /\ \A m \in Names : record'[m] = record[m] /\ mapped'[m] \in {0, mapped[m]}
      /\ UNCHANGED <<stuck, ran, erased>> /\ Unlock(u)
  BY <1>0 DEF AllocateFails, DisksType, past
<1>6. \A d \in Ids : volume'[d] = volume[d] \/ (d = job[u].id /\ IsFree(d) /\ volume'[d] # "none")
  <2>1. job[u].origin # 0 => job[u].origin \in Ids /\ volume[job[u].origin] # "none"
    BY Here DEF Held, Job
  <2> QED  BY <1>0, <2>1 DEF AllocateFails, DisksType
<1>7. ASSUME NEW v \in Vms \ {u}, job[v].pc \in {"family", "fill"}
      PROVE  builder'[FamilyOf[v]] = builder[FamilyOf[v]]
  <2>1. builder[FamilyOf[v]] = v
    BY <1>7, Here DEF Tied, AllAfresh, Afresh
  <2> QED  BY <1>5, <2>1, Apart DEF Unlock
<1>8. Afresh(u)'
  BY <1>0, <1>3, <1>4, <1>5, AfreshNext DEF VmMaking, Allocating
<1>9. u \in Images => job'[u].pc = "idle"
  BY <1>0, <1>3, <1>4 DEF Shape, ImagePositions
<1>10. u \notin erased /\ job[u].pc # "removing" /\ job'[u].pc # "removing"
  BY <1>0, <1>3, <1>4, BusyHasVolume DEF Busy, Allocating
<1> QED  BY <1>3, <1>4, <1>5, <1>6, <1>7, <1>8, <1>9, <1>10, Onward
         DEF SecondMade, FirstDue, LastDue, Mapped

LEMMA CallPrepareTied ==
  ASSUME IInv, Tied, ~crossed, NEW i \in Images, CallPrepare(i)
  PROVE  Tied'
<1>0. JobsType /\ job[i] = NoJob /\ i \in Users /\ record[Warm(i)] = 0
  BY Here DEF CallPrepare, Idle, Prepared
<1>1. Alone(i) /\ job'[i].pc = "base" /\ job'[i].root = 0
  BY <1>0, NoJobType DEF CallPrepare, JobsType, Alone, Job
<1>2. /\ \A m \in Names : record'[m] = record[m]
      /\ UNCHANGED <<record, stuck, ran, erased, volume, mapped, builder>>
  BY DEF CallPrepare, disks, past
<1>3. Afresh(i)'
  BY <1>0, <1>1, <1>2, Apart DEF Tied, AllAfresh, Afresh
<1>4. i \notin erased /\ job[i].pc # "removing"
  BY <1>0, BusyHasVolume DEF Busy
<1> QED  BY <1>0, <1>1, <1>2, <1>3, <1>4, Onward DEF SecondMade, FirstDue, LastDue, Mapped

LEMMA PrepareFailsTied ==
  ASSUME IInv, Tied, ~crossed, NEW i \in Images, PrepareFails(i)
  PROVE  Tied'
<1>0. JobsType /\ i \in Users
  BY Here
<1>1. Alone(i) /\ job'[i] = NoJob
  BY <1>0 DEF PrepareFails, JobsType, Alone
<1>2. /\ \A m \in Names : record'[m] = record[m]
      /\ UNCHANGED <<stuck, ran, erased, volume, mapped, builder>>
  BY DEF PrepareFails, disks, past
<1>3. Afresh(i)'
  BY <1>0, <1>1, <1>2, NoJobType, Apart, AfreshNext DEF VmMaking
<1>4. i \notin erased /\ job[i].pc # "removing"
  BY <1>0, BusyHasVolume DEF Busy
<1> QED  BY <1>0, <1>1, <1>2, <1>3, <1>4, NoJobType, Onward
         DEF SecondMade, FirstDue, LastDue, Mapped

\* The base's name stands for the volume that was made for it, or is stuck.
LEMMA ExportTied ==
  ASSUME IInv, Tied, ~crossed, NEW i \in Images, Export(i)
  PROVE  Tied'
<1>0. /\ JobsType /\ DisksType /\ RestType /\ i \in Users /\ Shape(i) /\ Base(i) \in Names
      /\ job[i] \in Job /\ job[i].pc = "export" /\ 0 \notin Ids
      /\ \A v \in ran : record[v] # 0
  BY Here, Apart DEF Export, Names, Tied, AllAfresh
<1>1. Alone(i) /\ job'[i].pc = "warm" /\ job'[i].root = job[i].root
  BY <1>0 DEF Export, JobsType, Job, Alone
<1>2. /\ volume' = [volume EXCEPT ![mapped[Base(i)]] = i] /\ mapped[Base(i)] # 0
      /\ UNCHANGED <<mapped, record, builder, ran, erased, stuck>>
  BY DEF Export, past
<1>3. PICK x \in Ids : x = mapped[Base(i)]
  BY <1>0, <1>2 DEF DisksType
<1>4. Claims(Base(i), x) /\ Own(Base(i)) = i /\ i # "none" /\ Base(i) \notin erased
      /\ i \notin erased
  BY <1>0, <1>3, Apart, NamesAssumption, Here DEF Claims, RestType
<1>5. ASSUME NEW m \in Names, NEW d \in Ids, Proper(m, d)'
      PROVE  Proper(m, d)
  BY <1>0, <1>1, <1>2, <1>5, ProperAlone DEF SecondMade
<1>6. ASSUME NEW m \in Names \ stuck, NEW d \in Ids, Due(m, d)'
      PROVE  Due(m, d) \/ (m = Base(i) /\ d = x)
  <2>1. CASE m = Base(i) /\ d = job[i].root
    <3>1. MadeBy(i, m, d)
      BY <2>1 DEF MadeBy, First
    <3>2. mapped[m] \in {0, d}
      BY <1>0, <3>1 DEF Tied, Straight, Proper
    <3> QED  BY <1>2, <1>3, <2>1, <3>2
  <2>2. CASE ~(m = Base(i) /\ d = job[i].root)
    <3>1. CASE record'[m] = d /\ (m \in Vms => m \in ran' \ erased')
      BY <1>2, <3>1 DEF Due
    <3>2. ASSUME NEW k \in Images,
                 \/ m = Base(k) /\ job'[k].root = d /\ job'[k].pc \in FirstDue
                 \/ m = Warm(k) /\ job'[k].id = d /\ job'[k].pc \in LastDue
          PROVE  Due(m, d)
      <4>1. k # i
        BY <1>1, <2>2, <3>2 DEF LastDue
      <4> QED  BY <1>1, <3>2, <4>1 DEF Due, Alone, Users
    <3> QED  BY <1>6, <3>1, <3>2 DEF Due
  <2> QED  BY <2>1, <2>2
<1>7. Afresh(i)'
  BY <1>0, <1>1, <1>2, Apart, AfreshNext
<1>8. AllAfresh'
  BY <1>0, <1>1, <1>2, <1>7, AfreshAlone DEF RestType
<1>9. \A m \in Names \ stuck, d \in Ids : Due(m, d)' =>
             Due(m, d) \/ (m = Base(i) /\ d = x /\ volume'[d] = Own(m))
  BY <1>0, <1>2, <1>3, <1>4, <1>6 DEF DisksType
<1>10. Calm /\ \A m \in Names : Mapped(m)
  BY <1>1, <1>2, <1>4, Here DEF Calm, Mapped, Idle, Alone, RestType
<1> QED  BY <1>0, <1>2, <1>3, <1>4, <1>5, <1>8, <1>9, <1>10, TiedWritten

\* A template VM serves only from a volume that holds its image's files.
LEMMA TemplateBootTied ==
  ASSUME IInv, Tied, ~crossed, NEW i \in Images, TemplateBoot(i)
  PROVE  Tied'
<1>0. /\ JobsType /\ DisksType /\ RestType /\ i \in Users /\ Shape(i) /\ Shapes
      /\ job[i] \in Job /\ job[i].pc = "template" /\ job[i].id \in Ids /\ Warm(i) \in Names
      /\ 0 \notin Ids /\ \A v \in ran : record[v] # 0
  BY Here, Apart DEF TemplateBoot, Names, Tied, AllAfresh, Shape, Job
<1>1. /\ \A m \in Names : record'[m] = record[m]
      /\ UNCHANGED <<volume, mapped, builder, ran, erased, stuck>>
  BY <1>0, TplApart DEF TemplateBoot, DisksType, Recordable, past
<1>4. \A m \in Names : Mapped(m)
  BY <1>1 DEF Mapped
<1>2. CASE /\ mapped[Warm(i)] # 0 /\ volume[mapped[Warm(i)]] = i
           /\ job' = [job EXCEPT ![i].pc = "serving"]
  <2>1. Alone(i) /\ job'[i].pc = "serving" /\ job'[i].root = job[i].root /\ job'[i].id = job[i].id
    BY <1>0, <1>2 DEF JobsType, Job, Alone
  <2>2. Afresh(i)'
    BY <1>0, <1>1, <2>1, Apart, AfreshNext
  <2>3. AllAfresh'
    BY <1>0, <1>1, <2>1, <2>2, AfreshAlone DEF RestType
  <2>4. ASSUME NEW m \in Names, NEW d \in Ids, Proper(m, d)'
        PROVE  Proper(m, d)
    BY <1>0, <1>1, <2>1, <2>4, ProperAlone DEF SecondMade
  <2>5. ASSUME NEW m \in Names \ stuck, NEW d \in Ids, Due(m, d)'
        PROVE  Due(m, d) \/ volume[d] = Own(m)
    <3>1. CASE m = Warm(i) /\ d = job[i].id
      <4>1. MadeBy(i, m, d)
        BY <1>0, <3>1 DEF MadeBy, Second, SecondMade
      <4>2. mapped[m] \in {0, d}
        BY <1>0, <4>1 DEF Tied, Straight, Proper
      <4> QED  BY <1>2, <3>1, <4>2, Apart
    <3>2. CASE ~(m = Warm(i) /\ d = job[i].id)
      <4>1. CASE record'[m] = d /\ (m \in Vms => m \in ran' \ erased')
        BY <1>1, <4>1 DEF Due
      <4>2. ASSUME NEW k \in Images,
                   \/ m = Base(k) /\ job'[k].root = d /\ job'[k].pc \in FirstDue
                   \/ m = Warm(k) /\ job'[k].id = d /\ job'[k].pc \in LastDue
            PROVE  Due(m, d)
        <5>1. CASE k = i
          BY <1>0, <2>1, <3>2, <4>2, <5>1 DEF Due, FirstDue
        <5>2. CASE k # i
          BY <2>1, <4>2, <5>2 DEF Due, Alone, Users
        <5> QED  BY <5>1, <5>2
      <4> QED  BY <2>5, <4>1, <4>2 DEF Due
    <3> QED  BY <3>1, <3>2
  <2>6. Calm
    BY <1>0, <1>1, <2>1, Here DEF Calm, Idle, Alone, RestType
  <2> QED  BY <1>1, <1>4, <2>3, <2>4, <2>5, <2>6, TiedQuiet
<1>3. CASE job' = [u \in Users |-> IF u = i THEN NoJob
                                   ELSE [job[u] EXCEPT !.pc =
                                           IF u = template /\ @ = "serving" THEN "cut" ELSE @]]
  <2>1. job'[i] = NoJob
    BY <1>0, <1>3
  <2>2. ASSUME NEW u \in Users, u # i
        PROVE  \/ job'[u] = job[u]
               \/ /\ u \in Images /\ job[u].pc = "serving" /\ job'[u].pc = "cut"
                  /\ job'[u].id = job[u].id /\ job'[u].root = job[u].root
    <3> DEFINE y == IF u = template /\ job[u].pc = "serving" THEN "cut" ELSE job[u].pc
    <3>1. job'[u] = [job[u] EXCEPT !.pc = y]
      BY <1>3, <2>2
    <3>2. job[u] \in Job /\ Shape(u)
      BY Here
    <3>3. y = job[u].pc \/ (y = "cut" /\ job[u].pc = "serving")
      OBVIOUS
    <3> HIDE DEF y
    <3>4. job[u].pc = "serving" => u \in Images
      BY <3>2 DEF Shape, VmPositions, Users
    <3> QED  BY <3>1, <3>2, <3>3, <3>4 DEF Job
  <2>3. AllAfresh'
    <3>1. /\ \A k \in Images : record'[Base(k)] = record[Base(k)] /\ record'[Warm(k)] = record[Warm(k)]
          /\ \A v \in Vms : /\ record'[v] = record[v] /\ record'[FamilyOf[v]] = record[FamilyOf[v]]
                            /\ job'[v] = job[v]
      BY <1>0, <1>1, <2>2, Apart, Here DEF Names
    <3>2. ASSUME NEW t \in Images
          PROVE  Afresh(t)'
      <4>1. Afresh(t) /\ t \in Users /\ t \notin Vms /\ Shape(t)
        BY <3>2, Here DEF Tied, AllAfresh
      <4>2. job'[t].pc \in {"idle", "cut"} \/ job'[t] = job[t]
        BY <2>1, <2>2, <4>1, NoJobType
      <4>3. job'[t].pc \notin {"boot", "family", "fill"}
        BY <4>1, <4>2, <3>2 DEF Shape, ImagePositions
      <4>4. job'[t].pc # "idle" => job[t].pc # "idle"
        BY <2>1, <2>2, <4>1, NoJobType
      <4> QED  BY <3>1, <4>1, <4>3, <4>4 DEF Afresh
    <3>3. ASSUME NEW t \in Vms
          PROVE  Afresh(t)'
      <4>1. Afresh(t) /\ t \in Users /\ t \notin Images
        BY <3>3, Here DEF Tied, AllAfresh
      <4> QED  BY <1>1, <3>1, <3>3, <4>1 DEF Afresh
    <3>4. \A v \in ran' : record'[v] # 0
      BY <1>0, <1>1, <3>1 DEF RestType
    <3> QED  BY <3>1, <3>2, <3>3, <3>4 DEF AllAfresh, Users, Tied
  <2>4. ASSUME NEW m \in Names, NEW d \in Ids, Proper(m, d)'
        PROVE  Proper(m, d)
    <3>1. ASSUME NEW t \in Users, MadeBy(t, m, d)'
          PROVE  MadeBy(t, m, d)
      <4>1. t # i
        BY <1>0, <2>1, <3>1, NoJobType DEF MadeBy, SecondMade
      <4> QED  BY <2>2, <3>1, <4>1 DEF MadeBy, First, Second, SecondMade
    <3>2. CASE Owned(m)' = d
      <4>1. m \in Vms => m # i /\ m \in Users /\ m \notin Images
        BY Here
      <4>2. Owned(m)' = Owned(m)
        BY <1>1, <2>2, <4>1 DEF Owned
      <4> QED  BY <3>2, <4>2 DEF Proper
    <3> QED  BY <2>4, <3>1, <3>2 DEF Proper
  <2>5. ASSUME NEW m \in Names, NEW d \in Ids, Due(m, d)'
        PROVE  Due(m, d)
    <3>1. CASE record'[m] = d /\ (m \in Vms => m \in ran' \ erased')
      BY <1>1, <3>1 DEF Due
    <3>2. ASSUME NEW k \in Images,
                 \/ m = Base(k) /\ job'[k].root = d /\ job'[k].pc \in FirstDue
                 \/ m = Warm(k) /\ job'[k].id = d /\ job'[k].pc \in LastDue
          PROVE  Due(m, d)
      <4>1. k # i /\ k \in Users
        BY <2>1, <3>2, NoJobType DEF FirstDue, LastDue, Users
      <4>2. job'[k] = job[k] \/ (/\ job[k].pc = "serving" /\ job'[k].pc = "cut"
                                 /\ job'[k].id = job[k].id /\ job'[k].root = job[k].root)
        BY <2>2, <4>1
      <4> QED  BY <3>2, <4>2 DEF Due, FirstDue, LastDue
    <3> QED  BY <2>5, <3>1, <3>2 DEF Due
  <2>6. Calm
    <3>1. \A v \in erased : v \in Users /\ v \in Names /\ v \notin Images /\ v # i
      BY <1>0, Here DEF RestType
    <3> QED  BY <1>1, <2>2, <3>1 DEF Calm, Idle
  <2> QED  BY <1>1, <1>4, <2>3, <2>4, <2>5, <2>6, TiedQuiet
<1> QED  BY <1>2, <1>3 DEF TemplateBoot

LEMMA TemplateEndsTied ==
  ASSUME IInv, Tied, ~crossed, NEW i \in Images, TemplateEnds(i)
  PROVE  Tied'
<1>0. /\ JobsType /\ DisksType /\ i \in Users /\ job[i] \in Job /\ job[i].pc \in {"serving", "cut"}
      /\ i \notin erased /\ UNCHANGED <<volume, mapped, builder, ran, erased, stuck>>
  BY BusyHasVolume, Here DEF TemplateEnds, Busy, past
<1>1. /\ Alone(i) /\ job'[i].root \in {0, job[i].root} /\ job'[i].pc \in {"idle", "done"}
      /\ job'[i].pc = "done" => job'[i].id = job[i].id /\ job'[i].root = job[i].root
  <2>1. CASE job' = [job EXCEPT ![i].pc = "done"]
    BY <1>0, <2>1 DEF JobsType, Job, Alone
  <2>2. CASE job' = [job EXCEPT ![i] = NoJob]
    BY <1>0, <2>2, NoJobType DEF JobsType, Alone
  <2> QED  BY <2>1, <2>2 DEF TemplateEnds
<1>2. \A m \in Names : record'[m] = record[m]
  BY <1>0, TplApart DEF TemplateEnds, DisksType, Recordable
<1>3. Afresh(i)'
  BY <1>0, <1>1, <1>2, Apart, AfreshNext
<1> QED  BY <1>0, <1>1, <1>2, <1>3, Onward DEF SecondMade, FirstDue, LastDue, Mapped

LEMMA RecordImageTied ==
  ASSUME IInv, Tied, ~crossed, NEW i \in Images, RecordImage(i)
  PROVE  Tied'
<1>0. /\ JobsType /\ DisksType /\ RestType /\ i \in Users /\ Shape(i) /\ 0 \notin Ids
      /\ job[i] \in Job /\ job[i].pc = "done" /\ i \notin erased
      /\ {Base(i), Warm(i)} \subseteq Names /\ Base(i) # Warm(i)
      /\ UNCHANGED <<volume, mapped, builder, ran, erased, stuck>>
      /\ record' = [record EXCEPT ![Base(i)] = job[i].root, ![Warm(i)] = job[i].id]
  BY BusyHasVolume, Here, Apart DEF RecordImage, Names, Busy, past
<1>1. Alone(i) /\ job'[i] = NoJob
  BY <1>0 DEF RecordImage, JobsType, Alone
<1>2. job[i].root \in Ids /\ job[i].id \in Ids
  BY <1>0 DEF Shape, Job
<1>3. /\ record'[Base(i)] = job[i].root /\ record'[Warm(i)] = job[i].id
      /\ \A m \in Names \ {Base(i), Warm(i)} : record'[m] = record[m]
  BY <1>0 DEF DisksType, Recordable
<1>4. /\ \A k \in Images \ {i} : record'[Base(k)] = record[Base(k)] /\ record'[Warm(k)] = record[Warm(k)]
      /\ \A v \in Vms : record'[v] = record[v] /\ record'[FamilyOf[v]] = record[FamilyOf[v]]
  BY <1>3, Apart DEF Names
<1>5. Afresh(i)'
  BY <1>1, NoJobType, Here DEF Afresh
<1>6. AllAfresh'
  <2>1. \A v \in ran' : record'[v] # 0
    BY <1>0, <1>4 DEF RestType, Tied, AllAfresh
  <2> QED  BY <1>0, <1>1, <1>2, <1>3, <1>4, <1>5, <2>1, AfreshBeside
<1>7. ASSUME NEW m \in Names, NEW d \in Ids, Proper(m, d)'
      PROVE  Proper(m, d)
  <2>1. MadeBy(i, Base(i), job[i].root) /\ MadeBy(i, Warm(i), job[i].id)
    BY <1>0 DEF MadeBy, First, Second, SecondMade
  <2>2. record'[m] = record[m] \/ (record'[m] = d => Proper(m, d))
    BY <1>0, <1>3, <2>1 DEF Proper
  <2> QED  BY <1>0, <1>1, <1>7, <2>2, NoJobType, ProperAlone DEF SecondMade
<1>8. ASSUME NEW m \in Names, NEW d \in Ids, Due(m, d)'
      PROVE  Due(m, d)
  <2>1. CASE m \in {Base(i), Warm(i)} /\ record'[m] = d
    BY <1>0, <1>3, <2>1 DEF Due, FirstDue, LastDue
  <2>2. CASE m \notin {Base(i), Warm(i)} /\ record'[m] = d /\ (m \in Vms => m \in ran' \ erased')
    BY <1>0, <1>3, <2>2 DEF Due
  <2>3. ASSUME NEW k \in Images,
               \/ m = Base(k) /\ job'[k].root = d /\ job'[k].pc \in FirstDue
               \/ m = Warm(k) /\ job'[k].id = d /\ job'[k].pc \in LastDue
        PROVE  Due(m, d)
    <3>1. k # i
      BY <1>1, <2>3, NoJobType DEF FirstDue, LastDue
    <3> QED  BY <1>1, <2>3, <3>1 DEF Due, Alone, Users
  <2> QED  BY <1>8, <2>1, <2>2, <2>3 DEF Due
<1>9. Calm /\ \A m \in Names : Mapped(m)
  BY <1>0, <1>1, <1>4 DEF Calm, Mapped, Idle, Alone, RestType, Users
<1> QED  BY <1>0, <1>6, <1>7, <1>8, <1>9, TiedQuiet

LEMMA RedoTied ==
  ASSUME IInv, Tied, ~crossed, NEW i \in Images, Redo(i)
  PROVE  Tied'
<1>0. /\ DisksType /\ RestType /\ i \in Users /\ 0 \notin Ids /\ job[i] = NoJob
      /\ {Base(i), Warm(i)} \subseteq Names /\ Base(i) # Warm(i)
      /\ UNCHANGED <<volume, mapped, job, builder, ran, erased, stuck>>
  BY Here, Apart DEF Redo, Names, Idle, past
<1>1. /\ record'[Base(i)] = 0 /\ record'[Warm(i)] = 0
      /\ \A m \in Names \ {Base(i), Warm(i)} : record'[m] = record[m]
  BY <1>0 DEF Redo, DisksType, Recordable
<1>2. Alone(i) /\ Afresh(i)'
  BY <1>0, NoJobType, Here DEF Alone, Afresh
<1>3. /\ \A k \in Images \ {i} : record'[Base(k)] = record[Base(k)] /\ record'[Warm(k)] = record[Warm(k)]
      /\ \A v \in Vms : record'[v] = record[v] /\ record'[FamilyOf[v]] = record[FamilyOf[v]]
  BY <1>1, Apart DEF Names
<1>4. AllAfresh'
  <2>1. \A v \in ran' : record'[v] # 0
    BY <1>0, <1>3 DEF RestType, Tied, AllAfresh
  <2> QED  BY <1>0, <1>1, <1>2, <1>3, <2>1, AfreshBeside
<1>5. ASSUME NEW m \in Names, NEW d \in Ids
      PROVE  (Proper(m, d)' => Proper(m, d)) /\ (Due(m, d)' => Due(m, d))
  <2>1. record'[m] \in {0, record[m]}
    BY <1>1
  <2>2. Owned(m)' \in {0, Owned(m)}
    BY <1>0, <2>1 DEF Owned
  <2> QED  BY <1>0, <2>1, <2>2 DEF Proper, MadeBy, First, Second, Due
<1>6. Calm /\ \A m \in Names : Mapped(m)
  BY <1>0, <1>3 DEF Calm, Mapped, Idle, RestType
<1> QED  BY <1>0, <1>4, <1>5, <1>6, TiedQuiet

\* A volume that a call can make has no name.
LEMMA FreeHasNoName ==
  ASSUME IInv, Tied, ~crossed, NEW u \in Users, NEW d \in Ids, d = job[u].id, IsFree(d),
         NEW m \in Names
  PROVE  ~Claims(m, d)
<1>1. mapped[m] # d
  BY Here DEF Tied, Present, IsFree
<1>2. Owned(m) # d /\ \A t \in Users : d \notin Making(t)
  BY FreeIsNobodys
<1>3. \A t \in Users : ~MadeBy(t, m, d)
  BY <1>2, MadeWhen
<1> QED  BY <1>1, <1>2, <1>3 DEF Claims, Proper

\* Until a call makes its volume, its name has none but what an earlier call left.
LEMMA TargetNew ==
  ASSUME IInv, Tied, ~crossed, NEW u \in Users, job[u].pc \in Allocating, NEW d \in Ids
  PROVE  ~Proper(Target(u), d)
<1>0. Shape(u) /\ Afresh(u) /\ 0 \notin Ids
  BY Here DEF Tied, AllAfresh
<1>1. CASE u \in Images
  <2>1. job[u].pc \in {"base", "warm"}
    BY <1>0, <1>1 DEF Shape, ImagePositions, Allocating
  <2>2. Target(u) \in {Base(u), Warm(u)} /\ (job[u].pc = "base" => Target(u) = Base(u))
        /\ (job[u].pc = "warm" => Target(u) = Warm(u))
    BY <1>1, <2>1 DEF Target, Base, Warm
  <2>3. record[Target(u)] = 0
    BY <1>0, <1>1, <2>1, <2>2 DEF Afresh
  <2>4. ASSUME NEW t \in Users, MadeBy(t, Target(u), d)
        PROVE  FALSE
    <3>1. t = u
      BY <1>1, <2>2, <2>4, Apart DEF MadeBy, First, Second, Users
    <3>2. job[u].pc = "warm" /\ Target(u) = First(u)
      BY <1>1, <2>1, <2>4, <3>1, MadeWhen DEF SecondMade
    <3> QED  BY <1>1, <2>2, <3>2, Apart DEF First
  <2> QED  BY <1>0, <2>3, <2>4 DEF Proper, Owned
<1>2. CASE u \in Vms
  <2>1. job[u].pc \in {"clone", "family"} /\ u \notin Images
    BY <1>0, <1>2, Apart DEF Shape, VmPositions, Allocating
  <2>2. Target(u) = IF job[u].pc = "clone" THEN u ELSE FamilyOf[u]
    BY <2>1 DEF Target
  <2>3. record[Target(u)] = 0
    BY <1>0, <1>2, <2>1, <2>2 DEF Afresh, VmMaking
  <2>4. ASSUME NEW t \in Users, MadeBy(t, Target(u), d)
        PROVE  FALSE
    <3>1. t \in Vms /\ t \notin Images
      BY <1>2, <2>2, <2>4, Apart DEF MadeBy, First, Second, Users
    <3>2. CASE job[u].pc = "clone"
      <4>1. t = u
        BY <1>2, <2>2, <2>4, <3>1, <3>2, Apart DEF MadeBy, First, Second
      <4> QED  BY <1>2, <2>4, <3>2, <4>1, MadeWhen
    <3>3. CASE job[u].pc = "family"
      <4>1. Target(u) = FamilyOf[u] /\ FamilyOf[u] # t /\ FamilyOf[t] = FamilyOf[u]
        BY <1>2, <2>2, <2>4, <3>1, <3>3, Apart DEF MadeBy, First, Second
      <4>2. job[t].pc = "fill"
        BY <2>4, <3>1, <4>1, MadeWhen
      <4>3. builder[FamilyOf[u]] = t
        BY <4>1, <4>2 DEF Tied, AllAfresh, Afresh
      <4>4. builder[FamilyOf[u]] = u
        BY <1>0, <3>3 DEF Afresh
      <4> QED  BY <3>3, <4>2, <4>3, <4>4
    <3> QED  BY <2>1, <3>2, <3>3
  <2> QED  BY <1>0, <2>3, <2>4 DEF Proper, Owned
<1> QED  BY <1>1, <1>2 DEF Users

LEMMA MakeTied ==
  ASSUME IInv, Tied, ~crossed, NEW u \in Users, Make(u)
  PROVE  Tied'
<1>0. /\ JobsType /\ DisksType /\ RestType /\ job[u] \in Job /\ Shape(u) /\ job[u].pc \in Allocating
      /\ job[u].id \in Ids /\ IsFree(job[u].id) /\ 0 \notin Ids /\ Target(u) \in Names
      /\ \A v \in ran : record[v] # 0
      /\ u \notin erased /\ job[u].pc # "removing"
  BY Here, TargetNamed, BusyHasVolume DEF Make, Shape, Job, Tied, AllAfresh, Busy, Allocating
<1>1. PICK d \in Ids : d = job[u].id
  BY <1>0
<1>2. PICK name \in Names : name = Target(u)
  BY <1>0
<1>3. PICK k \in Job : /\ job' = [job EXCEPT ![u] = k] /\ k.pc = Then[job[u].pc]
                       /\ job[u].pc \in {"base", "clone"} => k.root = d /\ k.id = 0
                       /\ job[u].pc \notin {"base", "clone"} => k.root = job[u].root /\ k.id = d
  BY <1>0, <1>1, AfterDoes DEF Make
<1>4. Alone(u) /\ job'[u] = k
  BY <1>0, <1>3, PutDoes
<1>5. /\ \A m \in Names \ {name} : mapped'[m] = mapped[m] /\ (m \in stuck' <=> m \in stuck)
      /\ mapped'[name] = (IF mapped[name] = 0 THEN d ELSE mapped[name])
      /\ mapped[name] # 0 => name \in stuck'
      /\ UNCHANGED <<record, builder, ran, erased>>
  BY <1>0, <1>1, <1>2 DEF Make, Activated, DisksType
<1>6. volume'[d] # "none" /\ \A e \in Ids \ {d} : volume'[e] = volume[e]
  <2>1. job[u].origin # 0 => job[u].origin \in Ids /\ volume[job[u].origin] # "none"
    BY <1>0, Here DEF Held, Job
  <2> QED  BY <1>0, <1>1, <2>1 DEF Make, DisksType
<1>7. \A m \in Names : ~Claims(m, d)
  BY <1>0, <1>1, FreeHasNoName
<1>8. \A e \in Ids : ~Proper(name, e)
  BY <1>0, <1>2, TargetNew
<1>9. ASSUME NEW m \in Names, NEW e \in Ids, Proper(m, e)'
      PROVE  Proper(m, e) \/ (m = name /\ e = d)
  <2>1. ASSUME NEW t \in Users, MadeBy(t, m, e)'
        PROVE  MadeBy(t, m, e) \/ (m = name /\ e = d)
    <3>1. CASE t # u
      BY <1>4, <2>1, <3>1 DEF MadeBy, First, Second, Alone
    <3>2. CASE t = u /\ u \in Images
      <4>1. job[u].pc \in {"base", "warm"}
        BY <1>0, <3>2 DEF Shape, ImagePositions, Allocating
      <4>2. CASE job[u].pc = "base"
        <5>1. name = First(u) /\ k.pc = "export" /\ k.root = d
          BY <1>2, <1>3, <3>2, <4>2 DEF Target, First, Base, Then
        <5> QED  BY <1>4, <2>1, <3>2, <5>1 DEF MadeBy, First, Second, SecondMade
      <4>3. CASE job[u].pc = "warm"
        <5>1. name = Second(u) /\ k.id = d /\ k.root = job[u].root
          BY <1>2, <1>3, <3>2, <4>3 DEF Target, Second, Warm
        <5> QED  BY <1>4, <2>1, <3>2, <5>1 DEF MadeBy, First, Second
      <4> QED  BY <4>1, <4>2, <4>3
    <3>3. CASE t = u /\ u \in Vms
      <4>1. job[u].pc \in {"clone", "family"} /\ u \notin Images
        BY <1>0, <3>3, Apart DEF Shape, VmPositions, Allocating
      <4>2. CASE job[u].pc = "clone"
        <5>1. name = First(u) /\ k.pc = "deps" /\ k.root = d
          BY <1>2, <1>3, <4>1, <4>2 DEF Target, First, Then
        <5> QED  BY <1>4, <2>1, <3>3, <5>1 DEF MadeBy, First, Second, SecondMade
      <4>3. CASE job[u].pc = "family"
        <5>1. name = Second(u) /\ k.id = d /\ k.root = job[u].root
          BY <1>2, <1>3, <4>1, <4>3 DEF Target, Second
        <5> QED  BY <1>4, <2>1, <3>3, <5>1 DEF MadeBy, First, Second
      <4> QED  BY <4>1, <4>2, <4>3
    <3> QED  BY <3>1, <3>2, <3>3 DEF Users
  <2>2. job'[u].pc # "removing" /\ (m \in Vms => m \in Users)
    BY <1>0, <1>3, <1>4, Here DEF Allocating, Then
  <2>3. Owned(m)' = Owned(m)
    BY <1>0, <1>4, <1>5, <2>2, OwnedBeside
  <2> QED  BY <1>9, <2>1, <2>3 DEF Proper
<1>10. AllAfresh'
  <2>1. Then[job[u].pc] \in {"export", "template", "deps", "fill"}
        /\ (job[u].pc # "family" => Then[job[u].pc] # "fill")
    BY <1>0 DEF Allocating, Then
  <2>2. u \in Images => job[u].pc \notin {"clone", "family"}
    BY <1>0 DEF Shape, ImagePositions
  <2>3. u \in Vms => job[u].pc \in VmMaking
    BY <1>0 DEF Shape, VmPositions, Allocating, VmMaking
  <2>4. Afresh(u)'
    BY <1>0, <1>3, <1>4, <1>5, <2>1, <2>3, AfreshNext DEF Allocating
  <2> QED  BY <1>0, <1>4, <1>5, <2>4, AfreshAlone DEF RestType
<1>11. ASSUME NEW m \in Names, NEW e \in Ids, Claims(m, e)'
       PROVE  (Claims(m, e) /\ e # d) \/ (m = name /\ e = d)
  <2>1. CASE mapped'[m] = e
    BY <1>5, <1>7, <2>1 DEF Claims
  <2>2. CASE Proper(m, e)'
    BY <1>7, <1>9, <2>2 DEF Claims
  <2> QED  BY <1>11, <2>1, <2>2 DEF Claims
<1>12. OneClaim'
  BY <1>11 DEF Tied, OneClaim
<1>13. Present'
  <2>1. ASSUME NEW m \in Names, mapped'[m] # 0
        PROVE  volume'[mapped'[m]] # "none"
    <3>1. PICK e \in Ids : e = mapped'[m]
      BY <1>0, <1>1, <1>5, <2>1 DEF DisksType
    <3>2. CASE e = d
      BY <1>6, <3>1, <3>2
    <3>3. CASE e # d
      <4>1. mapped[m] = e
        BY <1>5, <3>1, <3>3
      <4>2. volume[e] # "none"
        BY <2>1, <3>1, <4>1 DEF Tied, Present
      <4> QED  BY <1>6, <3>1, <3>3, <4>2
    <3> QED  BY <3>2, <3>3
  <2> QED  BY <2>1 DEF Present
<1>14. Straight'
  <2>1. ASSUME NEW m \in Names \ stuck', NEW e \in Ids, Proper(m, e)'
        PROVE  mapped'[m] \in {0, e}
    <3>1. CASE m = name
      BY <1>5, <1>8, <1>9, <2>1, <3>1
    <3>2. CASE m # name
      <4>1. Proper(m, e) /\ m \notin stuck
        BY <1>5, <1>9, <2>1, <3>2
      <4> QED  BY <1>5, <3>2, <4>1 DEF Tied, Straight
    <3> QED  BY <3>1, <3>2
  <2> QED  BY <2>1 DEF Straight
<1>15. Full'
  <2>1. ASSUME NEW m \in Names \ stuck', NEW e \in Ids, Due(m, e)'
        PROVE  volume'[e] = Own(m)
    <3>1. u \in Images /\ job'[u].pc \in FirstDue =>
             job[u].pc \in FirstDue /\ job'[u].root = job[u].root
      BY <1>0, <1>3, <1>4 DEF Then, Allocating, FirstDue
    <3>2. job'[u].pc \notin LastDue
      BY <1>0, <1>3, <1>4 DEF Then, Allocating, LastDue
    <3>3. Due(m, e)
      BY <1>0, <1>4, <1>5, <2>1, <3>1, <3>2, DueAlone
    <3>4. Proper(m, e)
      BY <3>3, DueIsProper
    <3>5. m # name /\ e # d /\ m \notin stuck
      BY <1>5, <1>7, <1>8, <2>1, <3>4 DEF Claims
    <3> QED  BY <1>6, <3>3, <3>5 DEF Tied, Full
  <2> QED  BY <2>1 DEF Full
<1>16. Gone'
  <2>1. SUFFICES ASSUME NEW v \in erased
                 PROVE  mapped'[v] = 0 /\ (Idle(v)' => volume'[record[v]] = "none")
    BY <1>5 DEF Gone
  <2>2. v \in Vms /\ v # u /\ v \in Names /\ v \in Users /\ Spared /\ record[v] \in Ids
    BY <1>0, <2>1, Here DEF RestType, AllDriven, Driven, Knows, DisksType, Recordable
  <2>3. v # name
    <3>1. CASE u \in Images
      <4>1. job[u].pc \in {"base", "warm"}
        BY <1>0, <3>1 DEF Shape, ImagePositions, Allocating
      <4>2. name = Base(u) \/ name = Warm(u)
        BY <1>2, <3>1, <4>1 DEF Target, Base, Warm
      <4> QED  BY <2>2, <3>1, <4>2, Apart
    <3>2. CASE u \notin Images
      <4>1. u \in Vms /\ FamilyOf[u] \in Families /\ v \notin Families
        BY <2>2, <3>2, Apart DEF Users
      <4>2. name = u \/ name = FamilyOf[u]
        BY <1>2, <3>2 DEF Target
      <4> QED  BY <2>2, <4>1, <4>2
    <3> QED  BY <3>1, <3>2
  <2>4. mapped[v] = 0 /\ job'[v] = job[v]
        /\ (Idle(v) => volume[record[v]] = "none" /\ record[v] # d)
    BY <1>1, <1>4, <2>1, <2>2 DEF Tied, Gone, Spared, Alone
  <2> QED  BY <1>5, <1>6, <2>2, <2>3, <2>4 DEF Idle
<1> QED  BY <1>10, <1>12, <1>13, <1>14, <1>15, <1>16 DEF Tied

\* The volume recorded for v is deleted, and so is what its name stands for.
LEMMA TiedDeleted ==
  ASSUME IInv, Tied, ~crossed, NEW v \in Vms, NEW from \in Ids \cup {0}, Erase(v, from),
         job[v].pc # "removing", UNCHANGED <<counter, stuck, builder>>
  PROVE  Tied'
<1>0. /\ DisksType /\ RestType /\ OneClaim /\ Gone /\ 0 \notin Ids /\ v \notin Images
      /\ UNCHANGED <<record, ran>> /\ ran \subseteq Vms /\ \A w \in ran : record[w] # 0
  BY Here DEF Tied, Erase, RestType, AllAfresh
<1>1. /\ record[v] \in Ids /\ v \in Names /\ v \in Users /\ Alone(v)
      /\ erased' = erased \cup {v} /\ \A d \in Ids \ {record[v]} : volume'[d] = volume[d]
      /\ volume'[record[v]] = "none" /\ job'[v].pc = "removing" /\ job'[v].root = 0
  BY EraseDoes
<1>2. mapped'[v] = 0 /\ \A m \in Names : Mapped(m)
  BY <1>0, <1>1 DEF Erase, DisksType, Mapped
<1>3. AllAfresh'
  <2>1. Afresh(v)'
    BY <1>0, <1>1 DEF Afresh, VmMaking
  <2>2. \A w \in Vms \ {v} : job[w].pc \in {"family", "fill"} =>
                                 builder'[FamilyOf[w]] = builder[FamilyOf[w]]
    OBVIOUS
  <2> QED  BY <1>0, <1>1, <2>1, <2>2, AfreshAlone
<1>4. Owned(v) = record[v] /\ Owned(v)' = 0 /\ \A m \in Names \ {v} : Owned(m)' = Owned(m)
  <2>1. Owned(v) = record[v] /\ Owned(v)' = 0
    BY <1>1 DEF Owned
  <2>2. ASSUME NEW m \in Names \ {v}
        PROVE  Owned(m)' = Owned(m)
    BY <1>0, <1>1, Here DEF Owned, Alone
  <2> QED  BY <2>1, <2>2
<1>5. ASSUME NEW m \in Names, NEW d \in Ids, Proper(m, d)'
      PROVE  Proper(m, d)
  <2>1. ASSUME NEW t \in Users, MadeBy(t, m, d)'
        PROVE  MadeBy(t, m, d)
    <3>1. t # v
      BY <1>0, <1>1, <2>1 DEF MadeBy, SecondMade
    <3> QED  BY <1>1, <2>1, <3>1 DEF MadeBy, First, Second, Alone
  <2>2. Owned(m)' = d => Owned(m) = d
    BY <1>0, <1>4
  <2> QED  BY <1>5, <2>1, <2>2 DEF Proper
<1>6. ASSUME NEW m \in Names, NEW d \in Ids, Due(m, d)'
      PROVE  Due(m, d) /\ volume'[d] = volume[d]
  <2>1. Due(m, d)
    BY <1>0, <1>1, <1>6, DueAlone
  <2>2. m # v
    BY <1>1, <1>6, Apart DEF Due
  <2>3. d # record[v]
    <3>1. SUFFICES ASSUME d = record[v] PROVE FALSE
      OBVIOUS
    <3>2. Claims(m, d) /\ Claims(v, d)
      BY <1>4, <2>1, <3>1, DueIsProper DEF Claims, Proper
    <3> QED  BY <1>0, <1>1, <2>2, <3>2 DEF OneClaim
  <2> QED  BY <1>1, <2>1, <2>3
<1>7. ASSUME NEW d \in Ids, volume'[d] = "none", volume[d] # "none"
      PROVE  \E n \in Names : Proper(n, d) /\ mapped'[n] = 0
  <2>1. d = record[v]
    BY <1>1, <1>7
  <2> QED  BY <1>1, <1>2, <1>4, <2>1 DEF Proper
<1>8. Gone'
  <2>1. SUFFICES ASSUME NEW w \in erased'
                 PROVE  mapped'[w] = 0 /\ (Idle(w)' => volume'[record'[w]] = "none")
    BY DEF Gone
  <2>2. CASE w = v
    BY <1>0, <1>1, <1>2, <2>2
  <2>3. CASE w # v
    <3>1. w \in erased /\ w \in Names /\ w \in Users /\ job'[w] = job[w] /\ record[w] \in Ids
      BY <1>0, <1>1, <2>1, <2>3, Here DEF Alone, RestType, AllDriven, Driven, Knows, DisksType, Recordable
    <3>2. mapped[w] = 0 /\ (Idle(w) => volume[record[w]] = "none") /\ Mapped(w)
      BY <1>0, <1>2, <3>1 DEF Gone
    <3> QED  BY <1>0, <1>1, <3>1, <3>2 DEF Mapped, Idle
  <2> QED  BY <2>2, <2>3
<1>9. UNCHANGED stuck
  OBVIOUS
<1> QED  BY <1>2, <1>3, <1>5, <1>6, <1>7, <1>8, <1>9, TiedKept

LEMMA TiedSame ==
  ASSUME Tied, UNCHANGED <<volume, mapped, record, job, builder, ran, erased, stuck>>
  PROVE  Tied'
<1>1. AllAfresh'
  BY DEF Tied, AllAfresh, Afresh
<1>2. OneClaim' /\ Present' /\ Straight'
  BY DEF Tied, OneClaim, Present, Straight, Claims, Proper, Owned, MadeBy, First, Second
<1>3. Full' /\ Gone'
  BY DEF Tied, Full, Due, Own, Gone, Idle
<1> QED  BY <1>1, <1>2, <1>3 DEF Tied

LEMMA CreateTied ==
  ASSUME IInv, Tied, ~crossed, NEW v \in Vms, Create(v)
  PROVE  Tied'
<1>0. /\ Idle(v) /\ UNCHANGED <<counter, builder, stuck>> /\ JobsType /\ v \in Users /\ v \notin Images
      /\ job[v].pc = "idle" /\ Driven(v)
  BY NoJobType, Here DEF Create, Idle, AllDriven
<1>1. PICK warm \in Ids \cup {0} : warm = record[Warm(ImageOf[v])]
  BY OfImage
<1>2. CASE Erase(v, warm)
  BY <1>0, <1>2, TiedDeleted
<1>3. CASE /\ ~Knows(v) /\ job' = [job EXCEPT ![v] = Cloning(warm)] /\ ran' = ran \ {v}
           /\ UNCHANGED <<up, mapped, volume, record, erased>>
  <2>1. Alone(v) /\ job'[v].root = 0 /\ job'[v].pc \in {"idle", "clone"}
    BY <1>3, CloneJob
  <2>2. Afresh(v)' /\ v \notin erased
    BY <1>0, <1>3, <2>1 DEF Afresh, Knows, Driven
  <2> QED  BY <1>0, <1>3, <2>1, <2>2, Onward DEF SecondMade, FirstDue, LastDue, Mapped
<1>4. CASE UNCHANGED <<mapped, volume, record, ran, drive, erased, job>>
  BY <1>0, <1>4, TiedSame
<1> QED  BY <1>1, <1>2, <1>3, <1>4 DEF Create

LEMMA DeleteTied ==
  ASSUME IInv, Tied, ~crossed, NEW v \in Vms, Delete(v)
  PROVE  Tied'
<1>0. job[v].pc = "idle" /\ UNCHANGED <<counter, builder, stuck>>
  BY NoJobType DEF Delete, Idle
<1>1. CASE Erase(v, 0)
  BY <1>0, <1>1, TiedDeleted
<1>2. CASE UNCHANGED <<up, mapped, volume, record, ran, drive, erased, job>>
  BY <1>0, <1>2, TiedSame
<1> QED  BY <1>1, <1>2 DEF Delete

LEMMA CreateBootFailsTied ==
  ASSUME IInv, Tied, ~crossed, NEW v \in Vms, CreateBootFails(v)
  PROVE  Tied'
<1>1. Erase(v, 0) /\ job[v].pc = "boot" /\ UNCHANGED <<counter, builder, stuck>>
  BY DEF CreateBootFails
<1> QED  BY <1>1, TiedDeleted

\* The record of what was deleted goes.
LEMMA ForgetTied ==
  ASSUME IInv, Tied, ~crossed, NEW v \in Vms, Forget(v)
  PROVE  Tied'
<1>0. /\ DisksType /\ RestType /\ v \in Users /\ v \in Names /\ v \notin Images /\ 0 \notin Ids
      /\ job[v].pc = "removing" /\ job[v].origin \in Ids \cup {0}
      /\ record' = [record EXCEPT ![v] = 0] /\ ran' = ran \ {v} /\ erased' = erased \ {v}
      /\ UNCHANGED <<mapped, volume, builder, stuck>>
  BY Here DEF Forget, Job
<1>1. Alone(v) /\ job'[v].root = 0 /\ job'[v].pc \in {"idle", "clone"}
  <2>1. PICK d \in Ids \cup {0} : d = job[v].origin
    BY <1>0
  <2>2. job' = [job EXCEPT ![v] = Cloning(d)]
    BY <2>1 DEF Forget
  <2> QED  BY <2>2, CloneJob
<1>2. record'[v] = 0 /\ \A m \in Names \ {v} : record'[m] = record[m]
  BY <1>0 DEF DisksType, Recordable
<1>3. AllAfresh'
  <2>1. Afresh(v)'
    BY <1>0, <1>1, <1>2 DEF Afresh
  <2>2. /\ \A i \in Images : record'[Base(i)] = record[Base(i)] /\ record'[Warm(i)] = record[Warm(i)]
        /\ \A w \in Vms : record'[FamilyOf[w]] = record[FamilyOf[w]]
        /\ \A w \in Vms \ {v} : record'[w] = record[w]
    BY <1>2, Apart DEF Names
  <2>3. \A w \in ran' : record'[w] # 0
    BY <1>0, <2>2 DEF RestType, Tied, AllAfresh
  <2> QED  BY <1>0, <1>1, <2>1, <2>2, <2>3, AfreshBeside
<1>4. ASSUME NEW m \in Names, NEW d \in Ids, Proper(m, d)'
      PROVE  Proper(m, d)
  <2>1. ASSUME NEW t \in Users, MadeBy(t, m, d)'
        PROVE  MadeBy(t, m, d)
    <3>1. t # v
      BY <1>0, <1>1, <2>1 DEF MadeBy, SecondMade
    <3> QED  BY <1>1, <2>1, <3>1 DEF MadeBy, First, Second, Alone
  <2>2. CASE m = v
    BY <1>0, <1>2, <1>4, <2>1, <2>2 DEF Proper, Owned
  <2>3. CASE m # v
    <3>1. Owned(m)' = Owned(m)
      BY <1>1, <1>2, <2>3, Here DEF Owned, Alone
    <3> QED  BY <1>4, <2>1, <3>1 DEF Proper
  <2> QED  BY <2>2, <2>3
<1>5. ASSUME NEW m \in Names, NEW d \in Ids, Due(m, d)'
      PROVE  Due(m, d)
  BY <1>0, <1>1, <1>2, <1>5, DueAlone
<1>6. Calm /\ \A m \in Names : Mapped(m)
  BY <1>0, <1>1, <1>2, Here DEF Calm, Mapped, Idle, Alone, RestType
<1> QED  BY <1>0, <1>3, <1>4, <1>5, <1>6, TiedQuiet

LEMMA DepsTied ==
  ASSUME IInv, Tied, ~crossed, NEW v \in Vms, Deps(v)
  PROVE  Tied'
<1> DEFINE f == FamilyOf[v]
<1>0. /\ JobsType /\ DisksType /\ v \in Users /\ v \notin Images /\ job[v] \in Job
      /\ job[v].pc = "deps" /\ builder[f] = Nobody /\ f \in Families /\ f \in Names
      /\ UNCHANGED <<volume, record, ran, erased, stuck>> /\ Afresh(v) /\ Nobody \notin Vms
      /\ LocksType /\ v \notin erased /\ f \notin erased
  BY Here, Apart, NamesAssumption, BusyHasVolume
     DEF Deps, Names, Tied, AllAfresh, Users, Busy, past, RestType
<1>1. \A m \in Names : record'[m] = record[m]
  BY <1>0
<1>2. CASE record[f] # 0
  <2>1. /\ job' = [job EXCEPT ![v].pc = "save"] /\ mapped' = Activated(f, record[f])
        /\ UNCHANGED builder
    BY <1>2 DEF Deps
  <2>2. Alone(v) /\ job'[v].pc = "save" /\ job'[v].root = job[v].root
    BY <1>0, <2>1 DEF JobsType, Job, Alone
  <2>3. \A m \in Names : Mapped(m)
    BY <1>0, <2>1 DEF Activated, DisksType, Mapped
  <2>4. Afresh(v)'
    BY <1>0, <2>2, AfreshNext DEF VmMaking
  <2> QED  BY <1>0, <1>1, <2>1, <2>2, <2>3, <2>4, Onward DEF SecondMade, Mapped
<1>3. CASE record[f] = 0
  <2>1. /\ job' = [job EXCEPT ![v] = [job[v] EXCEPT !.pc = "family", !.origin = 0]]
        /\ builder' = [builder EXCEPT ![f] = v] /\ UNCHANGED mapped
    BY <1>3 DEF Deps
  <2>2. Alone(v) /\ job'[v].pc = "family" /\ job'[v].root = job[v].root
    BY <1>0, <2>1 DEF JobsType, Job, Alone
  <2>3. builder'[f] = v /\ \A g \in Families \ {f} : builder'[g] = builder[g]
    BY <1>0, <2>1 DEF LocksType
  <2>4. Afresh(v)'
    BY <1>0, <1>3, <2>2, <2>3 DEF Afresh, VmMaking
  <2>5. ASSUME NEW w \in Vms \ {v}, job[w].pc \in {"family", "fill"}
        PROVE  builder'[FamilyOf[w]] = builder[FamilyOf[w]]
    <3>1. builder[FamilyOf[w]] = w /\ w # Nobody
      BY <1>0, <2>5, Here DEF Tied, AllAfresh, Afresh
    <3> QED  BY <1>0, <2>3, <3>1, Apart
  <2> QED  BY <1>0, <1>1, <2>1, <2>2, <2>4, <2>5, Onward DEF SecondMade, Mapped
<1> QED  BY <1>2, <1>3

\* The tree is copied to what the family's name stands for.
LEMMA FillTied ==
  ASSUME IInv, Tied, ~crossed, NEW v \in Vms, Fill(v)
  PROVE  Tied'
<1> DEFINE f == FamilyOf[v]
<1>0. /\ JobsType /\ DisksType /\ RestType /\ v \in Users /\ v \notin Images /\ job[v] \in Job
      /\ Shape(v) /\ job[v].pc = "fill" /\ f \in Families /\ f \in Names /\ f \notin Vms
      /\ Afresh(v) /\ 0 \notin Ids /\ mapped[f] \in Ids
      /\ UNCHANGED <<mapped, ran, erased, stuck>> /\ Unlock(v) /\ LocksType /\ ran \subseteq Vms
      /\ (\A w \in ran : record[w] # 0) /\ v \notin erased /\ f \notin erased /\ erased \subseteq Vms
  BY Here, Apart, BusyHasVolume DEF Fill, Names, Tied, AllAfresh, DisksType, RestType, Busy, past
<1>6. \A m \in Names : Mapped(m)
  BY <1>0 DEF Mapped
<1>1. job' = [job EXCEPT ![v] = [job[v] EXCEPT !.pc = "save", !.id = 0]]
  BY DEF Fill
<1>2. Alone(v) /\ job'[v].pc = "save" /\ job'[v].root = job[v].root
  BY <1>0, <1>1 DEF JobsType, Job, Alone
<1>3. ASSUME NEW w \in Vms \ {v}, job[w].pc \in {"family", "fill"}
      PROVE  builder'[FamilyOf[w]] = builder[FamilyOf[w]] /\ FamilyOf[w] # f
  <2>1. builder[FamilyOf[w]] = w /\ builder[f] = v
    BY <1>0, <1>3, Here DEF Tied, AllAfresh, Afresh
  <2> QED  BY <1>0, <2>1, Apart DEF Unlock
<1>4. CASE UNCHANGED <<volume, record, drive>>
  <2>1. Afresh(v)'
    BY <1>0, <1>2, <1>4, AfreshNext DEF VmMaking
  <2> QED  BY <1>0, <1>2, <1>3, <1>4, <1>6, <2>1, Onward DEF SecondMade
<1>5. CASE Copied(v)
  <2>1. PICK x \in Ids : x = mapped[f]
    BY <1>0
  <2>2. PICK d \in Ids : d = job[v].id
    BY <1>0 DEF Shape, Job
  <2>3. /\ volume' = [volume EXCEPT ![x] = f] /\ record'[f] = d
        /\ \A m \in Names \ {f} : record'[m] = record[m]
    BY <1>0, <1>5, <2>1, <2>2 DEF Copied, DisksType, Recordable
  <2>4. Proper(f, d) /\ Claims(f, x) /\ Own(f) = f /\ f # "none"
    BY <1>0, <2>1, <2>2, Apart, NamesAssumption DEF Proper, MadeBy, Second, SecondMade, Claims, Own
  <2>5. /\ \A i \in Images : record'[Base(i)] = record[Base(i)] /\ record'[Warm(i)] = record[Warm(i)]
        /\ \A w \in Vms : record'[w] = record[w]
        /\ \A w \in Vms : FamilyOf[w] # f => record'[FamilyOf[w]] = record[FamilyOf[w]]
    BY <1>0, <2>3, Apart DEF Names
  <2>6. Afresh(v)'
    BY <1>0, <1>2, <2>5 DEF Afresh, VmMaking
  <2>7. AllAfresh'
    <3>1. \A w \in ran' : record'[w] # 0
      BY <1>0, <2>5
    <3> QED  BY <1>0, <1>2, <1>3, <2>5, <2>6, <3>1, AfreshBeside
  <2>8. ASSUME NEW m \in Names, NEW e \in Ids, Proper(m, e)'
        PROVE  Proper(m, e)
    <3>1. record'[m] = record[m] \/ (record'[m] = e => Proper(m, e))
      BY <2>3, <2>4
    <3> QED  BY <1>0, <1>2, <2>8, <3>1, ProperAlone DEF SecondMade
  <2>9. ASSUME NEW m \in Names \ stuck, NEW e \in Ids, Due(m, e)'
        PROVE  Due(m, e) \/ (m = f /\ e = x /\ volume'[e] = Own(m))
    <3>1. CASE m = f
      <4>1. e = d
        BY <1>0, <2>3, <2>9, <3>1, Apart DEF Due
      <4>2. mapped[f] \in {0, d}
        BY <1>0, <2>4, <2>9, <3>1 DEF Tied, Straight
      <4> QED  BY <1>0, <2>1, <2>3, <2>4, <3>1, <4>1, <4>2 DEF DisksType
    <3>2. CASE m # f
      BY <1>0, <1>2, <2>3, <2>9, <3>2, DueAlone
    <3> QED  BY <3>1, <3>2
  <2>10. Calm
    BY <1>0, <1>2, <2>5, Here DEF Calm, Idle, Alone
  <2> QED  BY <1>0, <1>6, <2>3, <2>4, <2>7, <2>8, <2>9, <2>10, TiedWritten
<1> QED  BY <1>4, <1>5 DEF Fill

LEMMA SaveMetaTied ==
  ASSUME IInv, Tied, ~crossed, NEW v \in Vms, SaveMeta(v)
  PROVE  Tied'
<1>0. /\ JobsType /\ DisksType /\ RestType /\ v \in Users /\ v \in Names /\ v \notin Images
      /\ job[v] \in Job /\ Shape(v) /\ job[v].pc = "save" /\ Afresh(v) /\ 0 \notin Ids
      /\ UNCHANGED <<volume, mapped, builder, ran, erased, stuck>> /\ record[v] = 0 /\ v \notin ran
      /\ ran \subseteq Vms /\ (\A w \in ran : record[w] # 0) /\ v \notin erased
  BY Here, BusyHasVolume DEF SaveMeta, Tied, AllAfresh, Afresh, VmMaking, RestType, Busy, past
<1>1. job' = [job EXCEPT ![v].pc = "boot"] /\ record' = [record EXCEPT ![v] = job[v].root]
  BY DEF SaveMeta
<1>2. Alone(v) /\ job'[v].pc = "boot" /\ job'[v].root = job[v].root
  BY <1>0, <1>1 DEF JobsType, Job, Alone
<1>3. record'[v] = job[v].root /\ \A m \in Names \ {v} : record'[m] = record[m]
  BY <1>0, <1>1 DEF DisksType, Recordable
<1>4. Afresh(v)'
  BY <1>0, <1>2, <1>3 DEF Afresh, VmMaking
<1>5. AllAfresh'
  <2>1. /\ \A i \in Images : record'[Base(i)] = record[Base(i)] /\ record'[Warm(i)] = record[Warm(i)]
        /\ \A w \in Vms \ {v} : record'[w] = record[w]
        /\ \A w \in Vms : record'[FamilyOf[w]] = record[FamilyOf[w]]
    BY <1>3, Apart DEF Names
  <2>2. \A w \in ran' : record'[w] # 0
    BY <1>0, <2>1
  <2> QED  BY <1>0, <1>2, <1>4, <2>1, <2>2, AfreshBeside
<1>6. ASSUME NEW m \in Names, NEW d \in Ids, Proper(m, d)'
      PROVE  Proper(m, d)
  <2>1. record'[m] = record[m] \/ (record'[m] = d => Proper(m, d))
    BY <1>0, <1>3 DEF Proper, MadeBy, First
  <2> QED  BY <1>0, <1>2, <1>6, <2>1, ProperAlone DEF SecondMade
<1>7. ASSUME NEW m \in Names, NEW d \in Ids, Due(m, d)'
      PROVE  Due(m, d)
  <2>1. m # v
    BY <1>0, <1>7, Apart DEF Due
  <2> QED  BY <1>0, <1>2, <1>3, <1>7, <2>1, DueAlone
<1>8. Calm /\ \A m \in Names : Mapped(m)
  BY <1>0, <1>2, <1>3, Here DEF Calm, Mapped, Idle, Alone, RestType
<1> QED  BY <1>0, <1>5, <1>6, <1>7, <1>8, TiedQuiet

\* v's guest runs on the volume x that its name stands for, which is the one recorded
\* unless the name is stuck.
LEMMA RunsTied ==
  ASSUME IInv, Tied, ~crossed, NEW v \in Vms, NEW x \in Ids, Runs(v, x), Claims(v, x), record[v] # 0,
         v \notin stuck => record[v] = x,
         Alone(v), job[v].pc # "removing", job'[v] = NoJob,
         UNCHANGED <<record, builder, erased, stuck>>, v \notin erased,
         \A m \in Names : Mapped(m)
  PROVE  Tied'
<1>0. /\ DisksType /\ RestType /\ v \in Users /\ v \in Names /\ v \notin Images /\ 0 \notin Ids
      /\ volume' = [volume EXCEPT ![x] = v] /\ ran' = ran \cup {v} /\ ran \subseteq Vms
      /\ Own(v) = v /\ v # "none" /\ \A w \in ran : record[w] # 0
  BY Here, Apart, NamesAssumption DEF Runs, Own, RestType, Tied, AllAfresh
<1>1. Afresh(v)'
  BY <1>0, NoJobType DEF Afresh, VmMaking
<1>2. AllAfresh'
  <2>1. ran' \subseteq Vms /\ \A w \in ran' : record[w] # 0
    BY <1>0
  <2> QED  BY <1>0, <1>1, <2>1, AfreshAlone
<1>3. ASSUME NEW m \in Names, NEW d \in Ids, Proper(m, d)'
      PROVE  Proper(m, d)
  BY <1>0, <1>3, NoJobType, ProperAlone DEF SecondMade
<1>4. ASSUME NEW m \in Names \ stuck, NEW d \in Ids, Due(m, d)'
      PROVE  Due(m, d) \/ (m = v /\ d = x /\ volume'[d] = Own(m))
  <2>1. CASE m = v
    <3>1. record[v] = d
      BY <1>4, <2>1, Apart DEF Due
    <3> QED  BY <1>0, <1>4, <2>1, <3>1 DEF DisksType
  <2>2. CASE m # v
    <3>1. CASE record'[m] = d /\ (m \in Vms => m \in ran' \ erased')
      BY <1>0, <2>2, <3>1 DEF Due
    <3>2. ASSUME NEW k \in Images,
                 \/ m = Base(k) /\ job'[k].root = d /\ job'[k].pc \in FirstDue
                 \/ m = Warm(k) /\ job'[k].id = d /\ job'[k].pc \in LastDue
          PROVE  Due(m, d)
      <4>1. k # v
        BY <1>0, <3>2
      <4> QED  BY <3>2, <4>1 DEF Due, Alone, Users
    <3> QED  BY <1>4, <3>1, <3>2 DEF Due
  <2> QED  BY <2>1, <2>2
<1>5. Calm
  BY <1>0, Here DEF Calm, Idle, Alone, RestType
<1> QED  BY <1>0, <1>2, <1>3, <1>4, <1>5, TiedWritten

LEMMA CreateBootsTied ==
  ASSUME IInv, Tied, ~crossed, NEW v \in Vms, CreateBoots(v)
  PROVE  Tied'
<1>0. /\ DisksType /\ JobsType /\ v \in Users /\ v \in Names /\ job[v].pc = "boot"
      /\ mapped[v] \in Ids /\ record[v] \in Ids /\ Runs(v, mapped[v])
      /\ job' = [job EXCEPT ![v] = NoJob] /\ UNCHANGED <<mapped, record, builder, erased, stuck>>
      /\ v \notin erased
  <2>1. record[v] # 0
    BY Here DEF CreateBoots, AllDriven, Driven, Knows
  <2>2. v \notin erased
    BY Here, BusyHasVolume DEF CreateBoots, Busy
  <2> QED  BY <2>1, <2>2, Here DEF CreateBoots, DisksType, Recordable
<1>1. PICK x \in Ids : x = mapped[v]
  BY <1>0
<1>2. Alone(v) /\ job'[v] = NoJob
  BY <1>0 DEF JobsType, Alone
<1>3. Claims(v, x) /\ record[v] # 0
  BY <1>0, <1>1, Here DEF Claims
<1>4. v \notin stuck => record[v] = x
  BY <1>0, <1>1, OwnedIs, Here DEF Tied, Straight, Proper
<1>5. \A m \in Names : Mapped(m)
  BY <1>0 DEF Mapped
<1> QED  BY <1>0, <1>1, <1>2, <1>3, <1>4, <1>5, RunsTied

LEMMA StartTied ==
  ASSUME IInv, Tied, ~crossed, NEW v \in Vms, Start(v)
  PROVE  Tied'
<1> DEFINE f == FamilyOf[v]
           now == [name \in Names |->
                     IF mapped[name] = 0 /\ (name = v \/ (name = f /\ v \in drive))
                     THEN record[name] ELSE mapped[name]]
<1>0. /\ DisksType /\ v \in Users /\ v \in Names /\ Idle(v) 
      /\ UNCHANGED <<record, builder, erased, stuck>> /\ 0 \notin Ids /\ Gone
      /\ erased \subseteq Vms /\ job[v].pc = "idle"
  BY NoJobType, Here DEF Start, Tied, RestType, Idle
<1>1. CASE Knows(v)
  <2>1. mapped' = now /\ Runs(v, now[v]) /\ UNCHANGED job /\ record[v] \in Ids
        /\ volume[now[v]] # "none"
    BY <1>0, <1>1 DEF Start, StartsVm, Knows, DisksType, Recordable, Bootable
  <2>2. now[v] = IF mapped[v] = 0 THEN record[v] ELSE mapped[v]
    BY <1>0
  <2>3. PICK x \in Ids : x = now[v]
    BY <1>0, <2>1, <2>2 DEF DisksType
  <2>9. v \notin erased
    BY <1>0, <2>1, <2>2 DEF Gone
  <2>4. Claims(v, x) /\ record[v] # 0
    BY <1>0, <2>1, <2>2, <2>3, <2>9, OwnedIs DEF Claims, Proper
  <2>5. v \notin stuck => record[v] = x
    BY <1>0, <2>1, <2>2, <2>3, <2>9, OwnedIs DEF Tied, Straight, Proper
  <2>6. \A m \in Names : Mapped(m)
    <3>1. f \notin erased
      BY <1>0, Apart
    <3> QED  BY <1>0, <2>1, <2>9, <3>1 DEF Mapped
  <2>7. Alone(v) /\ job'[v] = NoJob
    BY <1>0, <2>1 DEF Alone, Idle
  <2>8. Runs(v, x)
    BY <2>1, <2>3
  <2> HIDE DEF now
  <2> QED  BY <1>0, <2>3, <2>4, <2>5, <2>6, <2>7, <2>8, <2>9, RunsTied
<1>2. CASE ~Knows(v)
  <2>1. UNCHANGED <<mapped, volume, up, ran, job>>
    BY <1>2 DEF Start, StartsVm
  <2> QED  BY <1>0, <2>1, TiedSame
<1> QED  BY <1>1, <1>2

LEMMA ReactivatedIs ==
  ASSUME NEW f \in [Names -> Ids \cup {0}], NEW m \in Names
  PROVE  Reactivated(f)[m] = f[m] \/ (Reactivated(f)[m] = record[m] /\ volume[record[m]] # "none")
  BY DEF Reactivated

\* Every call is cut short, and what was mapped may not be, or be mapped anew.  The
\* volume of a deletion that was cut off is gone, and its id is no one else's.
LEMMA CutTied ==
  ASSUME IInv, Tied, ~crossed, ~Reused, job' = [u \in Users |-> NoJob],
         UNCHANGED <<volume, record, ran, erased, stuck>>,
         \A m \in Names : \/ mapped'[m] \in {0, mapped[m]}
                          \/ mapped'[m] = record[m] /\ volume[record[m]] # "none"
  PROVE  Tied'
<1>0. /\ 0 \notin Ids /\ (\A u \in Users : job'[u] = NoJob) /\ OneClaim /\ Present /\ Straight /\ Full
      /\ Gone /\ DisksType /\ Held /\ erased \subseteq Vms
      /\ \A m \in Names : mapped[m] \in Ids \cup {0} /\ record[m] \in Ids \cup {0}
      /\ \A m \in erased : m \in Names
  BY Here DEF Tied, DisksType, Recordable, RestType
<1>1. AllAfresh'
  BY <1>0, NoJobType DEF Tied, AllAfresh, Afresh, VmMaking
<1>2. \A m \in erased : volume[record[m]] = "none" /\ mapped'[m] = 0
  BY <1>0 DEF Reused, Gone
<1>3. ASSUME NEW m \in Names, NEW d \in Ids
      PROVE  Proper(m, d)' => record[m] = d
  BY <1>0, NoJobType DEF Proper, MadeBy, SecondMade, Owned
<1>4. ASSUME NEW m \in Names, NEW d \in Ids, Claims(m, d)'
      PROVE  /\ m \in erased => record[m] = d /\ volume[d] = "none"
             /\ m \notin erased => Claims(m, d) /\ volume[d] # "none"
  <2>1. CASE m \in erased
    <3>1. mapped'[m] = 0 /\ volume[record[m]] = "none"
      BY <1>2, <2>1
    <3>2. Proper(m, d)'
      BY <1>0, <1>4, <3>1 DEF Claims
    <3>3. record[m] = d
      BY <1>3, <3>2
    <3> QED  BY <2>1, <3>1, <3>3
  <2>2. CASE m \notin erased
    <3>1. mapped[m] = d \/ record[m] = d
      <4>1. d # 0
        BY <1>0
      <4>2. Proper(m, d)' => record[m] = d
        BY <1>3
      <4>3. mapped'[m] = d \/ Proper(m, d)'
        BY <1>4 DEF Claims
      <4> QED  BY <4>1, <4>2, <4>3
    <3>2. Claims(m, d)
      BY <2>2, <3>1, OwnedIs DEF Claims, Proper
    <3> QED  BY <2>2, <3>2, ClaimedIs
  <2> QED  BY <2>1, <2>2
<1>5. OneClaim'
  <2>1. SUFFICES ASSUME NEW m \in Names, NEW n \in Names, NEW d \in Ids, Claims(m, d)', Claims(n, d)'
                 PROVE  m = n
    BY DEF OneClaim
  <2>2. CASE m \in erased
    BY <1>2, <1>4, <2>1, <2>2 DEF Reused
  <2>3. CASE m \notin erased
    BY <1>0, <1>4, <2>1, <2>3 DEF OneClaim
  <2> QED  BY <2>2, <2>3
<1>6. Present'
  BY <1>0 DEF Present
<1>7. Straight'
  <2>1. SUFFICES ASSUME NEW m \in Names \ stuck, NEW d \in Ids, Proper(m, d)'
                 PROVE  mapped'[m] \in {0, d}
    BY DEF Straight
  <2>2. record[m] = d
    BY <1>3, <2>1
  <2>3. CASE m \in erased
    BY <1>2, <2>3
  <2>4. CASE m \notin erased
    <3>1. Proper(m, d)
      BY <2>2, <2>4, OwnedIs DEF Proper
    <3> QED  BY <1>0, <2>1, <2>2, <3>1 DEF Straight
  <2> QED  BY <2>3, <2>4
<1>8. Full'
  <2>1. SUFFICES ASSUME NEW m \in Names \ stuck, NEW d \in Ids, Due(m, d)'
                 PROVE  volume[d] = Own(m)
    BY DEF Full
  <2>2. record[m] = d /\ (m \in Vms => m \in ran \ erased)
    BY <1>0, <2>1, NoJobType DEF Due, FirstDue, LastDue, Users
  <2> QED  BY <1>0, <2>2 DEF Full, Due
<1>9. Gone'
  BY <1>2 DEF Gone
<1> QED  BY <1>1, <1>5, <1>6, <1>7, <1>8, <1>9 DEF Tied

LEMMA InitTied ==
  ASSUME Init
  PROVE  Tied
<1> DEFINE S == {Base(i) : i \in world.ready} \cup {Warm(i) : i \in world.ready}
           n == 2 * Cardinality(world.ready)
<1>0. IInv /\ 0 \notin Ids
  BY InitHolds, Here
<1>1. world.ready \subseteq Images
  BY ConstantsAssumption DEF Init
<1>2. PICK ids \in [S -> 1..n] :
          /\ \A m, k \in S : m # k => ids[m] # ids[k]
          /\ record = [m \in Recordable |-> IF m \in S THEN ids[m] ELSE 0]
          /\ volume = [d \in Ids |-> IF \E m \in S : ids[m] = d
                                     THEN (CHOOSE m \in S : ids[m] = d)[2] ELSE "none"]
  BY DEF Init
<1>3. S \subseteq OfImages
  BY <1>1 DEF OfImages
<1>4. \A i \in Images : (Base(i) \in S <=> i \in world.ready) /\ (Warm(i) \in S <=> i \in world.ready)
  BY <1>1, Apart
<1> HIDE DEF S
<1>5. /\ mapped = [m \in Names |-> record[m]] /\ job = [u \in Users |-> NoJob] /\ ran = {}
      /\ erased = {} /\ crossed = FALSE
  BY DEF Init
<1>6. \A m \in Names : /\ record[m] # 0 => m \in S /\ record[m] = ids[m] /\ mapped[m] = record[m]
                       /\ m \in S => record[m] = ids[m] /\ ids[m] # 0
  <2>1. \A m \in Names : m \in Recordable
    BY DEF Recordable
  <2>2. \A m \in S : ids[m] \in 1..n /\ n \in Nat
    BY <1>1, FS_CardinalityType, ConstantsAssumption DEF Init
  <2> HIDE DEF n
  <2> QED  BY <1>2, <1>5, <2>1, <2>2
<1> HIDE DEF n
<1>7. AllAfresh
  <2>1. \A i \in Images : Base(i) \in Names /\ Warm(i) \in Names
    BY Apart DEF Names
  <2>2. \A i \in Images : record[Base(i)] = 0 <=> record[Warm(i)] = 0
    BY <1>4, <1>6, <2>1
  <2> QED  BY <1>5, <2>2, NoJobType DEF AllAfresh, Afresh, VmMaking
<1>8. ASSUME NEW m \in Names, NEW d \in Ids, Claims(m, d)
      PROVE  m \in S /\ ids[m] = d /\ mapped[m] = d /\ volume[d] = Own(m)
  <2>1. record[m] = d
    BY <1>0, <1>5, <1>8, NoJobType DEF Claims, Proper, MadeBy, SecondMade, Owned
  <2>2. m \in S /\ ids[m] = d /\ mapped[m] = d
    BY <1>0, <1>6, <2>1
  <2>3. (CHOOSE k \in S : ids[k] = d) = m
    BY <1>2, <2>2
  <2> QED  BY <1>2, <1>3, <2>2, <2>3 DEF Own
<1>9. OneClaim
  BY <1>2, <1>8 DEF OneClaim
<1>10. Present
  BY <1>0, <1>5, Here DEF Present, Held
<1>11. Straight
  BY <1>8 DEF Straight, Claims
<1>12. Full
  BY <1>0, <1>8, DueIsProper DEF Full, Claims
<1>13. Gone
  BY <1>5 DEF Gone
<1> QED  BY <1>7, <1>9, <1>10, <1>11, <1>12, <1>13 DEF Tied

LEMMA NextTied ==
  ASSUME IInv, Tied, ~crossed, ~crossed', [Next]_vars
  PROVE  Tied'
<1>1. ASSUME NEW u \in Users,
             NextDevID(u) \/ NoteDevID(u) \/ Make(u) \/ Collide(u) \/ AllocateFails(u)
      PROVE  Tied'
  BY <1>1, NextDevIDTied, NoteDevIDTied, MakeTied, CollideTied, AllocateFailsTied
<1>2. ASSUME NEW i \in Images,
             CallPrepare(i) \/ PrepareFails(i) \/ Export(i) \/ TemplateBoot(i)
             \/ TemplateEnds(i) \/ RecordImage(i) \/ Redo(i)
      PROVE  Tied'
  BY <1>2, CallPrepareTied, PrepareFailsTied, ExportTied, TemplateBootTied, TemplateEndsTied,
     RecordImageTied, RedoTied
<1>3. ASSUME NEW v \in Vms, Suspend(v)
      PROVE  Tied'
  BY <1>3, TiedSame DEF Suspend, disks, past
<1>4. ASSUME NEW v \in Vms,
             \/ Create(v) \/ Deps(v) \/ Fill(v) \/ SaveMeta(v) \/ CreateBoots(v)
             \/ CreateBootFails(v) \/ Start(v) \/ Delete(v) \/ Forget(v)
      PROVE  Tied'
  BY <1>4, CreateTied, DepsTied, FillTied, SaveMetaTied, CreateBootsTied, CreateBootFailsTied,
     StartTied, DeleteTied, ForgetTied
<1>5. CASE Lose
  BY <1>5, TiedSame DEF Lose, past
<1>6. CASE Crash
  <2>1. mapped' = Reactivated(mapped)
    BY <1>6 DEF Crash
  <2>2. ASSUME NEW m \in Names
        PROVE  \/ mapped'[m] \in {0, mapped[m]}
               \/ mapped'[m] = record[m] /\ volume[record[m]] # "none"
    <3>1. \/ Reactivated(mapped)[m] = mapped[m]
          \/ Reactivated(mapped)[m] = record[m] /\ volume[record[m]] # "none"
      BY Here, ReactivatedIs DEF DisksType
    <3> QED  BY <2>1, <3>1
  <2> QED  BY <1>6, <2>2, CutTied DEF Crash
<1>7. CASE Reboot
  <2>1. PICK none \in [Names -> Ids \cup {0}] : none = [m \in Names |-> 0]
    OBVIOUS
  <2>2. mapped' = Reactivated(none) /\ \A m \in Names : none[m] = 0
    BY <1>7, <2>1 DEF Reboot
  <2>3. ASSUME NEW m \in Names
        PROVE  \/ mapped'[m] \in {0, mapped[m]}
               \/ mapped'[m] = record[m] /\ volume[record[m]] # "none"
    <3>1. \/ Reactivated(none)[m] = none[m]
          \/ Reactivated(none)[m] = record[m] /\ volume[record[m]] # "none"
      BY ReactivatedIs
    <3> QED  BY <2>2, <3>1
  <2> QED  BY <1>7, <2>3, CutTied DEF Reboot
<1>8. CASE UNCHANGED vars
  BY <1>8, TiedSame DEF vars, disks, past
<1> QED  BY <1>1, <1>2, <1>3, <1>4, <1>5, <1>6, <1>7, <1>8 DEF Next

\* What happened to an id while orchd died in its deletion is remembered.
LEMMA CrossedStays ==
  ASSUME crossed, [Next]_vars
  PROVE  crossed'
<1>1. ASSUME NEW u \in Users,
             NextDevID(u) \/ NoteDevID(u) \/ Make(u) \/ Collide(u) \/ AllocateFails(u)
      PROVE  crossed'
  BY <1>1 DEF NextDevID, NoteDevID, Make, Collide, AllocateFails, past
<1>2. ASSUME NEW i \in Images,
             CallPrepare(i) \/ PrepareFails(i) \/ Export(i) \/ TemplateBoot(i)
             \/ TemplateEnds(i) \/ RecordImage(i) \/ Redo(i)
      PROVE  crossed'
  BY <1>2 DEF CallPrepare, PrepareFails, Export, TemplateBoot, TemplateEnds, RecordImage, Redo, past
<1>3. ASSUME NEW v \in Vms,
             Deps(v) \/ Fill(v) \/ SaveMeta(v) \/ CreateBoots(v) \/ Suspend(v) \/ Forget(v)
      PROVE  crossed'
  BY <1>3 DEF Deps, Fill, SaveMeta, CreateBoots, Suspend, Forget, past
<1>4. ASSUME NEW v \in Vms,
             Create(v) \/ CreateBootFails(v) \/ Start(v) \/ Delete(v)
      PROVE  crossed'
  BY <1>4 DEF Create, CreateBootFails, Start, Delete
<1>5. CASE Lose \/ Crash \/ Reboot \/ UNCHANGED vars
  BY <1>5 DEF Lose, Crash, Reboot, vars, past
<1> QED  BY <1>1, <1>2, <1>3, <1>4, <1>5 DEF Next

\* Whatever fails, is cut short or is made again, and whatever the calls leave mapped
\* (createVolume and activate, fc_host.go; PrepareImage; ensureDepsVolume; Create), a
\* volume recorded for a name holds what is that name's, and one whose deletion was cut
\* off is gone and nothing in its place; unless the name was still mapped to another
\* when it was made, or the id was given out again while orchd died in its deletion.
\* The host's reboot maps what is recorded.
THEOREM Whole == Spec => []RecordedIsWhole
<1>1. Init => IInv /\ (crossed \/ Tied)
  BY InitHolds, InitTied
<1>2. IInv /\ (crossed \/ Tied) /\ [Next]_vars => (IInv /\ (crossed \/ Tied))'
  BY NextKeeps, NextTied, CrossedStays
<1>3. IInv /\ (crossed \/ Tied) => RecordedIsWhole
  <2>1. SUFFICES ASSUME IInv, Tied, NEW m \in Names \ stuck, record[m] # 0
                 PROVE  /\ m \in erased => (Idle(m) => volume[record[m]] = "none")
                        /\ m \notin erased /\ (m \in Vms => m \in ran) => volume[record[m]] = Own(m)
    <3>1. \A n \in Names : n \in Vms \cup Families => Own(n) = n
      BY Apart DEF Own
    <3>2. \A n \in Names : n \notin Vms \cup Families => Own(n) = n[2]
      BY DEF Own, Names
    <3> QED  BY <3>1, <3>2 DEF RecordedIsWhole
  <2>2. CASE m \in erased
    BY <2>1, <2>2 DEF Tied, Gone
  <2>3. CASE m \notin erased
    <3>1. m \in Vms => m \in ran \/ m \notin ran
      OBVIOUS
    <3>2. record[m] \in Ids
      BY <2>1, Here DEF DisksType, Recordable
    <3>3. (m \in Vms => m \in ran) => Due(m, record[m])
      BY <2>3 DEF Due
    <3> QED  BY <2>1, <2>3, <3>2, <3>3 DEF Tied, Full
  <2> QED  BY <2>2, <2>3
<1> QED  BY <1>1, <1>2, <1>3, PTL DEF Spec
=============================================================================
