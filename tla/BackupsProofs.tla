--------------------------- MODULE BackupsProofs ---------------------------
(***************************************************************************)
(* What the dump state, the coverage report and the backup store say of    *)
(* each other, for any number of workloads and calls, any retention and    *)
(* any ceilings; and that the evictor's victims are in the store, as long  *)
(* as retention keeps more backups than there are calls at a time.         *)
(***************************************************************************)
EXTENDS Backups, FiniteSetTheorems, WellFoundedInduction, TLAPS

Dumping   == {"export", "offline", "store", "note", "seal"}
Archiving == {"quiesce", "stamp", "pack", "upload", "resume"}
Asked     == {"backup", "sweep", "drain", "evict", "reset", "reap"}
Deleting  == {"gone", "record", "reclaim", "prune"}

\* Whose a job is, and which operations and workloads are at a position.
Owned(a, j) ==
    /\ j.op = "sweep" => a = Sweeper
    /\ j.op = "evict" <=> a = Evictor /\ j.op # "none"
    /\ j.op = "reap" => a = Reaper
    /\ j.op = "none" <=> j.pc = "idle"
    /\ j.op = "sweep" /\ j.pc # "next" => j.n < BackupSweepBatch
Placed(j) ==
    /\ j.pc \in Dumping => j.op \in Asked /\ KindOf[j.w] = "dump"
    /\ j.pc \in Archiving => j.op \in Asked \ {"reap"} /\ KindOf[j.w] = "tar"
    /\ j.pc = "suspend" => j.op \in {"reap", "stop"} /\ (j.ok => j.op = "reap" /\ KindOf[j.w] = "dump")
    /\ j.ok => j.pc \in {"resume", "suspend", "sealReap"}
    /\ j.pc = "sealReap" => j.op = "reap" /\ KindOf[j.w] = "dump"
    /\ j.pc \in {"wipe", "boot"} => j.op \in {"restore", "reset"}
    /\ j.pc = "load" => j.op = "restore"
    /\ j.pc = "again" => j.op = "reset"
    /\ j.pc \in Deleting => j.op \in {"delete", "evict"}
    /\ j.pc = "next" => j.op \in {"sweep", "drain", "evict"}
    /\ j.was => j.pc \in {"store", "note"} \cup Archiving

\* TypeOK in parts, with where the jobs are.
DataType ==
    /\ here \subseteq Workloads /\ up \subseteq Workloads /\ keep \subseteq Workloads
    /\ data \in [Workloads -> Time \cup {Gone}]
    /\ mtime \in [Workloads -> Time]
    /\ dump \in [Workloads -> [hash : Time \cup {NoId}, id : Time \cup {NoId}]]
    /\ sealed \subseteq Workloads /\ offline \subseteq Workloads
    /\ backups \subseteq Backup /\ dropped \subseteq Workloads /\ blind \subseteq Workloads
    /\ failed \in [Workloads -> {"no", "recent", "old"}]
    /\ clock \in Time /\ world \in Worlds
JobsType ==
    /\ lock \in [Workloads -> Actors \cup {Free}]
    /\ job \in [Actors -> Jobs]
    /\ \A a \in Actors, w \in Workloads :
          lock[w] = a <=> job[a].pc \in Locked /\ job[a].w = w
    /\ \A a \in Actors : Owned(a, job[a]) /\ Placed(job[a])
Base == DataType /\ JobsType

---------------------------------------------------------------------------
\* What is in the dump state, and in the hands of who holds the lock, is what is
\* in the data dir.
Same(w, v) == w \in here /\ w \notin blind => v = data[w]
WorkExact(w) ==
    w \in sealed => /\ w \notin up /\ KindOf[w] = "dump"
                    /\ dump[w] # NoDump => Same(w, dump[w].hash)
JobExact(j) ==
    /\ j.pc \in {"offline", "store", "note", "load", "boot"} => j.w \notin sealed
    /\ j.pc \in {"offline", "seal", "sealReap"} => j.w \notin up
    /\ j.pc \in {"store", "note"} /\ ~j.was => j.w \notin up
    /\ j.pc \in {"store", "note"} /\ (~j.was \/ j.op = "reap") => Same(j.w, j.cap)
    /\ j.pc \in {"seal", "sealReap"} \/ (j.pc = "suspend" /\ j.ok) => Same(j.w, dump[j.w].hash)
    /\ j.pc \in {"reclaim", "prune"} => j.w \notin here

\* What the dump state names is in the store.
Known(w) == w \in here /\ w \notin dropped /\ dump[w].hash \in Time \ {0}
Exact(w) == Known(w) => \E b \in Of(w) : b.at = dump[w].id /\ b.data = dump[w].hash
WorkCovered(w) ==
    /\ dump[w].id <= clock /\ (dump[w].hash = NoId => dump[w] = NoDump)
    /\ KindOf[w] = "dump" =>
          /\ \A b \in Of(w) : b.at = dump[w].id => b.data = dump[w].hash
          /\ w \in here /\ dump[w].hash \in Time \ {0} => data[w] # 0
          /\ Known(w) => \E b \in Of(w) : b.at >= dump[w].id
    /\ w \in sealed => Exact(w)
JobCovered(j) ==
    /\ j.id <= clock
    /\ j.pc \in {"seal", "sealReap"} \/ (j.pc = "suspend" /\ j.ok) => Exact(j.w)
    /\ j.pc \in {"store", "note"} /\ j.w \in here =>
          IF j.cap = 0 THEN dump[j.w].hash \in {0, NoId} ELSE data[j.w] # 0
    /\ j.pc \in {"load", "boot"} => dump[j.w] = NoDump
    /\ j.pc = "note" =>
          /\ \A b \in Of(j.w) : b.at = j.id => b.data = j.cap
          /\ j.w \in here /\ j.w \notin dropped /\ j.cap # 0
                => \E b \in Of(j.w) : b.at = j.id /\ b.data = j.cap

\* An archive no file is newer than holds them all, if its time is taken first.
WorkFresh(w) ==
    /\ mtime[w] <= clock /\ \A b \in Of(w) : b.at <= clock
    /\ StampFirst /\ KindOf[w] = "tar" /\ data[w] # Gone =>
          \A b \in Of(w) : mtime[w] <= b.at => b.data = data[w]
JobFresh(j) ==
    /\ StampFirst /\ j.pc \in {"pack", "upload"} => j.id # NoId
    /\ StampFirst /\ j.pc = "upload" /\ data[j.w] # Gone /\ mtime[j.w] <= j.id => j.cap = data[j.w]
    /\ j.pc = "load" /\ KindOf[j.w] = "tar" => \A b \in Of(j.w) : b.at < mtime[j.w]

Work(w) == WorkExact(w) /\ WorkCovered(w) /\ WorkFresh(w)
Job(j)  == JobExact(j) /\ JobCovered(j) /\ JobFresh(j)
IInv == Base /\ (\A w \in Workloads : Work(w)) /\ (\A a \in Actors : Job(job[a]))

---------------------------------------------------------------------------
\* The operators the model is built from.

LEMMA TypeParts ==
  /\ Base => TypeOK
  /\ Base' => TypeOK'
  BY DEF Base, DataType, JobsType, TypeOK

LEMMA Numbers ==
  /\ MaxClock \in Nat /\ 0 \in Time /\ NoId \notin Time /\ Gone \notin Time
  /\ (\A t \in Time : t \in Nat /\ t \in Int) /\ NoId \in Int /\ Gone \in Int /\ NoId < 0 /\ Gone < 0
  /\ NoDump = [hash |-> NoId, id |-> NoId]
  /\ BackupSweepBatch \in Nat \ {0} /\ 0 \in 0..BackupSweepBatch
  BY BoundsAssumption DEF Time, NoId, Gone, NoDump

LEMMA Names ==
  /\ Sweeper \in Actors /\ Evictor \in Actors /\ Reaper \in Actors
  /\ \A a \in Clients : a \in Actors /\ a # Sweeper /\ a # Evictor /\ a # Reaper
  /\ Free \notin Actors /\ Sweeper # Evictor /\ Sweeper # Reaper /\ Evictor # Reaper
  BY NamesAssumption DEF Actors

LEMMA NoJobIs ==
  /\ NoJob \in Jobs /\ NoJob.op = "none" /\ NoJob.pc = "idle" /\ NoJob.id = NoId /\ NoJob.n = 0
  /\ NoJob.was = FALSE /\ NoJob.ok = FALSE /\ NoJob.w \in Workloads /\ NoJob.cap = 0
  /\ \A a \in Actors : Owned(a, NoJob) /\ Placed(NoJob)
<1>1. Some \in Workloads
  BY NamesAssumption DEF Some
<1>2. NoJob \in Jobs
  BY <1>1, Numbers DEF NoJob, Jobs, Ops, Positions
<1> QED  BY <1>1, <1>2 DEF NoJob, Owned, Placed, Dumping, Archiving, Deleting

LEMMA KindIs ==
  ASSUME DataType, NEW w \in Workloads
  PROVE  KindOf[w] \in {"dump", "tar", "none"}
  BY WorldsAssumption DEF DataType, KindOf

LEMMA AfterIs ==
  /\ AfterOk["backup"] = "idle" /\ AfterOk["sweep"] = "next" /\ AfterOk["drain"] = "next"
  /\ AfterOk["evict"] = "gone" /\ AfterOk["reset"] = "again" /\ AfterOk["reap"] = "suspend"
  /\ AfterFail["backup"] = "idle" /\ AfterFail["sweep"] = "next" /\ AfterFail["drain"] = "next"
  /\ AfterFail["evict"] = "next" /\ AfterFail["reset"] = "idle" /\ AfterFail["reap"] = "suspend"
  /\ DOMAIN AfterOk = Asked
  BY DEF AfterOk, AfterFail, Asked

---------------------------------------------------------------------------
\* Jobs and locks.

Does(a, j) == j \in Jobs /\ job' = [job EXCEPT ![a] = j]

\* A job goes on without its lock, or within it.
LEMMA Moved ==
  ASSUME JobsType, NEW a \in Actors, NEW j, Does(a, j), Owned(a, j), Placed(j),
         UNCHANGED <<lock, world>>,
         j.pc \in Locked <=> job[a].pc \in Locked, j.pc \in Locked => j.w = job[a].w
  PROVE  JobsType'
<1>1. \A b \in Actors : Owned(b, job'[b]) /\ Placed(job'[b])
  BY DEF JobsType, Does
<1>2. job' \in [Actors -> Jobs] /\ lock' \in [Workloads -> Actors \cup {Free}]
  BY DEF JobsType, Does
<1>3. \A b \in Actors, w \in Workloads : lock'[w] = b <=> job'[b].pc \in Locked /\ job'[b].w = w
  BY DEF JobsType, Does
<1> QED  BY <1>1, <1>2, <1>3 DEF JobsType, Owned, Placed, KindOf

LEMMA Taken ==
  ASSUME JobsType, NEW a \in Actors, NEW j, Does(a, j), Owned(a, j), Placed(j), UNCHANGED world,
         j.pc \in Locked, job[a].pc \notin Locked, j.w = job[a].w, lock[j.w] = Free,
         lock' = [lock EXCEPT ![j.w] = a]
  PROVE  JobsType'
<1>1. \A b \in Actors : Owned(b, job'[b]) /\ Placed(job'[b])
  BY DEF JobsType, Does
<1>2. j.w \in Workloads
  BY DEF Does, Jobs
<1>3. job' \in [Actors -> Jobs] /\ lock' \in [Workloads -> Actors \cup {Free}]
  BY <1>2 DEF JobsType, Does
<1>4. \A b \in Actors, w \in Workloads : lock'[w] = b <=> job'[b].pc \in Locked /\ job'[b].w = w
  BY <1>2, Names DEF JobsType, Does
<1> QED  BY <1>1, <1>3, <1>4 DEF JobsType, Owned, Placed, KindOf

LEMMA Freed ==
  ASSUME JobsType, NEW a \in Actors, NEW j, Does(a, j), Owned(a, j), Placed(j), UNCHANGED world,
         j.pc \notin Locked, job[a].pc \in Locked, lock' = [lock EXCEPT ![job[a].w] = Free]
  PROVE  JobsType'
<1>1. \A b \in Actors : Owned(b, job'[b]) /\ Placed(job'[b])
  BY DEF JobsType, Does
<1>2. job[a].w \in Workloads /\ job[a] \in Jobs
  BY DEF JobsType, Jobs
<1>3. job' \in [Actors -> Jobs] /\ lock' \in [Workloads -> Actors \cup {Free}]
  BY <1>2 DEF JobsType, Does
<1>4. \A b \in Actors, w \in Workloads : lock'[w] = b <=> job'[b].pc \in Locked /\ job'[b].w = w
  BY <1>2, Names DEF JobsType, Does
<1> QED  BY <1>1, <1>3, <1>4 DEF JobsType, Owned, Placed, KindOf

\* Only one holds a workload's lock.
LEMMA Alone ==
  ASSUME JobsType, NEW a \in Actors, NEW b \in Actors, job[a].pc \in Locked, job[b].pc \in Locked,
         job[a].w = job[b].w
  PROVE  a = b
<1>1. job[a].w \in Workloads
  BY DEF JobsType, Jobs
<1> QED  BY <1>1 DEF JobsType

---------------------------------------------------------------------------
\* Steps that leave what the invariant relates alone, or all but one workload's.

\* A workload of which nothing that counts has changed.
Aside(u) ==
    /\ data'[u] = data[u] /\ mtime'[u] = mtime[u] /\ dump'[u] = dump[u]
    /\ Of(u)' = Of(u)
    /\ (u \in here' => u \in here) /\ (u \in up' => u \in up) /\ (u \in sealed' => u \in sealed)
    /\ (u \in blind => u \in blind') /\ (u \in dropped => u \in dropped')

LEMMA Plain ==
  /\ Base => /\ clock \in Nat /\ backups \subseteq Backup
             /\ \A b \in backups : b.at \in Nat /\ b.data \in Nat /\ b.at \in Time /\ b.data \in Time
             /\ \A u \in Workloads : /\ mtime[u] \in Nat /\ dump[u].id \in Int /\ dump[u].hash \in Int
                                     /\ data[u] \in Int /\ dump[u].hash \in Time \cup {NoId}
                                     /\ dump[u].id \in Time \cup {NoId}
             /\ \A a \in Actors : job[a] \in Jobs
  /\ Base' => clock' \in Nat
  /\ \A j \in Jobs : j.id \in Int /\ j.w \in Workloads /\ j.cap \in Nat /\ j.cap \in Time
<1>1. Base' => clock' \in Nat
  BY Numbers DEF Base, DataType
<1>2. \A j \in Jobs : j.id \in Int /\ j.w \in Workloads /\ j.cap \in Nat /\ j.cap \in Time
  <2> SUFFICES ASSUME NEW j \in Jobs
               PROVE  j.id \in Int /\ j.w \in Workloads /\ j.cap \in Nat /\ j.cap \in Time
    OBVIOUS
  <2>1. j.id \in Time \cup {NoId} /\ j.w \in Workloads /\ j.cap \in Time
    BY DEF Jobs
  <2> QED  BY <2>1, Numbers
<1>3. ASSUME Base
      PROVE  /\ clock \in Nat /\ backups \subseteq Backup
             /\ \A u \in Workloads : /\ mtime[u] \in Nat /\ dump[u].id \in Int /\ dump[u].hash \in Int
                                     /\ data[u] \in Int /\ dump[u].hash \in Time \cup {NoId}
                                     /\ dump[u].id \in Time \cup {NoId}
             /\ \A a \in Actors : job[a] \in Jobs
  <2>1. clock \in Nat /\ backups \subseteq Backup /\ \A a \in Actors : job[a] \in Jobs
    BY <1>3, Numbers DEF Base, DataType, JobsType
  <2>2. ASSUME NEW u \in Workloads
        PROVE  /\ mtime[u] \in Nat /\ dump[u].id \in Time \cup {NoId} /\ dump[u].hash \in Time \cup {NoId}
               /\ data[u] \in Time \cup {Gone}
    <3>1. /\ mtime \in [Workloads -> Time] /\ data \in [Workloads -> Time \cup {Gone}]
          /\ dump \in [Workloads -> [hash : Time \cup {NoId}, id : Time \cup {NoId}]]
      BY <1>3 DEF Base, DataType
    <3> QED  BY <2>2, <3>1, Numbers
  <2> QED  BY <2>1, <2>2, Numbers
<1>4. ASSUME Base, NEW b \in backups
      PROVE  b.at \in Nat /\ b.data \in Nat /\ b.at \in Time /\ b.data \in Time
  BY <1>4, Numbers DEF Base, DataType, Backup
<1> QED  BY <1>1, <1>2, <1>3, <1>4

LEMMA AsideWork ==
  ASSUME Base, Base', NEW u \in Workloads, Work(u), Aside(u), UNCHANGED world, clock <= clock'
  PROVE  Work(u)'
<1>0. /\ clock \in Nat /\ clock' \in Nat /\ mtime[u] \in Nat /\ dump[u].id \in Int
      /\ KindOf' = KindOf /\ \A b \in Of(u) : b.at \in Nat
  BY Plain DEF Of, KindOf
<1>1. WorkExact(u)'
  BY <1>0 DEF Work, WorkExact, Aside, Same, KindOf
<1>2. WorkCovered(u)'
  <2>1. Known(u)' => Known(u)
    BY DEF Known, Aside
  <2>2. Exact(u) => Exact(u)'
    BY <2>1 DEF Exact, Aside
  <2>3. dump'[u].id <= clock' /\ (dump'[u].hash = NoId => dump'[u] = NoDump)
    BY <1>0 DEF Work, WorkCovered, Aside
  <2>4. KindOf[u] = "dump" =>
          /\ \A b \in Of(u)' : b.at = dump'[u].id => b.data = dump'[u].hash
          /\ u \in here' /\ dump'[u].hash \in Time \ {0} => data'[u] # 0
          /\ Known(u)' => \E b \in Of(u)' : b.at >= dump'[u].id
    BY <2>1 DEF Work, WorkCovered, Aside
  <2>5. u \in sealed' => Exact(u)'
    BY <2>2 DEF Work, WorkCovered, Aside
  <2> QED  BY <1>0, <2>3, <2>4, <2>5 DEF WorkCovered
<1>3. WorkFresh(u)'
  <2>1. mtime'[u] <= clock' /\ \A b \in Of(u)' : b.at <= clock'
    BY <1>0 DEF Work, WorkFresh, Aside
  <2>2. StampFirst /\ KindOf'[u] = "tar" /\ data'[u] # Gone =>
          \A b \in Of(u)' : mtime'[u] <= b.at => b.data = data'[u]
    BY <1>0 DEF Work, WorkFresh, Aside
  <2> QED  BY <2>1, <2>2 DEF WorkFresh
<1> QED  BY <1>1, <1>2, <1>3 DEF Work

LEMMA AsideJob ==
  ASSUME Base, Base', NEW j \in Jobs, Job(j), Aside(j.w), UNCHANGED world, clock <= clock'
  PROVE  Job(j)'
<1>0. clock \in Nat /\ clock' \in Nat /\ j.id \in Int /\ j.w \in Workloads /\ KindOf' = KindOf
  BY Plain DEF KindOf
<1>1. JobExact(j)'
  BY DEF Job, JobExact, Aside, Same
<1>2. JobCovered(j)'
  <2>1. Known(j.w)' => Known(j.w)
    BY DEF Known, Aside
  <2>2. Exact(j.w) => Exact(j.w)'
    BY <2>1 DEF Exact, Aside
  <2>3. j.id <= clock'
    BY <1>0 DEF Job, JobCovered
  <2> QED  BY <2>2, <2>3 DEF Job, JobCovered, Aside
<1>3. JobFresh(j)'
  BY <1>0 DEF Job, JobFresh, Aside
<1> QED  BY <1>1, <1>2, <1>3 DEF Job

\* Where a job promises nothing.
Free1 == {"idle", "want", "next", "again", "gone", "record", "export", "wipe",
          "quiesce", "stamp", "resume"}

LEMMA NothingPromised ==
  ASSUME NEW j \in Jobs, j.pc \in Free1, j.id <= clock'
  PROVE  Job(j)'
  BY DEF Free1, Job, JobExact, JobCovered, JobFresh

\* A job that promised nothing but its workload's record's being gone.
LEMMA Unlocked ==
  ASSUME Base, Base', NEW j \in Jobs, Job(j), j.pc \notin Locked, here' \subseteq here, clock <= clock'
  PROVE  Job(j)'
<1>1. clock \in Nat /\ clock' \in Nat /\ j.id \in Int
  BY Plain
<1>2. j.id <= clock'
  BY <1>1 DEF Job, JobCovered
<1>3. JobExact(j)'
  BY DEF Job, JobExact, Locked
<1>4. JobCovered(j)' /\ JobFresh(j)'
  BY <1>2 DEF JobCovered, JobFresh, Locked
<1> QED  BY <1>3, <1>4 DEF Job

\* A step of one job that leaves every workload alone.
LEMMA QuietKept ==
  ASSUME IInv, Base', NEW a \in Actors, NEW j, Does(a, j), Job(j)',
         \A u \in Workloads : Aside(u), UNCHANGED world, clock <= clock'
  PROVE  IInv'
<1>0. Base /\ job \in [Actors -> Jobs] /\ \A b \in Actors : job[b] \in Jobs /\ job[b].w \in Workloads
  BY DEF IInv, Base, JobsType, Jobs
<1>1. \A w \in Workloads : Work(w)'
  BY <1>0, AsideWork DEF IInv
<1>2. ASSUME NEW b \in Actors, NEW k, k = job'[b] PROVE Job(k)'
  <2>1. CASE b = a
    BY <1>0, <1>2, <2>1 DEF Does
  <2>2. CASE b # a
    <3>1. k = job[b] /\ k \in Jobs /\ Job(k) /\ k.w \in Workloads
      BY <1>0, <1>2, <2>2 DEF Does, IInv
    <3> QED  BY <1>0, <3>1, AsideJob
  <2> QED  BY <2>1, <2>2
<1>3. \A b \in Actors : Job(job[b])'
  BY <1>2
<1> QED  BY <1>1, <1>3 DEF IInv

\* A step of the one who holds w's lock, which concerns no other workload.
LEMMA HolderKept ==
  ASSUME IInv, Base', NEW a \in Actors, NEW j, Does(a, j), Job(j)', NEW w \in Workloads,
         job[a].pc \in Locked, job[a].w = w, Work(w)',
         \A u \in Workloads \ {w} : Aside(u), here' \subseteq here, UNCHANGED world, clock <= clock'
  PROVE  IInv'
<1>0. Base /\ job \in [Actors -> Jobs] /\ \A b \in Actors : job[b] \in Jobs /\ job[b].w \in Workloads
  BY DEF IInv, Base, JobsType, Jobs
<1>1. \A u \in Workloads : Work(u)'
  BY <1>0, AsideWork DEF IInv
<1>2. ASSUME NEW b \in Actors, NEW k, k = job'[b] PROVE Job(k)'
  <2>1. CASE b = a
    BY <1>0, <1>2, <2>1 DEF Does
  <2>2. CASE b # a
    <3>1. k = job[b] /\ k \in Jobs /\ Job(k) /\ k.w \in Workloads
      BY <1>0, <1>2, <2>2 DEF Does, IInv
    <3>2. CASE k.w # w
      BY <1>0, <3>1, <3>2, AsideJob
    <3>3. CASE k.w = w
      <4>1. k.pc \notin Locked
        BY <1>0, <2>2, <3>1, <3>3, Alone DEF Base
      <4> QED  BY <1>0, <3>1, <4>1, Unlocked
    <3> QED  BY <3>2, <3>3
  <2> QED  BY <2>1, <2>2
<1>3. \A b \in Actors : Job(job[b])'
  BY <1>2
<1> QED  BY <1>1, <1>3 DEF IInv

\* A step of nobody's, which leaves every workload alone.
LEMMA StillKept ==
  ASSUME IInv, Base', UNCHANGED <<job, world>>, \A u \in Workloads : Aside(u), clock <= clock'
  PROVE  IInv'
<1>0. Base /\ \A b \in Actors : job[b] \in Jobs /\ job[b].w \in Workloads
  BY DEF IInv, Base, JobsType, Jobs
<1>1. \A w \in Workloads : Work(w)'
  BY <1>0, AsideWork DEF IInv
<1>2. ASSUME NEW b \in Actors, NEW k, k = job'[b] PROVE Job(k)'
  <2>1. k = job[b] /\ k \in Jobs /\ Job(k) /\ k.w \in Workloads
    BY <1>0, <1>2 DEF IInv
  <2> QED  BY <1>0, <2>1, AsideJob
<1>3. \A b \in Actors : Job(job[b])'
  BY <1>2
<1> QED  BY <1>1, <1>3 DEF IInv

LEMMA AsideAll ==
  ASSUME UNCHANGED <<data, mtime, dump, backups>>, here' \subseteq here, up' \subseteq up,
         sealed' \subseteq sealed, blind \subseteq blind', dropped \subseteq dropped'
  PROVE  \A u \in Workloads : Aside(u)
  BY DEF Aside, Of

\* How a job changes.
LEMMA GotoIs ==
  ASSUME JobsType, NEW a \in Actors, NEW p \in Positions, Goto(a, p)
  PROVE  \E j \in Jobs : /\ Does(a, j) /\ j.pc = p /\ j.op = job[a].op /\ j.w = job[a].w /\ j.n = job[a].n
                         /\ j.cap = job[a].cap /\ j.id = job[a].id /\ j.was = job[a].was /\ j.ok = job[a].ok
                         /\ j.todo = job[a].todo
<1> DEFINE j == [job[a] EXCEPT !.pc = p]
<1>0. job[a] \in Jobs
  BY DEF JobsType
<1>1. j \in Jobs /\ j.pc = p /\ j.op = job[a].op /\ j.w = job[a].w /\ j.n = job[a].n
      /\ j.cap = job[a].cap /\ j.id = job[a].id /\ j.was = job[a].was /\ j.ok = job[a].ok
      /\ j.todo = job[a].todo
  BY <1>0 DEF Jobs
<1>2. job' = [job EXCEPT ![a] = j]
  BY DEF Goto
<1> HIDE DEF j
<1> QED  BY <1>1, <1>2 DEF Does

LEMMA EndIs ==
  ASSUME NEW a \in Actors, End(a)
  PROVE  Does(a, NoJob)
  BY NoJobIs DEF End, Does

\* The backup a job asked for is over.
LEMMA OverIs ==
  ASSUME JobsType, NEW a \in Actors, NEW ok \in BOOLEAN, BackupOver(a, ok),
         job[a].pc \in Dumping \cup Archiving, world' = world
  PROVE  /\ JobsType'
         /\ \E j \in Jobs : /\ Does(a, j) /\ j.was = FALSE /\ (j.op # "none" => j.w = job[a].w /\ j.op = job[a].op)
                            /\ j.id = NoId /\ j.cap = 0 /\ (j.ok => ok /\ j.op = "reap")
                            /\ IF job[a].op = "reap" THEN j.pc = "suspend" /\ j.op = "reap" /\ lock' = lock
                               ELSE /\ j.pc \in {"idle", "next", "again", "gone"}
                                    /\ j.pc = "gone" => ok /\ j.op = "evict"
                                    /\ j.pc = "again" => ok
                                    /\ lock' = [lock EXCEPT ![job[a].w] = Free]
<1> DEFINE o == job[a]
           p == IF ok THEN AfterOk[o.op] ELSE AfterFail[o.op]
           n == IF ok /\ o.op = "sweep" THEN o.n + 1 ELSE o.n
           y == ok /\ o.op = "reap"
           j == [NoJob EXCEPT !.op = o.op, !.pc = p, !.w = o.w, !.todo = o.todo, !.n = n, !.ok = y]
           k == IF p = "idle" THEN NoJob ELSE j
<1>0. o \in Jobs /\ o.op \in Asked /\ Owned(a, o) /\ Placed(o) /\ o.w \in Workloads
      /\ (o.op = "reap" => o.pc \in Dumping /\ KindOf[o.w] = "dump") /\ o.pc \in Locked /\ o.pc # "next"
      /\ o.todo \subseteq Workloads
  BY DEF JobsType, Placed, Dumping, Archiving, Locked, Jobs
<1>1. p \in {"idle", "next", "again", "gone", "suspend"} /\ (p = "suspend" <=> o.op = "reap")
      /\ (p = "gone" => ok /\ o.op = "evict") /\ (p = "again" => ok /\ o.op = "reset")
      /\ (p = "next" => o.op \in {"sweep", "drain", "evict"})
      /\ (o.op = "sweep" => p = "next")
  BY <1>0, AfterIs DEF Asked
<1>2. n \in 0..BackupSweepBatch
  <2>1. o.n \in 0..BackupSweepBatch /\ (o.op = "sweep" => o.n < BackupSweepBatch)
    BY <1>0 DEF Jobs, Owned
  <2> QED  BY <2>1, Numbers
<1>a. y \in BOOLEAN
  OBVIOUS
<1> HIDE DEF p, n, y
<1>3. j \in Jobs /\ j.op = o.op /\ j.pc = p /\ j.w = o.w /\ j.ok = y /\ j.id = NoId /\ j.cap = 0 /\ j.was = FALSE
  <2>1. o.op \in Ops /\ p \in Positions
    BY <1>0, <1>1 DEF Jobs, Positions, Locked
  <2> QED  BY <1>0, <1>2, <1>a, <2>1, NoJobIs DEF Jobs
<1>4. job' = [job EXCEPT ![a] = k]
      /\ (IF o.op = "reap" THEN UNCHANGED lock ELSE lock' = [lock EXCEPT ![o.w] = Free])
  BY DEF BackupOver, Unlock, p, n, y
<1> HIDE DEF j
<1>5. k \in Jobs /\ Does(a, k)
  BY <1>3, <1>4, NoJobIs DEF Does
<1>6. Owned(a, k) /\ Placed(k)
  <2>1. CASE p = "idle"
    BY <2>1, NoJobIs
  <2>2. CASE p # "idle"
    <3>1. Owned(a, j)
      BY <1>0, <1>1, <1>3, <2>2 DEF Owned, Asked
    <3>2. Placed(j)
      BY <1>0, <1>1, <1>3, <2>2 DEF Placed, Dumping, Archiving, Deleting, y
    <3> QED  BY <2>2, <3>1, <3>2
  <2> QED  BY <2>1, <2>2
<1>7. /\ k.was = FALSE /\ (k.op # "none" => k.w = o.w /\ k.op = o.op) /\ k.id = NoId /\ k.cap = 0
      /\ (k.ok => ok /\ k.op = "reap")
      /\ IF o.op = "reap" THEN k.pc = "suspend" /\ k.op = "reap" /\ lock' = lock
         ELSE /\ k.pc \in {"idle", "next", "again", "gone"}
              /\ k.pc = "gone" => ok /\ k.op = "evict"
              /\ k.pc = "again" => ok
              /\ lock' = [lock EXCEPT ![o.w] = Free]
  BY <1>0, <1>1, <1>3, <1>4, NoJobIs DEF y
<1> HIDE DEF k
<1>8. JobsType'
  <2>1. CASE o.op = "reap"
    BY <1>0, <1>5, <1>6, <1>7, <2>1, Moved DEF Locked
  <2>2. CASE o.op # "reap"
    BY <1>0, <1>5, <1>6, <1>7, <2>2, Freed DEF Locked
  <2> QED  BY <2>1, <2>2
<1> QED  BY <1>5, <1>7, <1>8

---------------------------------------------------------------------------
\* Starting, and the rounds of the sweeps.

LEMMA DataKept ==
  ASSUME Base, UNCHANGED <<here, up, keep, data, mtime, dump, sealed, offline, backups, dropped,
                           blind, failed, clock, world>>
  PROVE  DataType'
  BY DEF Base, DataType

\* A job that holds no lock goes on to where it promises nothing.
LEMMA Began ==
  ASSUME IInv, NEW a \in Actors, NEW j \in Jobs, Does(a, j), Owned(a, j), Placed(j),
         j.pc \in Free1, j.pc \notin Locked, job[a].pc \notin Locked, j.id <= clock,
         UNCHANGED <<here, up, keep, disk, offline, backups, failed, lock, clock, world, blind, dropped>>
  PROVE  IInv'
<1>0. Base /\ clock \in Nat
      /\ UNCHANGED <<here, up, keep, data, mtime, dump, sealed, offline, backups, dropped,
                     blind, failed, clock, world, lock>>
  BY Plain DEF IInv, disk
<1>1. Base'
  BY <1>0, Moved, DataKept DEF Base
<1>2. Job(j)'
  BY <1>0, NothingPromised
<1>3. \A u \in Workloads : Aside(u)
  BY <1>0, AsideAll
<1> QED  BY <1>0, <1>1, <1>2, <1>3, QuietKept

\* A job of none yet.
LEMMA Idle ==
  ASSUME IInv, NEW a \in Actors
  PROVE  /\ job[a] \in Jobs /\ Owned(a, job[a]) /\ Placed(job[a]) /\ Job(job[a])
         /\ job[a].w \in Workloads /\ job[a].todo \subseteq Workloads /\ job[a].id <= clock
         /\ Base /\ DataType /\ JobsType /\ clock \in Nat
         /\ (job[a].op = "none" => job[a].pc \notin Locked)
         /\ NoId <= clock
<1>1. Base /\ job[a] \in Jobs /\ Owned(a, job[a]) /\ Placed(job[a]) /\ Job(job[a]) /\ clock \in Nat
  BY Plain DEF IInv, Base, JobsType
<1>2. job[a].w \in Workloads /\ job[a].todo \subseteq Workloads /\ job[a].id <= clock
  BY <1>1 DEF Jobs, Job, JobCovered
<1>3. job[a].op = "none" => job[a].pc \notin Locked
  BY <1>1 DEF Owned, Locked
<1> QED  BY <1>1, <1>2, <1>3, Numbers DEF Base

LEMMA CallStep ==
  ASSUME IInv, NEW a, NEW op \in Calls, NEW w \in Workloads, Call(a, op, w)
  PROVE  IInv'
<1> DEFINE t == IF op = "drain" THEN BackedUp ELSE {}
           j == [NoJob EXCEPT !.op = op, !.w = w, !.pc = FirstAt[op], !.todo = t]
<1>0. a \in Actors /\ a \in Clients /\ job[a].op = "none" /\ op \in DOMAIN FirstAt
  BY Names DEF Call
<1>1. op \in {"backup", "stop", "delete", "drain", "reset"} /\ FirstAt[op] \in {"want", "gone", "next", "again"}
      /\ (FirstAt[op] = "gone" => op = "delete") /\ (FirstAt[op] = "again" => op = "reset")
      /\ (FirstAt[op] = "next" => op = "drain")
  BY <1>0 DEF FirstAt
<1>2. t \subseteq Workloads
  BY Idle, <1>0 DEF BackedUp, DataType
<1> DEFINE p == FirstAt[op]
<1> HIDE DEF t, p
<1>3. j \in Jobs /\ j.op = op /\ j.pc = p /\ j.w = w /\ j.id = NoId /\ j.was = FALSE /\ j.ok = FALSE
  <2>1. op \in Ops /\ p \in Positions
    BY <1>1 DEF p, Ops, Positions
  <2> QED  BY <2>1, <1>2, NoJobIs DEF Jobs, p
<1>4. Does(a, j)
  BY <1>3 DEF Call, Does, t
<1> HIDE DEF j
<1>5. Owned(a, j) /\ Placed(j)
  BY <1>0, <1>1, <1>3, Names DEF Owned, Placed, Dumping, Archiving, Deleting, p
<1>6. j.pc \in Free1 /\ j.pc \notin Locked
  BY <1>1, <1>3 DEF Free1, Locked, p
<1> QED  BY <1>0, <1>3, <1>4, <1>5, <1>6, Idle, Began DEF Call

LEMMA CallRestoreStep ==
  ASSUME IInv, NEW a, NEW b \in backups, CallRestore(a, b)
  PROVE  IInv'
<1> DEFINE j == [NoJob EXCEPT !.op = "restore", !.pc = "want", !.w = b.w, !.id = b.at]
<1>0. a \in Actors /\ a \in Clients /\ job[a].op = "none"
  BY Names DEF CallRestore
<1>1. b.w \in Workloads /\ b.at \in Time /\ b.at <= clock
  <2>1. b \in Backup
    BY <1>0, Idle DEF DataType
  <2>2. b.w \in Workloads /\ b \in Of(b.w) /\ Work(b.w)
    BY <2>1 DEF Backup, Of, IInv
  <2> QED  BY <2>1, <2>2 DEF Backup, Work, WorkFresh
<1>2. j \in Jobs /\ j.op = "restore" /\ j.pc = "want" /\ j.id = b.at /\ j.was = FALSE /\ j.ok = FALSE
  BY <1>1, NoJobIs DEF Jobs, Ops, Positions
<1>3. Does(a, j)
  BY <1>2 DEF CallRestore, Does
<1> HIDE DEF j
<1>4. Owned(a, j) /\ Placed(j) /\ j.pc \in Free1 /\ j.pc \notin Locked
  BY <1>0, <1>2, Names DEF Owned, Placed, Dumping, Archiving, Deleting, Free1, Locked
<1> QED  BY <1>0, <1>1, <1>2, <1>3, <1>4, Idle, Began DEF CallRestore

LEMMA ReapStartStep ==
  ASSUME IInv, NEW w \in Workloads, ReapStart(w)
  PROVE  IInv'
<1> DEFINE j == [NoJob EXCEPT !.op = "reap", !.pc = "want", !.w = w]
<1>1. j \in Jobs /\ j.op = "reap" /\ j.pc = "want" /\ j.id = NoId /\ j.was = FALSE /\ j.ok = FALSE
  BY NoJobIs DEF Jobs, Ops, Positions
<1>2. Does(Reaper, j) /\ job[Reaper].op = "none"
  BY <1>1 DEF ReapStart, Does
<1> HIDE DEF j
<1>3. Owned(Reaper, j) /\ Placed(j) /\ j.pc \in Free1 /\ j.pc \notin Locked
  BY <1>1, Names DEF Owned, Placed, Dumping, Archiving, Deleting, Free1, Locked
<1> QED  BY <1>1, <1>2, <1>3, Names, Idle, Began DEF ReapStart

LEMMA SweepStartStep ==
  ASSUME IInv, SweepStart
  PROVE  IInv'
<1> DEFINE j == [NoJob EXCEPT !.op = "sweep", !.pc = "next", !.todo = BackedUp]
<1>1. j \in Jobs /\ j.op = "sweep" /\ j.pc = "next" /\ j.id = NoId /\ j.was = FALSE /\ j.ok = FALSE
  <2>1. BackedUp \subseteq Workloads
    BY Idle, Names DEF BackedUp, DataType
  <2> QED  BY <2>1, NoJobIs DEF Jobs, Ops, Positions
<1>2. Does(Sweeper, j) /\ job[Sweeper].op = "none"
  BY <1>1 DEF SweepStart, Does
<1> HIDE DEF j
<1>3. Owned(Sweeper, j) /\ Placed(j) /\ j.pc \in Free1 /\ j.pc \notin Locked
  BY <1>1, Names DEF Owned, Placed, Dumping, Archiving, Deleting, Free1, Locked
<1> QED  BY <1>1, <1>2, <1>3, Names, Idle, Began DEF SweepStart

\* A round of a list: the next of its workloads, or its end.
LEMMA Round ==
  ASSUME IInv, NEW a \in Actors, job[a].pc = "next",
         \/ End(a)
         \/ \E t \in SUBSET Workloads, w \in Workloads, p \in {"next", "want", "gone"} :
              /\ p = "gone" => job[a].op = "evict"
              /\ job[a].op = "sweep" /\ p # "next" => job[a].n < BackupSweepBatch
              /\ job' = [job EXCEPT ![a] = [job[a] EXCEPT !.todo = t, !.w = w, !.pc = p]],
         UNCHANGED <<here, up, keep, disk, offline, backups, failed, lock, clock, world, blind, dropped>>
  PROVE  IInv'
<1>0. job[a].pc \notin Locked /\ job[a] \in Jobs /\ Owned(a, job[a]) /\ Placed(job[a]) /\ job[a].id <= clock
      /\ job[a].op \in {"sweep", "drain", "evict"} /\ job[a].was = FALSE /\ job[a].ok = FALSE
  <2>1. job[a] \in Jobs /\ Placed(job[a])
    BY Idle
  <2>2. ~job[a].was /\ job[a].was \in BOOLEAN /\ ~job[a].ok /\ job[a].ok \in BOOLEAN
    BY <2>1 DEF Placed, Archiving, Jobs
  <2> QED  BY <2>1, <2>2, Idle DEF Locked, Placed
<1>1. CASE End(a)
  BY <1>0, <1>1, EndIs, NoJobIs, Idle, Began DEF Free1, Locked
<1>2. ASSUME NEW t \in SUBSET Workloads, NEW w \in Workloads, NEW p \in {"next", "want", "gone"},
             p = "gone" => job[a].op = "evict",
             job[a].op = "sweep" /\ p # "next" => job[a].n < BackupSweepBatch,
             job' = [job EXCEPT ![a] = [job[a] EXCEPT !.todo = t, !.w = w, !.pc = p]]
      PROVE  IInv'
  <2> DEFINE j == [job[a] EXCEPT !.todo = t, !.w = w, !.pc = p]
  <2>1. j \in Jobs /\ j.op = job[a].op /\ j.pc = p /\ j.n = job[a].n /\ j.id = job[a].id /\ j.was = FALSE /\ j.ok = FALSE
    BY <1>0 DEF Jobs, Positions
  <2>2. Does(a, j)
    BY <1>2, <2>1 DEF Does
  <2> HIDE DEF j
  <2>3. Owned(a, j) /\ Placed(j) /\ j.pc \in Free1 /\ j.pc \notin Locked
    BY <1>0, <1>2, <2>1 DEF Owned, Placed, Dumping, Archiving, Deleting, Free1, Locked
  <2> QED  BY <1>0, <2>1, <2>2, <2>3, Began
<1> QED  BY <1>1, <1>2

LEMMA SweepNextStep ==
  ASSUME IInv, NEW a \in Actors, SweepNext(a)
  PROVE  IInv'
<1> DEFINE o == job[a]
<1>0. o \in Jobs /\ o.pc = "next" /\ o.op = "sweep" /\ o.w \in Workloads /\ o.todo \subseteq Workloads
  BY Idle DEF SweepNext
<1>1. CASE End(a)
  BY <1>0, <1>1, Round DEF SweepNext
<1>2. CASE ~End(a)
  <2>1. o.n < BackupSweepBatch
    <3>1. ~(o.n >= BackupSweepBatch)
      BY <1>2 DEF SweepNext
    <3>2. o.n \in 0..BackupSweepBatch
      BY <1>0 DEF Jobs
    <3> QED  BY <3>1, <3>2, Numbers
  <2>2. PICK w \in o.todo : \/ job' = [job EXCEPT ![a].todo = @ \ {w}]
                            \/ job' = [job EXCEPT ![a].todo = @ \ {w}, ![a].w = w, ![a].pc = "want"]
    BY <1>2 DEF SweepNext
  <2>3. \/ job' = [job EXCEPT ![a] = [o EXCEPT !.todo = o.todo \ {w}, !.w = o.w, !.pc = "next"]]
        \/ job' = [job EXCEPT ![a] = [o EXCEPT !.todo = o.todo \ {w}, !.w = w, !.pc = "want"]]
    <3>1. CASE job' = [job EXCEPT ![a].todo = @ \ {w}]
      BY <1>0, <3>1 DEF Jobs
    <3>2. CASE job' = [job EXCEPT ![a].todo = @ \ {w}, ![a].w = w, ![a].pc = "want"]
      BY <1>0, <3>2, Idle DEF Jobs, JobsType
    <3> QED  BY <2>2, <3>1, <3>2
  <2>4. o.todo \ {w} \in SUBSET Workloads /\ w \in Workloads
    BY <1>0, <2>2
  <2>5. \E t \in SUBSET Workloads, x \in Workloads, p \in {"next", "want", "gone"} :
              /\ p = "gone" => o.op = "evict"
              /\ o.op = "sweep" /\ p # "next" => o.n < BackupSweepBatch
              /\ job' = [job EXCEPT ![a] = [o EXCEPT !.todo = t, !.w = x, !.pc = p]]
    <3>1. CASE job' = [job EXCEPT ![a] = [o EXCEPT !.todo = o.todo \ {w}, !.w = o.w, !.pc = "next"]]
      BY <1>0, <2>4, <3>1
    <3>2. CASE job' = [job EXCEPT ![a] = [o EXCEPT !.todo = o.todo \ {w}, !.w = w, !.pc = "want"]]
      BY <1>0, <2>4, <3>2, <2>1
    <3> QED  BY <2>3, <3>1, <3>2
  <2>6. UNCHANGED <<here, up, keep, disk, offline, backups, failed, lock, clock, world, blind, dropped>>
    BY DEF SweepNext
  <2> QED  BY <1>0, <2>5, <2>6, Round
<1> QED  BY <1>1, <1>2

LEMMA DrainNextStep ==
  ASSUME IInv, NEW a \in Actors, DrainNext(a)
  PROVE  IInv'
<1> DEFINE o == job[a]
<1>0. o \in Jobs /\ o.pc = "next" /\ o.op = "drain" /\ o.w \in Workloads /\ o.todo \subseteq Workloads
  BY Idle DEF DrainNext
<1>1. CASE End(a)
  BY <1>0, <1>1, Round DEF DrainNext
<1>2. CASE ~End(a)
  <2>2. PICK w \in o.todo : \/ job' = [job EXCEPT ![a].todo = @ \ {w}]
                            \/ job' = [job EXCEPT ![a].todo = @ \ {w}, ![a].w = w, ![a].pc = "want"]
    BY <1>2 DEF DrainNext
  <2>3. \/ job' = [job EXCEPT ![a] = [o EXCEPT !.todo = o.todo \ {w}, !.w = o.w, !.pc = "next"]]
        \/ job' = [job EXCEPT ![a] = [o EXCEPT !.todo = o.todo \ {w}, !.w = w, !.pc = "want"]]
    <3>1. CASE job' = [job EXCEPT ![a].todo = @ \ {w}]
      BY <1>0, <3>1 DEF Jobs
    <3>2. CASE job' = [job EXCEPT ![a].todo = @ \ {w}, ![a].w = w, ![a].pc = "want"]
      BY <1>0, <3>2, Idle DEF Jobs, JobsType
    <3> QED  BY <2>2, <3>1, <3>2
  <2>4. o.todo \ {w} \in SUBSET Workloads /\ w \in Workloads
    BY <1>0, <2>2
  <2>5. \E t \in SUBSET Workloads, x \in Workloads, p \in {"next", "want", "gone"} :
              /\ p = "gone" => o.op = "evict"
              /\ o.op = "sweep" /\ p # "next" => o.n < BackupSweepBatch
              /\ job' = [job EXCEPT ![a] = [o EXCEPT !.todo = t, !.w = x, !.pc = p]]
    <3>1. CASE job' = [job EXCEPT ![a] = [o EXCEPT !.todo = o.todo \ {w}, !.w = o.w, !.pc = "next"]]
      BY <1>0, <2>4, <3>1
    <3>2. CASE job' = [job EXCEPT ![a] = [o EXCEPT !.todo = o.todo \ {w}, !.w = w, !.pc = "want"]]
      BY <1>0, <2>4, <3>2
    <3> QED  BY <2>3, <3>1, <3>2
  <2>6. UNCHANGED <<here, up, keep, disk, offline, backups, failed, lock, clock, world, blind, dropped>>
    BY DEF DrainNext
  <2> QED  BY <1>0, <2>5, <2>6, Round
<1> QED  BY <1>1, <1>2

LEMMA EvictStartStep ==
  ASSUME IInv, EvictStart
  PROVE  IInv'
<1>0. Base /\ here \subseteq Workloads /\ job[Evictor].op = "none" /\ Evictor \in Actors
  BY Idle, Names DEF DataType, EvictStart
<1>1. PICK ranked \in SetToSeqs(here), lately \in SUBSET here :
         LET spared  == {w \in here : Protected(w)} \cup lately
             victims == Select(ranked, LRUKeepMax, LRUBatch, spared)
         IN  job' = [job EXCEPT ![Evictor] = [NoJob EXCEPT !.op = "evict", !.pc = "next", !.todo = victims]]
  BY DEF EvictStart
<1> DEFINE t == Select(ranked, LRUKeepMax, LRUBatch, {w \in here : Protected(w)} \cup lately)
           j == [NoJob EXCEPT !.op = "evict", !.pc = "next", !.todo = t]
<1>2. t \subseteq Workloads
  <2>1. IsFiniteSet(here)
    BY <1>0, FS_Subset, NamesAssumption
  <2>2. Cardinality(here) \in Nat
    BY <2>1, FS_CardinalityType
  <2>3. ranked \in [1..Cardinality(here) -> here]
    BY DEF SetToSeqs
  <2>4. ranked \in Seq(here)
    BY <2>2, <2>3
  <2>5. \A i \in 1..Len(ranked) : ranked[i] \in Workloads
    BY <1>0, <2>4
  <2> QED  BY <2>5 DEF Select
<1> HIDE DEF t
<1>3. j \in Jobs /\ j.op = "evict" /\ j.pc = "next" /\ j.id = NoId /\ j.was = FALSE /\ j.ok = FALSE
  BY <1>2, NoJobIs DEF Jobs, Ops, Positions
<1>4. Does(Evictor, j)
  BY <1>1, <1>3 DEF Does, t
<1> HIDE DEF j
<1>5. Owned(Evictor, j) /\ Placed(j) /\ j.pc \in Free1 /\ j.pc \notin Locked
  BY <1>3, Names DEF Owned, Placed, Dumping, Archiving, Deleting, Free1, Locked
<1> QED  BY <1>0, <1>3, <1>4, <1>5, Idle, Began DEF EvictStart

LEMMA EvictNextStep ==
  ASSUME IInv, EvictNext
  PROVE  IInv'
<1> DEFINE o == job[Evictor]
<1>0. o \in Jobs /\ o.pc = "next" /\ o.op = "evict" /\ o.w \in Workloads /\ o.todo \subseteq Workloads
      /\ Evictor \in Actors /\ job \in [Actors -> Jobs]
  BY Idle, Names DEF EvictNext, JobsType
<1>1. UNCHANGED <<here, up, keep, disk, offline, backups, failed, lock, clock, world, blind, dropped>>
  BY DEF EvictNext
<1>2. CASE End(Evictor)
  BY <1>0, <1>1, <1>2, Round
<1>3. CASE ~End(Evictor)
  <2>1. PICK w \in o.todo, p \in {"next", "gone", "want"} :
            job' = [job EXCEPT ![Evictor].todo = @ \ {w}, ![Evictor].w = w, ![Evictor].pc = p]
    <3>1. PICK w \in o.todo :
            LET covered == \/ ~BackupBeforeEvict \/ KindOf[w] = "none"
                           \/ KindOf[w] = "tar" /\ Unchanged(w)
            IN  job' = [job EXCEPT ![Evictor].todo = @ \ {w}, ![Evictor].w = w,
                          ![Evictor].pc = IF w \notin here THEN "next"
                                          ELSE IF covered THEN "gone" ELSE "want"]
      BY <1>3 DEF EvictNext
    <3> QED  BY <3>1
  <2>2. job' = [job EXCEPT ![Evictor] = [o EXCEPT !.todo = o.todo \ {w}, !.w = w, !.pc = p]]
    BY <1>0, <2>1 DEF Jobs
  <2>3. o.todo \ {w} \in SUBSET Workloads /\ w \in Workloads
    BY <1>0
  <2>4. \E t \in SUBSET Workloads, x \in Workloads, q \in {"next", "want", "gone"} :
              /\ q = "gone" => o.op = "evict"
              /\ o.op = "sweep" /\ q # "next" => o.n < BackupSweepBatch
              /\ job' = [job EXCEPT ![Evictor] = [o EXCEPT !.todo = t, !.w = x, !.pc = q]]
    BY <1>0, <2>2, <2>3
  <2> QED  BY <1>0, <1>1, <2>4, Round
<1> QED  BY <1>2, <1>3

---------------------------------------------------------------------------
\* Taking the lock.

LEMMA TakeStep ==
  ASSUME IInv, NEW a \in Actors, NEW p \in {"export", "quiesce", "suspend", "wipe"}, Take(a, p),
         job[a].pc \in {"want", "again"}, lock[job[a].w] = Free,
         p = "export" => job[a].op \in Asked /\ KindOf[job[a].w] = "dump",
         p = "quiesce" => job[a].op \in Asked \ {"reap"} /\ KindOf[job[a].w] = "tar",
         p = "suspend" => job[a].op \in {"reap", "stop"},
         p = "wipe" => job[a].op \in {"restore", "reset"},
         UNCHANGED <<here, up, keep, disk, offline, backups, failed, clock, world, blind, dropped>>
  PROVE  IInv'
<1>0. Base /\ JobsType /\ clock \in Nat /\ job[a] \in Jobs /\ Owned(a, job[a]) /\ Placed(job[a])
      /\ job[a].id <= clock /\ job[a].was = FALSE /\ job[a].ok = FALSE
      /\ UNCHANGED <<here, up, keep, data, mtime, dump, sealed, offline, backups, dropped,
                     blind, failed, clock, world>>
  <2>1. job[a] \in Jobs /\ Placed(job[a])
    BY Idle
  <2>2. ~job[a].was /\ job[a].was \in BOOLEAN /\ ~job[a].ok /\ job[a].ok \in BOOLEAN
    BY <2>1 DEF Placed, Archiving, Jobs
  <2> QED  BY <2>1, <2>2, Idle DEF disk
<1>1. p \in Positions /\ p \in Locked /\ job[a].pc \notin Locked
  BY DEF Positions, Locked
<1>2. PICK j \in Jobs : /\ Does(a, j) /\ j.pc = p /\ j.op = job[a].op /\ j.w = job[a].w /\ j.n = job[a].n
                        /\ j.cap = job[a].cap /\ j.id = job[a].id /\ j.was = job[a].was /\ j.ok = job[a].ok
  BY <1>0, <1>1, GotoIs DEF Take
<1>3. Owned(a, j)
  BY <1>0, <1>2 DEF Owned
<1>4. Placed(j)
  BY <1>0, <1>2 DEF Placed, Dumping, Archiving, Deleting
<1>5. JobsType'
  BY <1>0, <1>1, <1>2, <1>3, <1>4, Taken DEF Take
<1>6. Base'
  BY <1>0, <1>5, DataKept DEF Base
<1>7. Job(j)'
  <2>1. CASE p # "suspend"
    BY <1>0, <1>2, <2>1, NothingPromised DEF Free1
  <2>2. CASE p = "suspend"
    BY <1>0, <1>2, <2>2 DEF Job, JobExact, JobCovered, JobFresh
  <2> QED  BY <2>1, <2>2
<1> QED  BY <1>0, <1>2, <1>6, <1>7, AsideAll, QuietKept

LEMMA AcquireStep ==
  ASSUME IInv, NEW a \in Actors, Acquire(a)
  PROVE  IInv'
<1> DEFINE w == job[a].w
           op == job[a].op
<1>0. Base /\ job[a] \in Jobs /\ Owned(a, job[a]) /\ Placed(job[a]) /\ job[a].pc = "want" /\ lock[w] = Free
      /\ UNCHANGED <<here, up, keep, disk, offline, backups, failed, clock, world, blind, dropped>>
      /\ DOMAIN AfterOk = Asked
  BY Idle, AfterIs DEF Acquire
<1>1. CASE DailyDump(a)
  <2>1. op \in {"sweep", "drain", "evict"} /\ KindOf[w] = "dump"
    BY <1>1 DEF DailyDump
  <2>2. CASE Take(a, "export")
    BY <1>0, <2>1, <2>2, TakeStep DEF Asked
  <2>3. CASE ~Take(a, "export")
    <3>1. PICK p \in {"next", "gone"} : Goto(a, p) /\ lock' = lock /\ (p = "gone" => op = "evict")
      BY <1>1, <2>1, <2>3, AfterIs DEF DailyDump, Goto
    <3>2. p \in Positions
      BY DEF Positions
    <3>3. PICK j \in Jobs : /\ Does(a, j) /\ j.pc = p /\ j.op = op /\ j.w = w /\ j.n = job[a].n
                            /\ j.id = job[a].id /\ j.was = job[a].was /\ j.ok = job[a].ok
      BY <1>0, <3>1, <3>2, GotoIs DEF Base
    <3>4. Owned(a, j) /\ Placed(j) /\ j.pc \in Free1 /\ j.pc \notin Locked /\ job[a].pc \notin Locked
      BY <1>0, <2>1, <3>1, <3>3 DEF Owned, Placed, Dumping, Archiving, Deleting, Free1, Locked
    <3> QED  BY <1>0, <3>1, <3>3, <3>4, Idle, Began
  <2> QED  BY <2>2, <2>3
<1>2. CASE op \in {"backup", "reset"} /\ KindOf[w] = "dump" /\ Take(a, "export")
  BY <1>0, <1>2, TakeStep DEF Asked
<1>3. CASE op \in DOMAIN AfterOk \ {"reap"} /\ KindOf[w] = "tar" /\ Take(a, "quiesce")
  BY <1>0, <1>3, TakeStep
<1>4. CASE op = "reap" /\ Take(a, IF w \in here /\ KindOf[w] = "dump" THEN "export" ELSE "suspend")
  BY <1>0, <1>4, TakeStep DEF Asked
<1>5. CASE op = "stop" /\ Take(a, "suspend")
  BY <1>0, <1>5, TakeStep
<1>6. CASE op = "restore" /\ Take(a, "wipe")
  BY <1>0, <1>6, TakeStep
<1> QED  BY <1>1, <1>2, <1>3, <1>4, <1>5, <1>6 DEF Acquire

LEMMA AcquireAgainStep ==
  ASSUME IInv, NEW a \in Actors, AcquireAgain(a)
  PROVE  IInv'
<1>1. job[a].pc = "again" /\ job[a].op = "reset" /\ lock[job[a].w] = Free
  BY Idle DEF AcquireAgain, Placed
<1> QED  BY <1>1, TakeStep DEF AcquireAgain

---------------------------------------------------------------------------
\* Steps that are nobody's.

LEMMA JobsSame ==
  ASSUME JobsType, UNCHANGED <<job, lock, world>>
  PROVE  JobsType'
  BY DEF JobsType, Owned, Placed, KindOf

\* A step that concerns one workload.
LEMMA OneKept ==
  ASSUME IInv, Base', NEW w \in Workloads, Work(w)', \A u \in Workloads \ {w} : Aside(u),
         \A b \in Actors, k \in Jobs : k = job'[b] => (k = job[b] /\ k.w # w) \/ Job(k)',
         UNCHANGED world, clock <= clock'
  PROVE  IInv'
<1>0. Base /\ \A b \in Actors : job'[b] \in Jobs
  BY DEF IInv, Base, JobsType
<1>1. \A u \in Workloads : Work(u)'
  BY <1>0, AsideWork DEF IInv
<1>2. ASSUME NEW b \in Actors, NEW k, k = job'[b] PROVE Job(k)'
  <2>1. k \in Jobs /\ k.w \in Workloads
    BY <1>0, <1>2 DEF Jobs
  <2>2. CASE k = job[b] /\ k.w # w
    BY <1>0, <2>1, <2>2, AsideJob DEF IInv
  <2> QED  BY <1>2, <2>1, <2>2
<1>3. \A b \in Actors : Job(job[b])'
  BY <1>2
<1> QED  BY <1>1, <1>3 DEF IInv

LEMMA WakeStep ==
  ASSUME IInv, NEW w \in Workloads, Wake(w)
  PROVE  IInv'
<1>0. /\ Base /\ clock \in Nat /\ Work(w) /\ lock[w] = Free /\ w \in here
      /\ up' = up \cup {w} /\ sealed' = sealed \ {w}
      /\ UNCHANGED <<here, keep, data, mtime, dump, offline, backups, failed, lock, job, clock,
                     world, blind, dropped>>
  BY Plain DEF IInv, Wake, Boot
<1>1. Base'
  BY <1>0, JobsSame DEF Base, DataType
<1>2. Work(w)'
  BY <1>0 DEF Work, WorkExact, WorkCovered, WorkFresh, Known, Of, KindOf
<1>3. \A u \in Workloads \ {w} : Aside(u)
  BY <1>0 DEF Aside, Of
<1>4. ASSUME NEW b \in Actors, NEW k \in Jobs, k = job'[b], k.w = w PROVE Job(k)'
  <2>1. k = job[b] /\ Job(k) /\ k.pc \notin Locked
    BY <1>0, <1>4, Names DEF IInv, Base, JobsType
  <2> QED  BY <1>0, <1>1, <2>1, Unlocked
<1>5. \A b \in Actors, k \in Jobs : k = job'[b] => (k = job[b] /\ k.w # w) \/ Job(k)'
  BY <1>0, <1>4
<1> QED  BY <1>0, <1>1, <1>2, <1>3, <1>5, OneKept

\* What a job on a database's or an archive's workload that is written to relies on.
LEMMA WriteStep ==
  ASSUME IInv, NEW w \in Workloads, Write(w)
  PROVE  IInv'
<1>0. /\ Base /\ clock \in Nat /\ Work(w) /\ clock' = clock + 1 /\ clock < MaxClock /\ clock' \in Time
      /\ (w \in up \/ KindOf[w] = "tar") /\ KindOf[w] # "none"
      /\ data' = [data EXCEPT ![w] = clock'] /\ blind \subseteq blind' /\ blind' \subseteq Workloads
      /\ (InWindow(w) => w \in blind')
      /\ (KindOf[w] = "tar" => mtime' = [mtime EXCEPT ![w] = clock']) /\ (KindOf[w] # "tar" => mtime' = mtime)
      /\ UNCHANGED <<here, up, keep, dump, sealed, offline, backups, failed, lock, job, world, dropped>>
  <2>1. Base /\ clock \in Nat /\ Work(w) /\ MaxClock \in Nat
    BY Plain, Numbers DEF IInv
  <2>2. clock' = clock + 1 /\ clock < MaxClock /\ clock' \in Time
    BY <2>1 DEF Write, Time
  <2>3. blind \subseteq blind' /\ blind' \subseteq Workloads /\ (InWindow(w) => w \in blind')
    BY <2>1 DEF Write, Base, DataType
  <2> QED  BY <2>1, <2>2, <2>3 DEF Write, Touched
<1>a. data \in [Workloads -> Time \cup {Gone}] /\ mtime \in [Workloads -> Time]
  BY <1>0 DEF Base, DataType
<1>b. data'[w] = clock' /\ clock' # 0 /\ clock' # Gone /\ clock <= clock' /\ clock' > clock /\ clock' \in Nat
      /\ (KindOf[w] = "tar" => mtime'[w] = clock') /\ (KindOf[w] # "tar" => mtime'[w] = mtime[w])
      /\ KindOf' = KindOf /\ Of(w)' = Of(w)
      /\ mtime[w] \in Nat /\ dump[w].id \in Int /\ dump[w].id <= clock /\ mtime[w] <= clock
      /\ \A b \in Of(w) : b.at \in Nat /\ b.at <= clock
  BY <1>0, <1>a, Plain, Numbers DEF KindOf, Of, Work, WorkCovered, WorkFresh
<1>1. Base'
  BY <1>0, <1>a, JobsSame DEF Base, DataType
<1>c. w \notin sealed /\ (KindOf[w] = "dump" => w \in up)
  BY <1>0 DEF Work, WorkExact
<1>2. Work(w)'
  <2>1. WorkExact(w)'
    BY <1>0, <1>c DEF WorkExact
  <2>2. WorkCovered(w)'
    BY <1>0, <1>b, <1>c DEF Work, WorkCovered, Known
  <2>3. WorkFresh(w)'
    BY <1>0, <1>b DEF Work, WorkFresh
  <2> QED  BY <2>1, <2>2, <2>3 DEF Work
<1>3. \A u \in Workloads \ {w} : Aside(u)
  BY <1>0, <1>a DEF Aside, Of
<1>4. ASSUME NEW b \in Actors, NEW k \in Jobs, k = job'[b], k.w = w PROVE Job(k)'
  <2>1. k = job[b] /\ Job(k) /\ Placed(k) /\ k.id \in Int
    BY <1>0, <1>4, Plain DEF IInv, Base, JobsType
  <2>2. k.op = "reap" /\ k.pc \in {"store", "note", "suspend"} => w \in blind'
    BY <1>0, <1>4, <2>1 DEF InWindow
  <2>3. k.pc \in Dumping \/ k.pc = "sealReap" => w \in up
    BY <1>0, <1>4, <1>c, <2>1 DEF Placed
  <2>4. JobExact(k)'
    <3>1. k.pc \in {"offline", "store", "note", "load", "boot"} => k.w \notin sealed'
      BY <1>0, <1>4, <1>c
    <3>2. k.pc \notin {"offline", "seal", "sealReap"}
      BY <1>4, <2>1, <2>3 DEF Job, JobExact, Dumping
    <3>3. k.pc \in {"store", "note"} => k.was
      BY <1>4, <2>1, <2>3 DEF Job, JobExact, Dumping
    <3>4. k.pc = "suspend" /\ k.ok => w \in blind'
      BY <2>1, <2>2 DEF Placed
    <3>5. k.pc \in {"reclaim", "prune"} => k.w \notin here'
      BY <1>0, <2>1 DEF Job, JobExact
    <3> QED  BY <1>4, <2>2, <3>1, <3>2, <3>3, <3>4, <3>5 DEF JobExact, Same
  <2>5. JobCovered(k)'
    <3>1. k.id <= clock'
      BY <1>b, <2>1, <1>0 DEF Job, JobCovered
    <3>2. Exact(k.w) => Exact(k.w)'
      BY <1>0, <1>4, <1>b DEF Exact, Known
    <3> QED  BY <1>0, <1>4, <1>b, <2>1, <3>1, <3>2 DEF Job, JobCovered
  <2>6. JobFresh(k)'
    <3>1. k.pc = "upload" => ~(mtime'[w] <= k.id)
      <4>1. k.pc = "upload" => KindOf[w] = "tar"
        BY <1>4, <2>1 DEF Placed, Archiving
      <4>2. k.id <= clock
        BY <2>1 DEF Job, JobCovered
      <4> QED  BY <1>0, <1>b, <2>1, <4>1, <4>2
    <3>2. KindOf[w] = "tar" => \A c \in Of(w) : c.at < mtime'[w]
      BY <1>0, <1>b
    <3> QED  BY <1>4, <1>b, <2>1, <3>1, <3>2 DEF Job, JobFresh
  <2> QED  BY <2>4, <2>5, <2>6 DEF Job
<1>5. \A b \in Actors, k \in Jobs : k = job'[b] => (k = job[b] /\ k.w # w) \/ Job(k)'
  BY <1>0, <1>4
<1> QED  BY <1>0, <1>b, <1>1, <1>2, <1>3, <1>5, OneKept

LEMMA OfflineExitsStep ==
  ASSUME IInv, NEW w \in Workloads, OfflineExits(w)
  PROVE  IInv'
<1>0. /\ Base /\ clock \in Nat /\ offline' = offline \ {w} /\ sealed' = sealed \ {w}
      /\ UNCHANGED <<here, up, keep, data, mtime, dump, backups, failed, lock, job, clock, world, blind, dropped>>
  BY Plain DEF IInv, OfflineExits
<1>1. Base'
  BY <1>0, JobsSame DEF Base, DataType
<1> QED  BY <1>0, <1>1, AsideAll, StillKept

LEMMA SetKeepWarmStep ==
  ASSUME IInv, NEW w \in Workloads, SetKeepWarm(w)
  PROVE  IInv'
<1>0. /\ Base /\ clock \in Nat /\ keep' \subseteq Workloads
      /\ UNCHANGED <<here, up, data, mtime, dump, sealed, offline, backups, failed, lock, job, clock,
                     world, blind, dropped>>
  BY Plain DEF IInv, SetKeepWarm, Base, DataType, disk
<1>1. Base'
  BY <1>0, JobsSame DEF Base, DataType
<1> QED  BY <1>0, <1>1, AsideAll, StillKept

LEMMA RetryTimeStep ==
  ASSUME IInv, NEW w \in Workloads, RetryTime(w)
  PROVE  IInv'
<1>0. /\ Base /\ clock \in Nat /\ failed' = [failed EXCEPT ![w] = "old"]
      /\ UNCHANGED <<here, up, keep, data, mtime, dump, sealed, offline, backups, lock, job, clock,
                     world, blind, dropped>>
  BY Plain DEF IInv, RetryTime, disk
<1>1. Base'
  BY <1>0, JobsSame DEF Base, DataType
<1> QED  BY <1>0, <1>1, AsideAll, StillKept

\* A backup is taken away by hand: what the workload counts on is marked.
LEMMA DeleteBackupStep ==
  ASSUME IInv, NEW x \in backups, DeleteBackup(x)
  PROVE  IInv'
<1> DEFINE w == x.w
<1>0. /\ Base /\ clock \in Nat /\ backups' = backups \ {x} /\ dropped' = dropped \cup {w}
      /\ w \in Workloads /\ x \in Backup
      /\ UNCHANGED <<here, up, keep, data, mtime, dump, sealed, offline, failed, lock, job, clock, world, blind>>
  BY Plain DEF IInv, DeleteBackup, disk, Base, DataType, Backup
<1>1. Base'
  BY <1>0, JobsSame DEF Base, DataType
<1>2. Work(w)
  BY <1>0 DEF IInv
<1>3. w \in dropped' /\ (\A b \in Of(w)' : b \in Of(w)) /\ KindOf' = KindOf
  BY <1>0 DEF Of, KindOf
<1> HIDE DEF w
<1>4. Work(w)'
  BY <1>0, <1>2, <1>3 DEF Work, WorkExact, WorkCovered, WorkFresh, Exact, Known, Same
<1>5. \A u \in Workloads \ {w} : Aside(u)
  BY <1>0 DEF Aside, Of, w
<1>6. ASSUME NEW b \in Actors, NEW k \in Jobs, k = job'[b], k.w = w PROVE Job(k)'
  <2>1. k = job[b] /\ Job(k)
    BY <1>0, <1>6 DEF IInv
  <2>2. JobExact(k)'
    BY <1>0, <2>1 DEF Job, JobExact, Same
  <2>3. JobCovered(k)'
    BY <1>0, <1>3, <1>6, <2>1 DEF Job, JobCovered, Exact, Known
  <2>4. JobFresh(k)'
    BY <1>0, <1>3, <1>6, <2>1 DEF Job, JobFresh
  <2> QED  BY <2>2, <2>3, <2>4 DEF Job
<1>7. \A b \in Actors, k \in Jobs : k = job'[b] => (k = job[b] /\ k.w # w) \/ Job(k)'
  BY <1>0, <1>6
<1> QED  BY <1>0, <1>1, <1>4, <1>5, <1>7, OneKept

\* orchd dies: every lock is free and every job is forgotten.
LEMMA CrashStep ==
  ASSUME IInv, Crash
  PROVE  IInv'
<1>0. /\ Base /\ clock \in Nat /\ job' = [a \in Actors |-> NoJob] /\ lock' = [w \in Workloads |-> Free]
      /\ failed' = [w \in Workloads |-> "no"]
      /\ UNCHANGED <<here, up, keep, data, mtime, dump, sealed, offline, backups, clock, world, blind, dropped>>
  BY Plain DEF IInv, Crash, disk
<1>1. Base'
  <2>1. DataType'
    BY <1>0 DEF Base, DataType
  <2>2. \A a \in Actors : job'[a] = NoJob /\ job'[a].pc \notin Locked
    BY <1>0, NoJobIs DEF Locked
  <2>3. \A a \in Actors : Owned(a, job'[a])
    BY <2>2, NoJobIs
  <2>4. \A a \in Actors : Placed(job[a])'
    BY <2>2, NoJobIs DEF Placed, Dumping, Archiving, Deleting
  <2>5. lock' \in [Workloads -> Actors \cup {Free}] /\ job' \in [Actors -> Jobs]
    BY <1>0, NoJobIs
  <2>6. \A a \in Actors, w \in Workloads : lock'[w] = a <=> job'[a].pc \in Locked /\ job'[a].w = w
    BY <1>0, <2>2, Names
  <2>7. JobsType'
    BY <2>3, <2>4, <2>5, <2>6 DEF JobsType, Owned
  <2> QED  BY <2>1, <2>7 DEF Base
<1>2. \A u \in Workloads : Aside(u)
  BY <1>0, AsideAll
<1>3. \A w \in Workloads : Work(w)'
  BY <1>0, <1>1, <1>2, AsideWork DEF IInv
<1>4. ASSUME NEW b \in Actors, NEW k, k = job'[b] PROVE Job(k)'
  BY <1>0, <1>4, NoJobIs, NothingPromised, Numbers DEF Free1
<1>5. \A b \in Actors : Job(job[b])'
  BY <1>4
<1> QED  BY <1>1, <1>3, <1>5 DEF IInv

---------------------------------------------------------------------------
\* Steps of one job that leave the data, the dump state and the backups alone.

LEMMA Quiet ==
  ASSUME IInv, NEW a \in Actors, NEW j \in Jobs, Does(a, j), JobsType', DataType', Job(j)',
         UNCHANGED <<data, mtime, dump, backups, world>>, here' \subseteq here, up' \subseteq up,
         sealed' \subseteq sealed, blind \subseteq blind', dropped \subseteq dropped', clock <= clock'
  PROVE  IInv'
<1>1. \A u \in Workloads : Aside(u)
  BY AsideAll
<1>2. Base' /\ world' = world
  BY DEF Base
<1> QED  BY <1>1, <1>2, QuietKept

\* The backup of a job is over.
LEMMA QuietOver ==
  ASSUME IInv, NEW a \in Actors, NEW ok \in BOOLEAN, BackupOver(a, ok), DataType',
         NEW w \in Workloads, w = job[a].w, job[a].pc \in Dumping \cup Archiving,
         UNCHANGED <<data, mtime, dump, backups, world, clock>>, here' \subseteq here, up' \subseteq up,
         sealed' \subseteq sealed, blind \subseteq blind', dropped \subseteq dropped',
         ok /\ job[a].op = "reap" => Same(w, dump[w].hash)' /\ Exact(w)'
  PROVE  IInv'
<1>0. JobsType /\ clock \in Nat /\ NoId <= clock /\ world' = world /\ clock' = clock
  BY Idle
<1>1. /\ JobsType'
      /\ \E j \in Jobs : /\ Does(a, j) /\ j.was = FALSE /\ (j.op # "none" => j.w = job[a].w /\ j.op = job[a].op)
                         /\ j.id = NoId /\ (j.ok => ok /\ j.op = "reap")
                         /\ IF job[a].op = "reap" THEN j.pc = "suspend" /\ j.op = "reap" /\ lock' = lock
                            ELSE /\ j.pc \in {"idle", "next", "again", "gone"}
                                 /\ j.pc = "gone" => ok /\ j.op = "evict"
                                 /\ j.pc = "again" => ok
                                 /\ lock' = [lock EXCEPT ![job[a].w] = Free]
  BY <1>0, OverIs
<1>2. PICK j \in Jobs : /\ Does(a, j) /\ (j.op # "none" => j.w = job[a].w)
                        /\ j.id = NoId /\ (j.ok => ok /\ j.op = "reap")
                        /\ IF job[a].op = "reap" THEN j.pc = "suspend" /\ j.op = "reap"
                           ELSE j.pc \in {"idle", "next", "again", "gone"}
  BY <1>1
<1>3. Job(j)'
  <2>1. CASE job[a].op # "reap"
    BY <1>0, <1>2, <2>1, NothingPromised DEF Free1
  <2>2. CASE job[a].op = "reap"
    BY <1>0, <1>2, <2>2 DEF Job, JobExact, JobCovered, JobFresh
  <2> QED  BY <2>1, <2>2
<1> QED  BY <1>0, <1>1, <1>2, <1>3, Quiet

LEMMA RunOfflineStep ==
  ASSUME IInv, NEW a \in Actors, RunOffline(a)
  PROVE  IInv'
<1> DEFINE w == job[a].w
<1>0. /\ w \in Workloads /\ job[a].pc = "export" /\ w \notin up /\ Goto(a, "offline")
      /\ offline' = offline \cup {w} /\ sealed' = sealed \ {w}
      /\ UNCHANGED <<here, up, keep, data, mtime, dump, backups, failed, lock, clock, world, blind, dropped>>
      /\ DataType /\ JobsType /\ job[a] \in Jobs /\ Owned(a, job[a]) /\ Placed(job[a]) /\ Job(job[a]) /\ clock \in Nat
  BY Idle DEF RunOffline
<1>1. PICK j \in Jobs : /\ Does(a, j) /\ j.pc = "offline" /\ j.op = job[a].op /\ j.w = w /\ j.n = job[a].n
                        /\ j.cap = job[a].cap /\ j.id = job[a].id /\ j.was = job[a].was /\ j.ok = job[a].ok
  BY <1>0, GotoIs DEF Positions, Locked
<1>2. Owned(a, j) /\ Placed(j)
  BY <1>0, <1>1 DEF Owned, Placed, Dumping, Archiving, Deleting
<1>3. JobsType'
  BY <1>0, <1>1, <1>2, Moved DEF Locked
<1>4. DataType'
  BY <1>0 DEF DataType
<1>5. Job(j)'
  BY <1>0, <1>1 DEF Job, JobExact, JobCovered, JobFresh
<1> QED  BY <1>0, <1>1, <1>3, <1>4, <1>5, Quiet

LEMMA ExportFailsStep ==
  ASSUME IInv, NEW a \in Actors, ExportFails(a)
  PROVE  IInv'
<1>0. /\ DataType /\ clock \in Nat /\ job[a].w \in Workloads /\ job[a].pc \in Dumping \cup Archiving
      /\ offline' \subseteq Workloads /\ failed' \in [Workloads -> {"no", "recent", "old"}]
      /\ UNCHANGED <<here, up, keep, data, mtime, dump, sealed, backups, clock, world, blind, dropped>>
      /\ BackupOver(a, FALSE)
  BY Idle DEF ExportFails, DumpOver, DataType, disk, Dumping
<1>1. DataType'
  BY <1>0 DEF DataType
<1> QED  BY <1>0, <1>1, QuietOver

LEMMA PutFailsStep ==
  ASSUME IInv, NEW a \in Actors, PutFails(a)
  PROVE  IInv'
<1>0. /\ DataType /\ clock \in Nat /\ job[a].w \in Workloads /\ job[a].pc \in Dumping \cup Archiving
      /\ failed' \in [Workloads -> {"no", "recent", "old"}]
      /\ UNCHANGED <<here, up, keep, data, mtime, dump, sealed, offline, backups, clock, world, blind, dropped>>
      /\ BackupOver(a, FALSE)
  BY Idle DEF PutFails, DumpOver, DataType, disk, Dumping
<1>1. DataType'
  BY <1>0 DEF DataType
<1> QED  BY <1>0, <1>1, QuietOver

LEMMA NoteFailsStep ==
  ASSUME IInv, NEW a \in Actors, NoteFails(a)
  PROVE  IInv'
<1>0. /\ DataType /\ clock \in Nat /\ job[a].w \in Workloads /\ job[a].pc \in Dumping \cup Archiving
      /\ failed' \in [Workloads -> {"no", "recent", "old"}]
      /\ UNCHANGED <<here, up, keep, data, mtime, dump, sealed, offline, backups, clock, world, blind, dropped>>
      /\ BackupOver(a, FALSE)
  BY Idle DEF NoteFails, DumpOver, DataType, disk, Dumping
<1>1. DataType'
  BY <1>0 DEF DataType
<1> QED  BY <1>0, <1>1, QuietOver

\* A job that ends gives back the lock it held.
LEMMA EndFrees ==
  ASSUME IInv, NEW a \in Actors, End(a), Unlock(a), job[a].pc \in Locked, UNCHANGED world, NoId <= clock'
  PROVE  Does(a, NoJob) /\ NoJob \in Jobs /\ JobsType' /\ Job(NoJob)'
<1>1. Does(a, NoJob) /\ NoJob \in Jobs
  BY EndIs, NoJobIs
<1>2. JobsType'
  BY <1>1, NoJobIs, Idle, Freed DEF Unlock, Locked
<1>3. Job(NoJob)'
  BY NoJobIs, NothingPromised DEF Free1
<1> QED  BY <1>1, <1>2, <1>3

LEMMA SuspendStep ==
  ASSUME IInv, NEW a \in Actors, Suspend(a)
  PROVE  IInv'
<1>w. PICK w \in Workloads : w = job[a].w
  BY Idle
<1>0. /\ job[a].pc = "suspend"
      /\ UNCHANGED <<here, keep, data, mtime, dump, sealed, offline, backups, failed, clock, world, blind, dropped>>
      /\ DataType /\ JobsType /\ job[a] \in Jobs /\ Owned(a, job[a]) /\ Placed(job[a]) /\ Job(job[a])
      /\ clock \in Nat /\ NoId <= clock
  BY Idle DEF Suspend, disk
<1>1. up' \subseteq up
  BY DEF Suspend, Halt
<1>2. DataType'
  BY <1>0, <1>1 DEF DataType
<1>3. CASE End(a) /\ Unlock(a)
  BY <1>0, <1>1, <1>2, <1>3, EndFrees, Quiet DEF Locked
<1>4. CASE ~(End(a) /\ Unlock(a))
  <2>0. job[a].op = "reap" /\ job[a].ok /\ Goto(a, "sealReap") /\ lock' = lock /\ up' = up \ {w}
    BY <1>4, <1>w DEF Suspend, Halt
  <2>1. PICK j \in Jobs : /\ Does(a, j) /\ j.pc = "sealReap" /\ j.op = job[a].op /\ j.w = w /\ j.n = job[a].n
                          /\ j.cap = job[a].cap /\ j.id = job[a].id /\ j.was = job[a].was /\ j.ok = job[a].ok
    BY <1>0, <1>w, <2>0, GotoIs DEF Positions, Locked
  <2>2. Owned(a, j) /\ Placed(j)
    BY <1>0, <1>w, <2>0, <2>1 DEF Owned, Placed, Dumping, Archiving, Deleting
  <2>3. JobsType'
    BY <1>0, <2>0, <2>1, <2>2, <1>w, Moved DEF Locked
  <2>4. Same(w, dump[w].hash) /\ Exact(w)
    BY <1>0, <1>w, <2>0 DEF Job, JobExact, JobCovered
  <2>5. Same(w, dump[w].hash)' /\ Exact(w)'
    BY <1>0, <2>4 DEF Same, Exact, Known, Of
  <2>6. Job(j)'
    BY <1>0, <2>0, <2>1, <2>5 DEF Job, JobExact, JobCovered, JobFresh, Same
  <2> QED  BY <1>0, <1>1, <1>2, <2>1, <2>3, <2>6, Quiet
<1> QED  BY <1>3, <1>4

---------------------------------------------------------------------------
\* The archive's own steps, and the removal of a record.

LEMMA QuiesceStep ==
  ASSUME IInv, NEW a \in Actors, Quiesce(a)
  PROVE  IInv'
<1> DEFINE o == job[a]
           p == IF StampFirst THEN "stamp" ELSE "pack"
           was == o.w \in up
           j == [o EXCEPT !.pc = p, !.was = was]
<1>0. /\ o.w \in Workloads /\ o.pc = "quiesce" /\ o \in Jobs /\ Owned(a, o) /\ Placed(o) /\ o.id <= clock
      /\ DataType /\ JobsType /\ clock \in Nat /\ up' \subseteq up
      /\ UNCHANGED <<here, keep, data, mtime, dump, sealed, offline, backups, failed, lock, clock, world, blind, dropped>>
  BY Idle DEF Quiesce, disk, Halt
<1>1. p \in {"stamp", "pack"} /\ p \in Positions /\ was \in BOOLEAN
      /\ p \in Locked /\ p \in Archiving /\ (StampFirst => p = "stamp")
  BY DEF Positions, Locked, Archiving
<1>b. job' = [job EXCEPT ![a].pc = p, ![a].was = was]
  BY DEF Quiesce
<1> HIDE DEF p, was
<1>2. job' = [job EXCEPT ![a] = j]
  BY <1>0, <1>b DEF Jobs
<1>a. j \in Jobs /\ j.pc = p /\ j.op = o.op /\ j.w = o.w /\ j.n = o.n /\ j.id = o.id /\ j.ok = o.ok
  BY <1>0, <1>1 DEF Jobs
<1> HIDE DEF j
<1>3. PICK k \in Jobs : k = j /\ k.pc = p /\ k.op = o.op /\ k.w = o.w /\ k.n = o.n /\ k.id = o.id /\ k.ok = o.ok
  BY <1>a
<1>4. Owned(a, k) /\ Placed(k)
  BY <1>0, <1>1, <1>3 DEF Owned, Placed, Dumping, Archiving, Deleting
<1>5. Does(a, k)
  BY <1>2, <1>3 DEF Does
<1>6. JobsType'
  BY <1>0, <1>1, <1>3, <1>4, <1>5, Moved DEF Locked
<1>7. DataType'
  BY <1>0 DEF DataType
<1>8. Job(k)'
  BY <1>0, <1>1, <1>3 DEF Job, JobExact, JobCovered, JobFresh
<1> QED  BY <1>0, <1>3, <1>5, <1>6, <1>7, <1>8, Quiet

LEMMA StampStep ==
  ASSUME IInv, NEW a \in Actors, Stamp(a)
  PROVE  IInv'
<1> DEFINE o == job[a]
           t == clock + 1
           j == [o EXCEPT !.pc = "pack", !.id = t]
<1>0. /\ o.w \in Workloads /\ o.pc = "stamp" /\ o \in Jobs /\ Owned(a, o) /\ Placed(o)
      /\ DataType /\ JobsType /\ clock \in Nat /\ clock < MaxClock /\ clock' = t
      /\ UNCHANGED <<here, up, keep, data, mtime, dump, sealed, offline, backups, failed, lock, world, blind, dropped>>
  BY Idle DEF Stamp, disk
<1>1. t \in Time /\ t \in Nat /\ clock <= t
  BY <1>0, Numbers DEF Time
<1>2. job' = [job EXCEPT ![a] = j]
  BY <1>0 DEF Stamp, Jobs
<1> HIDE DEF t
<1>a. j \in Jobs /\ j.pc = "pack" /\ j.op = o.op /\ j.w = o.w /\ j.n = o.n /\ j.id = t /\ j.was = o.was /\ j.ok = o.ok
  BY <1>0, <1>1 DEF Jobs, Positions, Locked
<1> HIDE DEF j
<1>3. PICK k \in Jobs : k = j /\ k.pc = "pack" /\ k.op = o.op /\ k.w = o.w /\ k.n = o.n /\ k.id = t /\ k.was = o.was /\ k.ok = o.ok
  BY <1>a
<1>4. Owned(a, k) /\ Placed(k)
  BY <1>0, <1>1, <1>3 DEF Owned, Placed, Dumping, Archiving, Deleting
<1>5. Does(a, k)
  BY <1>2, <1>3 DEF Does
<1>6. JobsType'
  BY <1>0, <1>1, <1>3, <1>4, <1>5, Moved DEF Locked
<1>7. DataType'
  BY <1>0, <1>1 DEF DataType
<1>8. Job(k)'
  BY <1>0, <1>1, <1>3, Numbers DEF Job, JobExact, JobCovered, JobFresh
<1> QED  BY <1>0, <1>1, <1>3, <1>5, <1>6, <1>7, <1>8, Quiet

\* A step to another position that changes no more than who is up and recorded.
LEMMA GotoQuiet ==
  ASSUME IInv, NEW a \in Actors, NEW p \in Positions, Goto(a, p), p # "next",
         NEW w \in Workloads, w = job[a].w,
         \A j \in Jobs : j.pc = p /\ j.op = job[a].op /\ j.w = w /\ j.was = job[a].was /\ j.ok = job[a].ok => Placed(j),
         p \in Locked <=> job[a].pc \in Locked, p # "idle", job[a].pc \notin {"idle", "next"},
         p \in Free1 \/ (p \in {"reclaim", "prune"} /\ w \notin here'),
         here' \subseteq here, up' \subseteq up,
         UNCHANGED <<keep, data, mtime, dump, sealed, offline, backups, failed, lock, clock, world, blind, dropped>>
  PROVE  IInv'
<1>0. /\ job[a] \in Jobs /\ Owned(a, job[a]) /\ job[a].id <= clock /\ DataType /\ JobsType /\ clock \in Nat
  BY Idle
<1>1. PICK j \in Jobs : /\ Does(a, j) /\ j.pc = p /\ j.op = job[a].op /\ j.w = job[a].w /\ j.n = job[a].n
                        /\ j.cap = job[a].cap /\ j.id = job[a].id /\ j.was = job[a].was /\ j.ok = job[a].ok
  BY <1>0, GotoIs
<1>2. Owned(a, j) /\ Placed(j)
  BY <1>0, <1>1 DEF Owned
<1>3. JobsType'
  BY <1>0, <1>1, <1>2, Moved
<1>4. DataType'
  BY <1>0 DEF DataType
<1>5. j.id <= clock'
  BY <1>0, <1>1
<1>6. Job(j)'
  <2>1. CASE p \in Free1
    BY <1>1, <1>5, <2>1, NothingPromised
  <2>2. CASE p \in {"reclaim", "prune"} /\ w \notin here'
    BY <1>1, <1>5, <2>2 DEF Job, JobExact, JobCovered, JobFresh
  <2> QED  BY <2>1, <2>2
<1> QED  BY <1>0, <1>1, <1>3, <1>4, <1>6, Quiet

LEMMA ArchiveFailsStep ==
  ASSUME IInv, NEW a \in Actors, ArchiveFails(a)
  PROVE  IInv'
<1>0. PICK w \in Workloads : w = job[a].w
  BY Idle
<1>1. /\ job[a].pc \in {"pack", "upload"} /\ Placed(job[a]) /\ Goto(a, "resume")
      /\ here' = here /\ up' = up
      /\ UNCHANGED <<keep, data, mtime, dump, sealed, offline, backups, failed, lock, clock, world, blind, dropped>>
  BY Idle DEF ArchiveFails, disk
<1>2. \A j \in Jobs : j.pc = "resume" /\ j.op = job[a].op /\ j.w = w /\ j.was = job[a].was /\ j.ok = job[a].ok => Placed(j)
  BY <1>0, <1>1 DEF Placed, Dumping, Archiving, Deleting
<1>3. "resume" \in Positions /\ "resume" \in Free1 /\ "resume" \in Locked /\ job[a].pc \in Locked
  BY <1>1 DEF Positions, Locked, Free1
<1> QED  BY <1>0, <1>1, <1>2, <1>3, GotoQuiet

LEMMA DeleteStopStep ==
  ASSUME IInv, NEW a \in Actors, DeleteStop(a)
  PROVE  IInv'
<1>0. PICK w \in Workloads : w = job[a].w
  BY Idle
<1>1. /\ job[a].pc = "gone" /\ Placed(job[a]) /\ Goto(a, "record")
      /\ here' = here /\ up' \subseteq up
      /\ UNCHANGED <<keep, data, mtime, dump, sealed, offline, backups, failed, lock, clock, world, blind, dropped>>
  BY Idle DEF DeleteStop, disk, Halt
<1>2. \A j \in Jobs : j.pc = "record" /\ j.op = job[a].op /\ j.w = w /\ j.was = job[a].was /\ j.ok = job[a].ok => Placed(j)
  BY <1>0, <1>1 DEF Placed, Dumping, Archiving, Deleting
<1>3. "record" \in Positions /\ "record" \in Free1 /\ "record" \notin Locked /\ job[a].pc \notin Locked
  BY <1>1 DEF Positions, Locked, Free1
<1> QED  BY <1>0, <1>1, <1>2, <1>3, GotoQuiet

\* What a removal is done with: the evictor's next project, or the call's end.
LEMMA DeletedIs ==
  ASSUME IInv, NEW a \in Actors, Deleted(a), job[a].pc \in Deleting, UNCHANGED <<lock, world>>, NoId <= clock',
         job[a].id <= clock'
  PROVE  JobsType' /\ \E j \in Jobs : Does(a, j) /\ Job(j)' /\ j.pc \in {"idle", "next"}
<1>0. job[a] \in Jobs /\ Owned(a, job[a]) /\ Placed(job[a]) /\ JobsType /\ job[a].pc \notin Locked
  BY Idle DEF Deleting, Locked
<1>1. CASE End(a)
  <2>1. Does(a, NoJob) /\ NoJob \in Jobs
    BY <1>1, EndIs, NoJobIs
  <2>2. JobsType'
    BY <1>0, <2>1, NoJobIs, Moved DEF Locked
  <2>3. Job(NoJob)'
    BY NoJobIs, NothingPromised DEF Free1
  <2> QED  BY <2>1, <2>2, <2>3, NoJobIs
<1>2. CASE job[a].op = "evict" /\ Goto(a, "next")
  <2>1. PICK j \in Jobs : /\ Does(a, j) /\ j.pc = "next" /\ j.op = job[a].op /\ j.w = job[a].w /\ j.n = job[a].n
                          /\ j.cap = job[a].cap /\ j.id = job[a].id /\ j.was = job[a].was /\ j.ok = job[a].ok
    BY <1>0, <1>2, GotoIs DEF Positions
  <2>2. Owned(a, j) /\ Placed(j)
    BY <1>0, <1>2, <2>1 DEF Owned, Placed, Dumping, Archiving, Deleting
  <2>3. JobsType'
    BY <1>0, <2>1, <2>2, Moved DEF Locked
  <2>4. Job(j)'
    BY <2>1, NothingPromised DEF Free1
  <2> QED  BY <2>1, <2>3, <2>4
<1> QED  BY <1>1, <1>2 DEF Deleted

LEMMA DeleteRecordStep ==
  ASSUME IInv, NEW a \in Actors, DeleteRecord(a)
  PROVE  IInv'
<1>0. PICK w \in Workloads : w = job[a].w
  BY Idle
<1>1. /\ job[a].pc = "record" /\ Placed(job[a]) /\ here' \subseteq here /\ up' = up
      /\ UNCHANGED <<keep, data, mtime, dump, sealed, offline, backups, failed, lock, clock, world, blind, dropped>>
      /\ clock \in Nat /\ NoId <= clock /\ DataType /\ job[a].id <= clock
  BY Idle DEF DeleteRecord, disk
<1>2. CASE w \in here
  <2>1. Goto(a, "reclaim") /\ w \notin here'
    BY <1>0, <1>2 DEF DeleteRecord
  <2>2. \A j \in Jobs : j.pc = "reclaim" /\ j.op = job[a].op /\ j.w = w /\ j.was = job[a].was /\ j.ok = job[a].ok => Placed(j)
    BY <1>0, <1>1 DEF Placed, Dumping, Archiving, Deleting
  <2>3. "reclaim" \in Positions /\ "reclaim" \notin Locked /\ job[a].pc \notin Locked
    BY <1>1 DEF Positions, Locked
  <2> QED  BY <1>0, <1>1, <2>1, <2>2, <2>3, GotoQuiet
<1>3. CASE w \notin here
  <2>1. Deleted(a) /\ here' = here
    BY <1>0, <1>3 DEF DeleteRecord
  <2>2. JobsType' /\ \E j \in Jobs : Does(a, j) /\ Job(j)' /\ j.pc \in {"idle", "next"}
    BY <1>1, <2>1, DeletedIs DEF Deleting
  <2>3. PICK j \in Jobs : Does(a, j) /\ Job(j)'
    BY <2>2
  <2>4. DataType'
    BY <1>1, <2>1 DEF DataType
  <2> QED  BY <1>1, <2>1, <2>2, <2>3, <2>4, Quiet
<1> QED  BY <1>2, <1>3

---------------------------------------------------------------------------
\* The dump: export, store, note, seal.

LEMMA SeenIs ==
  ASSUME Base, NEW a, NEW w \in Workloads
  PROVE  /\ Seen(a, w) \subseteq Workloads /\ Replaced(a, w) \subseteq Workloads
         /\ \A u \in Workloads \ {w} : /\ u \in Seen(a, w) <=> u \in blind
                                       /\ u \in Replaced(a, w) <=> u \in dropped
         /\ Seen(a, w) \subseteq blind /\ Replaced(a, w) \subseteq dropped
  BY DEF Base, DataType, Seen, Replaced

\* What the export read is what is there.
LEMMA Captured ==
  ASSUME IInv, NEW a \in Actors, NEW w \in Workloads, w = job[a].w, NEW v \in Time, NEW was \in BOOLEAN,
         job' = [job EXCEPT ![a] = [job[a] EXCEPT !.pc = "store", !.cap = v, !.was = was]],
         job[a].pc \in {"export", "offline"}, w \in here => v = data[w],
         w \notin sealed, was \/ w \notin up, blind' = Seen(a, w), offline' \subseteq Workloads,
         UNCHANGED <<here, up, keep, data, mtime, dump, sealed, backups, failed, lock, clock, world, dropped>>
  PROVE  IInv'
<1> DEFINE o == job[a]
           j == [o EXCEPT !.pc = "store", !.cap = v, !.was = was]
<1>0. /\ o \in Jobs /\ Owned(a, o) /\ Placed(o) /\ Job(o) /\ o.id <= clock
      /\ DataType /\ JobsType /\ Base /\ clock \in Nat /\ Work(w)
      /\ dump[w].hash \in Time \cup {NoId}
  BY Idle, Plain DEF IInv
<1>a. j \in Jobs /\ j.pc = "store" /\ j.op = o.op /\ j.w = w /\ j.n = o.n /\ j.id = o.id /\ j.cap = v
      /\ j.was = was /\ j.ok = o.ok
  BY <1>0 DEF Jobs, Positions, Locked
<1>b. job' = [job EXCEPT ![a] = j]
  OBVIOUS
<1> HIDE DEF j
<1>1. PICK k \in Jobs : k = j /\ k.pc = "store" /\ k.op = o.op /\ k.w = w /\ k.n = o.n /\ k.id = o.id /\ k.cap = v
                        /\ k.was = was /\ k.ok = o.ok
  BY <1>a
<1>2. Owned(a, k) /\ Placed(k) /\ Does(a, k)
  <2>1. Owned(a, k)
    BY <1>0, <1>1 DEF Owned
  <2>2. Placed(k)
    BY <1>0, <1>1 DEF Placed, Dumping, Archiving, Deleting
  <2> QED  BY <1>1, <1>b, <2>1, <2>2 DEF Does
<1>3. JobsType'
  BY <1>0, <1>1, <1>2, Moved DEF Locked
<1>4. blind' \subseteq Workloads /\ \A u \in Workloads \ {w} : u \in blind' <=> u \in blind
  BY <1>0, SeenIs
<1>5. Base'
  <2>1. DataType'
    BY <1>0, <1>4 DEF DataType
  <2> QED  BY <1>3, <2>1 DEF Base
<1>6. Job(k)'
  <2>1. JobExact(k)'
    BY <1>1 DEF JobExact, Same
  <2>2. JobCovered(k)'
    <3>1. KindOf[w] = "dump"
      BY <1>0 DEF Placed, Dumping
    <3>2. w \in here => IF v = 0 THEN dump[w].hash \in {0, NoId} ELSE data[w] # 0
      BY <1>0, <3>1 DEF Work, WorkCovered
    <3> QED  BY <1>0, <1>1, <3>2 DEF JobCovered
  <2>3. JobFresh(k)'
    BY <1>1 DEF JobFresh
  <2> QED  BY <2>1, <2>2, <2>3 DEF Job
<1>7. Work(w)'
  <2>1. WorkExact(w)'
    BY DEF WorkExact
  <2>2. WorkCovered(w)' /\ WorkFresh(w)'
    BY <1>0 DEF Work, WorkCovered, WorkFresh, Known, Exact, Of, KindOf
  <2> QED  BY <2>1, <2>2 DEF Work
<1>8. \A u \in Workloads \ {w} : Aside(u)
  BY <1>4 DEF Aside, Of
<1> QED  BY <1>0, <1>1, <1>2, <1>5, <1>6, <1>7, <1>8, HolderKept DEF Locked

LEMMA ExportStep ==
  ASSUME IInv, NEW a \in Actors, Export(a)
  PROVE  IInv'
<1>0. PICK w \in Workloads : w = job[a].w
  BY Idle
<1>1. /\ job[a].pc = "export" /\ w \in up /\ data[w] # Gone /\ blind' = Seen(a, w)
      /\ UNCHANGED <<here, up, keep, data, mtime, dump, sealed, offline, backups, failed, lock, clock, world, dropped>>
      /\ job' = [job EXCEPT ![a].pc = "store", ![a].cap = data[w], ![a].was = TRUE]
  BY <1>0 DEF Export, disk
<1>2. DataType /\ job[a] \in Jobs /\ Work(w)
  BY Idle DEF IInv
<1>3. PICK v \in Time : v = data[w]
  BY <1>1, <1>2 DEF DataType
<1>4. job' = [job EXCEPT ![a] = [job[a] EXCEPT !.pc = "store", !.cap = v, !.was = TRUE]]
  BY <1>1, <1>2, <1>3 DEF Jobs
<1>5. w \notin sealed
  BY <1>1, <1>2 DEF Work, WorkExact
<1>6. offline' \subseteq Workloads
  BY <1>1, <1>2 DEF DataType
<1> QED  BY <1>0, <1>1, <1>3, <1>4, <1>5, <1>6, Captured

LEMMA OfflineDoneStep ==
  ASSUME IInv, NEW a \in Actors, OfflineDone(a)
  PROVE  IInv'
<1>0. PICK w \in Workloads : w = job[a].w
  BY Idle
<1>1. /\ job[a].pc = "offline" /\ data[w] # Gone /\ blind' = Seen(a, w) /\ offline' = offline \ {w}
      /\ UNCHANGED <<here, up, keep, data, mtime, dump, sealed, backups, failed, lock, clock, world, dropped>>
  BY <1>0 DEF OfflineDone, disk
<1>2. PICK v \in Exported(w) : job' = [job EXCEPT ![a].pc = "store", ![a].cap = v]
  BY <1>0 DEF OfflineDone
<1>3. DataType /\ job[a] \in Jobs /\ Job(job[a]) /\ Placed(job[a])
  BY Idle
<1>4. v \in Time /\ (w \in here => v = data[w])
  <2>1. data[w] \in Time
    BY <1>1, <1>3 DEF DataType
  <2> QED  BY <1>2, <2>1, Numbers DEF Exported
<1>5. job[a].was \in BOOLEAN
  BY <1>3 DEF Jobs
<1>6. job' = [job EXCEPT ![a] = [job[a] EXCEPT !.pc = "store", !.cap = v, !.was = job[a].was]]
  BY <1>2, <1>3 DEF Jobs
<1>7. w \notin sealed /\ w \notin up
  BY <1>0, <1>1, <1>3 DEF Job, JobExact
<1>8. offline' \subseteq Workloads
  BY <1>1, <1>3 DEF DataType
<1>9. PICK was \in BOOLEAN : was = job[a].was
  BY <1>5
<1> QED  BY <1>0, <1>1, <1>4, <1>6, <1>7, <1>8, <1>9, Captured

---------------------------------------------------------------------------
\* Storing the dump and recording it.

LEMMA OverJob ==
  ASSUME IInv, NEW a \in Actors, NEW ok \in BOOLEAN, BackupOver(a, ok),
         NEW w \in Workloads, w = job[a].w, job[a].pc \in Dumping \cup Archiving,
         UNCHANGED world, NoId <= clock',
         ok /\ job[a].op = "reap" => Same(w, dump[w].hash)' /\ Exact(w)'
  PROVE  JobsType' /\ \E j \in Jobs : Does(a, j) /\ Job(j)'
<1>0. JobsType /\ world' = world
  BY Idle
<1>1. /\ JobsType'
      /\ \E j \in Jobs : /\ Does(a, j) /\ j.was = FALSE /\ (j.op # "none" => j.w = job[a].w /\ j.op = job[a].op)
                         /\ j.id = NoId /\ (j.ok => ok /\ j.op = "reap")
                         /\ IF job[a].op = "reap" THEN j.pc = "suspend" /\ j.op = "reap" /\ lock' = lock
                            ELSE /\ j.pc \in {"idle", "next", "again", "gone"}
                                 /\ j.pc = "gone" => ok /\ j.op = "evict"
                                 /\ j.pc = "again" => ok
                                 /\ lock' = [lock EXCEPT ![job[a].w] = Free]
  BY <1>0, OverIs
<1>2. PICK j \in Jobs : /\ Does(a, j) /\ (j.op # "none" => j.w = job[a].w)
                        /\ j.id = NoId /\ (j.ok => ok /\ j.op = "reap")
                        /\ IF job[a].op = "reap" THEN j.pc = "suspend" /\ j.op = "reap"
                           ELSE j.pc \in {"idle", "next", "again", "gone"}
  BY <1>1
<1>3. Job(j)'
  <2>1. CASE job[a].op # "reap"
    BY <1>2, <2>1, NothingPromised DEF Free1
  <2>2. CASE job[a].op = "reap"
    BY <1>2, <2>2 DEF Job, JobExact, JobCovered, JobFresh
  <2> QED  BY <2>1, <2>2
<1> QED  BY <1>1, <1>2, <1>3

LEMMA RetainedIs ==
  ASSUME NEW S, NEW w, NEW n
  PROVE  /\ Retained(S, w, n) \subseteq S
         /\ \A b \in S : b.w # w => b \in Retained(S, w, n)
         /\ \A b \in S : n \in Nat \ {0} /\ (\A c \in S : c.w = w => ~(c.at > b.at)) => b \in Retained(S, w, n)
<1>1. ASSUME NEW b \in S, n \in Nat \ {0}, \A c \in S : c.w = w => ~(c.at > b.at)
      PROVE  b \in Retained(S, w, n)
  <2>1. {c \in S : c.w = w /\ c.at > b.at} = {}
    BY <1>1
  <2>2. Cardinality({c \in S : c.w = w /\ c.at > b.at}) = 0
    BY <2>1, FS_EmptySet
  <2> QED  BY <1>1, <2>2 DEF Retained
<1> QED  BY <1>1 DEF Retained

\* The dump that is stored, and its number, are noted in the job.
LEMMA NotedJob ==
  ASSUME IInv, NEW a \in Actors, NEW w \in Workloads, w = job[a].w, job[a].pc = "store",
         NEW i \in Time \cup {NoId}, job' = [job EXCEPT ![a].pc = "note", ![a].id = i],
         i <= clock', UNCHANGED <<here, up, data, dump, sealed, blind, lock, world>>,
         \A b \in Of(w)' : b.at = i => b.data = job[a].cap,
         w \in here /\ w \notin dropped' /\ job[a].cap # 0 => \E b \in Of(w)' : b.at = i /\ b.data = job[a].cap
  PROVE  JobsType' /\ \E j \in Jobs : Does(a, j) /\ Job(j)'
<1> DEFINE o == job[a]
           j == [o EXCEPT !.pc = "note", !.id = i]
<1>0. /\ o \in Jobs /\ Owned(a, o) /\ Placed(o) /\ Job(o) /\ DataType /\ JobsType
  BY Idle
<1>a. j \in Jobs /\ j.pc = "note" /\ j.op = o.op /\ j.w = w /\ j.n = o.n /\ j.id = i /\ j.cap = o.cap
      /\ j.was = o.was /\ j.ok = o.ok
  BY <1>0 DEF Jobs, Positions, Locked
<1>b. job' = [job EXCEPT ![a] = j]
  BY <1>0 DEF Jobs
<1> HIDE DEF j
<1>1. PICK k \in Jobs : k = j /\ k.pc = "note" /\ k.op = o.op /\ k.w = w /\ k.n = o.n /\ k.id = i /\ k.cap = o.cap
                        /\ k.was = o.was /\ k.ok = o.ok
  BY <1>a
<1>2. Owned(a, k) /\ Placed(k) /\ Does(a, k)
  BY <1>0, <1>1, <1>b DEF Owned, Placed, Dumping, Archiving, Deleting, Does
<1>3. JobsType'
  BY <1>0, <1>1, <1>2, Moved DEF Locked
<1>4. JobExact(k)'
  BY <1>0, <1>1 DEF Job, JobExact, Same
<1>5. JobCovered(k)'
  <2>1. w \in here => IF k.cap = 0 THEN dump[w].hash \in {0, NoId} ELSE data[w] # 0
    BY <1>0, <1>1 DEF Job, JobCovered
  <2>2. \A b \in Of(w)' : b.at = i => b.data = k.cap
    BY <1>1
  <2>3. w \in here /\ w \notin dropped' /\ k.cap # 0 => \E b \in Of(w)' : b.at = i /\ b.data = k.cap
    BY <1>1
  <2> QED  BY <1>1, <2>1, <2>2, <2>3 DEF JobCovered
<1>6. JobFresh(k)'
  BY <1>1 DEF JobFresh
<1>7. Job(k)'
  BY <1>4, <1>5, <1>6 DEF Job
<1> QED  BY <1>2, <1>3, <1>7

LEMMA KeepNothingStep ==
  ASSUME IInv, NEW a \in Actors, KeepNothing(a)
  PROVE  IInv'
<1>0. PICK w \in Workloads : w = job[a].w
  BY Idle
<1>1. /\ job[a].pc = "store" /\ dropped' = Replaced(a, w)
      /\ UNCHANGED <<here, up, keep, data, mtime, dump, sealed, offline, backups, failed, lock, clock, world, blind>>
      /\ Pristine(a) \/ SameAsLast(a)
  BY <1>0 DEF KeepNothing, disk
<1>2. /\ Base /\ DataType /\ job[a] \in Jobs /\ Placed(job[a]) /\ Job(job[a]) /\ Work(w) /\ clock \in Nat /\ NoId <= clock
      /\ dump[w].id \in Time \cup {NoId} /\ dump[w].id <= clock /\ KindOf[w] = "dump" /\ w \notin sealed
      /\ dump[w].id \in Int
      /\ \A b \in Of(w) : b.at \in Nat
  BY <1>0, <1>1, Idle, Plain DEF IInv, Work, WorkCovered, Placed, Dumping, Job, JobExact, Of
<1>3. PICK i \in Time \cup {NoId} : i = (IF Pristine(a) THEN NoId ELSE dump[w].id)
  BY <1>2
<1>4. job' = [job EXCEPT ![a].pc = "note", ![a].id = i] /\ i <= clock'
  BY <1>0, <1>1, <1>2, <1>3 DEF KeepNothing
<1>5. dropped' \subseteq Workloads /\ dropped' \subseteq dropped /\ \A u \in Workloads \ {w} : u \in dropped => u \in dropped'
  BY <1>1, <1>2, SeenIs
<1>6. Of(w)' = Of(w) /\ KindOf' = KindOf
  BY <1>1 DEF Of, KindOf
<1>7. Pristine(a) => job[a].cap = 0 /\ i = NoId /\ (w \in here => dump[w].hash \in {0, NoId})
  BY <1>0, <1>1, <1>2, <1>3 DEF Pristine, Job, JobCovered
<1>8. ~Pristine(a) => /\ i = dump[w].id /\ job[a].cap = dump[w].hash
                      /\ \E b \in Of(w) : b.at = i /\ b.data = dump[w].hash
  BY <1>0, <1>1, <1>2, <1>3 DEF SameAsLast, HasBackup, Work, WorkCovered
<1>9. \A b \in Of(w)' : b.at = i => b.data = job[a].cap
  <2>1. CASE Pristine(a)
    BY <1>2, <1>6, <1>7, <2>1, Numbers
  <2>2. CASE ~Pristine(a)
    BY <1>2, <1>6, <1>8, <2>2 DEF Work, WorkCovered
  <2> QED  BY <2>1, <2>2
<1>10. w \in here /\ w \notin dropped' /\ job[a].cap # 0 => \E b \in Of(w)' : b.at = i /\ b.data = job[a].cap
  BY <1>6, <1>7, <1>8
<1>11. JobsType' /\ \E j \in Jobs : Does(a, j) /\ Job(j)'
  BY <1>0, <1>1, <1>4, <1>9, <1>10, NotedJob
<1>12. PICK j \in Jobs : Does(a, j) /\ Job(j)'
  BY <1>11
<1>13. Base'
  <2>1. DataType'
    BY <1>1, <1>2, <1>5 DEF DataType
  <2> QED  BY <1>11, <2>1 DEF Base
<1>14. Work(w)'
  <2>1. WorkExact(w)' /\ WorkFresh(w)'
    BY <1>1, <1>2, <1>6 DEF Work, WorkExact, WorkFresh
  <2>2. Known(w)' => \E b \in Of(w) : b.at >= dump[w].id
    <3>1. CASE Pristine(a)
      BY <1>1, <1>7, <3>1, Numbers DEF Known
    <3>2. CASE ~Pristine(a)
      <4>1. PICK b \in Of(w) : b.at = dump[w].id
        BY <1>8, <3>2
      <4> QED  BY <1>2, <4>1
    <3> QED  BY <3>1, <3>2
  <2>3. WorkCovered(w)'
    BY <1>1, <1>2, <1>6, <2>2 DEF Work, WorkCovered
  <2> QED  BY <2>1, <2>3 DEF Work
<1>15. \A u \in Workloads \ {w} : Aside(u)
  BY <1>1, <1>5 DEF Aside, Of
<1> QED  BY <1>0, <1>1, <1>2, <1>12, <1>13, <1>14, <1>15, HolderKept DEF Locked

---------------------------------------------------------------------------
\* The dump is put into the store, its state written, its seal set.

LEMMA PutStep ==
  ASSUME IInv, NEW a \in Actors, Put(a)
  PROVE  IInv'
<1>0. PICK w \in Workloads : w = job[a].w
  BY Idle
<1>1. /\ job[a].pc = "store" /\ dropped' = Replaced(a, w) /\ clock' = clock + 1 /\ clock < MaxClock
      /\ job' = [job EXCEPT ![a].pc = "note", ![a].id = clock']
      /\ UNCHANGED <<here, up, keep, data, mtime, dump, sealed, offline, failed, lock, world, blind>>
  BY <1>0 DEF Put, disk
<1>2. /\ Base /\ DataType /\ job[a] \in Jobs /\ Placed(job[a]) /\ Job(job[a]) /\ Work(w) /\ clock \in Nat
      /\ dump[w].id <= clock /\ KindOf[w] = "dump" /\ w \notin sealed
      /\ dump[w].id \in Int /\ mtime[w] \in Nat
      /\ job[a].cap \in Time /\ backups \subseteq Backup
      /\ \A b \in backups : b.at \in Nat
  BY <1>0, <1>1, Idle, Plain DEF IInv, Work, WorkCovered, Placed, Dumping, Job, JobExact
<1>3. PICK t \in Time : t = clock' /\ t = clock + 1 /\ t \in Nat
  BY <1>1, <1>2, Numbers DEF Time
<1>4. PICK v \in Time : v = job[a].cap
  BY <1>2
<1> DEFINE new == [w |-> w, at |-> t, data |-> v]
           B == backups \cup {new}
<1>5. new \in Backup /\ new.w = w /\ new.at = t /\ new.data = v
  BY <1>3, <1>4 DEF Backup
<1>6. Stored(w, job[a].cap, clock') = B
  BY <1>3, <1>4 DEF Stored
<1> HIDE DEF new
<1>7. \A b \in B : b # new => b \in backups /\ (b.w = w => b.at <= clock)
  BY <1>2 DEF Work, WorkFresh, Of
<1>8. backups' \subseteq B /\ new \in backups' /\ \A b \in backups : b.w # w => b \in backups'
  <2>1. CASE backups' = B
    BY <2>1
  <2>2. CASE backups' = Retained(B, w, BackupRetain)
    <3>1. \A c \in B : c.w = w => ~(c.at > new.at)
      BY <1>2, <1>3, <1>5, <1>7
    <3> QED  BY <2>2, <3>1, RetainedIs, BoundsAssumption
  <2>3. backups' = Retained(B, w, BackupRetain) \/ backups' = B
    BY <1>0, <1>6 DEF Put
  <2> QED  BY <2>1, <2>2, <2>3
<1>9. /\ \A b \in Of(w)' : b = new \/ (b \in Of(w) /\ b.at \in Nat /\ b.at <= clock)
      /\ new \in Of(w)'
      /\ \A u \in Workloads \ {w} : Of(u)' = Of(u)
  BY <1>2, <1>5, <1>7, <1>8 DEF Of
<1>10. dropped' \subseteq Workloads /\ \A u \in Workloads \ {w} : u \in dropped => u \in dropped'
  BY <1>1, <1>2, SeenIs
<1>11. t \in Time \cup {NoId} /\ t <= clock' /\ clock <= clock' /\ clock' \in Nat /\ clock' \in Time
  BY <1>2, <1>3
<1>12. JobsType' /\ \E j \in Jobs : Does(a, j) /\ Job(j)'
  <2>1. \A b \in Of(w)' : b.at = t => b.data = job[a].cap
    BY <1>2, <1>3, <1>4, <1>5, <1>9
  <2>2. \E b \in Of(w)' : b.at = t /\ b.data = job[a].cap
    BY <1>4, <1>5, <1>9
  <2>3. job' = [job EXCEPT ![a].pc = "note", ![a].id = t]
    BY <1>1, <1>3
  <2> QED  BY <1>0, <1>1, <1>11, <2>1, <2>2, <2>3, NotedJob
<1>13. PICK j \in Jobs : Does(a, j) /\ Job(j)'
  BY <1>12
<1>14. Base'
  <2>1. backups' \subseteq Backup
    BY <1>2, <1>5, <1>8
  <2>2. DataType'
    BY <1>1, <1>2, <1>10, <1>11, <2>1 DEF DataType
  <2> QED  BY <1>12, <2>2 DEF Base
<1>15. Work(w)'
  <2>0. KindOf' = KindOf
    BY <1>1 DEF KindOf
  <2>1. WorkExact(w)'
    BY <1>1, <1>2 DEF WorkExact
  <2>2. \A b \in Of(w)' : b.at = dump[w].id => b.data = dump[w].hash
    BY <1>2, <1>3, <1>5, <1>9 DEF Work, WorkCovered
  <2>3. \E b \in Of(w)' : b.at >= dump[w].id
    BY <1>2, <1>3, <1>5, <1>9
  <2>4. WorkCovered(w)'
    BY <1>1, <1>2, <1>11, <2>0, <2>2, <2>3 DEF Work, WorkCovered
  <2>5. WorkFresh(w)'
    <3>1. mtime'[w] <= clock' /\ \A b \in Of(w)' : b.at <= clock'
      BY <1>1, <1>2, <1>3, <1>5, <1>9, <1>11 DEF Work, WorkFresh
    <3> QED  BY <1>2, <2>0, <3>1 DEF WorkFresh
  <2> QED  BY <2>1, <2>4, <2>5 DEF Work
<1>16. \A u \in Workloads \ {w} : Aside(u)
  BY <1>1, <1>9, <1>10 DEF Aside
<1> QED  BY <1>0, <1>1, <1>11, <1>13, <1>14, <1>15, <1>16, HolderKept DEF Locked

LEMMA NoteStep ==
  ASSUME IInv, NEW a \in Actors, Note(a)
  PROVE  IInv'
<1>0. PICK w \in Workloads : w = job[a].w
  BY Idle
<1>1. /\ job[a].pc = "note" /\ sealed' = sealed \ {w}
      /\ dump' = [dump EXCEPT ![w] = [hash |-> job[a].cap, id |-> job[a].id]]
      /\ UNCHANGED <<here, up, keep, data, mtime, offline, backups, clock, world, blind, dropped>>
  BY <1>0 DEF Note
<1>2. /\ Base /\ DataType /\ JobsType /\ job[a] \in Jobs /\ Owned(a, job[a]) /\ Placed(job[a]) /\ Job(job[a])
      /\ Work(w) /\ clock \in Nat /\ NoId <= clock /\ KindOf[w] = "dump"
      /\ job[a].cap \in Time /\ job[a].id \in Time \cup {NoId} /\ job[a].id \in Int /\ job[a].id <= clock
      /\ \A b \in Of(w) : b.at \in Nat
  BY <1>0, <1>1, Idle, Plain DEF IInv, Placed, Dumping, Jobs, Of
<1>3. PICK v \in Time, i \in Time \cup {NoId} : v = job[a].cap /\ i = job[a].id
  BY <1>2
<1>4. dump' \in [Workloads -> [hash : Time \cup {NoId}, id : Time \cup {NoId}]]
      /\ dump'[w].hash = v /\ dump'[w].id = i /\ \A u \in Workloads \ {w} : dump'[u] = dump[u]
  BY <1>1, <1>2, <1>3 DEF DataType
<1>5. /\ \A b \in Of(w)' : b.at = i => b.data = v
      /\ w \in here /\ w \notin dropped /\ v # 0 => \E b \in Of(w)' : b.at = i /\ b.data = v
      /\ w \in here /\ v # 0 => data[w] # 0
      /\ (~job[a].was \/ job[a].op = "reap" => Same(w, v)) /\ (~job[a].was => w \notin up)
  <2>1. Of(w)' = Of(w)
    BY <1>1 DEF Of
  <2>2. /\ \A b \in Of(w) : b.at = i => b.data = v
        /\ w \in here /\ w \notin dropped /\ v # 0 => \E b \in Of(w) : b.at = i /\ b.data = v
        /\ w \in here /\ v # 0 => data[w] # 0
    BY <1>0, <1>1, <1>2, <1>3 DEF Job, JobCovered
  <2>3. (~job[a].was \/ job[a].op = "reap" => Same(w, v)) /\ (~job[a].was => w \notin up)
    BY <1>0, <1>1, <1>2, <1>3 DEF Job, JobExact
  <2> QED  BY <2>1, <2>2, <2>3
<1>6. Exact(w)' /\ (~job[a].was \/ job[a].op = "reap" => Same(w, dump[w].hash)')
  BY <1>1, <1>4, <1>5 DEF Exact, Known, Same
<1>7. Work(w)'
  <2>0. KindOf' = KindOf /\ Of(w)' = Of(w) /\ i \in Int /\ i <= clock
    BY <1>1, <1>2, <1>3 DEF KindOf, Of
  <2>1. WorkExact(w)'
    BY <1>1 DEF WorkExact
  <2>2. Known(w)' => \E b \in Of(w)' : b.at >= i
    <3>1. ASSUME NEW b \in Of(w)', b.at = i PROVE b.at >= i
      BY <2>0, <3>1
    <3> QED  BY <1>1, <1>4, <1>5, <3>1 DEF Known
  <2>3. WorkCovered(w)'
    BY <1>1, <1>2, <1>4, <1>5, <2>0, <2>2, Numbers DEF WorkCovered
  <2>4. WorkFresh(w)'
    BY <1>1, <1>2, <2>0 DEF Work, WorkFresh
  <2> QED  BY <2>1, <2>3, <2>4 DEF Work
<1>8. \A u \in Workloads \ {w} : Aside(u)
  BY <1>1, <1>4 DEF Aside, Of
<1>9. (JobsType' /\ \E j \in Jobs : Does(a, j) /\ Job(j)') /\ failed' \in [Workloads -> {"no", "recent", "old"}]
  <2>1. CASE job[a].was
    <3>1. BackupOver(a, TRUE) /\ failed' \in [Workloads -> {"no", "recent", "old"}]
      BY <1>2, <2>1 DEF Note, DumpOver, DataType
    <3>2. job[a].pc \in Dumping \cup Archiving
      BY <1>1 DEF Dumping
    <3>3. NoId <= clock' /\ world' = world /\ TRUE \in BOOLEAN
      BY <1>1, <1>2
    <3>4. TRUE /\ job[a].op = "reap" => Same(w, dump[w].hash)' /\ Exact(w)'
      BY <1>6
    <3>5. JobsType' /\ \E j \in Jobs : Does(a, j) /\ Job(j)'
      BY <1>0, <3>1, <3>2, <3>3, <3>4, OverJob
    <3> QED  BY <3>1, <3>5
  <2>2. CASE ~job[a].was
    <3>1. Goto(a, "seal") /\ lock' = lock /\ failed' = failed
      BY <2>2 DEF Note
    <3>2. PICK j \in Jobs : /\ Does(a, j) /\ j.pc = "seal" /\ j.op = job[a].op /\ j.w = w /\ j.n = job[a].n
                            /\ j.cap = job[a].cap /\ j.id = job[a].id /\ j.was = job[a].was /\ j.ok = job[a].ok
      BY <1>0, <1>2, <3>1, GotoIs DEF Positions, Locked
    <3>3. Owned(a, j) /\ Placed(j)
      BY <1>0, <1>1, <1>2, <2>2, <3>2 DEF Owned, Placed, Dumping, Archiving, Deleting
    <3>4. JobsType'
      BY <1>0, <1>1, <1>2, <3>1, <3>2, <3>3, Moved DEF Locked
    <3>5. JobExact(j)'
      BY <1>1, <1>5, <1>6, <2>2, <3>2 DEF JobExact
    <3>6. JobCovered(j)' /\ JobFresh(j)'
      BY <1>1, <1>2, <1>6, <3>2 DEF JobCovered, JobFresh
    <3> QED  BY <1>2, <3>1, <3>2, <3>4, <3>5, <3>6 DEF Job, DataType
  <2> QED  BY <2>1, <2>2
<1>10. PICK j \in Jobs : Does(a, j) /\ Job(j)'
  BY <1>9
<1>11. Base'
  <2>1. DataType'
    BY <1>1, <1>2, <1>4, <1>9 DEF DataType
  <2> QED  BY <1>9, <2>1 DEF Base
<1> QED  BY <1>0, <1>1, <1>2, <1>7, <1>8, <1>10, <1>11, HolderKept DEF Locked

---------------------------------------------------------------------------
\* The seals, and the archive.

\* A seal is set on a stopped database whose dump is what it holds.
LEMMA SealedIs ==
  ASSUME IInv, NEW a \in Actors, NEW w \in Workloads, w = job[a].w, job[a].pc \in {"seal", "sealReap"},
         sealed' \in {sealed, sealed \cup {w}},
         UNCHANGED <<here, up, keep, data, mtime, dump, offline, backups, clock, world, blind, dropped>>
  PROVE  /\ Work(w)' /\ sealed' \subseteq Workloads /\ Same(w, dump[w].hash)' /\ Exact(w)'
         /\ \A u \in Workloads \ {w} : Aside(u)
<1>1. /\ Work(w) /\ DataType /\ Placed(job[a]) /\ Job(job[a]) /\ KindOf[w] = "dump"
      /\ w \notin up /\ Same(w, dump[w].hash) /\ Exact(w)
  BY Idle DEF IInv, Placed, Dumping, Job, JobExact, JobCovered
<1>2. Same(w, dump[w].hash)' /\ Exact(w)' /\ KindOf' = KindOf /\ Of(w)' = Of(w)
  BY <1>1 DEF Same, Exact, Known, Of, KindOf
<1>3. WorkExact(w)'
  BY <1>1, <1>2 DEF WorkExact
<1>4. WorkCovered(w)'
  BY <1>1, <1>2 DEF Work, WorkCovered, Known
<1>5. WorkFresh(w)'
  BY <1>1, <1>2 DEF Work, WorkFresh
<1>6. sealed' \subseteq Workloads
  BY <1>1 DEF DataType
<1>7. \A u \in Workloads \ {w} : Aside(u)
  BY DEF Aside, Of
<1> QED  BY <1>2, <1>3, <1>4, <1>5, <1>6, <1>7 DEF Work

LEMMA SealOfflineStep ==
  ASSUME IInv, NEW a \in Actors, SealOffline(a)
  PROVE  IInv'
<1>0. PICK w \in Workloads : w = job[a].w
  BY Idle
<1>1. /\ job[a].pc = "seal" /\ sealed' \in {sealed, sealed \cup {w}} /\ BackupOver(a, TRUE)
      /\ UNCHANGED <<here, up, keep, data, mtime, dump, offline, backups, clock, world, blind, dropped>>
      /\ failed' = [failed EXCEPT ![w] = "no"]
  BY <1>0 DEF SealOffline, Seal, DumpOver
<1>2. DataType /\ JobsType /\ clock \in Nat /\ NoId <= clock'
  BY <1>1, Idle
<1>3. /\ Work(w)' /\ sealed' \subseteq Workloads /\ Same(w, dump[w].hash)' /\ Exact(w)'
      /\ \A u \in Workloads \ {w} : Aside(u)
  BY <1>0, <1>1, SealedIs
<1>4. JobsType' /\ \E j \in Jobs : Does(a, j) /\ Job(j)'
  <2>1. job[a].pc \in Dumping \cup Archiving /\ TRUE \in BOOLEAN
    BY <1>1 DEF Dumping
  <2>2. TRUE /\ job[a].op = "reap" => Same(w, dump[w].hash)' /\ Exact(w)'
    BY <1>3
  <2> QED  BY <1>0, <1>1, <1>2, <2>1, <2>2, OverJob
<1>5. PICK j \in Jobs : Does(a, j) /\ Job(j)'
  BY <1>4
<1>6. Base'
  <2>1. DataType'
    BY <1>1, <1>2, <1>3 DEF DataType
  <2> QED  BY <1>4, <2>1 DEF Base
<1> QED  BY <1>0, <1>1, <1>2, <1>3, <1>5, <1>6, HolderKept DEF Locked

LEMMA SealReapStep ==
  ASSUME IInv, NEW a \in Actors, SealReap(a)
  PROVE  IInv'
<1>0. PICK w \in Workloads : w = job[a].w
  BY Idle
<1>1. /\ job[a].pc = "sealReap" /\ sealed' \in {sealed, sealed \cup {w}} /\ End(a) /\ Unlock(a)
      /\ UNCHANGED <<here, up, keep, data, mtime, dump, offline, backups, failed, clock, world, blind, dropped>>
  BY <1>0 DEF SealReap, Seal
<1>2. DataType /\ JobsType /\ clock \in Nat /\ NoId <= clock'
  BY <1>1, Idle
<1>3. /\ Work(w)' /\ sealed' \subseteq Workloads
      /\ \A u \in Workloads \ {w} : Aside(u)
  BY <1>0, <1>1, SealedIs
<1>4. Does(a, NoJob) /\ NoJob \in Jobs /\ JobsType' /\ Job(NoJob)'
  BY <1>1, <1>2, EndFrees DEF Locked
<1>5. PICK j \in Jobs : Does(a, j) /\ Job(j)' /\ j = NoJob
  <2>1. \E j : j = NoJob
    OBVIOUS
  <2> QED  BY <1>4
<1>6. Base'
  <2>1. DataType'
    BY <1>1, <1>2, <1>3 DEF DataType
  <2> QED  BY <1>4, <2>1 DEF Base
<1> QED  BY <1>0, <1>1, <1>2, <1>3, <1>5, <1>6, HolderKept DEF Locked

LEMMA PackStep ==
  ASSUME IInv, NEW a \in Actors, Pack(a)
  PROVE  IInv'
<1> DEFINE o == job[a]
<1>0. PICK w \in Workloads : w = job[a].w
  BY Idle
<1>1. /\ o.pc = "pack" /\ data[w] # Gone /\ blind' = Seen(a, w)
      /\ UNCHANGED <<here, up, keep, data, mtime, dump, sealed, offline, backups, failed, lock, clock, world, dropped>>
      /\ job' = [job EXCEPT ![a].pc = "upload", ![a].cap = data[w]]
  BY <1>0 DEF Pack, disk
<1>2. /\ Base /\ DataType /\ JobsType /\ o \in Jobs /\ Owned(a, o) /\ Placed(o) /\ Job(o) /\ Work(w)
      /\ clock \in Nat /\ KindOf[w] = "tar" /\ o.id <= clock /\ (StampFirst => o.id # NoId)
  BY <1>0, <1>1, Idle DEF IInv, Placed, Archiving, Job, JobFresh
<1>3. PICK v \in Time : v = data[w]
  BY <1>1, <1>2 DEF DataType
<1> DEFINE j == [o EXCEPT !.pc = "upload", !.cap = v]
<1>a. j \in Jobs /\ j.pc = "upload" /\ j.op = o.op /\ j.w = w /\ j.n = o.n /\ j.id = o.id /\ j.cap = v
      /\ j.was = o.was /\ j.ok = o.ok
  BY <1>0, <1>2 DEF Jobs, Positions, Locked
<1>b. job' = [job EXCEPT ![a] = j]
  BY <1>1, <1>2, <1>3 DEF Jobs
<1> HIDE DEF j
<1>4. PICK k \in Jobs : k = j /\ k.pc = "upload" /\ k.op = o.op /\ k.w = w /\ k.n = o.n /\ k.id = o.id /\ k.cap = v
                        /\ k.was = o.was /\ k.ok = o.ok
  BY <1>a
<1>5. Owned(a, k) /\ Placed(k) /\ Does(a, k)
  BY <1>0, <1>1, <1>2, <1>4, <1>b DEF Owned, Placed, Dumping, Archiving, Deleting, Does
<1>6. JobsType'
  BY <1>0, <1>1, <1>2, <1>4, <1>5, Moved DEF Locked
<1>7. blind' \subseteq Workloads /\ \A u \in Workloads \ {w} : u \in blind' <=> u \in blind
  BY <1>1, <1>2, SeenIs
<1>8. Base'
  <2>1. DataType'
    BY <1>1, <1>2, <1>7 DEF DataType
  <2> QED  BY <1>6, <2>1 DEF Base
<1>9. Job(k)'
  BY <1>1, <1>2, <1>3, <1>4 DEF Job, JobExact, JobCovered, JobFresh
<1>10. Work(w)'
  <2>0. KindOf' = KindOf /\ Of(w)' = Of(w) /\ w \notin sealed
    BY <1>1, <1>2 DEF KindOf, Of, Work, WorkExact
  <2>1. WorkExact(w)'
    BY <1>1, <2>0 DEF WorkExact
  <2>2. WorkCovered(w)' /\ WorkFresh(w)'
    BY <1>1, <1>2, <2>0 DEF Work, WorkCovered, WorkFresh, Known
  <2> QED  BY <2>1, <2>2 DEF Work
<1>11. \A u \in Workloads \ {w} : Aside(u)
  BY <1>1, <1>7 DEF Aside, Of
<1> QED  BY <1>0, <1>1, <1>2, <1>4, <1>5, <1>8, <1>9, <1>10, <1>11, HolderKept DEF Locked

---------------------------------------------------------------------------
\* The archive is complete; the workload starts again; old archives go.

LEMMA UploadStep ==
  ASSUME IInv, NEW a \in Actors, Upload(a)
  PROVE  IInv'
<1> DEFINE o == job[a]
<1>0. PICK w \in Workloads : w = job[a].w
  BY Idle
<1>1. /\ o.pc = "upload" /\ dropped' = Replaced(a, w)
      /\ clock' = (IF StampFirst THEN clock ELSE clock + 1) /\ (StampFirst \/ clock < MaxClock)
      /\ UNCHANGED <<here, up, keep, data, mtime, dump, sealed, offline, failed, lock, world, blind>>
  BY <1>0 DEF Upload, disk
<1>2. /\ Base /\ DataType /\ JobsType /\ o \in Jobs /\ Owned(a, o) /\ Placed(o) /\ Job(o) /\ Work(w)
      /\ clock \in Nat /\ KindOf[w] = "tar" /\ o.id <= clock /\ (StampFirst => o.id # NoId)
      /\ o.id \in Time \cup {NoId} /\ o.cap \in Time /\ backups \subseteq Backup
      /\ dump[w].id <= clock /\ dump[w].id \in Int /\ mtime[w] \in Nat
      /\ (\A b \in backups : b.at \in Nat) /\ w \notin sealed
  BY <1>0, <1>1, Idle, Plain DEF IInv, Placed, Archiving, Job, JobCovered, JobFresh, Work, WorkCovered, WorkExact, Jobs
<1>3. clock' \in Time /\ clock' \in Nat /\ clock <= clock'
  BY <1>1, <1>2, Numbers DEF Time, DataType
<1>d. (StampFirst => o.id \in Time) /\ StampFirst \in BOOLEAN
  BY <1>2, BoundsAssumption
<1>4. PICK t \in Time : t = (IF StampFirst THEN o.id ELSE clock')
  <2>1. CASE StampFirst
    BY <1>d, <2>1
  <2>2. CASE ~StampFirst
    BY <1>3, <2>2
  <2> QED  BY <1>d, <2>1, <2>2
<1>5. t <= clock' /\ t \in Nat
  <2>1. t \in Nat
    BY Numbers
  <2>2. CASE StampFirst
    <3>1. t <= clock
      BY <1>2, <1>4, <2>2
    <3> QED  BY <1>2, <1>3, <2>1, <3>1
  <2>3. CASE ~StampFirst
    <3>1. t = clock'
      BY <1>4, <2>3
    <3> QED  BY <1>3, <2>1, <3>1
  <2> QED  BY <2>1, <2>2, <2>3
<1>6. PICK v \in Time : v = o.cap
  BY <1>2
<1> DEFINE new == [w |-> w, at |-> t, data |-> v]
           j == [o EXCEPT !.pc = "resume", !.id = t, !.ok = TRUE]
<1>7. new \in Backup /\ new.w = w /\ new.at = t /\ new.data = v
  BY <1>5, <1>6 DEF Backup
<1>8. backups' = backups \cup {new}
  BY <1>0, <1>4, <1>6 DEF Upload, Stored
<1>9. job' = [job EXCEPT ![a] = j]
  <2>1. job' = [job EXCEPT ![a].pc = "resume", ![a].id = t, ![a].ok = TRUE]
    BY <1>4 DEF Upload
  <2> QED  BY <1>2, <2>1 DEF Jobs
<1>a. j \in Jobs /\ j.pc = "resume" /\ j.op = o.op /\ j.w = w /\ j.n = o.n /\ j.id = t /\ j.was = o.was /\ j.ok = TRUE
  BY <1>0, <1>2 DEF Jobs, Positions, Locked
<1> HIDE DEF new, j
<1>10. PICK k \in Jobs : k = j /\ k.pc = "resume" /\ k.op = o.op /\ k.w = w /\ k.n = o.n /\ k.id = t /\ k.was = o.was /\ k.ok = TRUE
  BY <1>a
<1>11. Owned(a, k) /\ Placed(k) /\ Does(a, k)
  BY <1>0, <1>1, <1>2, <1>10, <1>9 DEF Owned, Placed, Dumping, Archiving, Deleting, Does
<1>12. JobsType'
  BY <1>0, <1>1, <1>2, <1>10, <1>11, Moved DEF Locked
<1>13. dropped' \subseteq Workloads /\ \A u \in Workloads \ {w} : u \in dropped => u \in dropped'
  BY <1>1, <1>2, SeenIs
<1>14. Base'
  <2>1. backups' \subseteq Backup
    BY <1>2, <1>7, <1>8
  <2>2. DataType'
    BY <1>1, <1>2, <1>3, <1>13, <2>1 DEF DataType
  <2> QED  BY <1>12, <2>2 DEF Base
<1>15. Job(k)'
  BY <1>5, <1>10, NothingPromised DEF Free1
<1>16. (\A b \in Of(w)' : b = new \/ (b \in Of(w) /\ b.at \in Nat)) /\ \A u \in Workloads \ {w} : Of(u)' = Of(u)
  BY <1>2, <1>7, <1>8 DEF Of
<1>17. Work(w)'
  <2>0. KindOf' = KindOf
    BY <1>1 DEF KindOf
  <2>1. WorkExact(w)'
    BY <1>1, <1>2 DEF WorkExact
  <2>2. WorkCovered(w)'
    BY <1>1, <1>2, <1>3, <2>0 DEF Work, WorkCovered
  <2>3. mtime'[w] <= clock' /\ \A b \in Of(w)' : b.at <= clock'
    BY <1>1, <1>2, <1>3, <1>5, <1>7, <1>16 DEF Work, WorkFresh
  <2>4. StampFirst /\ data'[w] # Gone => \A b \in Of(w)' : mtime'[w] <= b.at => b.data = data'[w]
    <3>1. StampFirst /\ data[w] # Gone /\ mtime[w] <= t => v = data[w]
      BY <1>0, <1>1, <1>2, <1>4, <1>6 DEF Job, JobFresh
    <3>2. StampFirst /\ data[w] # Gone => \A b \in Of(w) : mtime[w] <= b.at => b.data = data[w]
      BY <1>2 DEF Work, WorkFresh
    <3> QED  BY <1>1, <1>7, <1>16, <3>1, <3>2
  <2>5. WorkFresh(w)'
    BY <2>3, <2>4 DEF WorkFresh
  <2> QED  BY <2>1, <2>2, <2>5 DEF Work
<1>18. \A u \in Workloads \ {w} : Aside(u)
  BY <1>1, <1>13, <1>16 DEF Aside
<1> QED  BY <1>0, <1>1, <1>3, <1>10, <1>11, <1>14, <1>15, <1>17, <1>18, HolderKept DEF Locked

LEMMA ResumeStep ==
  ASSUME IInv, NEW a \in Actors, Resume(a)
  PROVE  IInv'
<1>0. PICK w \in Workloads : w = job[a].w
  BY Idle
<1>1. /\ Base /\ DataType /\ JobsType /\ job[a] \in Jobs /\ Placed(job[a]) /\ Work(w) /\ clock \in Nat
      /\ job[a].pc = "resume" /\ KindOf[w] = "tar" /\ job[a].op # "reap" /\ NoId <= clock /\ w \notin sealed
      /\ (\A b \in backups : b.at \in Nat)
  BY <1>0, Idle, Plain DEF IInv, Placed, Archiving, Resume, Work, WorkExact
<1>2. /\ UNCHANGED <<here, keep, data, mtime, dump, offline, failed, clock, world, blind, dropped>>
      /\ up' \in {up, up \cup {w}} /\ sealed' \in {sealed, sealed \ {w}}
  BY <1>0 DEF Resume, Boot
<1>3. PICK ok \in BOOLEAN : ok = job[a].ok
  BY <1>1 DEF Jobs
<1>4. BackupOver(a, ok)
  BY <1>3 DEF Resume
<1>5. backups' \subseteq backups /\ \A b \in backups : b.w # w => b \in backups'
  BY <1>0, RetainedIs DEF Resume
<1>6. JobsType' /\ \E j \in Jobs : Does(a, j) /\ Job(j)'
  <2>1. job[a].pc \in Dumping \cup Archiving
    BY <1>1 DEF Archiving
  <2>2. ok /\ job[a].op = "reap" => Same(w, dump[w].hash)' /\ Exact(w)'
    BY <1>1
  <2>3. world' = world /\ NoId <= clock'
    BY <1>1, <1>2
  <2> QED  BY <1>0, <1>4, <2>1, <2>2, <2>3, OverJob
<1>7. PICK j \in Jobs : Does(a, j) /\ Job(j)'
  BY <1>6
<1>8. Base'
  <2>1. DataType'
    BY <1>1, <1>2, <1>5 DEF DataType
  <2> QED  BY <1>6, <2>1 DEF Base
<1>9. (\A b \in Of(w)' : b \in Of(w)) /\ (\A u \in Workloads \ {w} : Of(u)' = Of(u)) /\ KindOf' = KindOf
  BY <1>1, <1>2, <1>5 DEF Of, KindOf
<1>10. Work(w)'
  <2>1. WorkExact(w)'
    BY <1>1, <1>2 DEF WorkExact
  <2>2. WorkCovered(w)' /\ WorkFresh(w)'
    BY <1>1, <1>2, <1>9 DEF Work, WorkCovered, WorkFresh
  <2> QED  BY <2>1, <2>2 DEF Work
<1>11. \A u \in Workloads \ {w} : Aside(u)
  BY <1>2, <1>9 DEF Aside
<1> QED  BY <1>0, <1>1, <1>2, <1>7, <1>8, <1>10, <1>11, HolderKept DEF Locked

---------------------------------------------------------------------------
\* Wiped, filled, started; and removed.

LEMMA WipeStep ==
  ASSUME IInv, NEW a \in Actors, Wipe(a)
  PROVE  IInv'
<1> DEFINE o == job[a]
           p == IF o.op = "restore" THEN "load" ELSE "boot"
<1>0. PICK w \in Workloads : w = job[a].w
  BY Idle
<1>1. /\ o.pc = "wipe" /\ clock < MaxClock /\ clock' = clock + 1 /\ up' = up \ {w}
      /\ data' = [data EXCEPT ![w] = 0] /\ dump' = [dump EXCEPT ![w] = NoDump] /\ sealed' = sealed \ {w}
      /\ (KindOf[w] = "tar" => mtime' = [mtime EXCEPT ![w] = clock']) /\ (KindOf[w] # "tar" => mtime' = mtime)
      /\ blind' \in {blind \cup {w}, blind \ {w}} /\ Goto(a, p)
      /\ UNCHANGED <<here, keep, offline, backups, failed, lock, world, dropped>>
  BY <1>0 DEF Wipe, Halt, Touched
<1>2. /\ Base /\ DataType /\ JobsType /\ o \in Jobs /\ Owned(a, o) /\ Placed(o) /\ Work(w) /\ o.id \in Int
      /\ clock \in Nat /\ o.id <= clock /\ mtime[w] \in Nat /\ mtime[w] <= clock
      /\ \A b \in Of(w) : b.at \in Nat /\ b.at <= clock
  BY <1>0, Idle, Plain DEF IInv, Work, WorkFresh, Of
<1>3. clock' \in Time /\ clock' \in Nat /\ clock <= clock' /\ clock < clock'
  BY <1>1, <1>2, Numbers DEF Time
<1>4. p \in {"load", "boot"} /\ p \in Positions /\ p \in Locked /\ (p = "load" => o.op = "restore")
      /\ o.op \in {"restore", "reset"}
  BY <1>1, <1>2 DEF Positions, Locked, Placed
<1>5. PICK q \in {"load", "boot"} : q = p
  BY <1>4
<1> HIDE DEF p
<1>6. PICK j \in Jobs : /\ Does(a, j) /\ j.pc = p /\ j.op = o.op /\ j.w = w /\ j.n = o.n
                        /\ j.cap = o.cap /\ j.id = o.id /\ j.was = o.was /\ j.ok = o.ok
  BY <1>0, <1>1, <1>2, <1>4, GotoIs
<1>7. Owned(a, j) /\ Placed(j)
  BY <1>0, <1>1, <1>2, <1>4, <1>6 DEF Owned, Placed, Dumping, Archiving, Deleting
<1>8. JobsType'
  BY <1>0, <1>1, <1>2, <1>4, <1>6, <1>7, Moved DEF Locked
<1>9. /\ data'[w] = 0 /\ dump'[w] = NoDump /\ w \notin sealed' /\ w \notin up'
      /\ (KindOf[w] = "tar" => mtime'[w] = clock') /\ (KindOf[w] # "tar" => mtime'[w] = mtime[w])
      /\ Of(w)' = Of(w) /\ KindOf' = KindOf
  BY <1>1, <1>2 DEF DataType, Of, KindOf
<1>10. Base'
  <2>0. NoDump \in [hash : Time \cup {NoId}, id : Time \cup {NoId}]
    BY DEF NoDump
  <2>1. mtime' \in [Workloads -> Time]
    BY <1>1, <1>2, <1>3 DEF DataType
  <2>2. data' \in [Workloads -> Time \cup {Gone}] /\ dump' \in [Workloads -> [hash : Time \cup {NoId}, id : Time \cup {NoId}]]
    BY <1>1, <1>2, <2>0, Numbers DEF DataType
  <2>3. blind' \subseteq Workloads /\ up' \subseteq Workloads /\ sealed' \subseteq Workloads
    BY <1>1, <1>2 DEF DataType
  <2>4. DataType'
    BY <1>1, <1>2, <1>3, <2>1, <2>2, <2>3 DEF DataType
  <2> QED  BY <1>8, <2>4 DEF Base
<1>11. Job(j)'
  <2>1. j.pc \in {"load", "boot"} /\ j.w = w
    BY <1>4, <1>6
  <2>2. JobExact(j)'
    BY <1>9, <2>1 DEF JobExact
  <2>3. JobCovered(j)'
    BY <1>2, <1>3, <1>6, <1>9, <2>1 DEF JobCovered
  <2>4. KindOf[w] = "tar" => \A b \in Of(w) : b.at < mtime'[w]
    BY <1>2, <1>3, <1>9
  <2>5. JobFresh(j)'
    BY <1>9, <2>1, <2>4 DEF JobFresh
  <2> QED  BY <2>2, <2>3, <2>5 DEF Job
<1>12. Work(w)'
  <2>1. WorkExact(w)'
    BY <1>9 DEF WorkExact
  <2>2. WorkCovered(w)'
    BY <1>2, <1>3, <1>9, Numbers DEF WorkCovered, Known
  <2>3. mtime'[w] <= clock' /\ \A b \in Of(w)' : b.at <= clock'
    BY <1>2, <1>3, <1>9
  <2>4. KindOf[w] = "tar" => \A b \in Of(w) : ~(mtime'[w] <= b.at)
    BY <1>2, <1>3, <1>9
  <2>5. WorkFresh(w)'
    BY <1>9, <2>3, <2>4 DEF WorkFresh
  <2> QED  BY <2>1, <2>2, <2>5 DEF Work
<1>13. \A u \in Workloads \ {w} : Aside(u)
  <2>1. \A u \in Workloads \ {w} : data'[u] = data[u] /\ mtime'[u] = mtime[u] /\ dump'[u] = dump[u]
    BY <1>1, <1>2 DEF DataType
  <2>2. \A u \in Workloads \ {w} : /\ Of(u)' = Of(u)
                                   /\ (u \in here' => u \in here) /\ (u \in up' => u \in up) /\ (u \in sealed' => u \in sealed)
                                   /\ (u \in blind => u \in blind') /\ (u \in dropped => u \in dropped')
    BY <1>1 DEF Of
  <2> QED  BY <2>1, <2>2 DEF Aside
<1> QED  BY <1>0, <1>1, <1>3, <1>6, <1>10, <1>11, <1>12, <1>13, HolderKept DEF Locked

LEMMA LoadStep ==
  ASSUME IInv, NEW a \in Actors, Load(a)
  PROVE  IInv'
<1> DEFINE o == job[a]
<1>0. PICK w \in Workloads : w = job[a].w
  BY Idle
<1>1. /\ o.pc = "load"
      /\ UNCHANGED <<here, up, keep, mtime, dump, sealed, offline, backups, failed, clock, world, blind, dropped>>
  BY DEF Load
<1>2. /\ Base /\ DataType /\ JobsType /\ o \in Jobs /\ Owned(a, o) /\ Placed(o) /\ Job(o) /\ Work(w)
      /\ clock \in Nat /\ o.id <= clock /\ NoId <= clock /\ dump[w] = NoDump /\ w \notin sealed /\ mtime[w] \in Nat
      /\ \A b \in Of(w) : b.at \in Nat /\ b.data \in Time
  BY <1>0, <1>1, Idle, Plain DEF IInv, Job, JobExact, JobCovered, Of
<1>3. CASE End(a) /\ Unlock(a) /\ data' = data
  <2>1. Does(a, NoJob) /\ NoJob \in Jobs /\ JobsType' /\ Job(NoJob)'
    BY <1>1, <1>2, <1>3, EndFrees DEF Locked
  <2>2. PICK j \in Jobs : Does(a, j) /\ Job(j)' /\ j = NoJob
    BY <2>1
  <2>3. DataType'
    BY <1>1, <1>2, <1>3 DEF DataType
  <2> QED  BY <1>1, <1>2, <1>3, <2>1, <2>2, <2>3, Quiet
<1>4. CASE ~(End(a) /\ Unlock(a) /\ data' = data)
  <2>1. PICK b \in Of(w) : data' = [data EXCEPT ![w] = b.data] /\ Goto(a, "boot") /\ lock' = lock
    BY <1>0, <1>4 DEF Load
  <2>2. PICK j \in Jobs : /\ Does(a, j) /\ j.pc = "boot" /\ j.op = o.op /\ j.w = w /\ j.n = o.n
                          /\ j.cap = o.cap /\ j.id = o.id /\ j.was = o.was /\ j.ok = o.ok
    BY <1>0, <1>2, <2>1, GotoIs DEF Positions, Locked
  <2>3. Owned(a, j) /\ Placed(j)
    BY <1>0, <1>1, <1>2, <2>2 DEF Owned, Placed, Dumping, Archiving, Deleting
  <2>4. JobsType'
    BY <1>0, <1>1, <1>2, <2>1, <2>2, <2>3, Moved DEF Locked
  <2>5. Base'
    <3>1. data' \in [Workloads -> Time \cup {Gone}]
      BY <1>2, <2>1 DEF DataType
    <3>2. DataType'
      BY <1>1, <1>2, <3>1 DEF DataType
    <3> QED  BY <2>4, <3>2 DEF Base
  <2>6. Job(j)'
    BY <1>1, <1>2, <2>2 DEF Job, JobExact, JobCovered, JobFresh
  <2>7. Work(w)'
    <3>0. KindOf' = KindOf /\ Of(w)' = Of(w)
      BY <1>1 DEF KindOf, Of
    <3>1. WorkExact(w)'
      BY <1>1, <1>2 DEF WorkExact
    <3>2. WorkCovered(w)'
      BY <1>1, <1>2, <3>0, Numbers DEF Work, WorkCovered, Known
    <3>3. KindOf[w] = "tar" => \A c \in Of(w) : ~(mtime[w] <= c.at)
      BY <1>0, <1>1, <1>2 DEF Job, JobFresh
    <3>4. WorkFresh(w)'
      BY <1>1, <1>2, <3>0, <3>3 DEF Work, WorkFresh
    <3> QED  BY <3>1, <3>2, <3>4 DEF Work
  <2>8. \A u \in Workloads \ {w} : Aside(u)
    BY <1>1, <1>2, <2>1 DEF Aside, Of, DataType
  <2> QED  BY <1>0, <1>1, <1>2, <2>2, <2>5, <2>6, <2>7, <2>8, HolderKept DEF Locked
<1> QED  BY <1>3, <1>4

LEMMA BootAfterStep ==
  ASSUME IInv, NEW a \in Actors, BootAfter(a)
  PROVE  IInv'
<1>0. PICK w \in Workloads : w = job[a].w
  BY Idle
<1>1. /\ job[a].pc = "boot" /\ End(a) /\ Unlock(a)
      /\ UNCHANGED <<here, keep, data, mtime, dump, offline, backups, failed, clock, world, blind, dropped>>
      /\ up' \in {up, up \cup {w}} /\ sealed' \in {sealed, sealed \ {w}}
  BY <1>0 DEF BootAfter, Boot
<1>2. Base /\ DataType /\ Job(job[a]) /\ Work(w) /\ clock \in Nat /\ NoId <= clock /\ w \notin sealed
  BY <1>0, <1>1, Idle DEF IInv, Job, JobExact
<1>3. Does(a, NoJob) /\ NoJob \in Jobs /\ JobsType' /\ Job(NoJob)'
  BY <1>1, <1>2, EndFrees DEF Locked
<1>4. PICK j \in Jobs : Does(a, j) /\ Job(j)' /\ j = NoJob
  BY <1>3
<1>5. Base'
  <2>1. DataType'
    BY <1>1, <1>2 DEF DataType
  <2> QED  BY <1>3, <2>1 DEF Base
<1>6. Work(w)'
  <2>0. KindOf' = KindOf /\ Of(w)' = Of(w)
    BY <1>1 DEF KindOf, Of
  <2>1. WorkExact(w)'
    BY <1>1, <1>2 DEF WorkExact
  <2>2. WorkCovered(w)' /\ WorkFresh(w)'
    BY <1>1, <1>2, <2>0 DEF Work, WorkCovered, WorkFresh, Known
  <2> QED  BY <2>1, <2>2 DEF Work
<1>7. \A u \in Workloads \ {w} : Aside(u)
  BY <1>1 DEF Aside, Of
<1> QED  BY <1>0, <1>1, <1>2, <1>4, <1>5, <1>6, <1>7, HolderKept DEF Locked

---------------------------------------------------------------------------
\* A deleted workload's data and backups go; nobody counts on them.

LEMMA ReclaimStep ==
  ASSUME IInv, NEW a \in Actors, Reclaim(a)
  PROVE  IInv'
<1> DEFINE o == job[a]
<1>0. PICK w \in Workloads : w = job[a].w
  BY Idle
<1>1. /\ o.pc = "reclaim" /\ Goto(a, "prune")
      /\ data' = [data EXCEPT ![w] = Gone] /\ dump' = [dump EXCEPT ![w] = NoDump] /\ sealed' = sealed \ {w}
      /\ UNCHANGED <<here, up, keep, mtime, offline, backups, failed, lock, clock, world, blind, dropped>>
  BY <1>0 DEF Reclaim
<1>2. /\ Base /\ DataType /\ JobsType /\ o \in Jobs /\ Owned(a, o) /\ Placed(o) /\ Job(o) /\ Work(w)
      /\ clock \in Nat /\ o.id <= clock /\ NoId <= clock /\ w \notin here
      /\ \A b \in Of(w) : b.at \in Nat
  BY <1>0, <1>1, Idle, Plain DEF IInv, Job, JobExact, Of
<1>3. PICK j \in Jobs : /\ Does(a, j) /\ j.pc = "prune" /\ j.op = o.op /\ j.w = w /\ j.n = o.n
                        /\ j.cap = o.cap /\ j.id = o.id /\ j.was = o.was /\ j.ok = o.ok
  BY <1>0, <1>1, <1>2, GotoIs DEF Positions
<1>4. Owned(a, j) /\ Placed(j)
  BY <1>0, <1>1, <1>2, <1>3 DEF Owned, Placed, Dumping, Archiving, Deleting
<1>5. JobsType'
  BY <1>0, <1>1, <1>2, <1>3, <1>4, Moved DEF Locked
<1>6. /\ data'[w] = Gone /\ dump'[w] = NoDump /\ w \notin sealed' /\ w \notin here' /\ Of(w)' = Of(w) /\ KindOf' = KindOf
  BY <1>1, <1>2 DEF DataType, Of, KindOf
<1>7. Base'
  <2>0. NoDump \in [hash : Time \cup {NoId}, id : Time \cup {NoId}]
    BY DEF NoDump
  <2>1. data' \in [Workloads -> Time \cup {Gone}] /\ dump' \in [Workloads -> [hash : Time \cup {NoId}, id : Time \cup {NoId}]]
    BY <1>1, <1>2, <2>0 DEF DataType
  <2>2. DataType'
    BY <1>1, <1>2, <2>1 DEF DataType
  <2> QED  BY <1>5, <2>2 DEF Base
<1>8. Work(w)'
  <2>1. WorkExact(w)'
    BY <1>6 DEF WorkExact
  <2>2. WorkCovered(w)'
    BY <1>1, <1>2, <1>6, Numbers DEF WorkCovered, Known
  <2>3. WorkFresh(w)'
    BY <1>1, <1>2, <1>6 DEF Work, WorkFresh
  <2> QED  BY <2>1, <2>2, <2>3 DEF Work
<1>9. \A u \in Workloads \ {w} : Aside(u)
  BY <1>1, <1>2 DEF Aside, Of, DataType
<1>10. ASSUME NEW b \in Actors, NEW k \in Jobs, k = job'[b], k.w = w PROVE Job(k)'
  <2>1. CASE b = a
    <3>1. k = j
      BY <1>2, <1>3, <1>10, <2>1 DEF Does, JobsType
    <3> QED  BY <1>1, <1>2, <1>3, <1>6, <3>1 DEF Job, JobExact, JobCovered, JobFresh
  <2>2. CASE b # a
    <3>1. k = job[b] /\ Job(k)
      BY <1>2, <1>3, <1>10, <2>2 DEF Does, JobsType, IInv
    <3>2. JobExact(k)'
      BY <1>1, <1>6, <1>10, <3>1 DEF Job, JobExact, Same
    <3>3. JobCovered(k)'
      BY <1>1, <1>6, <1>10, <3>1 DEF Job, JobCovered, Exact, Known
    <3>4. JobFresh(k)'
      BY <1>1, <1>6, <1>10, <3>1 DEF Job, JobFresh
    <3> QED  BY <3>2, <3>3, <3>4 DEF Job
  <2> QED  BY <2>1, <2>2
<1>11. ASSUME NEW b \in Actors, NEW k \in Jobs, k = job'[b], k.w # w PROVE k = job[b]
  BY <1>2, <1>3, <1>11 DEF Does, JobsType
<1>12. \A b \in Actors, k \in Jobs : k = job'[b] => (k = job[b] /\ k.w # w) \/ Job(k)'
  BY <1>10, <1>11
<1>13. clock <= clock' /\ world' = world
  BY <1>1, <1>2
<1> QED  BY <1>7, <1>8, <1>9, <1>12, <1>13, OneKept

LEMMA PruneDeletedStep ==
  ASSUME IInv, NEW a \in Actors, PruneDeleted(a)
  PROVE  IInv'
<1> DEFINE o == job[a]
<1>0. PICK w \in Workloads : w = job[a].w
  BY Idle
<1>1. /\ o.pc = "prune" /\ Deleted(a)
      /\ UNCHANGED <<here, up, keep, data, mtime, dump, sealed, offline, failed, lock, clock, world, blind, dropped>>
  BY DEF PruneDeleted, disk
<1>2. /\ Base /\ DataType /\ JobsType /\ o \in Jobs /\ Job(o) /\ Work(w)
      /\ clock \in Nat /\ o.id <= clock /\ NoId <= clock /\ w \notin here
  BY <1>0, <1>1, Idle DEF IInv, Job, JobExact
<1>3. backups' \subseteq backups /\ \A b \in backups : b.w # w => b \in backups'
  BY <1>0, RetainedIs DEF PruneDeleted
<1>4. JobsType' /\ \E j \in Jobs : Does(a, j) /\ Job(j)' /\ j.pc \in {"idle", "next"}
  BY <1>1, <1>2, DeletedIs DEF Deleting
<1>5. PICK j \in Jobs : Does(a, j) /\ Job(j)'
  BY <1>4
<1>6. (\A b \in Of(w)' : b \in Of(w)) /\ (\A u \in Workloads \ {w} : Of(u)' = Of(u)) /\ KindOf' = KindOf
  BY <1>1, <1>2, <1>3 DEF Of, KindOf
<1>7. Base'
  <2>1. DataType'
    BY <1>1, <1>2, <1>3 DEF DataType
  <2> QED  BY <1>4, <2>1 DEF Base
<1>8. Work(w)'
  <2>1. WorkExact(w)'
    BY <1>1, <1>2, <1>6 DEF Work, WorkExact, Same
  <2>2. WorkCovered(w)' /\ WorkFresh(w)'
    BY <1>1, <1>2, <1>6 DEF Work, WorkCovered, WorkFresh, Known, Exact
  <2> QED  BY <2>1, <2>2 DEF Work
<1>9. \A u \in Workloads \ {w} : Aside(u)
  BY <1>1, <1>6 DEF Aside
<1>10. ASSUME NEW b \in Actors, NEW k \in Jobs, k = job'[b], k.w = w PROVE Job(k)'
  <2>1. CASE b = a
    <3>1. k = j
      BY <1>2, <1>5, <1>10, <2>1 DEF Does, JobsType
    <3> QED  BY <1>5, <3>1
  <2>2. CASE b # a
    <3>1. k = job[b] /\ Job(k)
      BY <1>2, <1>5, <1>10, <2>2 DEF Does, JobsType, IInv
    <3>2. JobExact(k)'
      BY <1>1, <1>10, <3>1 DEF Job, JobExact, Same
    <3>3. JobCovered(k)'
      BY <1>1, <1>2, <1>6, <1>10, <3>1 DEF Job, JobCovered, Exact, Known
    <3>4. JobFresh(k)'
      BY <1>1, <1>6, <1>10, <3>1 DEF Job, JobFresh
    <3> QED  BY <3>2, <3>3, <3>4 DEF Job
  <2> QED  BY <2>1, <2>2
<1>11. ASSUME NEW b \in Actors, NEW k \in Jobs, k = job'[b], k.w # w PROVE k = job[b] \/ Job(k)'
  <2>1. CASE b = a
    BY <1>2, <1>5, <1>11, <2>1 DEF Does, JobsType
  <2>2. CASE b # a
    BY <1>2, <1>5, <1>11, <2>2 DEF Does, JobsType
  <2> QED  BY <2>1, <2>2
<1>12. \A b \in Actors, k \in Jobs : k = job'[b] => (k = job[b] /\ k.w # w) \/ Job(k)'
  BY <1>10, <1>11
<1>13. clock <= clock' /\ world' = world
  BY <1>1, <1>2
<1> QED  BY <1>7, <1>8, <1>9, <1>12, <1>13, OneKept

---------------------------------------------------------------------------
\* The invariant holds in every state.

LEMMA InitHolds == Init => IInv
<1> SUFFICES ASSUME Init PROVE IInv
  OBVIOUS
<1>0. /\ here = Workloads /\ up = Workloads /\ keep = {} /\ data = [w \in Workloads |-> 0]
      /\ mtime = [w \in Workloads |-> 0] /\ dump = [w \in Workloads |-> NoDump]
      /\ sealed = {} /\ offline = {} /\ backups = {} /\ failed = [w \in Workloads |-> "no"]
      /\ lock = [w \in Workloads |-> Free] /\ job = [a \in Actors |-> NoJob] /\ clock = 0
      /\ world \in Worlds /\ blind = {} /\ dropped = {}
  BY DEF Init
<1>1. DataType
  <2>1. NoDump \in [hash : Time \cup {NoId}, id : Time \cup {NoId}]
    BY DEF NoDump
  <2> QED  BY <1>0, <2>1, Numbers DEF DataType
<1>2. JobsType
  <2>1. \A a \in Actors : job[a] = NoJob /\ job[a].pc \notin Locked
    BY <1>0, NoJobIs DEF Locked
  <2>2. \A a \in Actors : Owned(a, job[a]) /\ Placed(job[a])
    BY <2>1, NoJobIs
  <2>3. lock \in [Workloads -> Actors \cup {Free}] /\ job \in [Actors -> Jobs]
    BY <1>0, NoJobIs
  <2>4. \A a \in Actors, w \in Workloads : lock[w] = a <=> job[a].pc \in Locked /\ job[a].w = w
    BY <1>0, <2>1, Names
  <2> QED  BY <2>2, <2>3, <2>4 DEF JobsType
<1>3. ASSUME NEW w \in Workloads PROVE Work(w)
  <2>1. Of(w) = {} /\ data[w] = 0 /\ mtime[w] = 0 /\ dump[w] = NoDump /\ w \notin sealed
    BY <1>0 DEF Of
  <2> QED  BY <1>0, <2>1, Numbers DEF Work, WorkExact, WorkCovered, WorkFresh, Known
<1>4. ASSUME NEW a \in Actors PROVE Job(job[a])
  <2>1. job[a] = NoJob
    BY <1>0
  <2> QED  BY <1>0, <2>1, NoJobIs, Numbers DEF Job, JobExact, JobCovered, JobFresh
<1> QED  BY <1>1, <1>2, <1>3, <1>4 DEF IInv, Base

LEMMA StepKeeps ==
  ASSUME IInv, NEW a \in Actors, Step(a)
  PROVE  IInv'
<1>1. CASE SweepNext(a) \/ DrainNext(a) \/ Acquire(a) \/ AcquireAgain(a)
  BY <1>1, SweepNextStep, DrainNextStep, AcquireStep, AcquireAgainStep
<1>2. CASE Export(a) \/ RunOffline(a) \/ OfflineDone(a) \/ ExportFails(a)
  BY <1>2, ExportStep, RunOfflineStep, OfflineDoneStep, ExportFailsStep
<1>3. CASE KeepNothing(a) \/ Put(a) \/ PutFails(a) \/ Note(a) \/ NoteFails(a) \/ SealOffline(a)
  BY <1>3, KeepNothingStep, PutStep, PutFailsStep, NoteStep, NoteFailsStep, SealOfflineStep
<1>4. CASE Suspend(a) \/ SealReap(a)
  BY <1>4, SuspendStep, SealReapStep
<1>5. CASE Quiesce(a) \/ Stamp(a) \/ Pack(a) \/ Upload(a) \/ ArchiveFails(a) \/ Resume(a)
  BY <1>5, QuiesceStep, StampStep, PackStep, UploadStep, ArchiveFailsStep, ResumeStep
<1>6. CASE Wipe(a) \/ Load(a) \/ BootAfter(a)
  BY <1>6, WipeStep, LoadStep, BootAfterStep
<1>7. CASE DeleteStop(a) \/ DeleteRecord(a) \/ Reclaim(a) \/ PruneDeleted(a)
  BY <1>7, DeleteStopStep, DeleteRecordStep, ReclaimStep, PruneDeletedStep
<1> QED  BY <1>1, <1>2, <1>3, <1>4, <1>5, <1>6, <1>7 DEF Step

LEMMA StutterKeeps ==
  ASSUME IInv, UNCHANGED vars
  PROVE  IInv'
<1>0. /\ Base /\ clock \in Nat
      /\ UNCHANGED <<here, up, keep, data, mtime, dump, sealed, offline, backups, failed, lock, job, clock,
                     world, blind, dropped>>
  BY Plain DEF IInv, vars, disk
<1>1. Base'
  BY <1>0, JobsSame, DataKept DEF Base
<1> QED  BY <1>0, <1>1, AsideAll, StillKept

LEMMA NextKeeps == IInv /\ [Next]_vars => IInv'
<1> SUFFICES ASSUME IInv, [Next]_vars PROVE IInv'
  OBVIOUS
<1>1. ASSUME NEW w \in Workloads,
             \/ Wake(w) \/ Write(w) \/ OfflineExits(w) \/ SetKeepWarm(w) \/ ReapStart(w) \/ RetryTime(w)
      PROVE  IInv'
  BY <1>1, WakeStep, WriteStep, OfflineExitsStep, SetKeepWarmStep, ReapStartStep, RetryTimeStep
<1>2. ASSUME NEW w \in Workloads, NEW a \in Clients, NEW op \in Calls, Call(a, op, w) PROVE IInv'
  BY <1>2, CallStep
<1>3. ASSUME NEW b \in backups, DeleteBackup(b) \/ (\E a \in Clients : CallRestore(a, b)) PROVE IInv'
  BY <1>3, DeleteBackupStep, CallRestoreStep
<1>4. CASE SweepStart \/ EvictStart \/ EvictNext
  BY <1>4, SweepStartStep, EvictStartStep, EvictNextStep
<1>5. ASSUME NEW a \in Actors, Step(a) PROVE IInv'
  BY <1>5, StepKeeps
<1>6. CASE Crash
  BY <1>6, CrashStep
<1>7. CASE UNCHANGED vars
  BY <1>7, StutterKeeps
<1> QED  BY <1>1, <1>2, <1>3, <1>4, <1>5, <1>6, <1>7 DEF Next

LEMMA Invariance == Spec => []IInv
<1> QED  BY InitHolds, NextKeeps, PTL DEF Spec

---------------------------------------------------------------------------
\* The newest of some backups is one of them.
LEMMA NewestIs ==
  ASSUME NEW S \in SUBSET Backup, S # {}
  PROVE  Newest(S) \in S /\ \A c \in S : c.at <= Newest(S).at
<1> DEFINE T == {MaxClock - b.at : b \in S}
<1>0. MaxClock \in Nat /\ \A b \in S : b.at \in Nat /\ b.at \in Int /\ MaxClock - b.at \in Nat
  <2>1. \A b \in S : b.at \in 0..MaxClock
    BY DEF Backup, Time
  <2> QED  BY <2>1, BoundsAssumption
<1>1. T \subseteq Nat /\ T # {}
  BY <1>0
<1>2. PICK d \in T : \A e \in T : <<e, d>> \notin OpToRel(<, Nat)
  <2> HIDE DEF T
  <2> QED  BY ONLY <1>1, WFMin, NatLessThanWellFounded, Zenon
<1>3. \A e \in T : ~(e < d)
  <2> SUFFICES ASSUME NEW e \in T, e < d PROVE FALSE
    OBVIOUS
  <2>1. e \in Nat /\ d \in Nat /\ <<e, d>> \notin OpToRel(<, Nat)
    BY <1>1, <1>2, Zenon
  <2> QED  BY <2>1, Zenon DEF OpToRel
<1>4. PICK b \in S : d = MaxClock - b.at
  OBVIOUS
<1>5. \A c \in S : c.at <= b.at
  <2> SUFFICES ASSUME NEW c \in S PROVE c.at <= b.at
    OBVIOUS
  <2>1. ~(MaxClock - c.at < MaxClock - b.at)
    BY <1>3, <1>4
  <2> QED  BY <1>0, <2>1
<1> QED  BY <1>5 DEF Newest

---------------------------------------------------------------------------
\* What the evictor counts on: its victim's data is in the store while it removes
\* the workload, although the others go on with their backups meanwhile.

\* Where a job has an answer in hand.
Holding == {"store", "note", "pack", "upload", "load"}
Noted(w) == KindOf[w] = "dump" /\ w \in here /\ dump[w].hash \in Time \ {0}

\* Every version is as old as the clock or older, and a dump put beside a newer one
\* that differs from it is not what the data dir holds.
WorkNew(w) ==
    /\ data[w] <= clock /\ dump[w].hash <= clock /\ \A b \in Of(w) : b.data <= clock
    /\ Noted(w) => \A b \in Of(w) :
          b.at > dump[w].id /\ b.data # dump[w].hash => data[w] # dump[w].hash
JobNew(j) ==
    /\ j.cap <= clock
    /\ StampFirst /\ j.pc \in {"pack", "upload"} => \A b \in Of(j.w) : b.at < j.id
    /\ j.pc = "store" /\ Noted(j.w) /\ j.cap # dump[j.w].hash => data[j.w] # dump[j.w].hash
    /\ j.pc = "note" /\ j.w \in here /\ j.cap # 0 =>
          \A b \in Of(j.w) : b.at > j.id /\ b.data # j.cap => data[j.w] # j.cap
News ==
    /\ \A a \in Actors : job[a].op \in {"backup", "reset"} => a \in Clients
    /\ \A a, b \in Actors :
          job[a].pc \in {"reclaim", "prune"} /\ job[b].pc \in {"reclaim", "prune"} /\ a # b
             => job[a].w # job[b].w
    /\ \A w \in Workloads : WorkNew(w)
    /\ \A a \in Actors : JobNew(job[a])
    /\ IsFiniteSet(backups)

\* The victims whose data must be in the store.
Counted(w) == BackupBeforeEvict /\ KindOf[w] # "none" /\ w \notin blind
Relied(w)  == Counted(w) /\ data[w] # Gone /\ (KindOf[w] = "dump" => data[w] # 0)

\* The newest backup holds what the data dir does; or one that does outlives what
\* the calls under way may still put.
Newer(w, g) == {c \in Of(w) : c.at > g.at}
Top(w) == \E g \in Of(w) : g.data = data[w] /\ \A c \in Of(w) : c.at <= g.at
Threat(w, j) == /\ j.w = w /\ j.op \in {"backup", "reset"}
                /\ j.pc \in {"want", "export", "offline", "store"}
Threats(w) == {c \in Clients : Threat(w, job[c])}
Few(w) == \E g \in Of(w) : /\ g.data = data[w]
                           /\ Cardinality(Newer(w, g)) + Cardinality(Threats(w)) < BackupRetain

\* The evictor's own job, and the jobs beside it once it leaves its lock.
Made(j) == j.pc \in {"note", "seal", "gone", "record"} \/ (j.pc = "resume" /\ j.ok)
Own(j) ==
    /\ Relied(j.w) /\ j.w \in here /\ j.pc \in {"store", "upload"} => j.cap = data[j.w]
    /\ Relied(j.w) /\ j.w \in here /\ j.w \notin dropped /\ Made(j) => Top(j.w)
    /\ Relied(j.w) /\ j.w \notin dropped /\ j.pc = "reclaim" => Few(j.w)
Leaving(j) == j.pc = "reclaim" \/ (j.pc \in {"gone", "record"} /\ j.w \in here)
Beside(w, j) ==
    /\ Counted(w) => j.pc # "load"
    /\ Relied(w) /\ j.pc = "upload" => j.cap = data[w]
    /\ Relied(w) /\ j.pc = "store" => j.cap = data[w] \/ (j.cap = 0 /\ w \notin here)
Safe ==
    job[Evictor].op = "evict" =>
      /\ Own(job[Evictor])
      /\ Leaving(job[Evictor]) =>
            \A a \in Actors \ {Evictor} : job[a].w = job[Evictor].w => Beside(job[Evictor].w, job[a])

---------------------------------------------------------------------------
\* What a step makes of its actor's job.
Turn(a) ==
    LET o == job[a]
        p == job'[a]
    IN  /\ \A b \in Actors \ {a} : job'[b] = job[b]
        /\ p.op \in {"backup", "reset"} => p.op = o.op \/ a \in Clients
        /\ p.cap \in {0, o.cap, data[o.w]}
        /\ p.pc \in {"reclaim", "prune"} => p.w = o.w /\ (o.pc = "reclaim" \/ o.w \in here)
        /\ p.pc \in Holding => p.w = o.w /\ o.pc \in Locked
        /\ p.pc = "store" => p.cap \in Exported(o.w) /\ (Export(a) \/ OfflineDone(a))
        /\ p.pc = "note" => KeepNothing(a) \/ Put(a)
        /\ p.pc = "pack" => Quiesce(a) \/ Stamp(a)
        /\ p.pc = "upload" => p.cap = data[o.w] /\ Pack(a)
        /\ p.pc = "load" => ~Picked(o.w) \/ o.w \in blind'
        /\ p.pc = "seal" => Note(a)
        /\ p.pc = "resume" /\ p.ok => Upload(a)
        /\ p.pc = "gone" /\ p.op = "evict" => \/ EvictNext \/ Acquire(a) \/ Note(a)
                                              \/ SealOffline(a) \/ Resume(a)
        /\ p.pc = "record" => DeleteStop(a)
        /\ p.pc = "reclaim" => DeleteRecord(a)
        /\ \A u \in Workloads : Threat(u, p) => Threat(u, o) \/ u \in here

LEMMA TurnOf ==
  ASSUME IInv, NEW a \in Actors, Step(a)
  PROVE  Turn(a)
<1> DEFINE o == job[a]
<1>0. /\ job \in [Actors -> Jobs] /\ o \in [op : Ops, pc : Positions, w : Workloads, todo : SUBSET Workloads,
         n : 0..BackupSweepBatch, cap : Time, id : Time \cup {NoId}, was : BOOLEAN, ok : BOOLEAN]
      /\ Owned(a, o) /\ Placed(o) /\ JobsType
  BY Idle DEF IInv, Base, JobsType, Jobs
<1>1. CASE SweepNext(a) \/ DrainNext(a)
  <2>1. CASE End(a)
    BY <1>0, <2>1 DEF Turn, Holding, Locked, Threat, Exported, End, NoJob
  <2>2. CASE ~End(a)
    <3>1. o.op \in {"sweep", "drain"} /\ o.pc = "next"
      BY <1>1 DEF SweepNext, DrainNext
    <3>2. PICK w \in o.todo : \/ job' = [job EXCEPT ![a].todo = @ \ {w}]
                              \/ job' = [job EXCEPT ![a].todo = @ \ {w}, ![a].w = w, ![a].pc = "want"]
      BY <1>1, <2>2 DEF SweepNext, DrainNext
    <3>3. /\ \A b \in Actors \ {a} : job'[b] = job[b]
          /\ job'[a].pc \in {"next", "want"} /\ job'[a].op = o.op /\ job'[a].cap = o.cap
      BY <1>0, <3>1, <3>2
    <3> QED  BY <3>1, <3>3 DEF Turn, Holding, Locked, Threat
  <2> QED  BY <2>1, <2>2
<1>2. CASE Acquire(a)
  <2>1. CASE DailyDump(a)
    <3>1. o.op \in {"sweep", "drain", "evict"} /\ o.pc = "want"
      BY <1>2, <2>1 DEF DailyDump, Acquire
    <3>2. PICK p \in {"export", "next", "gone"} : Goto(a, p)
      BY <2>1, <3>1, AfterIs DEF DailyDump, Take, Goto
    <3> QED  BY <1>0, <1>2, <3>1, <3>2 DEF Turn, Holding, Locked, Threat, Goto
  <2>2. CASE ~DailyDump(a)
    <3>1. PICK p \in {"export", "quiesce", "suspend", "wipe"} : Goto(a, p)
      BY <1>2, <2>2 DEF Acquire, Take
    <3>2. o.pc = "want"
      BY <1>2 DEF Acquire
    <3> QED  BY <1>0, <1>2, <3>1, <3>2 DEF Turn, Holding, Locked, Threat, Goto
  <2> QED  BY <2>1, <2>2
<1>3. CASE OfflineDone(a)
  <2>1. PICK v \in Exported(o.w) : job' = [job EXCEPT ![a].pc = "store", ![a].cap = v]
    BY <1>3 DEF OfflineDone
  <2>2. v \in {0, data[o.w]}
    BY <2>1 DEF Exported
  <2>3. o.pc = "offline"
    BY <1>3 DEF OfflineDone
  <2>4. /\ \A b \in Actors \ {a} : job'[b] = job[b]
        /\ job'[a].pc = "store" /\ job'[a].op = o.op /\ job'[a].cap = v /\ job'[a].w = o.w
    BY <1>0, <2>1
  <2> QED  BY <1>3, <2>1, <2>2, <2>3, <2>4 DEF Turn, Holding, Locked, Threat
<1>4. CASE ArchiveFails(a)
  <2>1. o.pc \in {"pack", "upload"} /\ Goto(a, "resume")
    BY <1>4 DEF ArchiveFails
  <2>2. ~o.ok
    BY <1>0, <2>1 DEF Placed
  <2> QED  BY <1>0, <2>1, <2>2 DEF Turn, Holding, Locked, Threat, Goto
<1>5. CASE AcquireAgain(a)
  BY <1>0, <1>5 DEF Turn, Holding, Locked, Threat, Exported, AcquireAgain, Take, Goto
<1>6. CASE Export(a)
  BY <1>0, <1>6 DEF Turn, Holding, Locked, Threat, Exported, Export
<1>7. CASE RunOffline(a)
  BY <1>0, <1>7 DEF Turn, Holding, Locked, Threat, Exported, RunOffline, Goto
<1>8. CASE KeepNothing(a)
  BY <1>0, <1>8 DEF Turn, Holding, Locked, Threat, Exported, KeepNothing
<1>9. CASE Put(a)
  BY <1>0, <1>9 DEF Turn, Holding, Locked, Threat, Exported, Put
<1>10. CASE Suspend(a)
  BY <1>0, <1>10 DEF Turn, Holding, Locked, Threat, Exported, Suspend, End, NoJob, Goto
<1>11. CASE SealReap(a)
  BY <1>0, <1>11 DEF Turn, Holding, Locked, Threat, Exported, SealReap, End, NoJob
<1>12. CASE Quiesce(a)
  BY <1>0, <1>12 DEF Turn, Holding, Locked, Threat, Exported, Quiesce
<1>13. CASE Stamp(a)
  BY <1>0, <1>13 DEF Turn, Holding, Locked, Threat, Exported, Stamp
<1>14. CASE Pack(a)
  BY <1>0, <1>14 DEF Turn, Holding, Locked, Threat, Exported, Pack
<1>15. CASE Upload(a)
  BY <1>0, <1>15 DEF Turn, Holding, Locked, Threat, Exported, Upload
<1>16. CASE Wipe(a)
  BY <1>0, <1>16 DEF Turn, Holding, Locked, Threat, Exported, Wipe, Goto
<1>17. CASE Load(a)
  BY <1>0, <1>17 DEF Turn, Holding, Locked, Threat, Exported, Load, Goto, End, NoJob
<1>18. CASE BootAfter(a)
  BY <1>0, <1>18 DEF Turn, Holding, Locked, Threat, Exported, BootAfter, End, NoJob
<1>19. CASE DeleteStop(a)
  BY <1>0, <1>19 DEF Turn, Holding, Locked, Threat, Exported, DeleteStop, Goto
<1>20. CASE DeleteRecord(a)
  BY <1>0, <1>20 DEF Turn, Holding, Locked, Threat, Exported, DeleteRecord, Goto, Deleted, End,
     NoJob
<1>21. CASE Reclaim(a)
  BY <1>0, <1>21 DEF Turn, Holding, Locked, Threat, Exported, Reclaim, Goto
<1>22. CASE PruneDeleted(a)
  BY <1>0, <1>22 DEF Turn, Holding, Locked, Threat, Exported, PruneDeleted, Deleted, Goto, End,
     NoJob
<1>23. CASE \E ok \in BOOLEAN :
          /\ BackupOver(a, ok) /\ o.pc \in Dumping \cup Archiving /\ world' = world
          /\ ok = FALSE \/ Note(a) \/ SealOffline(a) \/ Resume(a)
  <2>0. PICK ok \in BOOLEAN : BackupOver(a, ok) /\ (ok = FALSE \/ Note(a) \/ SealOffline(a) \/ Resume(a))
    BY <1>23
  <2>1. \E j \in Jobs : /\ Does(a, j) /\ j.was = FALSE /\ (j.op # "none" => j.w = job[a].w /\ j.op = job[a].op)
                        /\ j.id = NoId /\ j.cap = 0 /\ (j.ok => ok /\ j.op = "reap")
                        /\ IF job[a].op = "reap" THEN j.pc = "suspend" /\ j.op = "reap" /\ lock' = lock
                           ELSE /\ j.pc \in {"idle", "next", "again", "gone"}
                                /\ j.pc = "gone" => ok /\ j.op = "evict"
                                /\ j.pc = "again" => ok
                                /\ lock' = [lock EXCEPT ![job[a].w] = Free]
    BY <1>0, <1>23, <2>0, OverIs
  <2>2. PICK j \in Jobs : /\ Does(a, j) /\ (j.op # "none" => j.op = o.op) /\ j.cap = 0
                          /\ j.pc \in {"idle", "next", "again", "gone", "suspend"} /\ (j.pc = "gone" => ok)
    BY <2>1
  <2> QED  BY <1>0, <2>0, <2>2 DEF Does, Turn, Holding, Threat
<1>24. CASE Note(a) /\ Goto(a, "seal")
  BY <1>0, <1>24 DEF Turn, Holding, Locked, Threat, Exported, Goto, Note
<1>25. CASE ExportFails(a) \/ PutFails(a) \/ NoteFails(a) \/ SealOffline(a) \/ Resume(a)
  <2>1. \E ok \in BOOLEAN : BackupOver(a, ok) /\ (ok = FALSE \/ SealOffline(a) \/ Resume(a))
    BY <1>0, <1>25 DEF ExportFails, PutFails, NoteFails, SealOffline, Resume, DumpOver
  <2>2. o.pc \in Dumping \cup Archiving /\ world' = world
    BY <1>25 DEF ExportFails, PutFails, NoteFails, SealOffline, Resume, Dumping, Archiving
  <2> QED  BY <2>1, <2>2, <1>23
<1>26. CASE Note(a)
  <2>1. CASE Goto(a, "seal")
    BY <1>26, <2>1, <1>24
  <2>2. CASE ~Goto(a, "seal")
    <3>1. BackupOver(a, TRUE) /\ o.pc \in Dumping \cup Archiving /\ world' = world
      BY <1>26, <2>2 DEF Note, DumpOver, Dumping
    <3>2. \E ok \in BOOLEAN : BackupOver(a, ok) /\ (ok = FALSE \/ Note(a))
      BY <1>26, <3>1
    <3> QED  BY <3>1, <3>2, <1>23
  <2> QED  BY <2>1, <2>2
<1> QED
  BY <1>1, <1>2, <1>3, <1>4, <1>5, <1>6, <1>7, <1>8, <1>9, <1>10, <1>11, <1>12, <1>13,
     <1>14, <1>15, <1>16, <1>17, <1>18, <1>19, <1>20, <1>21, <1>22, <1>23, <1>24, <1>25,
     <1>26 DEF Step

\* A turn that leaves nothing in hand.
Begun(a) == Turn(a) /\ job'[a].pc \notin Holding

\* Starting a job, and the evictor's round.
LEMMA TurnStarts ==
  ASSUME IInv
  PROVE  /\ \A a \in Clients, op \in Calls, w \in Workloads : Call(a, op, w) => Begun(a)
         /\ \A a \in Clients, b \in backups : CallRestore(a, b) => Begun(a)
         /\ \A w \in Workloads : ReapStart(w) => Begun(Reaper)
         /\ SweepStart => Begun(Sweeper)
         /\ EvictStart => Begun(Evictor)
         /\ EvictNext => Begun(Evictor)
<1>0. /\ job \in [Actors -> Jobs] /\ \A a \in Actors : job[a] \in Jobs
  BY DEF IInv, Base, JobsType
<1>1. ASSUME NEW a \in Actors, NEW j, job' = [job EXCEPT ![a] = j],
             j.cap = 0, j.pc \in {"idle", "want", "next", "again", "gone"},
             j.pc = "gone" => j.op # "evict",
             j.op \in {"backup", "reset"} => a \in Clients /\ j.w \in here
      PROVE  Begun(a)
  <2>1. job'[a] = j /\ \A b \in Actors \ {a} : job'[b] = job[b]
    BY <1>0, <1>1
  <2> QED  BY <1>1, <2>1 DEF Begun, Turn, Holding, Threat
<1>2. ASSUME NEW a \in Clients, NEW op \in Calls, NEW w \in Workloads, Call(a, op, w) PROVE Begun(a)
  <2> DEFINE t == IF op = "drain" THEN BackedUp ELSE {}
             j == [NoJob EXCEPT !.op = op, !.w = w, !.pc = FirstAt[op], !.todo = t]
  <2>1. op \in DOMAIN FirstAt /\ w \in here /\ job' = [job EXCEPT ![a] = j]
    BY <1>2 DEF Call
  <2>2. FirstAt[op] \in {"want", "gone", "next", "again"} /\ (FirstAt[op] = "gone" => op # "evict")
    BY <2>1 DEF FirstAt
  <2>3. j.op = op /\ j.pc = FirstAt[op] /\ j.w = w /\ j.cap = 0
    BY DEF NoJob
  <2> HIDE DEF j
  <2> QED  BY <1>1, <2>1, <2>2, <2>3, Names
<1>3. ASSUME NEW a \in Clients, NEW b \in backups, CallRestore(a, b) PROVE Begun(a)
  <2> DEFINE j == [NoJob EXCEPT !.op = "restore", !.pc = "want", !.w = b.w, !.id = b.at]
  <2>1. job' = [job EXCEPT ![a] = j]
    BY <1>3 DEF CallRestore
  <2>2. j.op = "restore" /\ j.pc = "want" /\ j.cap = 0
    BY DEF NoJob
  <2> HIDE DEF j
  <2> QED  BY <1>1, <2>1, <2>2, Names
<1>4. ASSUME NEW w \in Workloads, ReapStart(w) PROVE Begun(Reaper)
  <2> DEFINE j == [NoJob EXCEPT !.op = "reap", !.pc = "want", !.w = w]
  <2>1. job' = [job EXCEPT ![Reaper] = j]
    BY <1>4 DEF ReapStart
  <2>2. j.op = "reap" /\ j.pc = "want" /\ j.cap = 0
    BY DEF NoJob
  <2> HIDE DEF j
  <2> QED  BY <1>1, <2>1, <2>2, Names
<1>5. ASSUME SweepStart PROVE Begun(Sweeper)
  <2> DEFINE j == [NoJob EXCEPT !.op = "sweep", !.pc = "next", !.todo = BackedUp]
  <2>1. job' = [job EXCEPT ![Sweeper] = j]
    BY <1>5 DEF SweepStart
  <2>2. j.op = "sweep" /\ j.pc = "next" /\ j.cap = 0
    BY DEF NoJob
  <2> HIDE DEF j
  <2> QED  BY <1>1, <2>1, <2>2, Names
<1>6. ASSUME EvictStart PROVE Begun(Evictor)
  <2>1. PICK v : job' = [job EXCEPT ![Evictor] = [NoJob EXCEPT !.op = "evict", !.pc = "next", !.todo = v]]
    BY <1>6 DEF EvictStart
  <2> DEFINE j == [NoJob EXCEPT !.op = "evict", !.pc = "next", !.todo = v]
  <2>2. job' = [job EXCEPT ![Evictor] = j] /\ j.op = "evict" /\ j.pc = "next" /\ j.cap = 0
    BY <2>1 DEF NoJob
  <2> HIDE DEF j
  <2> QED  BY <1>1, <2>2, Names
<1>7. ASSUME EvictNext PROVE Begun(Evictor)
  <2> DEFINE o == job[Evictor]
  <2>0. o \in Jobs /\ o.op = "evict" /\ o.pc = "next" /\ Evictor \in Actors
    BY <1>0, <1>7, Names DEF EvictNext
  <2>1. CASE End(Evictor)
    <3>1. job' = [job EXCEPT ![Evictor] = NoJob]
      BY <2>1 DEF End
    <3> QED  BY <1>1, <2>0, <3>1, NoJobIs
  <2>2. CASE ~End(Evictor)
    <3>1. PICK w \in o.todo, p \in {"next", "gone", "want"} :
            job' = [job EXCEPT ![Evictor].todo = @ \ {w}, ![Evictor].w = w, ![Evictor].pc = p]
      BY <1>7, <2>2 DEF EvictNext
    <3>2. /\ \A b \in Actors \ {Evictor} : job'[b] = job[b]
          /\ job'[Evictor].pc = p /\ job'[Evictor].op = "evict" /\ job'[Evictor].cap = o.cap
      BY <1>0, <2>0, <3>1 DEF Jobs
    <3> QED  BY <1>7, <2>0, <3>1, <3>2 DEF Begun, Turn, Holding, Threat
  <2> QED  BY <2>1, <2>2
<1> QED  BY <1>2, <1>3, <1>4, <1>5, <1>6, <1>7

---------------------------------------------------------------------------
\* Which versions are new.

\* A workload that gets no backup, no dump state and no old version.
Steady(u) ==
    /\ Of(u)' \subseteq Of(u) /\ (u \in here' => u \in here)
    /\ data'[u] \in {data[u], Gone} \/ (data'[u] = clock' /\ clock < clock')
    /\ dump'[u] \in {dump[u], NoDump}

LEMMA SteadyKept ==
  ASSUME Base, Base', NEW u \in Workloads, Steady(u), WorkNew(u), world' = world, clock <= clock'
  PROVE  /\ WorkNew(u)'
         /\ \A j \in Jobs : j.w = u /\ JobNew(j) => JobNew(j)'
<1>0. /\ clock \in Nat /\ clock' \in Nat /\ dump[u].hash \in Int /\ data[u] \in Int /\ KindOf' = KindOf
      /\ \A b \in Of(u) : b.at \in Nat /\ b.data \in Nat
      /\ Gone \in Int /\ Gone < 0 /\ NoDump.hash = NoId /\ NoId \in Int /\ NoId < 0 /\ NoId \notin Time
      /\ \A t \in Time : t \in Nat
  BY Plain, Numbers DEF Of, KindOf
<1>1. Noted(u)' => Noted(u) /\ dump'[u] = dump[u]
  BY <1>0 DEF Steady, Noted
<1>2. data'[u] <= clock' /\ dump'[u].hash <= clock' /\ \A b \in Of(u)' : b.data <= clock'
  BY <1>0 DEF Steady, WorkNew
<1>3. \A v \in Int : v <= clock /\ v # Gone /\ data[u] # v => data'[u] # v
  BY <1>0 DEF Steady
<1>4. WorkNew(u)'
  <2> SUFFICES ASSUME Noted(u)', NEW b \in Of(u)', b.at > dump'[u].id, b.data # dump'[u].hash
               PROVE  data'[u] # dump'[u].hash
    BY <1>2 DEF WorkNew
  <2>1. b \in Of(u) /\ data[u] # dump[u].hash
    BY <1>1 DEF WorkNew, Steady
  <2>2. dump[u].hash # Gone
    BY <1>0, <1>1 DEF Noted
  <2> QED  BY <1>0, <1>1, <1>3, <2>1, <2>2 DEF WorkNew
<1>5. ASSUME NEW j \in Jobs, j.w = u, JobNew(j) PROVE JobNew(j)'
  <2>0. j.cap \in Nat /\ j.cap <= clock /\ j.cap # Gone
    BY <1>0, <1>5, Plain DEF JobNew
  <2>1. j.cap <= clock'
    BY <1>0, <2>0
  <2>2. StampFirst /\ j.pc \in {"pack", "upload"} => \A b \in Of(u)' : b.at < j.id
    BY <1>5 DEF JobNew, Steady
  <2>3. j.pc = "store" /\ Noted(u)' /\ j.cap # dump'[u].hash => data'[u] # dump'[u].hash
    <3> SUFFICES ASSUME j.pc = "store", Noted(u)', j.cap # dump'[u].hash
                 PROVE  data'[u] # dump'[u].hash
      OBVIOUS
    <3>1. data[u] # dump[u].hash
      BY <1>1, <1>5 DEF JobNew
    <3>2. dump[u].hash # Gone
      BY <1>0, <1>1 DEF Noted
    <3> QED  BY <1>0, <1>1, <1>3, <3>1, <3>2 DEF WorkNew
  <2>4. j.pc = "note" /\ u \in here' /\ j.cap # 0 =>
          \A b \in Of(u)' : b.at > j.id /\ b.data # j.cap => data'[u] # j.cap
    BY <1>3, <1>5, <2>0 DEF JobNew, Steady
  <2> QED  BY <1>5, <2>1, <2>2, <2>3, <2>4 DEF JobNew
<1> QED  BY <1>4, <1>5

\* Where a job says nothing of what is new.
LEMMA NothingNew ==
  ASSUME NEW j, j.pc \notin {"store", "note", "pack", "upload"}, j.cap <= clock'
  PROVE  JobNew(j)'
  BY DEF JobNew

\* What a step does to the data, the dump states and the store, and to its job.
LEMMA NewsKept ==
  ASSUME IInv, IInv', News, NEW a \in Actors, Turn(a), world' = world, clock <= clock', here' \subseteq here,
         NEW x, backups' \subseteq backups \cup {x}, NEW k, k = job'[a], JobNew(k)',
         \A u \in Workloads : Steady(u) \/ (job[a].pc \in Locked /\ u = job[a].w /\ WorkNew(u)')
  PROVE  News'
<1>0. /\ Base /\ Base' /\ JobsType /\ job' \in [Actors -> Jobs]
      /\ \A b \in Actors : job[b] \in Jobs /\ job[b].w \in Workloads /\ JobExact(job[b])
  BY DEF IInv, Base, JobsType, Jobs, Job
<1>1. \A b \in Actors : job'[b].op \in {"backup", "reset"} => b \in Clients
  BY DEF Turn, News
<1>2. ASSUME NEW b \in Actors, NEW c \in Actors, job'[b].pc \in {"reclaim", "prune"},
             job'[c].pc \in {"reclaim", "prune"}, b # c
      PROVE  job'[b].w # job'[c].w
  <2>1. \A d \in Actors : job'[d].pc \in {"reclaim", "prune"} =>
            /\ d # a => job'[d] = job[d]
            /\ d = a => /\ job'[d].w = job[d].w
                        /\ job[d].pc = "reclaim" \/ job[d].w \in here
    BY DEF Turn
  <2>2. \A d \in Actors : job[d].pc \in {"reclaim", "prune"} => job[d].w \notin here
    BY <1>0 DEF JobExact
  <2>3. job[b].pc \in {"reclaim", "prune"} /\ job[c].pc \in {"reclaim", "prune"} => job[b].w # job[c].w
    BY <1>2 DEF News
  <2>4. job'[b].w = job[b].w /\ job'[c].w = job[c].w
    BY <1>2, <2>1
  <2>5. (b # a => job[b].pc \in {"reclaim", "prune"} /\ job[b].w \notin here)
        /\ (c # a => job[c].pc \in {"reclaim", "prune"} /\ job[c].w \notin here)
    BY <1>2, <2>1, <2>2
  <2>6. CASE b = a
    BY <1>2, <2>1, <2>3, <2>4, <2>5, <2>6
  <2>7. CASE c = a
    BY <1>2, <2>1, <2>3, <2>4, <2>5, <2>7
  <2> QED  BY <1>2, <2>3, <2>4, <2>5, <2>6, <2>7
<1>3. \A u \in Workloads : WorkNew(u)'
  BY <1>0, SteadyKept DEF News
<1>4. ASSUME NEW b \in Actors, NEW i, i = job'[b] PROVE JobNew(i)'
  <2>1. CASE b = a
    BY <1>4, <2>1
  <2>2. CASE b # a
    <3>1. i = job[b] /\ i \in Jobs /\ JobNew(i) /\ i.w \in Workloads
      BY <1>0, <1>4, <2>2 DEF Turn, News
    <3>2. CASE Steady(i.w)
      BY <1>0, <3>1, <3>2, SteadyKept DEF News
    <3>3. CASE ~Steady(i.w)
      <4>1. i.pc \notin Locked
        BY <1>0, <2>2, <3>1, <3>3, Alone
      <4>2. i.cap <= clock'
        BY <1>0, <3>1, Plain DEF JobNew
      <4> QED  BY <4>1, <4>2, NothingNew DEF Locked
    <3> QED  BY <3>2, <3>3
  <2> QED  BY <2>1, <2>2
<1>5. \A b \in Actors : JobNew(job[b])'
  BY <1>4
<1>6. IsFiniteSet(backups')
  BY FS_AddElement, FS_Subset DEF News
<1> QED  BY <1>1, <1>2, <1>3, <1>5, <1>6 DEF News

LEMMA Frame ==
  ASSUME NEW a \in Actors, Step(a), clock \in Nat
  PROVE  world' = world /\ clock <= clock' /\ here' \subseteq here
<1>1. CASE SweepNext(a) \/ DrainNext(a) \/ Acquire(a) \/ AcquireAgain(a) \/ Export(a) \/ RunOffline(a)
           \/ OfflineDone(a) \/ ExportFails(a) \/ KeepNothing(a) \/ PutFails(a) \/ Note(a) \/ NoteFails(a)
           \/ SealOffline(a) \/ Suspend(a) \/ SealReap(a)
  <2>1. UNCHANGED <<world, clock, here>>
    BY <1>1 DEF SweepNext, DrainNext, Acquire, AcquireAgain, Export, RunOffline, OfflineDone, ExportFails,
                KeepNothing, PutFails, Note, NoteFails, SealOffline, Suspend, SealReap
  <2> QED  BY <2>1
<1>2. CASE Quiesce(a) \/ Pack(a) \/ ArchiveFails(a) \/ Resume(a) \/ Load(a) \/ BootAfter(a)
           \/ DeleteStop(a) \/ DeleteRecord(a) \/ Reclaim(a) \/ PruneDeleted(a)
  BY <1>2 DEF Quiesce, Pack, ArchiveFails, Resume, Load, BootAfter, DeleteStop, DeleteRecord, Reclaim,
              PruneDeleted
<1>3. CASE Put(a) \/ Stamp(a) \/ Upload(a) \/ Wipe(a)
  BY <1>3 DEF Put, Stamp, Upload, Wipe
<1> QED  BY <1>1, <1>2, <1>3 DEF Step

LEMMA SteadyAll ==
  ASSUME UNCHANGED <<data, dump>>, here' \subseteq here, backups' \subseteq backups
  PROVE  \A u \in Workloads : Steady(u)
  BY DEF Steady, Of

\* Every step but those of its lock's holder that put, note, wipe and fill leaves a
\* workload no newer than it was.
LEMMA StepWorks ==
  ASSUME IInv, IInv', News, NEW a \in Actors, Step(a)
  PROVE  /\ \A u \in Workloads : Steady(u) \/ (job[a].pc \in Locked /\ u = job[a].w /\ WorkNew(u)')
         /\ \E x : backups' \subseteq backups \cup {x}
<1> DEFINE o == job[a]
<1>w. PICK w \in Workloads : w = o.w
  BY Idle
<1>0. /\ Base /\ Base' /\ DataType /\ o \in Jobs /\ Placed(o) /\ Job(o) /\ clock \in Nat /\ clock' \in Nat
      /\ world' = world /\ clock <= clock' /\ here' \subseteq here /\ KindOf' = KindOf
      /\ JobNew(o) /\ o.cap \in Nat /\ o.cap <= clock /\ WorkNew(w)
      /\ \A b \in Of(w) : b.at \in Nat /\ b.data \in Nat
      /\ data[w] \in Int /\ dump[w].hash \in Int /\ dump[w].id \in Int
  BY <1>w, Idle, Frame, Plain DEF IInv, News, JobNew, Of, KindOf
<1>1. CASE UNCHANGED <<data, dump>> /\ backups' \subseteq backups
  BY <1>0, <1>1, SteadyAll
<1>2. CASE SweepNext(a) \/ DrainNext(a) \/ Acquire(a) \/ AcquireAgain(a) \/ Export(a) \/ RunOffline(a)
           \/ OfflineDone(a) \/ ExportFails(a) \/ KeepNothing(a) \/ PutFails(a) \/ NoteFails(a)
           \/ SealOffline(a) \/ Suspend(a) \/ SealReap(a)
  BY <1>1, <1>2 DEF SweepNext, DrainNext, Acquire, AcquireAgain, Export, RunOffline, OfflineDone, ExportFails,
              KeepNothing, PutFails, NoteFails, SealOffline, Suspend, SealReap, disk
<1>3. CASE Quiesce(a) \/ Stamp(a) \/ Pack(a) \/ ArchiveFails(a) \/ BootAfter(a)
           \/ DeleteStop(a) \/ DeleteRecord(a)
  BY <1>1, <1>3 DEF Quiesce, Stamp, Pack, ArchiveFails, BootAfter, DeleteStop, DeleteRecord, disk
<1>4. CASE Resume(a) \/ PruneDeleted(a)
  <2>1. UNCHANGED <<data, dump>> /\ backups' \subseteq backups
    BY <1>4, RetainedIs DEF Resume, PruneDeleted, disk
  <2> QED  BY <1>1, <2>1
<1>5. CASE Reclaim(a)
  <2>1. \A u \in Workloads : data'[u] \in {data[u], Gone} /\ dump'[u] \in {dump[u], NoDump}
    BY <1>0, <1>5 DEF Reclaim, DataType
  <2>2. UNCHANGED <<here, backups>>
    BY <1>5 DEF Reclaim
  <2> QED  BY <2>1, <2>2 DEF Steady, Of
<1>6. CASE Put(a)
  <2>1. /\ UNCHANGED <<here, data, dump>> /\ o.pc = "store"
        /\ backups' \subseteq backups \cup {[w |-> w, at |-> clock', data |-> o.cap]}
    BY <1>w, <1>6, RetainedIs DEF Put, Stored, disk
  <2> DEFINE x == [w |-> w, at |-> clock', data |-> o.cap]
  <2>2. \A u \in Workloads \ {w} : Of(u)' \subseteq Of(u)
    BY <2>1 DEF Of
  <2>3. \A b \in Of(w)' : b \in Of(w) \/ b.data = o.cap
    BY <2>1 DEF Of
  <2>4. Noted(w)' <=> Noted(w)
    BY <1>0, <2>1 DEF Noted
  <2>5. WorkNew(w)'
    BY <1>0, <1>w, <2>1, <2>3, <2>4 DEF WorkNew, JobNew
  <2> QED  BY <1>w, <2>1, <2>2, <2>5 DEF Steady, Locked
<1>7. CASE Note(a)
  <2>1. /\ UNCHANGED <<here, data, backups>> /\ o.pc = "note"
        /\ dump' = [dump EXCEPT ![w] = [hash |-> o.cap, id |-> o.id]]
    BY <1>w, <1>7 DEF Note
  <2>2. dump'[w].hash = o.cap /\ dump'[w].id = o.id /\ \A u \in Workloads \ {w} : dump'[u] = dump[u]
    BY <1>0, <2>1 DEF DataType
  <2>3. Noted(w)' => w \in here /\ o.cap # 0
    BY <2>1, <2>2 DEF Noted
  <2>4. WorkNew(w)'
    BY <1>0, <1>w, <2>1, <2>2, <2>3 DEF WorkNew, JobNew, Of
  <2> QED  BY <1>w, <2>1, <2>2, <2>4 DEF Steady, Of, Locked
<1>8. CASE Wipe(a)
  <2>1. /\ UNCHANGED <<here, backups>> /\ o.pc = "wipe" /\ data' = [data EXCEPT ![w] = 0]
        /\ dump' = [dump EXCEPT ![w] = NoDump]
    BY <1>w, <1>8 DEF Wipe
  <2>2. data'[w] = 0 /\ dump'[w] = NoDump /\ \A u \in Workloads \ {w} : dump'[u] = dump[u] /\ data'[u] = data[u]
    BY <1>0, <2>1 DEF DataType
  <2>3. WorkNew(w)'
    BY <1>0, <2>1, <2>2, Numbers DEF WorkNew, Noted, Of
  <2> QED  BY <1>w, <2>1, <2>2, <2>3 DEF Steady, Of, Locked
<1>9. CASE Load(a)
  <2>1. /\ UNCHANGED <<here, backups, dump>> /\ o.pc = "load"
        /\ data' = data \/ \E b \in Of(w) : data' = [data EXCEPT ![w] = b.data]
    BY <1>w, <1>9 DEF Load
  <2>2. CASE data' = data
    BY <1>1, <2>1, <2>2
  <2>3. ASSUME NEW b \in Of(w), data' = [data EXCEPT ![w] = b.data]
        PROVE  \A u \in Workloads : Steady(u) \/ (u = w /\ WorkNew(u)')
    <3>1. data'[w] = b.data /\ \A u \in Workloads \ {w} : data'[u] = data[u]
      BY <1>0, <2>3 DEF DataType
    <3>2. dump'[w] = NoDump
      BY <1>0, <1>w, <2>1 DEF Job, JobCovered
    <3>3. WorkNew(w)'
      BY <1>0, <2>1, <3>1, <3>2, Numbers DEF WorkNew, Noted, Of
    <3> QED  BY <2>1, <3>1, <3>3 DEF Steady, Of
  <2> QED  BY <1>w, <2>1, <2>2, <2>3 DEF Locked
<1>10. CASE Upload(a)
  <2> DEFINE x == [w |-> w, at |-> IF StampFirst THEN o.id ELSE clock', data |-> o.cap]
  <2>1. UNCHANGED <<here, data, dump>> /\ o.pc = "upload" /\ backups' = backups \cup {x}
    BY <1>w, <1>10 DEF Upload, Stored, disk
  <2>2. \A u \in Workloads \ {w} : Of(u)' \subseteq Of(u)
    BY <2>1 DEF Of
  <2>3. \A b \in Of(w)' : b \in Of(w) \/ b.data = o.cap
    BY <2>1 DEF Of
  <2>4. ~Noted(w)'
    BY <1>0, <1>w, <2>1 DEF Noted, Placed, Archiving
  <2>5. WorkNew(w)'
    BY <1>0, <2>1, <2>3, <2>4 DEF WorkNew
  <2> QED  BY <1>w, <2>1, <2>2, <2>5 DEF Steady, Locked
<1> QED  BY <1>2, <1>3, <1>4, <1>5, <1>6, <1>7, <1>8, <1>9, <1>10 DEF Step

\* What a step leaves in its job's hands.
LEMMA StepJob ==
  ASSUME IInv, IInv', News, NEW a \in Actors, Step(a), NEW k, k = job'[a]
  PROVE  JobNew(k)'
<1> DEFINE o == job[a]
<1>w. PICK w \in Workloads : w = o.w
  BY Idle
<1>0. /\ Base /\ Base' /\ o \in Jobs /\ Placed(o) /\ Job(o) /\ clock \in Nat /\ clock' \in Nat
      /\ world' = world /\ clock <= clock' /\ here' \subseteq here /\ KindOf' = KindOf
      /\ JobNew(o) /\ o.cap \in Nat /\ o.cap \in Time /\ o.cap <= clock /\ WorkNew(w) /\ Turn(a) /\ WorkFresh(w)'
      /\ data[w] \in Int /\ job \in [Actors -> Jobs] /\ o.id \in Int
      /\ \A b \in Of(w) : b.at \in Nat /\ b.data \in Nat /\ b.at <= clock
  BY <1>w, Idle, Frame, Plain, TurnOf DEF IInv, Base, JobsType, News, JobNew, Of, KindOf, Work, WorkFresh
<1>1. k.cap <= clock'
  BY <1>0, <1>w DEF Turn, WorkNew
<1>2. CASE k.pc \notin Holding
  BY <1>1, <1>2, NothingNew DEF Holding
<1>3. k.pc \in Holding => k.w = w
  BY <1>0, <1>w DEF Turn
<1>4. CASE k.pc = "store"
  <2>1. k.cap \in Exported(w) /\ (Export(a) \/ OfflineDone(a))
    BY <1>0, <1>4, <1>w DEF Turn
  <2>2. UNCHANGED <<here, data, dump>>
    BY <2>1 DEF Export, OfflineDone, disk
  <2>3. w \in here => k.cap = data[w]
    BY <2>1 DEF Exported
  <2>4. Noted(w)' => w \in here
    BY <2>2 DEF Noted
  <2> QED  BY <1>1, <1>3, <1>4, <2>2, <2>3, <2>4 DEF JobNew, Holding
<1>5. CASE k.pc = "note"
  <2>0. KeepNothing(a) \/ Put(a)
    BY <1>0, <1>5 DEF Turn
  <2>1. CASE KeepNothing(a)
    <3>1. /\ UNCHANGED <<here, data, dump, backups>> /\ o.pc = "store" /\ (Pristine(a) \/ SameAsLast(a))
          /\ job' = [job EXCEPT ![a].pc = "note", ![a].id = IF Pristine(a) THEN NoId ELSE dump[job[a].w].id]
      BY <2>1 DEF KeepNothing, disk
    <3>2. k.cap = o.cap /\ k.id = IF Pristine(a) THEN NoId ELSE dump[w].id
      BY <1>0, <1>w, <3>1 DEF Jobs
    <3>3. k.cap # 0 => k.id = dump[w].id /\ k.cap = dump[w].hash
      BY <1>w, <3>1, <3>2 DEF Pristine, SameAsLast
    <3>4. w \in here /\ k.cap # 0 => Noted(w)
      BY <1>0, <1>w, <3>1, <3>2, <3>3 DEF Noted, Placed, Dumping
    <3>5. w \in here' /\ k.cap # 0 =>
            \A b \in Of(w)' : b.at > k.id /\ b.data # k.cap => data'[w] # k.cap
      BY <1>0, <3>1, <3>3, <3>4 DEF WorkNew, Of
    <3> QED  BY <1>1, <1>3, <1>5, <3>5 DEF JobNew, Holding
  <2>2. CASE Put(a)
    <3>1. job' = [job EXCEPT ![a].pc = "note", ![a].id = clock']
      BY <2>2 DEF Put
    <3>2. k.id = clock'
      BY <1>0, <3>1 DEF Jobs
    <3>3. \A b \in Of(w)' : b.at <= clock' /\ b.at \in Nat
      BY <1>0, Numbers DEF WorkFresh, Of, Base, DataType, Backup
    <3>4. \A b \in Of(w)' : ~(b.at > k.id)
      BY <1>0, <3>2, <3>3
    <3> QED  BY <1>1, <1>3, <1>5, <3>4 DEF JobNew, Holding
  <2> QED  BY <2>0, <2>1, <2>2
<1>6. CASE k.pc = "pack"
  <2> SUFFICES ASSUME StampFirst PROVE \A b \in Of(w)' : b.at < k.id
    BY <1>1, <1>3, <1>6 DEF JobNew, Holding
  <2>1. Stamp(a)
    <3>1. ~Quiesce(a)
      <4> SUFFICES ASSUME Quiesce(a) PROVE FALSE
        OBVIOUS
      <4>1. job' = [job EXCEPT ![a].pc = "stamp", ![a].was = o.w \in up]
        BY DEF Quiesce
      <4> QED  BY <1>0, <1>6, <4>1 DEF Jobs
    <3> QED  BY <1>0, <1>6, <3>1 DEF Turn
  <2>2. k.id = clock + 1 /\ backups' = backups
    BY <1>0, <2>1 DEF Stamp, Jobs
  <2> QED  BY <1>0, <2>2 DEF Of
<1>7. CASE k.pc = "upload"
  <2>1. Pack(a)
    BY <1>0, <1>7 DEF Turn
  <2>2. o.pc = "pack" /\ backups' = backups /\ job' = [job EXCEPT ![a].pc = "upload", ![a].cap = data[o.w]]
    BY <2>1 DEF Pack
  <2>3. k.id = o.id
    BY <1>0, <2>2 DEF Jobs
  <2> QED  BY <1>0, <1>1, <1>3, <1>7, <1>w, <2>2, <2>3 DEF JobNew, Holding, Of
<1>8. CASE k.pc = "load"
  BY <1>1, <1>8, NothingNew
<1> QED  BY <1>2, <1>4, <1>5, <1>6, <1>7, <1>8 DEF Holding

\* A step of nobody's, of which no workload's backups are newer.
LEMMA NewsStill ==
  ASSUME IInv, IInv', News, UNCHANGED <<job, world>>, clock <= clock', backups' \subseteq backups,
         \A u \in Workloads : Steady(u)
  PROVE  News'
<1>0. Base /\ Base' /\ \A b \in Actors : job[b] \in Jobs /\ job[b].w \in Workloads
  BY DEF IInv, Base, JobsType, Jobs
<1>1. \A u \in Workloads : WorkNew(u)'
  BY <1>0, SteadyKept DEF News
<1>2. ASSUME NEW b \in Actors, NEW i, i = job'[b] PROVE JobNew(i)'
  <2>1. i = job[b] /\ i \in Jobs /\ JobNew(i) /\ i.w \in Workloads
    BY <1>0, <1>2 DEF News
  <2> QED  BY <1>0, <2>1, SteadyKept DEF News
<1>3. \A b \in Actors : JobNew(job[b])'
  BY <1>2
<1>4. IsFiniteSet(backups')
  BY FS_Subset DEF News
<1> QED  BY <1>1, <1>3, <1>4 DEF News

LEMMA NewsBegun ==
  ASSUME IInv, IInv', News, NEW a \in Actors, Begun(a),
         UNCHANGED <<here, disk, backups, clock, world>>
  PROVE  News'
<1>1. clock \in Nat /\ UNCHANGED <<data, dump>> /\ job[a].w \in Workloads /\ job[a].cap \in Nat
      /\ job[a].cap <= clock /\ data[job[a].w] <= clock
  BY Idle, Plain DEF disk, IInv, News, JobNew, WorkNew
<1>2. PICK k : k = job'[a]
  OBVIOUS
<1>3. k.cap <= clock' /\ k.pc \notin Holding
  BY <1>1, <1>2 DEF Begun, Turn
<1>4. JobNew(k)'
  BY <1>3, NothingNew DEF Holding
<1>5. \A u \in Workloads : Steady(u)
  BY <1>1, SteadyAll
<1>6. \E x : backups' \subseteq backups \cup {x}
  OBVIOUS
<1> QED  BY <1>1, <1>2, <1>4, <1>5, <1>6, NewsKept DEF Begun

LEMMA NewsCrash ==
  ASSUME IInv, IInv', News, Crash
  PROVE  News'
<1>0. /\ Base /\ Base' /\ clock \in Nat
      /\ UNCHANGED <<here, data, dump, backups, clock, world>> /\ \A a \in Actors : job'[a] = NoJob
  BY Plain DEF Crash, disk, IInv
<1>1. \A u \in Workloads : WorkNew(u)'
  BY <1>0, SteadyKept, SteadyAll DEF News
<1>2. ASSUME NEW b \in Actors, NEW i, i = job'[b] PROVE JobNew(i)'
  BY <1>0, <1>2, NoJobIs, NothingNew
<1>3. \A b \in Actors : JobNew(job[b])'
  BY <1>2
<1> QED  BY <1>0, <1>1, <1>3, NoJobIs DEF News

LEMMA NewsNext == IInv /\ News /\ [Next]_vars => News'
<1> SUFFICES ASSUME IInv, News, [Next]_vars PROVE News'
  OBVIOUS
<1>0. IInv' /\ Base /\ DataType /\ clock \in Nat /\ backups \subseteq Backup
  BY NextKeeps, Plain DEF IInv, Base
<1>1. ASSUME NEW w \in Workloads, Wake(w) \/ OfflineExits(w) \/ SetKeepWarm(w) \/ RetryTime(w) PROVE News'
  <2>1. UNCHANGED <<job, world, clock, data, dump, here, backups>>
    BY <1>1 DEF Wake, OfflineExits, SetKeepWarm, RetryTime, disk
  <2> QED  BY <1>0, <2>1, SteadyAll, NewsStill
<1>2. ASSUME NEW w \in Workloads, Write(w) PROVE News'
  <2>1. clock' = clock + 1 /\ data' = [data EXCEPT ![w] = clock'] /\ UNCHANGED <<here, dump, backups, job, world>>
    BY <1>2 DEF Write
  <2>2. \A u \in Workloads : data'[u] = data[u] \/ data'[u] = clock'
    BY <1>0, <2>1 DEF DataType
  <2>3. clock < clock' /\ clock <= clock'
    BY <1>0, <2>1
  <2>4. \A u \in Workloads : Steady(u)
    BY <2>1, <2>2, <2>3 DEF Steady, Of
  <2> QED  BY <1>0, <2>1, <2>3, <2>4, NewsStill
<1>3. ASSUME NEW a \in Actors, Begun(a), UNCHANGED <<here, disk, backups, clock, world>> PROVE News'
  BY <1>0, <1>3, NewsBegun
<1>4. ASSUME NEW w \in Workloads, NEW a \in Clients, NEW op \in Calls, Call(a, op, w) PROVE News'
  BY <1>3, <1>4, TurnStarts, Names DEF Call
<1>5. ASSUME NEW w \in Workloads, ReapStart(w) PROVE News'
  BY <1>3, <1>5, TurnStarts, Names DEF ReapStart
<1>6. ASSUME NEW b \in backups, NEW a \in Clients, CallRestore(a, b) PROVE News'
  BY <1>3, <1>6, TurnStarts, Names DEF CallRestore
<1>7. CASE SweepStart \/ EvictStart \/ EvictNext
  BY <1>3, <1>7, TurnStarts, Names DEF SweepStart, EvictStart, EvictNext
<1>8. ASSUME NEW b \in backups, DeleteBackup(b) PROVE News'
  <2>1. UNCHANGED <<job, world, clock, data, dump, here>> /\ backups' \subseteq backups
    BY <1>8 DEF DeleteBackup, disk
  <2> QED  BY <1>0, <2>1, SteadyAll, NewsStill
<1>9. ASSUME NEW a \in Actors, Step(a) PROVE News'
  <2>1. Turn(a) /\ world' = world /\ clock <= clock' /\ here' \subseteq here
    BY <1>0, <1>9, TurnOf, Frame
  <2>2. PICK x : backups' \subseteq backups \cup {x}
    BY <1>0, <1>9, StepWorks
  <2>3. \A u \in Workloads : Steady(u) \/ (job[a].pc \in Locked /\ u = job[a].w /\ WorkNew(u)')
    BY <1>0, <1>9, StepWorks
  <2>4. PICK k : k = job'[a]
    OBVIOUS
  <2>5. JobNew(k)'
    BY <1>0, <1>9, <2>4, StepJob
  <2> QED  BY <1>0, <2>1, <2>2, <2>3, <2>4, <2>5, NewsKept
<1>10. CASE Crash
  BY <1>0, <1>10, NewsCrash
<1>11. CASE UNCHANGED vars
  <2>1. UNCHANGED <<job, world, clock, data, dump, here, backups>>
    BY <1>11 DEF vars, disk
  <2> QED  BY <1>0, <2>1, SteadyAll, NewsStill
<1> QED  BY <1>1, <1>2, <1>4, <1>5, <1>6, <1>7, <1>8, <1>9, <1>10, <1>11 DEF Next

LEMMA NewsHold == Spec => []News
<1>1. Init => News
  <2> SUFFICES ASSUME Init PROVE News
    OBVIOUS
  <2>1. \A a \in Actors : job[a] = NoJob
    BY DEF Init
  <2>2. backups = {} /\ IsFiniteSet(backups)
    BY FS_EmptySet DEF Init
  <2>3. \A w \in Workloads : Of(w) = {} /\ data[w] = 0 /\ dump[w] = NoDump /\ clock = 0
    BY <2>2 DEF Of, Init
  <2>4. \A w \in Workloads : WorkNew(w)
    BY <2>3, Numbers DEF WorkNew, Noted
  <2>5. \A a \in Actors : JobNew(job[a])
    BY <2>1, NoJobIs DEF JobNew, Init
  <2> QED  BY <2>1, <2>2, <2>4, <2>5, NoJobIs DEF News
<1> QED  BY <1>1, NewsNext, Invariance, PTL DEF Spec

---------------------------------------------------------------------------
\* The newest backup, and one with few that are newer.

LEMMA Beyond ==
  ASSUME Base, NEW w \in Workloads, IsFiniteSet(Clients), IsFiniteSet(backups)
  PROVE  /\ \A g : IsFiniteSet(Newer(w, g)) /\ Cardinality(Newer(w, g)) \in Nat
         /\ IsFiniteSet(Threats(w)) /\ Cardinality(Threats(w)) \in Nat
         /\ Cardinality(Threats(w)) <= Cardinality(Clients) /\ Cardinality(Clients) \in Nat
<1>1. \A g : Newer(w, g) \subseteq backups
  BY DEF Newer, Of
<1>2. Threats(w) \subseteq Clients
  BY DEF Threats
<1> QED  BY <1>1, <1>2, FS_Subset, FS_CardinalityType

\* The newest one has nothing newer, and the calls under way put too few beside it.
LEMMA TopIsFew ==
  ASSUME Base, Base', NEW w \in Workloads, IsFiniteSet(Clients), Cardinality(Clients) < BackupRetain
  PROVE  (Top(w) => Few(w)) /\ (Top(w)' => Few(w)')
<1>1. ASSUME NEW S, \A c \in S : c.at \in Nat, NEW T \in SUBSET Clients, NEW g \in S, \A c \in S : c.at <= g.at
      PROVE  Cardinality({c \in S : c.at > g.at}) + Cardinality(T) < BackupRetain
  <2>1. {c \in S : c.at > g.at} = {}
    BY <1>1
  <2>2. Cardinality({c \in S : c.at > g.at}) = 0
    BY <2>1, FS_EmptySet
  <2>3. Cardinality(T) <= Cardinality(Clients) /\ Cardinality(T) \in Nat /\ Cardinality(Clients) \in Nat
    BY FS_Subset, FS_CardinalityType
  <2> QED  BY <2>2, <2>3, BoundsAssumption
<1>2. (\A c \in Of(w) : c.at \in Nat) /\ (\A c \in Of(w)' : c.at \in Nat)
  BY Numbers DEF Of, Base, DataType, Backup
<1>3. Threats(w) \in SUBSET Clients /\ Threats(w)' \in SUBSET Clients
  BY DEF Threats
<1>4. Top(w) => Few(w)
  BY <1>1, <1>2, <1>3 DEF Top, Few, Newer
<1>5. Top(w)' => Few(w)'
  BY <1>1, <1>2, <1>3 DEF Top, Few, Newer
<1> QED  BY <1>4, <1>5

\* Retention keeps the newest one.
LEMMA TopKept ==
  ASSUME Base, NEW w \in Workloads, Top(w), data'[w] = data[w],
         backups' = backups \/ backups' = Retained(backups, w, BackupRetain)
  PROVE  Top(w)'
<1>1. PICK g \in Of(w) : g.data = data[w] /\ \A c \in Of(w) : c.at <= g.at
  BY DEF Top
<1>2. g \in backups /\ g.w = w /\ \A c \in backups : c.at \in Nat
  BY Plain DEF Of
<1>3. \A c \in backups : c.w = w => ~(c.at > g.at)
  BY <1>1, <1>2 DEF Of
<1>4. g \in backups' /\ backups' \subseteq backups
  BY <1>2, <1>3, RetainedIs, BoundsAssumption
<1>5. g \in Of(w)' /\ Of(w)' \subseteq Of(w)
  BY <1>2, <1>4 DEF Of
<1> QED  BY <1>1, <1>5 DEF Top

\* What is put after every other one is the newest.
LEMMA TopPut ==
  ASSUME NEW w, NEW x, x \in backups', x.w = w, x.data = data'[w], x.at \in Int,
         \A c \in Of(w)' : c = x \/ c.at <= x.at
  PROVE  Top(w)'
<1>1. x \in Of(w)'
  BY DEF Of
<1> QED  BY <1>1 DEF Top

\* Few, when retention trims and when one of the calls puts its backup.
LEMMA FewKept ==
  ASSUME Base, NEW w \in Workloads, Few(w), data'[w] = data[w], IsFiniteSet(Clients), IsFiniteSet(backups),
         Threats(w)' \subseteq Threats(w),
         backups' = backups \/ backups' = Retained(backups, w, BackupRetain)
  PROVE  Few(w)'
<1>1. PICK g \in Of(w) : g.data = data[w]
                         /\ Cardinality(Newer(w, g)) + Cardinality(Threats(w)) < BackupRetain
  BY DEF Few
<1>2. /\ IsFiniteSet(Newer(w, g)) /\ Cardinality(Newer(w, g)) \in Nat
      /\ IsFiniteSet(Threats(w)) /\ Cardinality(Threats(w)) \in Nat
  BY Beyond
<1>3. Newer(w, g) = {c \in backups : c.w = w /\ c.at > g.at}
  BY DEF Newer, Of
<1>4. Cardinality(Newer(w, g)) < BackupRetain
  BY <1>1, <1>2, BoundsAssumption
<1>5. g \in Retained(backups, w, BackupRetain)
  BY <1>1, <1>3, <1>4 DEF Retained, Of
<1>6. g \in Of(w)' /\ Of(w)' \subseteq Of(w)
  BY <1>1, <1>5, RetainedIs DEF Of
<1>7. Newer(w, g)' \subseteq Newer(w, g)
  BY <1>6 DEF Newer
<1>8. /\ Cardinality(Newer(w, g)') <= Cardinality(Newer(w, g)) /\ Cardinality(Newer(w, g)') \in Nat
      /\ Cardinality(Threats(w)') <= Cardinality(Threats(w)) /\ Cardinality(Threats(w)') \in Nat
  BY <1>2, <1>7, FS_Subset, FS_CardinalityType
<1>9. Cardinality(Newer(w, g)') + Cardinality(Threats(w)') < BackupRetain
  BY <1>1, <1>2, <1>8, BoundsAssumption
<1> QED  BY <1>1, <1>6, <1>9 DEF Few

LEMMA FewPut ==
  ASSUME Base, NEW w \in Workloads, Few(w), data'[w] = data[w], IsFiniteSet(Clients), IsFiniteSet(backups),
         NEW a \in Threats(w), Threats(w)' \subseteq Threats(w) \ {a}, NEW x, x.w = w,
         backups' \in {backups \cup {x}, Retained(backups \cup {x}, w, BackupRetain)}
  PROVE  Few(w)'
<1>1. PICK g \in Of(w) : g.data = data[w]
                         /\ Cardinality(Newer(w, g)) + Cardinality(Threats(w)) < BackupRetain
  BY DEF Few
<1>2. /\ IsFiniteSet(Newer(w, g)) /\ Cardinality(Newer(w, g)) \in Nat
      /\ IsFiniteSet(Threats(w)) /\ Cardinality(Threats(w)) \in Nat
  BY Beyond
<1> DEFINE N == Newer(w, g) \cup {x}
           B == backups \cup {x}
           T == Threats(w) \ {a}
<1>3. IsFiniteSet(N) /\ Cardinality(N) \in Nat /\ Cardinality(N) <= Cardinality(Newer(w, g)) + 1
  <2>1. IsFiniteSet(N) /\ (Cardinality(N) = Cardinality(Newer(w, g)) \/ Cardinality(N) = Cardinality(Newer(w, g)) + 1)
    BY <1>2, FS_AddElement
  <2>2. Cardinality(N) \in Nat
    BY <2>1, FS_CardinalityType
  <2> HIDE DEF N
  <2> QED  BY <1>2, <2>1, <2>2
<1>4. IsFiniteSet(T) /\ Cardinality(T) \in Nat /\ Cardinality(T) = Cardinality(Threats(w)) - 1
  BY <1>2, FS_RemoveElement, FS_CardinalityType
<1>5. {c \in B : c.w = w /\ c.at > g.at} \subseteq N
  BY DEF Newer, Of
<1>6. Cardinality({c \in B : c.w = w /\ c.at > g.at}) <= Cardinality(N)
      /\ Cardinality({c \in B : c.w = w /\ c.at > g.at}) \in Nat
  BY <1>3, <1>5, FS_Subset, FS_CardinalityType
<1>7. Cardinality({c \in B : c.w = w /\ c.at > g.at}) < BackupRetain
  BY <1>1, <1>2, <1>3, <1>4, <1>6, BoundsAssumption
<1>8. g \in Retained(B, w, BackupRetain) /\ g \in B
  BY <1>1, <1>7 DEF Retained, Of
<1>9. g \in backups' /\ backups' \subseteq B
  BY <1>8, RetainedIs
<1>10. g \in Of(w)'
  BY <1>1, <1>9 DEF Of
<1>11. Newer(w, g)' \subseteq N
  BY <1>9 DEF Newer, Of
<1>12. /\ Cardinality(Newer(w, g)') <= Cardinality(N) /\ Cardinality(Newer(w, g)') \in Nat
       /\ Cardinality(Threats(w)') <= Cardinality(T) /\ Cardinality(Threats(w)') \in Nat
  BY <1>3, <1>4, <1>11, FS_Subset, FS_CardinalityType
<1>13. Cardinality(Newer(w, g)') + Cardinality(Threats(w)') < BackupRetain
  <2> HIDE DEF N, B, T
  <2> QED  BY <1>1, <1>2, <1>3, <1>4, <1>12, BoundsAssumption
<1> QED  BY <1>1, <1>10, <1>13 DEF Few

---------------------------------------------------------------------------
\* The others' steps.

\* What another's step may make of a job at a workload the evictor is at.
Arrives(w, b) ==
    job'[b].w = w =>
      \/ job'[b] = job[b]
      \/ /\ job'[b].pc = "store" => job'[b].cap \in Exported(w)
         /\ job'[b].pc = "upload" => job'[b].cap = data[w]
         /\ job'[b].pc = "load" => w \in blind'
         /\ Threat(w, job'[b]) => Threat(w, job[b]) \/ w \in here

\* A step that leaves the data and the backups of the evictor's victim alone, or
\* makes it one that need not be in the store.
LEMMA MildKept ==
  ASSUME IInv, IInv', News, Safe, IsFiniteSet(Clients), NEW e \in Jobs, e = job[Evictor], job'[Evictor] = e,
         world' = world, here' \subseteq here,
         e.w \in blind => e.w \in blind', e.w \in dropped => e.w \in dropped',
         data'[e.w] \in {data[e.w], Gone} \/ e.w \in blind',
         Of(e.w)' = Of(e.w) \/ e.w \in dropped',
         \A b \in Actors \ {Evictor} : Arrives(e.w, b)
  PROVE  Safe'
<1> SUFFICES ASSUME e.op = "evict" PROVE Safe'
  BY DEF Safe
<1> DEFINE w == e.w
<1>0. /\ Base /\ w \in Workloads /\ KindOf' = KindOf /\ JobExact(e) /\ IsFiniteSet(backups)
      /\ Gone \notin Time /\ data[w] \in Time \cup {Gone}
  BY Names, Plain, Numbers DEF IInv, Base, DataType, Job, News, KindOf
<1>1. Counted(w)' => Counted(w)
  BY <1>0 DEF Counted
<1>2. Relied(w)' => Relied(w) /\ data'[w] = data[w]
  BY <1>0, <1>1 DEF Relied, Counted
<1>3. w \notin dropped' => w \notin dropped /\ Of(w)' = Of(w)
  OBVIOUS
<1>4. Own(e)'
  <2>1. Relied(w)' /\ w \in here' /\ e.pc \in {"store", "upload"} => e.cap = data'[w]
    BY <1>2 DEF Safe, Own
  <2>2. Relied(w)' /\ w \in here' /\ w \notin dropped' /\ Made(e) => Top(w)'
    BY <1>2, <1>3 DEF Safe, Own, Top
  <2>3. ASSUME Relied(w)', w \notin dropped', e.pc = "reclaim" PROVE Few(w)'
    <3>1. Few(w) /\ data'[w] = data[w] /\ Of(w)' = Of(w) /\ w \notin here
      BY <1>0, <1>2, <1>3, <2>3 DEF Safe, Own, JobExact
    <3>2. Threats(w)' \subseteq Threats(w)
      <4> SUFFICES ASSUME NEW c \in Clients, Threat(w, job'[c]) PROVE Threat(w, job[c])
        BY DEF Threats
      <4>1. c \in Actors \ {Evictor} /\ job'[c].w = w
        BY Names DEF Threat
      <4> QED  BY <3>1, <4>1 DEF Arrives
    <3>3. IsFiniteSet(Threats(w)) /\ Cardinality(Threats(w)) \in Nat /\ \A g : Cardinality(Newer(w, g)) \in Nat
      BY <1>0, Beyond
    <3>4. Cardinality(Threats(w)') <= Cardinality(Threats(w)) /\ Cardinality(Threats(w)') \in Nat
      BY <3>2, <3>3, FS_Subset, FS_CardinalityType
    <3>5. PICK g \in Of(w) : g.data = data[w]
                             /\ Cardinality(Newer(w, g)) + Cardinality(Threats(w)) < BackupRetain
      BY <3>1 DEF Few
    <3>6. Newer(w, g)' = Newer(w, g)
      BY <3>1 DEF Newer
    <3>7. Cardinality(Newer(w, g)') + Cardinality(Threats(w)') < BackupRetain
      BY <3>3, <3>4, <3>5, <3>6, BoundsAssumption
    <3> QED  BY <3>1, <3>5, <3>7 DEF Few
  <2> QED  BY <2>1, <2>2, <2>3 DEF Own
<1>5. ASSUME Leaving(e)', NEW b \in Actors \ {Evictor}, NEW j, j = job'[b], j.w = w PROVE Beside(w, j)'
  <2>1. Leaving(e)
    BY <1>5 DEF Leaving
  <2>2. CASE j = job[b]
    <3>1. Beside(w, j)
      BY <1>5, <2>1, <2>2 DEF Safe
    <3> QED  BY <1>1, <1>2, <3>1 DEF Beside
  <2>3. CASE j # job[b]
    <3>1. /\ j.pc = "store" => j.cap \in Exported(w)
          /\ j.pc = "upload" => j.cap = data[w]
          /\ j.pc = "load" => w \in blind'
      BY <1>5, <2>3 DEF Arrives
    <3>2. j.pc = "load" => ~Counted(w)'
      BY <3>1 DEF Counted
    <3>3. j.pc = "store" => j.cap = data[w] \/ (j.cap = 0 /\ w \notin here')
      BY <3>1 DEF Exported
    <3> QED  BY <1>2, <3>1, <3>2, <3>3 DEF Beside
  <2> QED  BY <2>2, <2>3
<1>6. \A b \in Actors \ {Evictor} : Leaving(e)' /\ job'[b].w = w => Beside(w, job[b])'
  BY <1>5
<1> QED  BY <1>4, <1>6 DEF Safe

\* A turn of another's brings nothing to a victim.
LEMMA TurnArrives ==
  ASSUME IInv, NEW a \in Actors \ {Evictor}, Turn(a), NEW e \in Jobs, e = job[Evictor], e.op = "evict"
  PROVE  /\ job'[Evictor] = e
         /\ \A b \in Actors \ {Evictor} : Arrives(e.w, b)
<1>1. Picked(e.w)
  BY DEF Picked
<1>2. job'[Evictor] = e /\ \A b \in Actors \ {a} : job'[b] = job[b]
  BY Names DEF Turn
<1>3. job'[a].pc \in Holding => job'[a].w = job[a].w
  BY DEF Turn
<1>4. e.w \in Workloads
  BY Plain DEF IInv
<1>5. Arrives(e.w, a)
  BY <1>1, <1>3, <1>4 DEF Turn, Arrives, Holding
<1> QED  BY <1>2, <1>5 DEF Arrives

\* Most steps leave the evictor's victim alone.
LEMMA OthersLeave ==
  ASSUME IInv, IInv', News, Safe, IsFiniteSet(Clients), NEW a \in Actors \ {Evictor}, Step(a),
         NEW e \in Jobs, e = job[Evictor], e.op = "evict",
         Put(a) \/ Upload(a) \/ Resume(a) \/ Load(a) \/ PruneDeleted(a) => job[a].w # e.w
  PROVE  Safe'
<1>w. PICK w \in Workloads : w = job[a].w
  BY Idle
<1>0. /\ Base /\ DataType /\ clock \in Nat /\ e.w \in Workloads /\ Picked(e.w) /\ a # Evictor
      /\ Turn(a) /\ world' = world /\ here' \subseteq here
  BY Idle, Plain, Frame, TurnOf DEF IInv, Base, Picked
<1>a. job'[Evictor] = e /\ \A b \in Actors \ {Evictor} : Arrives(e.w, b)
  BY <1>0, TurnArrives
<1>s. /\ e.w \in Seen(a, w) <=> e.w \in blind
      /\ e.w \in Replaced(a, w) <=> e.w \in dropped
  <2>1. CASE w = e.w
    BY <1>0, <2>1 DEF Seen, Replaced
  <2>2. CASE w # e.w
    BY <1>0, <2>2, SeenIs
  <2> QED  BY <2>1, <2>2
<1> DEFINE Leaves == /\ (e.w \in blind => e.w \in blind') /\ (e.w \in dropped => e.w \in dropped')
                     /\ data'[e.w] \in {data[e.w], Gone} \/ e.w \in blind'
                     /\ Of(e.w)' = Of(e.w)
<1>m. Leaves => Safe'
  BY <1>0, <1>a, MildKept
<1>1. CASE UNCHANGED <<data, backups, blind, dropped>>
  <2>1. Leaves
    BY <1>1 DEF Of
  <2> QED  BY <1>m, <2>1
<1>2. CASE SweepNext(a) \/ DrainNext(a) \/ Acquire(a) \/ AcquireAgain(a) \/ RunOffline(a)
           \/ ExportFails(a) \/ PutFails(a) \/ Note(a) \/ NoteFails(a)
           \/ SealOffline(a) \/ Suspend(a) \/ SealReap(a)
  BY <1>1, <1>2 DEF SweepNext, DrainNext, Acquire, AcquireAgain, RunOffline, ExportFails,
              PutFails, Note, NoteFails, SealOffline, Suspend, SealReap, disk
<1>3. CASE Quiesce(a) \/ Stamp(a) \/ ArchiveFails(a) \/ BootAfter(a) \/ DeleteStop(a) \/ DeleteRecord(a)
  BY <1>1, <1>3 DEF Quiesce, Stamp, ArchiveFails, BootAfter, DeleteStop, DeleteRecord, disk
<1>4. CASE Export(a) \/ OfflineDone(a) \/ Pack(a)
  <2>1. UNCHANGED <<data, backups, dropped>> /\ blind' = Seen(a, w)
    BY <1>4, <1>w DEF Export, OfflineDone, Pack, disk
  <2>2. Leaves
    BY <1>s, <2>1 DEF Of
  <2> QED  BY <1>m, <2>2
<1>5. CASE KeepNothing(a)
  <2>1. UNCHANGED <<data, backups, blind>> /\ dropped' = Replaced(a, w)
    BY <1>5, <1>w DEF KeepNothing, disk
  <2>2. Leaves
    BY <1>s, <2>1 DEF Of
  <2> QED  BY <1>m, <2>2
<1>6. CASE Wipe(a)
  <2>1. /\ UNCHANGED <<backups, dropped>> /\ data' = [data EXCEPT ![w] = 0]
        /\ blind' = IF Picked(w) THEN blind \cup {w} ELSE blind \ {w}
    BY <1>6, <1>w DEF Wipe
  <2>2. Leaves
    <3>1. CASE w = e.w
      BY <1>0, <2>1, <3>1 DEF Of
    <3>2. CASE w # e.w
      BY <1>0, <2>1, <3>2 DEF Of, DataType
    <3> QED  BY <3>1, <3>2
  <2> QED  BY <1>m, <2>2
<1>7. CASE Reclaim(a)
  <2>1. UNCHANGED <<backups, blind, dropped>> /\ data' = [data EXCEPT ![w] = Gone]
    BY <1>7, <1>w DEF Reclaim
  <2>2. data'[e.w] \in {data[e.w], Gone}
    BY <1>0, <2>1 DEF DataType
  <2>3. Leaves
    BY <2>1, <2>2 DEF Of
  <2> QED  BY <1>m, <2>3
<1>8. CASE (Put(a) \/ Upload(a) \/ Resume(a) \/ Load(a) \/ PruneDeleted(a)) /\ w # e.w
  <2>1. UNCHANGED blind /\ (data' = data \/ \E v : data' = [data EXCEPT ![w] = v])
    BY <1>8, <1>w DEF Put, Upload, Resume, Load, PruneDeleted, disk
  <2>2. dropped' = dropped \/ dropped' = Replaced(a, w)
    BY <1>8, <1>w DEF Put, Upload, Resume, Load, PruneDeleted
  <2>3. \A b \in backups \cup backups' : b.w # w => (b \in backups <=> b \in backups')
    <3>1. CASE Put(a)
      <4>1. PICK B : B = backups \cup {[w |-> w, at |-> clock', data |-> job[a].cap]}
        OBVIOUS
      <4>2. backups' \in {B, Retained(B, w, BackupRetain)}
        BY <3>1, <4>1, <1>w DEF Put, Stored
      <4>3. B = backups' \/ (backups' \subseteq B /\ \A b \in B : b.w # w => b \in backups')
        BY <4>2, RetainedIs
      <4> QED  BY <4>1, <4>3
    <3>2. CASE Upload(a)
      BY <3>2, <1>w DEF Upload, Stored
    <3>3. CASE Resume(a) \/ Load(a) \/ PruneDeleted(a)
      <4>1. PICK n : backups' \in {backups, Retained(backups, w, n)}
        BY <3>3, <1>w DEF Resume, Load, PruneDeleted
      <4> QED  BY <4>1, RetainedIs
    <3> QED  BY <1>8, <3>1, <3>2, <3>3
  <2>4. data'[e.w] = data[e.w]
    BY <1>0, <1>8, <2>1 DEF DataType
  <2>5. Of(e.w)' = Of(e.w)
    BY <1>8, <2>3 DEF Of
  <2>6. Leaves
    BY <1>s, <2>1, <2>2, <2>4, <2>5
  <2> QED  BY <1>m, <2>6
<1>9. Put(a) \/ Upload(a) \/ Resume(a) \/ Load(a) \/ PruneDeleted(a) => w # e.w
  BY <1>w
<1> QED  BY <1>2, <1>3, <1>4, <1>5, <1>6, <1>7, <1>8, <1>9 DEF Step

\* Where those who put, restore and resume go.
LEMMA HolderGoes ==
  ASSUME IInv, NEW a \in Actors, Put(a) \/ Upload(a) \/ Resume(a) \/ Load(a)
  PROVE  /\ job'[a].pc \in {"note", "resume", "suspend", "idle", "next", "again", "gone", "boot"}
         /\ Put(a) => job'[a].pc = "note"
<1>0. /\ JobsType /\ job \in [Actors -> Jobs] /\ job[a] \in Jobs /\ Placed(job[a])
      /\ job \in [Actors -> [op : Ops, pc : Positions, w : Workloads, todo : SUBSET Workloads,
         n : 0..BackupSweepBatch, cap : Time, id : Time \cup {NoId}, was : BOOLEAN, ok : BOOLEAN]]
  BY Idle DEF IInv, Base, JobsType, Jobs
<1>1. Put(a) => job'[a].pc = "note"
  BY <1>0 DEF Put
<1>2. Upload(a) => job'[a].pc = "resume"
  BY <1>0 DEF Upload
<1>3. CASE Load(a)
  <2>1. CASE Goto(a, "boot")
    BY <1>0, <1>1, <2>1 DEF Goto
  <2>2. CASE End(a)
    BY <1>0, <1>1, <2>2, NoJobIs DEF End
  <2> QED  BY <1>1, <1>3, <2>1, <2>2 DEF Load
<1>4. CASE Resume(a)
  <2>1. BackupOver(a, job[a].ok) /\ job[a].pc \in Dumping \cup Archiving /\ job[a].ok \in BOOLEAN
        /\ world' = world
    BY <1>0, <1>4 DEF Resume, Dumping, Archiving, Jobs
  <2>2. \E j \in Jobs : /\ Does(a, j) /\ j.was = FALSE /\ (j.op # "none" => j.w = job[a].w /\ j.op = job[a].op)
                        /\ j.id = NoId /\ j.cap = 0 /\ (j.ok => job[a].ok /\ j.op = "reap")
                        /\ IF job[a].op = "reap" THEN j.pc = "suspend" /\ j.op = "reap" /\ lock' = lock
                           ELSE /\ j.pc \in {"idle", "next", "again", "gone"}
                                /\ j.pc = "gone" => job[a].ok /\ j.op = "evict"
                                /\ j.pc = "again" => job[a].ok
                                /\ lock' = [lock EXCEPT ![job[a].w] = Free]
    BY <1>0, <2>1, OverIs
  <2>3. PICK j \in Jobs : Does(a, j) /\ j.pc \in {"suspend", "idle", "next", "again", "gone"}
    BY <2>2
  <2>4. job'[a] = j
    BY <1>0, <2>3 DEF Does
  <2> QED  BY <1>1, <1>4, <2>3, <2>4 DEF Put, Resume
<1> QED  BY <1>1, <1>2, <1>3, <1>4

\* Those who hold the lock of the evictor's victim, while it leaves.
LEMMA HolderPuts ==
  ASSUME IInv, IInv', News, Safe, StampFirst, IsFiniteSet(Clients), Cardinality(Clients) < BackupRetain,
         NEW a \in Actors \ {Evictor}, Put(a) \/ Upload(a) \/ Resume(a) \/ Load(a), Step(a),
         NEW e \in Jobs, e = job[Evictor], e.op = "evict", job[a].w = e.w
  PROVE  Safe'
<1> DEFINE w == e.w
           o == job[a]
<1>0. /\ Base /\ Base' /\ DataType /\ JobsType /\ clock \in Nat /\ clock' \in Nat /\ w \in Workloads /\ Picked(w)
      /\ a # Evictor /\ Turn(a) /\ world' = world /\ KindOf' = KindOf /\ o \in Jobs /\ Placed(o) /\ Job(o) /\ JobNew(o)
      /\ IsFiniteSet(backups) /\ WorkFresh(w)' /\ JobExact(e) /\ Evictor \in Actors /\ clock <= clock'
      /\ \A b \in Of(w) : b.at \in Nat /\ b.at <= clock
  BY Idle, Plain, Frame, TurnOf, Names DEF IInv, Base, Picked, KindOf, News, Work, WorkFresh, Of, Job
<1>1. o.pc \in Locked /\ e.pc \notin Locked
  <2>1. o.pc \in Locked
    BY DEF Put, Upload, Resume, Load, Locked
  <2> QED  BY <1>0, <2>1, Alone
<1>2. job'[Evictor] = e /\ \A b \in Actors \ {a} : job'[b] = job[b]
  BY <1>0, TurnArrives DEF Turn
<1>3. UNCHANGED <<here, blind>> /\ (w \notin dropped' => w \notin dropped)
  <2>1. UNCHANGED <<here, blind>> /\ (dropped' = dropped \/ dropped' = Replaced(a, w))
    BY DEF Put, Upload, Resume, Load
  <2> QED  BY <1>0, <2>1 DEF Replaced
<1>4. job'[a].pc \notin {"load", "store", "upload"}
  BY HolderGoes
<1>5. ASSUME ~Leaving(e) PROVE Safe'
  <2>1. ~Leaving(e)' /\ e.pc \notin {"store", "upload", "reclaim"} /\ ~(Made(e) /\ w \in here')
    BY <1>1, <1>3, <1>5 DEF Leaving, Made, Locked
  <2> QED  BY <1>2, <2>1 DEF Safe, Own
<1>6. ASSUME Leaving(e) PROVE Beside(w, o) /\ (e.pc = "reclaim" => w \notin here)
  BY <1>0, <1>6 DEF Safe, JobExact
<1>7. CASE Load(a)
  <2>1. o.pc = "load"
    BY <1>7 DEF Load
  <2>2. Leaving(e) => ~Counted(w)'
    BY <1>0, <1>3, <1>6, <2>1 DEF Beside, Counted
  <2>3. Leaving(e) => ~Relied(w)'
    BY <2>2 DEF Relied
  <2>4. CASE Leaving(e)
    BY <1>2, <2>2, <2>3, <2>4 DEF Safe, Own, Beside
  <2> QED  BY <1>5, <2>4
<1>8. CASE ~Load(a) /\ Leaving(e)
  <2>1. data' = data
    BY <1>8 DEF Put, Upload, Resume, disk
  <2>2. (Relied(w)' <=> Relied(w)) /\ (Counted(w)' <=> Counted(w))
    BY <1>0, <1>3, <2>1 DEF Relied, Counted
  <2>3. Threats(w)' \subseteq Threats(w) /\ (Put(a) /\ a \in Clients => a \notin Threats(w)')
    <3>1. ASSUME NEW c \in Clients, Threat(w, job'[c]) PROVE Threat(w, job[c])
      <4>1. CASE c = a
        <5>1. Threat(w, job[a]) \/ w \in here
          BY <1>0, <3>1, <4>1 DEF Turn
        <5>2. job'[a].pc \in {"note", "resume", "suspend", "idle", "next", "again", "gone", "boot"}
          BY HolderGoes
        <5> QED  BY <3>1, <4>1, <5>2 DEF Threat
      <4>2. CASE c # a
        BY <1>2, <3>1, <4>2, Names
      <4> QED  BY <4>1, <4>2
    <3>2. Put(a) => job'[a].pc = "note"
      BY HolderGoes
    <3> QED  BY <3>1, <3>2 DEF Threats, Threat
  <2>4. ASSUME Relied(w), Top(w) \/ Few(w)
        PROVE  (Top(w) /\ w \in here => Top(w)') /\ (e.pc = "reclaim" => Few(w)')
    <3>0. Top(w) => Few(w)
      BY <1>0, TopIsFew
    <3>1. Top(w)' => Few(w)'
      BY <1>0, TopIsFew
    <3>2. Few(w)
      BY <2>4, <3>0
    <3>3. CASE Resume(a)
      <4>1. backups' = backups \/ backups' = Retained(backups, w, BackupRetain)
        BY <3>3 DEF Resume
      <4>2. Top(w) => Top(w)'
        BY <1>0, <2>1, <4>1, TopKept
      <4>3. Few(w)'
        BY <1>0, <2>1, <2>3, <3>2, <4>1, FewKept
      <4> QED  BY <4>2, <4>3
    <3>4. CASE Upload(a)
      <4>0. PICK x : x = [w |-> w, at |-> o.id, data |-> o.cap]
        OBVIOUS
      <4>1. o.pc = "upload" /\ backups' = backups \cup {x} /\ x.w = w /\ x.at = o.id /\ x.data = o.cap
        BY <3>4, <4>0 DEF Upload, Stored
      <4>2. o.cap = data[w]
        BY <1>6, <1>8, <2>4, <4>1 DEF Beside
      <4>3. o.id \in Int /\ \A b \in Of(w) : b.at < o.id
        BY <1>0, <4>1, Plain DEF JobNew
      <4>4. \A c \in Of(w)' : c = x \/ c.at <= x.at
        BY <1>0, <4>1, <4>3 DEF Of
      <4>5. x \in backups' /\ x.data = data'[w] /\ x.at \in Int
        BY <2>1, <4>1, <4>2, <4>3
      <4>6. Top(w)'
        BY <4>1, <4>4, <4>5, TopPut
      <4> QED  BY <3>1, <4>6
    <3>5. CASE Put(a)
      <4>0. PICK x : x = [w |-> w, at |-> clock', data |-> o.cap]
        OBVIOUS
      <4>1. /\ o.pc = "store" /\ clock' = clock + 1 /\ ~Pristine(a)
            /\ backups' \in {backups \cup {x}, Retained(backups \cup {x}, w, BackupRetain)}
        BY <3>5, <4>0 DEF Put, Stored
      <4>x. x.w = w /\ x.at = clock' /\ x.data = o.cap /\ data'[w] = data[w]
        BY <2>1, <4>0
      <4>2. o.cap = data[w] \/ (o.cap = 0 /\ w \notin here)
        BY <1>6, <1>8, <2>4, <4>1 DEF Beside
      <4>3. CASE o.cap = data[w]
        <5>1. \A c \in backups \cup {x} : c.w = w => c = x \/ c.at <= clock'
          BY <1>0, <4>1 DEF Of
        <5>2. \A c \in backups \cup {x} : c.w = w => ~(c.at > x.at)
          BY <1>0, <4>x, <5>1 DEF Of
        <5>3. x \in backups' /\ backups' \subseteq backups \cup {x}
          <6>1. x \in Retained(backups \cup {x}, w, BackupRetain)
            BY <4>x, <5>2, RetainedIs, BoundsAssumption
          <6> QED  BY <4>1, <6>1, RetainedIs
        <5>4. \A c \in Of(w)' : c = x \/ c.at <= x.at
          BY <4>x, <5>1, <5>3 DEF Of
        <5>6. x.data = data'[w] /\ x.at \in Int
          BY <1>0, <4>x, <4>3
        <5>5. Top(w)'
          BY <4>x, <5>3, <5>4, <5>6, TopPut
        <5> QED  BY <3>1, <5>5
      <4>4. CASE o.cap = 0 /\ w \notin here
        <5>1. o.op \in {"backup", "reset"}
          BY <4>1, <4>4 DEF Pristine, Forced
        <5>2. a \in Clients /\ a \in Threats(w)
          BY <4>1, <5>1 DEF News, Threats, Threat
        <5>3. Threats(w)' \subseteq Threats(w) \ {a}
          BY <2>3, <3>5, <5>2
        <5>4. Few(w)'
          BY <1>0, <4>1, <4>x, <3>2, <5>2, <5>3, FewPut
        <5> QED  BY <4>4, <5>4
      <4> QED  BY <4>2, <4>3, <4>4
    <3> QED  BY <1>8, <3>3, <3>4, <3>5
  <2>5. Own(e)'
    <3>1. e.pc \notin {"store", "upload"}
      BY <1>1 DEF Locked
    <3>2. Relied(w)' /\ w \in here' /\ w \notin dropped' /\ Made(e) => Top(w)'
      BY <1>3, <2>2, <2>4 DEF Safe, Own
    <3>3. Relied(w)' /\ w \notin dropped' /\ e.pc = "reclaim" => Few(w)'
      BY <1>3, <2>2, <2>4 DEF Safe, Own
    <3> QED  BY <3>1, <3>2, <3>3 DEF Own
  <2>6. ASSUME NEW b \in Actors \ {Evictor}, NEW j, j = job'[b], j.w = w PROVE Beside(w, j)'
    <3>1. CASE b = a
      BY <1>4, <2>6, <3>1 DEF Beside
    <3>2. CASE b # a
      <4>1. j = job[b] /\ Beside(w, j)
        BY <1>2, <1>8, <2>6, <3>2 DEF Safe
      <4> QED  BY <1>3, <2>1, <2>2, <4>1 DEF Beside
    <3> QED  BY <3>1, <3>2
  <2>7. \A b \in Actors \ {Evictor} : job'[b].w = w => Beside(w, job[b])'
    BY <2>6
  <2> QED  BY <1>2, <2>5, <2>7 DEF Safe
<1> QED  BY <1>5, <1>7, <1>8

\* Another's prune of a deleted workload is not the evictor's victim's.
LEMMA OtherPrunes ==
  ASSUME IInv, IInv', News, Safe, NEW a \in Actors \ {Evictor}, PruneDeleted(a), Step(a),
         NEW e \in Jobs, e = job[Evictor], e.op = "evict", job[a].w = e.w
  PROVE  Safe'
<1>1. job[a].pc = "prune" /\ here' = here /\ job'[Evictor] = e
  BY TurnOf, TurnArrives DEF PruneDeleted
<1>2. e.w \notin here
  BY <1>1, Idle DEF Job, JobExact
<1>3. e.pc # "reclaim"
  BY <1>1, Names DEF News
<1>4. ~Leaving(e)' /\ e.w \notin here'
  BY <1>1, <1>2, <1>3 DEF Leaving
<1> QED  BY <1>1, <1>3, <1>4 DEF Safe, Own

---------------------------------------------------------------------------
\* The evictor's own steps.

\* The dump a database's state names is the newest with its data, if it is in the
\* store and is what the data dir holds.
LEMMA DumpTop ==
  ASSUME IInv, News, NEW w \in here, KindOf[w] = "dump", dump[w].hash = data[w], data[w] \in Time \ {0},
         \E b \in Of(w) : b.at = dump[w].id /\ b.data = dump[w].hash
  PROVE  Top(w)
<1>1. /\ w \in Workloads /\ Of(w) \in SUBSET Backup /\ WorkCovered(w) /\ WorkNew(w)
      /\ dump[w].id \in Int /\ \A c \in Of(w) : c.at \in Nat
  BY Plain DEF IInv, Base, DataType, Of, News, Work
<1>2. Of(w) # {}
  OBVIOUS
<1>3. PICK g \in Of(w) : \A c \in Of(w) : c.at <= g.at
  BY <1>1, <1>2, NewestIs
<1>4. g.at >= dump[w].id
  BY <1>1, <1>3
<1>5. g.data = dump[w].hash
  BY <1>1, <1>4 DEF WorkCovered, WorkNew, Noted
<1> QED  BY <1>3, <1>5 DEF Top

LEMMA AtRest ==
  ASSUME NEW k, k = job'[Evictor], k.pc \notin {"store", "upload", "reclaim"}, ~Made(k)
  PROVE  Safe'
<1>1. k.pc \notin {"store", "upload", "reclaim", "gone", "record"}
  BY DEF Made
<1>2. Own(k)' /\ ~Leaving(k)'
  BY <1>1 DEF Own, Leaving
<1> QED  BY <1>2 DEF Safe

\* Its lock free or its own, nobody else is at a position that matters.
LEMMA NobodyBeside ==
  ASSUME JobsType, NEW w \in Workloads, lock[w] \in {Free, Evictor},
         \A b \in Actors \ {Evictor} : job'[b] = job[b]
  PROVE  \A b \in Actors \ {Evictor} : job'[b].w = w => Beside(w, job[b])'
<1> SUFFICES ASSUME NEW b \in Actors \ {Evictor}, NEW j, j = job'[b], j.w = w PROVE Beside(w, j)'
  OBVIOUS
<1>1. lock[w] # b
  BY Names
<1>2. j.pc \notin Locked
  BY <1>1 DEF JobsType
<1> QED  BY <1>2 DEF Beside, Locked

\* A backup that was made stays the newest.
LEMMA MadeKept ==
  ASSUME IInv, Safe, NEW o \in Jobs, o = job[Evictor], o.op = "evict", Made(o), NEW k, k.w = o.w,
         k.pc \notin {"store", "upload", "reclaim"}, UNCHANGED <<here, data, blind, dropped, world>>,
         backups' = backups \/ backups' = Retained(backups, o.w, BackupRetain)
  PROVE  Own(k)'
<1>1. o.w \in Workloads /\ Base /\ KindOf' = KindOf
  BY Plain DEF IInv, KindOf
<1>2. Relied(o.w)' <=> Relied(o.w)
  BY <1>1 DEF Relied, Counted
<1>3. Top(o.w) => Top(o.w)'
  BY <1>1, TopKept
<1> QED  BY <1>2, <1>3 DEF Safe, Own

\* Where the evictor comes to "gone", its victim's lock held or free.
LEMMA EvictorGone ==
  ASSUME IInv, News, Safe, Note(Evictor) \/ SealOffline(Evictor) \/ Resume(Evictor), Step(Evictor),
         NEW o \in Jobs, o = job[Evictor], NEW k, k = job'[Evictor], k.pc = "gone", k.op = "evict"
  PROVE  Safe'
<1> DEFINE w == o.w
<1>0. /\ Base /\ JobsType /\ w \in Workloads /\ Evictor \in Actors /\ Owned(Evictor, o) /\ Placed(o)
      /\ \A b \in Actors \ {Evictor} : job'[b] = job[b]
  BY Names, Idle, TurnOf DEF Turn
<1>1. PICK ok \in BOOLEAN : BackupOver(Evictor, ok) /\ (Resume(Evictor) => ok = o.ok)
  <2>1. CASE Note(Evictor)
    <3>1. ~Goto(Evictor, "seal")
      <4>1. Goto(Evictor, "seal") => job'[Evictor].pc = "seal"
        BY <1>0 DEF Goto, JobsType
      <4> QED  BY <4>1
    <3> QED  BY <2>1, <3>1 DEF Note, DumpOver, Resume
  <2>2. CASE SealOffline(Evictor)
    BY <2>2 DEF SealOffline, DumpOver, Resume
  <2>3. CASE Resume(Evictor)
    <3>1. o.ok \in BOOLEAN
      BY DEF Jobs
    <3> QED  BY <2>3, <3>1 DEF Resume
  <2> QED  BY <2>1, <2>2, <2>3
<1>2. /\ o.pc \in {"note", "seal", "resume"} /\ UNCHANGED <<here, data, blind, dropped, world>>
      /\ backups' = backups \/ backups' = Retained(backups, w, BackupRetain)
  BY DEF Note, SealOffline, Resume, disk
<1>3. \E j \in Jobs : /\ Does(Evictor, j) /\ j.was = FALSE
                      /\ (j.op # "none" => j.w = job[Evictor].w /\ j.op = job[Evictor].op)
                      /\ j.id = NoId /\ j.cap = 0 /\ (j.ok => ok /\ j.op = "reap")
                      /\ IF job[Evictor].op = "reap" THEN j.pc = "suspend" /\ j.op = "reap" /\ lock' = lock
                         ELSE /\ j.pc \in {"idle", "next", "again", "gone"}
                              /\ j.pc = "gone" => ok /\ j.op = "evict"
                              /\ j.pc = "again" => ok
                              /\ lock' = [lock EXCEPT ![job[Evictor].w] = Free]
  <2>1. job[Evictor].pc \in Dumping \cup Archiving
    BY <1>2 DEF Dumping, Archiving
  <2> QED  BY <1>0, <1>1, <1>2, <2>1, OverIs
<1>4. PICK j \in Jobs : Does(Evictor, j) /\ (j.op # "none" => j.w = o.w /\ j.op = o.op) /\ (j.pc = "gone" => ok)
  BY <1>0, <1>3 DEF Owned
<1>5. j = k
  BY <1>0, <1>4 DEF Does, JobsType
<1>6. k.w = w /\ o.op = "evict" /\ ok = TRUE
  BY <1>4, <1>5
<1>7. Made(o)
  <2>1. o.pc = "resume" => Resume(Evictor)
    BY DEF Note, SealOffline, Resume
  <2> QED  BY <1>1, <1>2, <1>6, <2>1 DEF Made
<1>8. Own(k)'
  BY <1>2, <1>6, <1>7, MadeKept
<1>9. lock[w] = Evictor
  BY <1>0, <1>2 DEF JobsType, Locked
<1>10. \A b \in Actors \ {Evictor} : job'[b].w = w => Beside(w, job[b])'
  BY <1>0, <1>9, NobodyBeside
<1> QED  BY <1>6, <1>8, <1>10 DEF Safe

\* A victim that counts as backed up when the evictor reaches it.
LEMMA EvictorRound ==
  ASSUME IInv, News, StampFirst, EvictNext, NEW k, k = job'[Evictor], k.pc = "gone", k.op = "evict"
  PROVE  Safe'
<1> DEFINE o == job[Evictor]
<1>0. /\ Base /\ JobsType /\ job \in [Actors -> Jobs] /\ o \in Jobs /\ Evictor \in Actors
      /\ KindOf' = KindOf /\ UNCHANGED <<here, data, backups, blind, dropped>>
      /\ \A b \in Actors \ {Evictor} : job'[b] = job[b]
  BY Names, TurnStarts DEF EvictNext, disk, KindOf, Begun, Turn, IInv, Base, JobsType
<1>1. ~End(Evictor)
  BY <1>0, NoJobIs DEF End
<1>2. PICK w \in o.todo, p \in {"next", "gone", "want"} :
        /\ job' = [job EXCEPT ![Evictor].todo = @ \ {w}, ![Evictor].w = w, ![Evictor].pc = p]
        /\ p = "gone" => \/ ~BackupBeforeEvict \/ KindOf[w] = "none"
                         \/ KindOf[w] = "tar" /\ Unchanged(w)
  BY <1>1 DEF EvictNext
<1>3. k.w = w /\ k.pc = p /\ w \in Workloads
  BY <1>0, <1>2 DEF Jobs
<1>4. Counted(w)' => KindOf[w] = "tar" /\ Unchanged(w)
  BY <1>0, <1>2, <1>3 DEF Counted
<1>5. CASE ~Counted(w)'
  <2>1. ~Relied(w)'
    BY <1>5 DEF Relied
  <2>2. Own(k)'
    BY <1>3, <2>1 DEF Own
  <2>3. \A b \in Actors \ {Evictor} : Beside(w, job[b])'
    BY <1>5, <2>1 DEF Beside
  <2> QED  BY <1>3, <2>2, <2>3 DEF Safe
<1>6. CASE Counted(w)'
  <2>0. /\ KindOf[w] = "tar" /\ Unchanged(w) /\ Of(w) \in SUBSET Backup /\ WorkFresh(w) /\ mtime[w] \in Nat
        /\ \A c \in Of(w) : c.at \in Nat
    BY <1>0, <1>3, <1>4, <1>6, Plain DEF IInv, Base, DataType, Of, Work
  <2>1. PICK g : /\ g \in Of(w) /\ \A c \in Of(w) : c.at <= g.at
                 /\ mtime[w] <= g.at
    BY <2>0, NewestIs DEF Unchanged
  <2>2. g.data = data[w] /\ data[w] # Gone
    BY <2>0, <2>1 DEF WorkFresh, Unchanged
  <2>3. Top(w)'
    BY <1>0, <2>1, <2>2 DEF Top, Of
  <2>4. Own(k)'
    BY <1>3, <2>3 DEF Own
  <2>5. ASSUME NEW b \in Actors \ {Evictor}, NEW j, j = job'[b], j.w = w PROVE Beside(w, j)'
    <3>1. j = job[b] /\ j \in Jobs /\ Placed(j) /\ JobFresh(j) /\ JobNew(j) /\ j.id \in Int
      BY <1>0, <2>5, Idle, Plain DEF Job, News
    <3>2. j.pc # "store"
      BY <2>0, <2>5, <3>1 DEF Placed, Dumping
    <3>3. j.pc # "load"
      BY <2>0, <2>1, <2>5, <3>1 DEF JobFresh
    <3>4. j.pc = "upload" => j.cap = data[w]
      <4> SUFFICES ASSUME j.pc = "upload" PROVE j.cap = data[w]
        OBVIOUS
      <4>1. g.at < j.id
        BY <2>1, <2>5, <3>1 DEF JobNew
      <4>2. mtime[w] <= j.id
        BY <2>0, <2>1, <3>1, <4>1
      <4> QED  BY <2>2, <2>5, <3>1, <4>2 DEF JobFresh
    <3> QED  BY <1>0, <3>2, <3>3, <3>4 DEF Beside
  <2>6. \A b \in Actors \ {Evictor} : job'[b].w = w => Beside(w, job[b])'
    BY <2>5
  <2> QED  BY <1>3, <2>4, <2>6 DEF Safe
<1> QED  BY <1>5, <1>6

\* A victim whose sealed dump counts as current when the evictor has its lock.
LEMMA EvictorCurrent ==
  ASSUME IInv, News, Acquire(Evictor), Step(Evictor), NEW k, k = job'[Evictor], k.pc = "gone", k.op = "evict"
  PROVE  Safe'
<1> DEFINE o == job[Evictor]
<1>w. PICK w \in Workloads : w = o.w
  BY Idle, Names
<1>0. /\ Base /\ JobsType /\ o \in Jobs /\ Evictor \in Actors /\ w \in Workloads /\ Work(w)
      /\ KindOf' = KindOf /\ UNCHANGED <<here, data, backups, blind, dropped>> /\ lock[w] = Free
      /\ \A b \in Actors \ {Evictor} : job'[b] = job[b]
      /\ data[w] \in Time \cup {Gone} /\ dump[w].hash \in Time \cup {NoId} /\ Owned(Evictor, o)
      /\ o.pc = "want"
  BY <1>w, Names, Idle, TurnOf, Plain DEF Acquire, disk, KindOf, Turn, IInv, Base, DataType
<1>1. \A p \in Positions \ {"gone"} : ~Goto(Evictor, p)
  BY <1>0 DEF Goto, JobsType, Jobs
<1>2. ~Take(Evictor, "export") /\ ~Take(Evictor, "quiesce") /\ ~Take(Evictor, "suspend") /\ ~Take(Evictor, "wipe")
  BY <1>1 DEF Take, Positions, Locked
<1>3. DailyDump(Evictor)
  BY <1>2 DEF Acquire
<1>4. PICK p \in {"gone", "next"} : /\ job' = [job EXCEPT ![Evictor].pc = p]
                                    /\ w \notin here => p = "next"
                                    /\ w \in here => Current(w)
                                    /\ KindOf[w] = "dump"
  <2>1. o.op = "evict"
    BY <1>0, <1>3 DEF DailyDump, Owned
  <2> QED  BY <1>w, <1>2, <1>3, <2>1, AfterIs DEF DailyDump
<1>5. k.w = w /\ k.pc = p
  BY <1>w, <1>0, <1>4 DEF JobsType, Jobs
<1>6. w \in here /\ Current(w) /\ KindOf[w] = "dump"
  BY <1>4, <1>5
<1>7. ASSUME Relied(w)', w \notin dropped' PROVE Top(w)'
  <2>1. w \notin blind /\ data[w] \in Time \ {0} /\ w \notin dropped
    BY <1>0, <1>6, <1>7 DEF Relied, Counted
  <2>2. dump[w].hash = data[w]
    BY <1>0, <1>6, <2>1 DEF Current, Work, WorkExact, Same
  <2>3. \E b \in Of(w) : b.at = dump[w].id /\ b.data = dump[w].hash
    BY <1>0, <1>6, <2>1, <2>2 DEF Current, Work, WorkCovered, Exact, Known
  <2>4. Top(w)
    BY <1>6, <2>1, <2>2, <2>3, DumpTop
  <2> QED  BY <1>0, <2>4 DEF Top, Of
<1>8. Own(k)'
  BY <1>5, <1>7 DEF Own
<1>9. \A b \in Actors \ {Evictor} : job'[b].w = w => Beside(w, job[b])'
  BY <1>0, NobodyBeside
<1> QED  BY <1>5, <1>8, <1>9 DEF Safe

\* The dump or the archive the evictor has in hand, and what it stores of it.
LEMMA EvictorTakes ==
  ASSUME IInv, IInv', Export(Evictor) \/ OfflineDone(Evictor) \/ Pack(Evictor), Step(Evictor), NEW k, k = job'[Evictor],
         k.pc \in {"store", "upload"}
  PROVE  Safe'
<1> DEFINE o == job[Evictor]
<1>0. /\ k.w = o.w /\ UNCHANGED <<here, data>>
      /\ k.pc = "store" => k.cap \in Exported(o.w)
      /\ k.pc = "upload" => k.cap = data[o.w]
  BY Names, TurnOf DEF Turn, Holding, Export, OfflineDone, Pack, disk
<1>1. k.w \in here' => k.cap = data'[k.w]
  BY <1>0 DEF Exported
<1>2. Own(k)' /\ ~Leaving(k)'
  BY <1>1 DEF Own, Leaving, Made
<1> QED  BY <1>2 DEF Safe

LEMMA EvictorNotes ==
  ASSUME IInv, News, Safe, KeepNothing(Evictor) \/ Put(Evictor), Step(Evictor), NEW k, k = job'[Evictor],
         k.pc = "note", k.op = "evict"
  PROVE  Safe'
<1> DEFINE o == job[Evictor]
<1>w. PICK w \in Workloads : w = o.w
  BY Idle, Names
<1>0. /\ Base /\ o \in Jobs /\ Placed(o) /\ WorkCovered(w) /\ k.w = w /\ o.pc = "store" /\ KindOf' = KindOf
      /\ UNCHANGED <<here, data, blind, world>> /\ o.op = "evict" /\ Job(o)
      /\ \A b \in Of(w) : b.at \in Nat /\ b.at <= clock
      /\ clock \in Nat /\ data[w] \in Time \cup {Gone} /\ KindOf[w] = "dump"
  <2>1. k.w = o.w /\ o.pc = "store" /\ UNCHANGED <<here, data, blind, world>>
    BY Names, TurnOf DEF Turn, Holding, KeepNothing, Put, disk
  <2>2. o \in Jobs /\ Owned(Evictor, o) /\ Placed(o) /\ Job(o) /\ Base
    BY Idle, Names
  <2>3. o.op = "evict" /\ KindOf[w] = "dump"
    BY <1>w, <2>1, <2>2 DEF Owned, Placed, Dumping
  <2> QED  BY <1>w, <2>1, <2>2, <2>3, Plain DEF IInv, Work, WorkFresh, Of, Base, DataType, KindOf
<1>1. ASSUME Relied(w)', w \in here' PROVE Top(w)'
  <2>1. o.cap = data[w] /\ data[w] \in Time \ {0} /\ w \in here
    BY <1>w, <1>0, <1>1 DEF Safe, Own, Relied, Counted
  <2>2. CASE KeepNothing(Evictor)
    <3>1. ~Pristine(Evictor)
      BY <1>w, <2>1 DEF Pristine
    <3>2. dump[w].hash = data[w] /\ HasBackup(w, dump[w].id) /\ backups' = backups
      BY <1>w, <2>1, <2>2, <3>1 DEF KeepNothing, SameAsLast
    <3>3. \E b \in Of(w) : b.at = dump[w].id /\ b.data = dump[w].hash
      BY <1>0, <3>2 DEF HasBackup, WorkCovered
    <3>4. Top(w)
      BY <1>0, <2>1, <3>2, <3>3, DumpTop
    <3> QED  BY <1>0, <3>2, <3>4 DEF Top, Of
  <2>3. CASE Put(Evictor)
    <3>0. PICK x : x = [w |-> w, at |-> clock', data |-> o.cap]
      OBVIOUS
    <3>1. /\ clock' = clock + 1
          /\ backups' \in {backups \cup {x}, Retained(backups \cup {x}, w, BackupRetain)}
      BY <1>w, <2>3, <3>0 DEF Put, Stored
    <3>2. x.w = w /\ x.at = clock' /\ x.data = o.cap
      BY <3>0
    <3>3. \A c \in backups \cup {x} : c.w = w => (c = x \/ c.at <= x.at) /\ ~(c.at > x.at)
      BY <1>0, <3>1, <3>2 DEF Of
    <3>4. x \in backups' /\ backups' \subseteq backups \cup {x}
      <4>1. x \in Retained(backups \cup {x}, w, BackupRetain)
        BY <3>3, RetainedIs, BoundsAssumption
      <4> QED  BY <3>1, <4>1, RetainedIs
    <3>5. x.data = data'[w] /\ x.at \in Int
      BY <1>0, <2>1, <3>1, <3>2
    <3>6. \A c \in Of(w)' : c = x \/ c.at <= x.at
      BY <3>3, <3>4 DEF Of
    <3> QED  BY <3>2, <3>4, <3>5, <3>6, TopPut
  <2> QED  BY <2>2, <2>3
<1>2. Own(k)' /\ ~Leaving(k)'
  BY <1>0, <1>1 DEF Own, Leaving
<1> QED  BY <1>2 DEF Safe

LEMMA EvictorUploads ==
  ASSUME IInv, News, Safe, StampFirst, Upload(Evictor), Step(Evictor), NEW k, k = job'[Evictor],
         k.pc = "resume", k.op = "evict"
  PROVE  Safe'
<1> DEFINE o == job[Evictor]
<1>w. PICK w \in Workloads : w = o.w
  BY Idle, Names
<1>0. /\ Base /\ o \in Jobs /\ o.pc = "upload" /\ k.w = w /\ KindOf' = KindOf
      /\ UNCHANGED <<here, data, blind, world>> /\ o.op = "evict" /\ JobNew(o) /\ o.id \in Int
      /\ \A b \in Of(w) : b.at \in Nat
  <2>1. o.pc = "upload" /\ UNCHANGED <<here, data, blind, world>>
    BY DEF Upload, disk
  <2>2. o \in Jobs /\ Owned(Evictor, o) /\ Base /\ JobsType
    BY Idle, Names
  <2>3. o.op = "evict" /\ k.w = o.w
    BY <2>1, <2>2, Names DEF Owned, Upload, JobsType, Jobs
  <2> QED  BY <1>w, <2>1, <2>2, <2>3, Names, Plain DEF News, Of, KindOf
<1>1. ASSUME Relied(w)', w \in here' PROVE Top(w)'
  <2>0. PICK x : x = [w |-> w, at |-> o.id, data |-> o.cap]
    OBVIOUS
  <2>1. o.cap = data[w]
    BY <1>w, <1>0, <1>1 DEF Safe, Own, Relied, Counted
  <2>2. backups' = backups \cup {x} /\ x.w = w /\ x.at = o.id /\ x.data = o.cap
    BY <1>w, <2>0 DEF Upload, Stored
  <2>3. \A b \in Of(w) : b.at < o.id
    BY <1>w, <1>0 DEF JobNew
  <2>4. \A c \in Of(w)' : c = x \/ c.at <= x.at
    BY <1>0, <2>2, <2>3 DEF Of
  <2>5. x \in backups' /\ x.data = data'[w] /\ x.at \in Int
    BY <1>0, <2>1, <2>2
  <2> QED  BY <2>2, <2>4, <2>5, TopPut
<1>2. Own(k)' /\ ~Leaving(k)'
  BY <1>0, <1>1 DEF Own, Leaving
<1> QED  BY <1>2 DEF Safe

\* A dump that is noted, and yet to be sealed.
LEMMA EvictorSeals ==
  ASSUME IInv, Safe, Note(Evictor), Step(Evictor), NEW k, k = job'[Evictor], k.pc = "seal", k.op = "evict"
  PROVE  Safe'
<1>1. PICK o \in Jobs : o = job[Evictor]
  BY Idle, Names
<1>2. Owned(Evictor, o) /\ JobsType /\ job \in [Actors -> Jobs] /\ Evictor \in Actors
  BY <1>1, Idle, Names DEF JobsType
<1>3. Goto(Evictor, "seal")
  <2>1. PICK ok \in BOOLEAN : Goto(Evictor, "seal") \/ BackupOver(Evictor, ok)
    BY DEF Note, DumpOver
  <2>2. k.op # "none" => k.pc # "seal" \/ ~BackupOver(Evictor, ok)
    <3> SUFFICES ASSUME BackupOver(Evictor, ok) PROVE k.pc # "seal"
      OBVIOUS
    <3>1. k.pc \in {"next", "gone", "idle", "again", "suspend"}
      <4>1. \E j \in Jobs : /\ Does(Evictor, j) /\ j.was = FALSE
                            /\ (j.op # "none" => j.w = job[Evictor].w /\ j.op = job[Evictor].op)
                            /\ j.id = NoId /\ j.cap = 0 /\ (j.ok => ok /\ j.op = "reap")
                            /\ IF job[Evictor].op = "reap" THEN j.pc = "suspend" /\ j.op = "reap" /\ lock' = lock
                               ELSE /\ j.pc \in {"idle", "next", "again", "gone"}
                                    /\ j.pc = "gone" => ok /\ j.op = "evict"
                                    /\ j.pc = "again" => ok
                                    /\ lock' = [lock EXCEPT ![job[Evictor].w] = Free]
        <5>1. job[Evictor].pc \in Dumping \cup Archiving /\ world' = world
          BY DEF Note, Dumping
        <5> QED  BY <1>2, <5>1, OverIs
      <4>2. PICK j \in Jobs : Does(Evictor, j) /\ j.pc \in {"next", "gone", "idle", "again", "suspend"}
        BY <4>1
      <4> QED  BY <1>2, <4>2 DEF Does
    <3> QED  BY <3>1
  <2> QED  BY <2>1, <2>2
<1>4. k.w = o.w /\ o.op = "evict" /\ o.pc = "note"
  BY <1>1, <1>2, <1>3 DEF Goto, Owned, Note, Jobs
<1>5. UNCHANGED <<here, data, backups, blind, dropped, world>> /\ Made(o)
  BY <1>4 DEF Note, Made
<1>6. Own(k)' /\ ~Leaving(k)'
  BY <1>1, <1>4, <1>5, MadeKept DEF Leaving
<1> QED  BY <1>6 DEF Safe

\* The instance is stopped, and then the record deleted.
LEMMA EvictorLeaves ==
  ASSUME IInv, IInv', News, Safe, IsFiniteSet(Clients), Cardinality(Clients) < BackupRetain,
         DeleteStop(Evictor) \/ DeleteRecord(Evictor), Step(Evictor), NEW k, k = job'[Evictor],
         k.pc \in {"record", "reclaim"}, k.op = "evict"
  PROVE  Safe'
<1> DEFINE o == job[Evictor]
<1>w. PICK w \in Workloads : w = o.w
  BY Idle, Names
<1>0. /\ Base /\ o \in Jobs /\ KindOf' = KindOf /\ IsFiniteSet(backups)
      /\ UNCHANGED <<data, backups, blind, dropped, world>> /\ here' \subseteq here
      /\ (\A b \in Actors \ {Evictor} : job'[b] = job[b])
      /\ o.pc \in {"gone", "record"} /\ Owned(Evictor, o) /\ JobsType /\ job \in [Actors -> Jobs]
  <2>1. UNCHANGED <<data, backups, blind, dropped, world>> /\ o.pc \in {"gone", "record"} /\ here' \subseteq here
    BY DEF DeleteStop, DeleteRecord, disk
  <2> QED  BY <2>1, Idle, Names, TurnOf DEF KindOf, News, Turn, JobsType
<1>1. /\ k.w = w /\ o.op = "evict"
      /\ k.pc = "record" => o.pc = "gone" /\ here' = here
      /\ k.pc = "reclaim" => o.pc = "record" /\ w \in here /\ here' = here \ {w}
  <2>1. k.pc = "record" => DeleteStop(Evictor)
    BY Names, TurnOf DEF Turn
  <2>2. k.pc = "reclaim" => DeleteRecord(Evictor)
    BY Names, TurnOf DEF Turn
  <2>3. o.op = "evict"
    BY <1>0 DEF Owned
  <2>4. CASE DeleteStop(Evictor)
    <3>1. k.w = o.w /\ k.pc = "record" /\ o.pc = "gone" /\ here' = here
      BY <1>0, <2>4, Names DEF DeleteStop, Goto, Jobs
    <3> QED  BY <1>w, <2>3, <3>1
  <2>5. CASE k.pc = "reclaim" /\ DeleteRecord(Evictor)
    <3>1. k.w = o.w
      BY <2>5, Names, TurnOf DEF Turn
    <3>2. o.pc = "record" /\ w \in here /\ here' = here \ {w}
      <4>1. CASE w \in here
        BY <1>w, <2>5, <4>1 DEF DeleteRecord
      <4>2. CASE w \notin here
        <5>1. Deleted(Evictor)
          BY <1>w, <2>5, <4>2 DEF DeleteRecord
        <5>2. k.pc = "next"
          BY <1>0, <2>3, <5>1, Names DEF Deleted, Goto, Jobs
        <5> QED  BY <2>5, <5>2
      <4> QED  BY <4>1, <4>2
    <3> QED  BY <1>w, <2>3, <2>5, <3>1, <3>2
  <2> QED  BY <2>1, <2>2, <2>4, <2>5
<1>2. (Relied(w)' <=> Relied(w)) /\ (Counted(w)' <=> Counted(w))
  BY <1>0 DEF Relied, Counted
<1>3. Leaving(o) => \A b \in Actors \ {Evictor} : job'[b].w = w => Beside(w, job[b])'
  <2> SUFFICES ASSUME Leaving(o), NEW b \in Actors \ {Evictor}, NEW j, j = job'[b], j.w = w
               PROVE  Beside(w, j)'
    OBVIOUS
  <2>1. j = job[b] /\ Beside(w, j)
    BY <1>w, <1>0, <1>1 DEF Safe
  <2> QED  BY <1>0, <1>2, <2>1 DEF Beside
<1>4. CASE k.pc = "record"
  <2>1. Made(o) /\ k.w = o.w
    BY <1>w, <1>1, <1>4 DEF Made
  <2>2. Own(k)'
    BY <1>0, <1>1, <1>4, <2>1, MadeKept
  <2>3. Leaving(k)' => Leaving(o)
    BY <1>w, <1>1, <1>4 DEF Leaving
  <2> QED  BY <1>1, <1>3, <2>2, <2>3 DEF Safe
<1>5. CASE k.pc = "reclaim"
  <2>1. Made(o) /\ Leaving(o) /\ w \notin here'
    BY <1>w, <1>1, <1>5 DEF Made, Leaving
  <2>2. ASSUME Relied(w)', w \notin dropped' PROVE Few(w)'
    <3>0. Own(o) /\ Relied(w) /\ w \in here /\ w \notin dropped
      BY <1>0, <1>1, <1>2, <1>5, <2>2 DEF Safe
    <3>1. Top(w)
      BY <1>w, <2>1, <3>0 DEF Own
    <3>2. Few(w)
      BY <1>0, <3>1, TopIsFew DEF IInv
    <3>3. Threats(w)' \subseteq Threats(w)
      BY <1>0, Names DEF Threats
    <3> QED  BY <1>0, <3>2, <3>3, FewKept
  <2>3. Own(k)'
    BY <1>1, <1>5, <2>1, <2>2 DEF Own
  <2> QED  BY <1>1, <1>3, <2>1, <2>3 DEF Safe
<1> QED  BY <1>4, <1>5

LEMMA EvictorKeeps ==
  ASSUME IInv, IInv', News, Safe, StampFirst, IsFiniteSet(Clients), Cardinality(Clients) < BackupRetain,
         Step(Evictor)
  PROVE  Safe'
<1>1. PICK k : k = job'[Evictor]
  OBVIOUS
<1>2. Turn(Evictor)
  BY Names, TurnOf
<1>3. CASE k.op # "evict"
  BY <1>1, <1>3 DEF Safe
<1>4. CASE k.pc \notin {"store", "upload", "reclaim"} /\ ~Made(k)
  BY <1>1, <1>4, AtRest
<1>5. CASE k.pc \in {"store", "upload"}
  <2>1. Export(Evictor) \/ OfflineDone(Evictor) \/ Pack(Evictor)
    BY <1>1, <1>2, <1>5 DEF Turn
  <2> QED  BY <1>1, <1>5, <2>1, EvictorTakes
<1>6. CASE k.pc = "note" /\ k.op = "evict"
  <2>1. KeepNothing(Evictor) \/ Put(Evictor)
    BY <1>1, <1>2, <1>6 DEF Turn
  <2> QED  BY <1>1, <1>6, <2>1, EvictorNotes
<1>7. CASE k.pc = "resume" /\ k.ok /\ k.op = "evict"
  <2>1. Upload(Evictor)
    BY <1>1, <1>2, <1>7 DEF Turn
  <2> QED  BY <1>1, <1>7, <2>1, EvictorUploads
<1>8. CASE k.pc \in {"record", "reclaim"} /\ k.op = "evict"
  <2>1. DeleteStop(Evictor) \/ DeleteRecord(Evictor)
    BY <1>1, <1>2, <1>8 DEF Turn
  <2> QED  BY <1>1, <1>8, <2>1, EvictorLeaves
<1>9. CASE k.pc = "seal" /\ k.op = "evict"
  <2>1. Note(Evictor)
    BY <1>1, <1>2, <1>9 DEF Turn
  <2> QED  BY <1>1, <1>9, <2>1, EvictorSeals
<1>10. CASE k.pc = "gone" /\ k.op = "evict"
  <2>1. EvictNext \/ Acquire(Evictor) \/ Note(Evictor) \/ SealOffline(Evictor) \/ Resume(Evictor)
    BY <1>1, <1>2, <1>10 DEF Turn
  <2>2. job[Evictor] \in Jobs
    BY Idle, Names
  <2> QED  BY <1>1, <1>10, <2>1, <2>2, EvictorRound, EvictorCurrent, EvictorGone
<1> QED  BY <1>3, <1>4, <1>5, <1>6, <1>7, <1>8, <1>9, <1>10 DEF Made

---------------------------------------------------------------------------
\* The evictor's data is safe in every state.

LEMMA SafeBesides ==
  ASSUME IInv, IInv', News, Safe, StampFirst, IsFiniteSet(Clients), Cardinality(Clients) < BackupRetain,
         NEW a \in Actors \ {Evictor}, Step(a)
  PROVE  Safe'
<1>1. PICK e \in Jobs : e = job[Evictor]
  BY Idle, Names
<1>2. CASE e.op # "evict"
  <2>1. job'[Evictor] = e
    BY <1>1, TurnOf, Names DEF Turn
  <2> QED  BY <1>2, <2>1 DEF Safe
<1>3. CASE e.op = "evict" /\ (Put(a) \/ Upload(a) \/ Resume(a) \/ Load(a)) /\ job[a].w = e.w
  BY <1>1, <1>3, HolderPuts
<1>4. CASE e.op = "evict" /\ PruneDeleted(a) /\ job[a].w = e.w
  BY <1>1, <1>4, OtherPrunes
<1>5. CASE e.op = "evict" /\ (Put(a) \/ Upload(a) \/ Resume(a) \/ Load(a) \/ PruneDeleted(a) => job[a].w # e.w)
  BY <1>1, <1>5, OthersLeave
<1> QED  BY <1>2, <1>3, <1>4, <1>5

\* Starting a job, and what no job does.
LEMMA SafeStarts ==
  ASSUME IInv, IInv', News, Safe, IsFiniteSet(Clients), NEW a \in Actors \ {Evictor}, Begun(a),
         UNCHANGED <<here, disk, backups, blind, dropped, world>>
  PROVE  Safe'
<1>1. PICK e \in Jobs : e = job[Evictor]
  BY Idle, Names
<1>2. Turn(a) /\ job'[Evictor] = e
  BY <1>1, Names DEF Begun, Turn
<1>3. CASE e.op # "evict"
  BY <1>2, <1>3 DEF Safe
<1>4. CASE e.op = "evict"
  <2>1. \A b \in Actors \ {Evictor} : Arrives(e.w, b)
    BY <1>1, <1>2, <1>4, TurnArrives
  <2>2. Of(e.w)' = Of(e.w) /\ data'[e.w] = data[e.w]
    BY DEF Of, disk
  <2> QED  BY <1>1, <1>2, <2>1, <2>2, MildKept
<1> QED  BY <1>3, <1>4

LEMMA SafeStill ==
  ASSUME IInv, IInv', News, Safe, IsFiniteSet(Clients), UNCHANGED <<job, world, here>>, blind \subseteq blind',
         dropped \subseteq dropped',
         \A w \in Workloads : /\ data'[w] = data[w] \/ (Picked(w) => w \in blind')
                              /\ Of(w)' = Of(w) \/ w \in dropped'
  PROVE  Safe'
<1>1. PICK e \in Jobs : e = job[Evictor]
  BY Idle, Names
<1>2. CASE e.op # "evict"
  BY <1>1, <1>2 DEF Safe
<1>3. CASE e.op = "evict"
  <2>1. Picked(e.w) /\ e.w \in Workloads
    BY <1>1, <1>3, Plain DEF Picked
  <2>2. \A b \in Actors \ {Evictor} : Arrives(e.w, b)
    BY DEF Arrives
  <2> QED  BY <1>1, <2>1, <2>2, MildKept
<1> QED  BY <1>2, <1>3

LEMMA SafeNext ==
  ASSUME StampFirst, IsFiniteSet(Clients), Cardinality(Clients) < BackupRetain
  PROVE  IInv /\ News /\ Safe /\ [Next]_vars => Safe'
<1> SUFFICES ASSUME IInv, News, Safe, [Next]_vars PROVE Safe'
  OBVIOUS
<1>0. IInv' /\ Base /\ DataType
  BY NextKeeps DEF IInv, Base
<1>1. ASSUME NEW w \in Workloads, Wake(w) \/ OfflineExits(w) \/ SetKeepWarm(w) \/ RetryTime(w) PROVE Safe'
  <2>1. UNCHANGED <<job, world, here, data, backups, blind, dropped>>
    BY <1>1 DEF Wake, OfflineExits, SetKeepWarm, RetryTime, disk
  <2> QED  BY <1>0, <2>1, SafeStill DEF Of
<1>2. ASSUME NEW w \in Workloads, Write(w) PROVE Safe'
  <2>1. data' = [data EXCEPT ![w] = clock'] /\ UNCHANGED <<here, backups, job, world, dropped>>
        /\ blind \subseteq blind' /\ (Picked(w) => w \in blind')
    BY <1>2 DEF Write
  <2>2. \A u \in Workloads : data'[u] = data[u] \/ (Picked(u) => u \in blind')
    BY <1>0, <2>1 DEF DataType
  <2> QED  BY <1>0, <2>1, <2>2, SafeStill DEF Of
<1>3. ASSUME NEW a \in Actors \ {Evictor}, Begun(a), UNCHANGED <<here, disk, backups, blind, dropped, world>>
      PROVE  Safe'
  BY <1>0, <1>3, SafeStarts
<1>4. ASSUME NEW w \in Workloads, NEW a \in Clients, NEW op \in Calls, Call(a, op, w) PROVE Safe'
  BY <1>3, <1>4, TurnStarts, Names DEF Call
<1>5. ASSUME NEW w \in Workloads, ReapStart(w) PROVE Safe'
  BY <1>3, <1>5, TurnStarts, Names DEF ReapStart
<1>6. ASSUME NEW b \in backups, NEW a \in Clients, CallRestore(a, b) PROVE Safe'
  BY <1>3, <1>6, TurnStarts, Names DEF CallRestore
<1>7. CASE SweepStart
  BY <1>3, <1>7, TurnStarts, Names DEF SweepStart
<1>8. CASE EvictStart \/ EvictNext
  <2>1. PICK k : k = job'[Evictor]
    OBVIOUS
  <2>2. Turn(Evictor) /\ k.pc \notin Holding
    BY <1>8, <2>1, TurnStarts DEF Begun
  <2>3. CASE k.pc = "gone" /\ k.op = "evict" /\ EvictNext
    BY <2>1, <2>3, EvictorRound
  <2>4. k.pc \in {"idle", "next", "want", "gone"}
    <3>1. CASE EvictStart
      <4>1. PICK v : job' = [job EXCEPT ![Evictor] = [NoJob EXCEPT !.op = "evict", !.pc = "next", !.todo = v]]
        BY <3>1 DEF EvictStart
      <4>2. k.pc = "next"
        BY <1>0, <2>1, <4>1, Names DEF Base, JobsType, NoJob
      <4> QED  BY <4>2
    <3>2. CASE EvictNext /\ End(Evictor)
      BY <1>0, <2>1, <3>2, Names, NoJobIs DEF End, Base, JobsType
    <3>3. CASE EvictNext /\ ~End(Evictor)
      <4>1. PICK w \in job[Evictor].todo, p \in {"next", "gone", "want"} :
              job' = [job EXCEPT ![Evictor].todo = @ \ {w}, ![Evictor].w = w, ![Evictor].pc = p]
        BY <3>3 DEF EvictNext
      <4>2. k.pc = p
        BY <1>0, <2>1, <4>1, Names DEF Base, JobsType, Jobs
      <4> QED  BY <4>2
    <3> QED  BY <1>8, <3>1, <3>2, <3>3
  <2>5. CASE k.pc # "gone"
    BY <2>1, <2>4, <2>5, AtRest DEF Made
  <2>6. CASE k.op # "evict"
    BY <2>1, <2>6 DEF Safe
  <2>7. EvictStart => k.pc # "gone"
    <3> SUFFICES ASSUME EvictStart PROVE k.pc = "next"
      OBVIOUS
    <3>1. PICK v : job' = [job EXCEPT ![Evictor] = [NoJob EXCEPT !.op = "evict", !.pc = "next", !.todo = v]]
      BY DEF EvictStart
    <3> QED  BY <1>0, <2>1, <3>1, Names DEF Base, JobsType, NoJob
  <2> QED  BY <1>8, <2>3, <2>5, <2>6, <2>7
<1>9. ASSUME NEW b \in backups, DeleteBackup(b) PROVE Safe'
  <2>1. UNCHANGED <<job, world, data, here, blind>> /\ backups' = backups \ {b} /\ dropped' = dropped \cup {b.w}
    BY <1>9 DEF DeleteBackup, disk
  <2>2. \A w \in Workloads : Of(w)' = Of(w) \/ w \in dropped'
    BY <2>1 DEF Of
  <2> QED  BY <1>0, <2>1, <2>2, SafeStill
<1>10. ASSUME NEW a \in Actors, Step(a) PROVE Safe'
  BY <1>0, <1>10, SafeBesides, EvictorKeeps
<1>11. CASE Crash
  BY <1>11, NoJobIs, Names DEF Crash, Safe
<1>12. CASE UNCHANGED vars
  <2>1. UNCHANGED <<job, world, here, data, backups, blind, dropped>>
    BY <1>12 DEF vars, disk
  <2> QED  BY <1>0, <2>1, SafeStill DEF Of
<1> QED  BY <1>1, <1>2, <1>4, <1>5, <1>6, <1>7, <1>8, <1>9, <1>10, <1>11, <1>12 DEF Next

LEMMA SafeHolds ==
  ASSUME StampFirst, IsFiniteSet(Clients), Cardinality(Clients) < BackupRetain
  PROVE  Spec => []Safe
<1>1. Init => Safe
  BY NoJobIs, Names DEF Init, Safe
<1>2. IInv /\ News /\ Safe /\ [Next]_vars => Safe'
  BY SafeNext
<1> QED  BY <1>1, <1>2, NewsHold, Invariance, PTL DEF Spec

---------------------------------------------------------------------------
\* Types, and who holds which lock: one actor for each workload at most, whose
\* job is at a position of the lock.
THEOREM TypeCorrect == Spec => []TypeOK
<1>1. IInv => TypeOK
  BY TypeParts DEF IInv
<1> QED  BY <1>1, Invariance, PTL

\* A dump that counts as current (dumpCurrent) holds everything the database wrote
\* but for what it wrote between the reaper's dump and the suspend.
THEOREM SealedIsExact == Spec => []CurrentIsExact
<1>1. IInv => CurrentIsExact
  BY DEF IInv, Base, DataType, Work, WorkExact, Same, Current, CurrentIsExact
<1> QED  BY <1>1, Invariance, PTL

\* What the coverage report (coverDump) says is covered is in the store, whatever
\* failed on the way and whatever retention took away.
THEOREM Covered == Spec => []CoveredIsStored
<1>1. ASSUME IInv PROVE CoveredIsStored
  <2> SUFFICES ASSUME NEW w \in here, NEW young \in BOOLEAN,
                      KindOf[w] = "dump", CoverDump(w, young) \in {"current", "recent"},
                      dump[w].hash # 0, w \notin dropped
               PROVE  \E b \in Of(w) : /\ b.at >= dump[w].id
                                       /\ Current(w) => b.at = dump[w].id /\ b.data = dump[w].hash
    BY DEF CoveredIsStored
  <2>1. w \in Workloads /\ Work(w) /\ Base /\ dump[w].hash \in Time \cup {NoId} /\ dump[w].id \in Int
        /\ \A b \in Of(w) : b.at \in Nat
    BY <1>1, Plain DEF IInv, Base, DataType, Of
  <2>2. dump[w] # NoDump
    <3>1. Current(w) \/ dump[w] # NoDump
      BY DEF CoverDump
    <3> QED  BY <3>1 DEF Current
  <2>3. Known(w)
    BY <2>1, <2>2 DEF Known, Work, WorkCovered
  <2>4. CASE Current(w)
    <3>1. PICK b \in Of(w) : b.at = dump[w].id /\ b.data = dump[w].hash
      BY <2>1, <2>3, <2>4 DEF Current, Work, WorkCovered, Exact
    <3> QED  BY <2>1, <3>1
  <2>5. CASE ~Current(w)
    BY <2>1, <2>3, <2>5 DEF Work, WorkCovered
  <2> QED  BY <2>4, <2>5
<1> QED  BY <1>1, Invariance, PTL

\* An archive no file is newer than (unchangedSinceBackup) holds the data dir's
\* bytes, in a store that takes an archive's time before it is made (LocalStore).
THEOREM Archived == Spec => [](StampFirst => UnchangedIsStored)
<1>1. ASSUME IInv, StampFirst PROVE UnchangedIsStored
  <2> SUFFICES ASSUME NEW w \in here, KindOf[w] = "tar", Unchanged(w)
               PROVE  Newest(Of(w)).data = data[w]
    BY DEF UnchangedIsStored
  <2>1. w \in Workloads /\ Work(w) /\ Of(w) \subseteq Backup
    BY <1>1 DEF IInv, Base, DataType, Of
  <2>2. Newest(Of(w)) \in Of(w)
    BY <2>1, NewestIs DEF Unchanged
  <2> QED  BY <1>1, <2>1, <2>2 DEF Unchanged, Work, WorkFresh
<1>2. IInv => (StampFirst => UnchangedIsStored)
  BY <1>1
<1> QED  BY <1>2, Invariance, PTL

\* The evictor removes no data that is not in the store, but for what was written
\* after it had picked the workload and for what DeleteBackup took, if retention
\* keeps more backups than calls may put one beside the evictor's.
THEOREM EvictionKeeps ==
  ASSUME StampFirst, IsFiniteSet(Clients), Cardinality(Clients) < BackupRetain
  PROVE  Spec => EvictionLosesNothing
<1> DEFINE Loses(w) ==
      LET j == job[Evictor] IN
         /\ j.op = "evict" /\ j.pc = "reclaim" /\ j.w = w
         /\ data[w] \notin {Gone} \cup (IF KindOf[w] = "dump" THEN {0} ELSE {})
         /\ data'[w] = Gone
         /\ BackupBeforeEvict /\ KindOf[w] # "none" /\ w \notin blind \cup dropped
         => \E b \in backups : b.w = w /\ b.data = data[w]
<1>1. Safe => \A w \in Workloads : Loses(w)
  <2> SUFFICES ASSUME Safe, NEW w \in Workloads, NEW j, j = job[Evictor], j.op = "evict", j.pc = "reclaim",
                      j.w = w, data[w] \notin {Gone} \cup (IF KindOf[w] = "dump" THEN {0} ELSE {}),
                      BackupBeforeEvict, KindOf[w] # "none", w \notin blind \cup dropped
               PROVE  \E b \in backups : b.w = w /\ b.data = data[w]
    OBVIOUS
  <2>1. Relied(w)
    BY DEF Relied, Counted
  <2>2. Few(w)
    BY <2>1 DEF Safe, Own
  <2> QED  BY <2>2 DEF Few, Of
<1>2. Safe => [\A w \in Workloads : Loses(w)]_vars
  BY <1>1
<1>3. Spec => []Safe
  BY SafeHolds
<1>4. EvictionLosesNothing <=> [][\A w \in Workloads : Loses(w)]_vars
  BY DEF EvictionLosesNothing
<1> QED  BY <1>2, <1>3, <1>4, PTL
=============================================================================
