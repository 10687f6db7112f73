------------------------------ MODULE Backups ------------------------------
(***************************************************************************)
(* Backups and the LRU eviction that leans on them: what is in the backup  *)
(* store when a workload's data is thrown away (internal/manager/dump.go,  *)
(* schedule.go, eviction.go, the backup half of manager.go, and            *)
(* internal/backup).                                                       *)
(*                                                                         *)
(* A database ("dump") is exported by tinbase: in its container while it   *)
(* runs, from a one-off container while it is stopped.  The dump taken     *)
(* before a suspend is sealed: the fingerprint of pg_control is recorded   *)
(* once the database has stopped, and while it still matches the dump      *)
(* counts as the database's exact contents.  Any other backed-up workload  *)
(* ("tar") is suspended, archived and started again; it counts as backed   *)
(* up while no file is newer than its newest archive.                      *)
(*                                                                         *)
(* Data is a version: 0 is what the template and the seed put there, and   *)
(* any other version is the time of the last write.  A backup id is the    *)
(* time in its name.  A project has one workload and they share an id.     *)
(* How old a backup is against the interval is left open: every test of an *)
(* age may answer either way.                                              *)
(***************************************************************************)
EXTENDS Integers, FiniteSets, Sequences, SequencesExt

CONSTANTS
    Workloads,      \* workload ids, each the one workload of its project
    Clients,        \* API calls
    Sweeper, Evictor, Reaper, \* orchd's own goroutines
    Free,           \* the value of a lock nobody holds
    Worlds,         \* records of what a behaviour has: kind (how the type of each
                    \* workload is backed up: "dump", "tar" or "none"), calls (the
                    \* API operations made) and faults (what may go wrong)
    BackupRetain, BackupRetainDeleted,     \* ORCHD_BACKUP_RETAIN[_DELETED]
    BackupBeforeEvict, BackupBeforeReset,  \* ORCHD_BACKUP_BEFORE_*
    StampFirst,     \* an archive's time is taken before it is made (LocalStore)
                    \* and not when it is uploaded (S3Store)
    LRUKeepMax, LRUBatch, BackupSweepBatch, \* the ceilings of the two sweeps
    MaxClock        \* bound: writes, archives and wipes in a behaviour

Actors == Clients \cup {Sweeper, Evictor, Reaper}
AllCalls == {"backup", "restore", "reset", "delete", "deleteBackup", "stop",
             "drain", "keepWarm"}
AllFaults == {"export", "cancel", "put", "list", "note", "seal", "suspend",
              "boot", "io", "crash"}

ASSUME WorldsAssumption ==
    Worlds \subseteq [kind : [Workloads -> {"dump", "tar", "none"}],
                      calls : SUBSET AllCalls, faults : SUBSET AllFaults]
ASSUME BoundsAssumption ==
    /\ BackupRetain \in Nat \ {0}
    /\ BackupRetainDeleted \in Int
    /\ LRUKeepMax \in Nat /\ LRUBatch \in Nat /\ BackupSweepBatch \in Nat \ {0}
    /\ MaxClock \in Nat
    /\ BackupBeforeEvict \in BOOLEAN /\ BackupBeforeReset \in BOOLEAN
    /\ StampFirst \in BOOLEAN
ASSUME NamesAssumption ==
    /\ Free \notin Actors
    /\ Clients \cap {Sweeper, Evictor, Reaper} = {}
    /\ Sweeper # Evictor /\ Sweeper # Reaper /\ Evictor # Reaper
    /\ Workloads # {} /\ IsFiniteSet(Workloads)

VARIABLES
    here,      \* the workloads the store has
    up,        \* the workloads whose instance runs
    keep,      \* the workloads with KeepWarm
    data,      \* the version in each data dir, or Gone
    mtime,     \* the newest modification time under it
    dump,      \* the dump state kept in the data dir, or NoDump
    sealed,    \* the dump state's PgControl is the pg_control on disk
    offline,   \* the workloads a one-off export container runs on
    backups,   \* the backup store: a set of [w, at, data]
    failed,    \* backupRuns.failed: "no", "recent" or past its retry time
    lock,      \* who holds each workload's refLock
    job,       \* what each actor is doing
    clock,
    world,     \* which of Worlds this behaviour is in
    blind,     \* history: written to after the dump that will be sealed, or
               \* after the evictor picked it
    dropped    \* history: DeleteBackup took one of its backups since its last one,
               \* or since the one the evictor counts on

disk == <<data, mtime, dump, sealed>>
vars == <<here, up, keep, disk, offline, backups, failed, lock, job, clock,
          world, blind, dropped>>

KindOf == world.kind
Calls  == world.calls
Faults == world.faults

---------------------------------------------------------------------------
Gone   == -1
NoId   == -1
Time   == 0..MaxClock
NoDump == [hash |-> NoId, id |-> NoId]
Some   == CHOOSE w \in Workloads : TRUE
NoJob  == [op |-> "none", pc |-> "idle", w |-> Some, todo |-> {}, n |-> 0,
           cap |-> 0, id |-> NoId, was |-> FALSE, ok |-> FALSE]

\* Where an actor is; at the positions of Locked it holds its workload's lock.
Locked == {"export", "offline", "store", "note", "seal", "suspend", "sealReap",
           "quiesce", "stamp", "pack", "upload", "resume", "wipe", "load", "boot"}
Positions == {"idle", "want", "next", "again", "gone", "record", "reclaim",
              "prune", "state"} \cup Locked
Ops == {"none", "backup", "restore", "reset", "delete", "stop", "drain",
        "sweep", "evict", "reap"}

Backup == [w : Workloads, at : Time, data : Time]
Jobs == [op : Ops, pc : Positions, w : Workloads, todo : SUBSET Workloads,
         n : 0..BackupSweepBatch, cap : Time, id : Time \cup {NoId},
         was : BOOLEAN, ok : BOOLEAN]

\* Types, and who holds which lock.
TypeOK ==
    /\ here \subseteq Workloads /\ up \subseteq Workloads /\ keep \subseteq Workloads
    /\ data \in [Workloads -> Time \cup {Gone}]
    /\ mtime \in [Workloads -> Time]
    /\ dump \in [Workloads -> [hash : Time \cup {NoId}, id : Time \cup {NoId}]]
    /\ sealed \subseteq Workloads /\ offline \subseteq Workloads
    /\ backups \subseteq Backup /\ dropped \subseteq Workloads
    /\ failed \in [Workloads -> {"no", "recent", "old"}]
    /\ lock \in [Workloads -> Actors \cup {Free}]
    /\ job \in [Actors -> Jobs]
    /\ clock \in Time
    /\ world \in Worlds
    /\ blind \subseteq Workloads
    /\ \A a \in Actors, w \in Workloads :
          lock[w] = a <=> job[a].pc \in Locked /\ job[a].w = w

Init ==
    /\ here = Workloads
    /\ up = Workloads
    /\ keep = {}
    /\ data = [w \in Workloads |-> 0]
    /\ mtime = [w \in Workloads |-> 0]
    /\ dump = [w \in Workloads |-> NoDump]
    /\ sealed = {} /\ offline = {} /\ backups = {}
    /\ failed = [w \in Workloads |-> "no"]
    /\ lock = [w \in Workloads |-> Free]
    /\ job = [a \in Actors |-> NoJob]
    /\ clock = 0
    /\ world \in Worlds
    /\ blind = {} /\ dropped = {}

---------------------------------------------------------------------------
\* The backup store.

Of(w) == {b \in backups : b.w = w}
Newest(S) == CHOOSE b \in S : \A c \in S : c.at <= b.at

\* Retain: the newest n backups of w stay, every other one of w goes.
Retained(S, w, n) ==
    {b \in S : b.w = w => Cardinality({c \in S : c.w = w /\ c.at > b.at}) < n}

\* An archive is complete under its name or not there at all: it is written
\* beside it and renamed, or uploaded by one PUT.
Stored(w, v, t) == backups \cup {[w |-> w, at |-> t, data |-> v]}

\* Mutant: the state's word for it.
HasBackupTrusted(w, id) == TRUE

\* hasBackup; a list that fails answers no.
HasBackup(w, id) == \E b \in Of(w) : b.at = id

---------------------------------------------------------------------------
\* What a workload's data dir says about its backups.

\* dumpCurrent: the dump was sealed and the database has not run since.
Current(w) == w \in sealed /\ dump[w] # NoDump

\* unchangedSinceBackup: no file is newer than the newest backup.
Unchanged(w) ==
    /\ Of(w) # {} /\ data[w] # Gone
    /\ mtime[w] <= Newest(Of(w)).at

\* coverDump: the status the coverage report gives a database.  young: the time
\* in its dump state is under BackupInterval old.
CoverDump(w, young) ==
    IF Current(w) THEN "current"
    ELSE IF w \in up /\ dump[w] # NoDump /\ young THEN "recent"
    ELSE IF failed[w] # "no" THEN "failed" ELSE "stale"

---------------------------------------------------------------------------
\* How a job goes on.

Goto(a, p) == job' = [job EXCEPT ![a].pc = p]
End(a)     == job' = [job EXCEPT ![a] = NoJob]

\* Mutant: a return that forgets the lock.
UnlockNever(a) == UNCHANGED lock

Unlock(a) == lock' = [lock EXCEPT ![job[a].w] = Free]

\* Where each operation goes when the backup it asked for is made, or is not.
AfterOk == [backup |-> "idle", sweep |-> "next", drain |-> "next",
            evict |-> "gone", reset |-> "again", reap |-> "suspend"]

\* Mutant: an eviction that goes on although its backup failed.
AfterFailEvicts == [AfterOk EXCEPT !.reset = "idle"]

AfterFail == [AfterOk EXCEPT !.evict = "next", !.reset = "idle"]

\* The backup of job a is over: its lock is released, except by the reaper,
\* which goes on to suspend the workload.  Only backups that went through count
\* toward a sweep's batch.
BackupOver(a, ok) ==
    LET j == job[a]
        p == IF ok THEN AfterOk[j.op] ELSE AfterFail[j.op]
    IN  /\ IF j.op = "reap" THEN UNCHANGED lock ELSE Unlock(a)
        /\ job' = [job EXCEPT ![a] =
             IF p = "idle" THEN NoJob
             ELSE [NoJob EXCEPT !.op = j.op, !.pc = p, !.w = j.w, !.todo = j.todo,
                     !.n = IF ok /\ j.op = "sweep" THEN j.n + 1 ELSE j.n,
                     !.ok = ok /\ j.op = "reap"]]

\* backupRuns.dumped: the outcome of a dump is recorded.
DumpOver(a, ok) ==
    /\ failed' = [failed EXCEPT ![job[a].w] = IF ok THEN "no" ELSE "recent"]
    /\ BackupOver(a, ok)

\* The instances that run, and the databases that started or stopped.

\* Mutant: a seal that is not told from the database's having run since.
BootKeepsSeal(w) == up' = up \cup {w} /\ UNCHANGED sealed

Boot(w) == up' = up \cup {w} /\ sealed' = sealed \ {w}
Halt(w) == up' = up \ {w}

---------------------------------------------------------------------------
\* The workloads at work.

\* A request finds the workload down and starts it (EnsureRunning).
Wake(w) ==
    /\ w \in here /\ w \notin up /\ lock[w] = Free /\ data[w] # Gone
    /\ Boot(w)
    /\ UNCHANGED <<here, keep, data, mtime, dump, offline, backups, failed, lock,
                   job, clock, world, blind, dropped>>

\* The reaper has dumped w and has not yet suspended it.
InWindow(w) == \E a \in Actors : /\ job[a].op = "reap" /\ job[a].w = w
                                 /\ job[a].pc \in {"store", "note", "suspend"}
\* The evictor has picked w and not yet removed its data.
Picked(w) == job[Evictor].op = "evict" /\ w \in job[Evictor].todo \cup {job[Evictor].w}

\* Files are new as of clock'.  Nobody looks at those of a database.
Touched(w) == IF KindOf[w] = "tar" THEN [mtime EXCEPT ![w] = clock'] ELSE mtime

\* The program writes, or (tar) the files API writes into the data dir, which
\* asks for no lock and no running instance.
Write(w) ==
    /\ data[w] # Gone /\ clock < MaxClock
    /\ w \in up \/ (KindOf[w] = "tar" /\ w \in here)
    /\ KindOf[w] # "none"
    /\ clock' = clock + 1
    /\ data' = [data EXCEPT ![w] = clock']
    /\ mtime' = Touched(w)
    /\ blind' = IF InWindow(w) \/ Picked(w) THEN blind \cup {w} ELSE blind
    /\ UNCHANGED <<here, up, keep, dump, sealed, offline, backups, failed, lock,
                   job, world, dropped>>

\* A one-off container whose docker client was killed runs on until tinbase
\* exits; its Postgres rewrites pg_control once more.
OfflineExits(w) ==
    /\ w \in offline
    /\ \A a \in Actors : ~(job[a].pc = "offline" /\ job[a].w = w)
    /\ offline' = offline \ {w}
    /\ sealed' = sealed \ {w}
    /\ UNCHANGED <<here, up, keep, data, mtime, dump, backups, failed, lock, job,
                   clock, world, blind, dropped>>

---------------------------------------------------------------------------
\* Starting: an API call, a sweep, a reap.

\* The listed workloads whose type is backed up (backsUp).
BackedUp == {w \in here : KindOf[w] # "none"}

FirstAt == [backup |-> "want", stop |-> "want", delete |-> "gone", drain |-> "next",
            reset |-> IF BackupBeforeReset THEN "want" ELSE "again"]

Call(a, op, w) ==
    /\ a \in Clients /\ job[a].op = "none" /\ op \in Calls
    /\ KindOf[w] # "none"
    /\ op \in DOMAIN FirstAt
    /\ w \in here
    /\ job' = [job EXCEPT ![a] = [NoJob EXCEPT !.op = op, !.w = w, !.pc = FirstAt[op],
                                  !.todo = IF op = "drain" THEN BackedUp ELSE {}]]
    /\ UNCHANGED <<here, up, keep, disk, offline, backups, failed, lock, clock,
                   world, blind, dropped>>

\* RestoreWorkloadWith: which of the workload's backups to restore.
CallRestore(a, b) ==
    /\ a \in Clients /\ job[a].op = "none" /\ "restore" \in Calls
    /\ b \in backups /\ b.w \in here
    /\ job' = [job EXCEPT ![a] = [NoJob EXCEPT !.op = "restore", !.pc = "want",
                                               !.w = b.w, !.id = b.at]]
    /\ UNCHANGED <<here, up, keep, disk, offline, backups, failed, lock, clock,
                   world, blind, dropped>>

\* DeleteBackup removes one backup; nothing asks who counts on it.
DeleteBackup(b) ==
    /\ "deleteBackup" \in Calls /\ b \in backups
    /\ backups' = backups \ {b}
    /\ dropped' = dropped \cup {b.w}
    /\ UNCHANGED <<here, up, keep, disk, offline, failed, lock, job, clock, world, blind>>

SetKeepWarm(w) ==
    /\ "keepWarm" \in Calls /\ w \in here
    /\ keep' = IF w \in keep THEN keep \ {w} ELSE keep \cup {w}
    /\ UNCHANGED <<here, up, disk, offline, backups, failed, lock, job, clock,
                   world, blind, dropped>>

\* ReapIdle picks a workload that looked idle, unless it is keep-warm.
ReapStart(w) ==
    /\ job[Reaper].op = "none" /\ w \in here /\ w \in up /\ w \notin keep
    /\ KindOf[w] # "none"
    /\ job' = [job EXCEPT ![Reaper] = [NoJob EXCEPT !.op = "reap", !.pc = "want", !.w = w]]
    /\ UNCHANGED <<here, up, keep, disk, offline, backups, failed, lock, clock,
                   world, blind, dropped>>

\* sweepBackups lists the workloads; they may be gone when it reaches them.
SweepStart ==
    /\ job[Sweeper].op = "none"
    /\ job' = [job EXCEPT ![Sweeper] =
                 [NoJob EXCEPT !.op = "sweep", !.pc = "next", !.todo = BackedUp]]
    /\ UNCHANGED <<here, up, keep, disk, offline, backups, failed, lock, clock,
                   world, blind, dropped>>

\* dumpDue and tarDue.  old: the newest backup is BackupInterval old.
Due(w, old) ==
    \/ /\ KindOf[w] = "dump" /\ ~Current(w) /\ failed[w] # "recent"
       /\ dump[w] = NoDump \/ w \notin up \/ old
    \/ KindOf[w] = "tar" /\ w \in here /\ old /\ ~Unchanged(w)

\* One round of a sweep's loop: the next workload is skipped, or its backup is
\* wanted.  A full batch, and a busy disk, end the sweep.
SweepNext(a) ==
    LET j == job[a] IN
    /\ j.op = "sweep" /\ j.pc = "next"
    /\ IF j.todo = {} \/ j.n >= BackupSweepBatch THEN End(a)
       ELSE \E w \in j.todo, old \in BOOLEAN :
          \/ /\ ~Due(w, old)
             /\ job' = [job EXCEPT ![a].todo = @ \ {w}]
          \/ /\ Due(w, old)
             /\ job' = [job EXCEPT ![a].todo = @ \ {w}, ![a].w = w, ![a].pc = "want"]
          \/ Due(w, old) /\ "io" \in Faults /\ End(a)
    /\ UNCHANGED <<here, up, keep, disk, offline, backups, failed, lock, clock,
                   world, blind, dropped>>

\* One round of DrainBackups: everything not already covered, whatever its age.
DrainNext(a) ==
    LET j == job[a] IN
    /\ j.op = "drain" /\ j.pc = "next"
    /\ IF j.todo = {} THEN End(a)
       ELSE \E w \in j.todo :
          IF KindOf[w] = "tar" /\ (Unchanged(w) \/ w \notin here)
          THEN job' = [job EXCEPT ![a].todo = @ \ {w}]
          ELSE job' = [job EXCEPT ![a].todo = @ \ {w}, ![a].w = w, ![a].pc = "want"]
    /\ UNCHANGED <<here, up, keep, disk, offline, backups, failed, lock, clock,
                   world, blind, dropped>>

---------------------------------------------------------------------------
\* ReapLRU.

Protected(w) == w \in keep \/ w \in up

\* selectLRUEvictions over the projects newest first: those ranked beyond the
\* newest keepMax, oldest first, that are unprotected and not active lately, at
\* most batch of them.
Select(ranked, keepMax, batch, spared) ==
    LET Evictable(i) == i > keepMax /\ ranked[i] \notin spared
        Taken(i) == /\ Evictable(i)
                    /\ Cardinality({k \in i+1..Len(ranked) : Evictable(k)}) < batch
    IN  IF keepMax = 0 \/ batch = 0 \/ Len(ranked) <= keepMax THEN {}
        ELSE {ranked[i] : i \in {k \in 1..Len(ranked) : Taken(k)}}

\* The projects are listed, ranked by activity (any order: it is recorded at
\* most once a coalescing window) and chosen from in one go; lately is what
\* LRUMinAge spares.
EvictStart ==
    /\ job[Evictor].op = "none" /\ LRUKeepMax > 0
    /\ \E ranked \in SetToSeqs(here), lately \in SUBSET here :
         LET spared  == {w \in here : Protected(w)} \cup lately
             victims == Select(ranked, LRUKeepMax, LRUBatch, spared)
         IN  /\ victims # {}
             /\ job' = [job EXCEPT ![Evictor] =
                   [NoJob EXCEPT !.op = "evict", !.pc = "next", !.todo = victims]]
    /\ UNCHANGED <<here, up, keep, disk, offline, backups, failed, lock, clock,
                   world, blind, dropped>>

\* backupBeforeEvict, up to the backup itself; a victim that is gone is skipped.
EvictNext ==
    LET j == job[Evictor] IN
    /\ j.op = "evict" /\ j.pc = "next"
    /\ IF j.todo = {} THEN End(Evictor)
       ELSE \E w \in j.todo :
          LET covered == \/ ~BackupBeforeEvict \/ KindOf[w] = "none"
                         \/ KindOf[w] = "tar" /\ Unchanged(w)
          IN  job' = [job EXCEPT ![Evictor].todo = @ \ {w}, ![Evictor].w = w,
                        ![Evictor].pc = IF w \notin here THEN "next"
                                        ELSE IF covered THEN "gone" ELSE "want"]
    /\ UNCHANGED <<here, up, keep, disk, offline, backups, failed, lock, clock,
                   world, blind, dropped>>

---------------------------------------------------------------------------
\* The lock.  A job that holds it goes to the first position of its operation.

Take(a, p) ==
    /\ lock' = [lock EXCEPT ![job[a].w] = a]
    /\ Goto(a, p)

\* dailyDump: gone since it was listed, or covered by its sealed dump, or dumped.
DailyDump(a) ==
    LET w == job[a].w IN
    /\ job[a].op \in {"sweep", "drain", "evict"} /\ KindOf[w] = "dump"
    /\ IF w \in here /\ (w \in up \/ ~Current(w)) THEN Take(a, "export")
       ELSE job' = [job EXCEPT ![a].pc = IF w \in here THEN AfterOk[job[a].op] ELSE AfterFail[job[a].op]]
            /\ UNCHANGED lock

Acquire(a) ==
    LET w == job[a].w
        op == job[a].op
    IN
    /\ job[a].pc = "want" /\ lock[w] = Free
    /\ \/ DailyDump(a)
       \/ op \in {"backup", "reset"} /\ KindOf[w] = "dump" /\ Take(a, "export")
       \/ op \in DOMAIN AfterOk \ {"reap"} /\ KindOf[w] = "tar" /\ Take(a, "quiesce")
       \/ op = "reap" /\ Take(a, IF w \in here /\ KindOf[w] = "dump" THEN "export" ELSE "suspend")
       \/ op = "stop" /\ Take(a, "suspend")
       \/ op = "restore" /\ Take(a, "wipe")
    /\ UNCHANGED <<here, up, keep, disk, offline, backups, failed, clock, world, blind, dropped>>

\* ResetWorkload takes the lock for the wipe after the backup released it.
AcquireAgain(a) ==
    /\ job[a].pc = "again" /\ lock[job[a].w] = Free
    /\ Take(a, "wipe")
    /\ UNCHANGED <<here, up, keep, disk, offline, backups, failed, clock, world, blind, dropped>>

---------------------------------------------------------------------------
\* backupDump, under the lock: export, store, record, seal.

\* What an offline export reads: the database; or, when a deletion is removing the
\* data dir beneath it, perhaps the empty cluster Postgres makes of what is left.
Exported(w) == IF w \in here THEN {data[w]} ELSE {data[w], 0}

\* The history of late writes: a new copy has them, unless the evictor counts on
\* an older one.
Seen(a, w) == IF Picked(w) /\ a # Evictor THEN blind ELSE blind \ {w}
Replaced(a, w) == IF Picked(w) /\ a # Evictor THEN dropped ELSE dropped \ {w}

\* exportDump of a running database: `tinbase db export` in its container.
Export(a) ==
    LET w == job[a].w IN
    /\ job[a].pc = "export" /\ w \in up /\ data[w] # Gone
    /\ job' = [job EXCEPT ![a].pc = "store", ![a].cap = data[w], ![a].was = TRUE]
    /\ blind' = Seen(a, w)
    /\ UNCHANGED <<here, up, keep, disk, offline, backups, failed, lock, clock, world, dropped>>

\* exportDump of a stopped one: a one-off container starts Postgres on its dir.
RunOffline(a) ==
    LET w == job[a].w IN
    /\ job[a].pc = "export" /\ w \notin up /\ data[w] # Gone
    /\ Goto(a, "offline")
    /\ offline' = offline \cup {w}
    /\ sealed' = sealed \ {w}
    /\ UNCHANGED <<here, up, keep, data, mtime, dump, backups, failed, lock, clock,
                   world, blind, dropped>>

OfflineDone(a) ==
    LET w == job[a].w IN
    /\ job[a].pc = "offline" /\ data[w] # Gone
    /\ offline' = offline \ {w}
    /\ \E v \in Exported(w) : job' = [job EXCEPT ![a].pc = "store", ![a].cap = v]
    /\ blind' = Seen(a, w)
    /\ UNCHANGED <<here, up, keep, disk, backups, failed, lock, clock, world, dropped>>

\* The export fails: no data dir, no container, an old image.  Its time limit or
\* its caller's departure kills the docker client, not the one-off container.
ExportFails(a) ==
    LET w == job[a].w IN
    /\ \/ job[a].pc = "export" /\ ("export" \in Faults \/ data[w] = Gone) /\ UNCHANGED offline
       \/ /\ job[a].pc = "offline" /\ ("export" \in Faults \/ data[w] = Gone)
          /\ offline' = offline \ {w}
       \/ job[a].pc = "offline" /\ "cancel" \in Faults /\ UNCHANGED offline
    /\ DumpOver(a, FALSE)
    /\ UNCHANGED <<here, up, keep, disk, backups, clock, world, blind, dropped>>

\* storeDump: a dump of the seed alone is not kept, one equal to the last stored
\* names that one, any other is put into the store; force always puts.
Forced(a) == job[a].op \in {"backup", "reset"}

Pristine(a) == job[a].cap = 0 /\ ~Forced(a)
SameAsLast(a) ==
    LET w == job[a].w IN
    /\ ~Forced(a) /\ dump[w].hash = job[a].cap /\ dump[w].id # NoId
    /\ HasBackup(w, dump[w].id)

KeepNothing(a) ==
    /\ job[a].pc = "store"
    /\ Pristine(a) \/ SameAsLast(a)
    /\ job' = [job EXCEPT ![a].pc = "note",
                          ![a].id = IF Pristine(a) THEN NoId ELSE dump[job[a].w].id]
    /\ dropped' = Replaced(a, job[a].w)
    /\ UNCHANGED <<here, up, keep, disk, offline, backups, failed, lock, clock,
                   world, blind>>

Put(a) ==
    LET w == job[a].w
        B == Stored(w, job[a].cap, clock')
    IN
    /\ job[a].pc = "store" /\ clock < MaxClock
    /\ ~Pristine(a)
    /\ ~SameAsLast(a) \/ "list" \in Faults
    /\ clock' = clock + 1
    /\ backups' \in {Retained(B, w, BackupRetain)} \cup (IF "list" \in Faults THEN {B} ELSE {})
    /\ job' = [job EXCEPT ![a].pc = "note", ![a].id = clock']
    /\ dropped' = Replaced(a, job[a].w)
    /\ UNCHANGED <<here, up, keep, disk, offline, failed, lock, world, blind>>

PutFails(a) ==
    /\ job[a].pc = "store" /\ ~Pristine(a) /\ ~SameAsLast(a)
    /\ "put" \in Faults
    /\ DumpOver(a, FALSE)
    /\ UNCHANGED <<here, up, keep, disk, offline, backups, clock, world, blind, dropped>>

\* writeDumpState: a fresh state, not sealed.  That is the end of it for a
\* database that was running; a stopped one's dump is sealed.
Note(a) ==
    LET w == job[a].w IN
    /\ job[a].pc = "note" /\ data[w] # Gone
    /\ dump' = [dump EXCEPT ![w] = [hash |-> job[a].cap, id |-> job[a].id]]
    /\ sealed' = sealed \ {w}
    /\ IF job[a].was THEN DumpOver(a, TRUE) ELSE Goto(a, "seal") /\ UNCHANGED <<lock, failed>>
    /\ UNCHANGED <<here, up, keep, data, mtime, offline, backups, clock, world, blind, dropped>>

NoteFails(a) ==
    /\ job[a].pc \in {"note", "seal"}
    /\ data[job[a].w] = Gone \/ job[a].pc \in Faults
    /\ DumpOver(a, FALSE)
    /\ UNCHANGED <<here, up, keep, disk, offline, backups, clock, world, blind, dropped>>

\* sealDump: the fingerprint of pg_control as the stopped database left it.
Seal(w) == sealed' = IF dump[w] # NoDump THEN sealed \cup {w} ELSE sealed

SealOffline(a) ==
    LET w == job[a].w IN
    /\ job[a].pc = "seal" /\ data[w] # Gone
    /\ Seal(w)
    /\ DumpOver(a, TRUE)
    /\ UNCHANGED <<here, up, keep, data, mtime, dump, offline, backups, clock, world, blind, dropped>>

---------------------------------------------------------------------------
\* ReapIdle after the dump, and StopWorkload: suspend, then (reaper) seal.

Suspend(a) ==
    LET w == job[a].w IN
    /\ job[a].pc = "suspend"
    /\ \/ /\ Halt(w)
          /\ IF job[a].op = "reap" /\ job[a].ok THEN Goto(a, "sealReap") /\ UNCHANGED lock
             ELSE End(a) /\ Unlock(a)
       \/ "suspend" \in Faults /\ End(a) /\ Unlock(a) /\ UNCHANGED up
    /\ UNCHANGED <<here, keep, disk, offline, backups, failed, clock, world, blind, dropped>>

SealReap(a) ==
    /\ job[a].pc = "sealReap"
    /\ \/ data[job[a].w] # Gone /\ Seal(job[a].w)
       \/ ("seal" \in Faults \/ data[job[a].w] = Gone) /\ UNCHANGED sealed
    /\ End(a) /\ Unlock(a)
    /\ UNCHANGED <<here, up, keep, data, mtime, dump, offline, backups, failed,
                   clock, world, blind, dropped>>

---------------------------------------------------------------------------
\* BackupWorkload of a data dir, under the lock: suspend, archive, start again.

\* A suspend that fails is ignored, and the workload runs on.
Quiesce(a) ==
    LET w == job[a].w IN
    /\ job[a].pc = "quiesce"
    /\ \/ Halt(w)
       \/ "suspend" \in Faults /\ UNCHANGED up
    /\ job' = [job EXCEPT ![a].pc = IF StampFirst THEN "stamp" ELSE "pack",
                          ![a].was = w \in up]
    /\ UNCHANGED <<here, keep, disk, offline, backups, failed, lock, clock, world, blind, dropped>>

\* The time in the archive's name.
Stamp(a) ==
    /\ job[a].pc = "stamp" /\ clock < MaxClock
    /\ clock' = clock + 1
    /\ job' = [job EXCEPT ![a].pc = "pack", ![a].id = clock']
    /\ UNCHANGED <<here, up, keep, disk, offline, backups, failed, lock, world, blind, dropped>>

\* writeTarGz reads the data dir.
Pack(a) ==
    LET w == job[a].w IN
    /\ job[a].pc = "pack" /\ data[w] # Gone
    /\ job' = [job EXCEPT ![a].pc = "upload", ![a].cap = data[w]]
    /\ blind' = Seen(a, w)
    /\ UNCHANGED <<here, up, keep, disk, offline, backups, failed, lock, clock, world, dropped>>

\* Mutant: the local store, too, names an archive by the time it is complete.
UploadStampsLate(a) ==
    /\ job[a].pc = "upload" /\ clock < MaxClock
    /\ clock' = clock + 1
    /\ backups' = Stored(job[a].w, job[a].cap, clock')
    /\ job' = [job EXCEPT ![a].pc = "resume", ![a].id = clock', ![a].ok = TRUE]
    /\ dropped' = Replaced(a, job[a].w)
    /\ UNCHANGED <<here, up, keep, disk, offline, failed, lock, world, blind>>

\* The archive is complete: renamed into place, or uploaded under the time it is
\* then.
Upload(a) ==
    LET w == job[a].w
        t == IF StampFirst THEN job[a].id ELSE clock'
    IN
    /\ job[a].pc = "upload"
    /\ StampFirst \/ clock < MaxClock
    /\ clock' = IF StampFirst THEN clock ELSE clock + 1
    /\ backups' = Stored(w, job[a].cap, t)
    /\ job' = [job EXCEPT ![a].pc = "resume", ![a].id = t, ![a].ok = TRUE]
    /\ dropped' = Replaced(a, job[a].w)
    /\ UNCHANGED <<here, up, keep, disk, offline, failed, lock, world, blind>>

ArchiveFails(a) ==
    /\ \/ job[a].pc = "pack" /\ ("export" \in Faults \/ data[job[a].w] = Gone)
       \/ job[a].pc = "upload" /\ "put" \in Faults
    /\ Goto(a, "resume")
    /\ UNCHANGED <<here, up, keep, disk, offline, backups, failed, lock, clock, world, blind, dropped>>

\* Started again if it ran, made or not; then the older backups are trimmed.
Resume(a) ==
    LET w == job[a].w IN
    /\ job[a].pc = "resume"
    /\ \/ job[a].was /\ data[w] # Gone /\ Boot(w)
       \/ (~job[a].was \/ "boot" \in Faults \/ data[w] = Gone) /\ UNCHANGED <<up, sealed>>
    /\ backups' = IF job[a].ok THEN Retained(backups, w, BackupRetain) ELSE backups
    /\ BackupOver(a, job[a].ok)
    /\ UNCHANGED <<here, keep, data, mtime, dump, offline, failed, clock, world, blind, dropped>>

---------------------------------------------------------------------------
\* RestoreWorkloadWith and ResetWorkload: stop, wipe, fill, boot.

Wipe(a) ==
    LET w == job[a].w IN
    /\ job[a].pc = "wipe" /\ clock < MaxClock
    /\ Halt(w)
    /\ clock' = clock + 1
    /\ data' = [data EXCEPT ![w] = 0]
    /\ mtime' = Touched(w)
    /\ dump' = [dump EXCEPT ![w] = NoDump]
    /\ sealed' = sealed \ {w}
    /\ blind' = IF Picked(w) THEN blind \cup {w} ELSE blind \ {w}
    /\ Goto(a, IF job[a].op = "restore" THEN "load" ELSE "boot")
    /\ UNCHANGED <<here, keep, offline, backups, failed, lock, world, dropped>>

\* The archive is extracted, or left for tinbase to load on the boot; the backup
\* may be gone by now, and then the data is gone with it.
Load(a) ==
    LET w == job[a].w IN
    /\ job[a].pc = "load"
    /\ \/ \E b \in Of(w) : /\ b.at = job[a].id
                           /\ data' = [data EXCEPT ![w] = b.data]
                           /\ Goto(a, "boot") /\ UNCHANGED lock
       \/ /\ ~HasBackup(w, job[a].id) \/ "put" \in Faults
          /\ End(a) /\ Unlock(a) /\ UNCHANGED data
    /\ UNCHANGED <<here, up, keep, mtime, dump, sealed, offline, backups, failed,
                   clock, world, blind, dropped>>

BootAfter(a) ==
    LET w == job[a].w IN
    /\ job[a].pc = "boot"
    /\ \/ data[w] # Gone /\ Boot(w)
       \/ ("boot" \in Faults \/ data[w] = Gone) /\ UNCHANGED <<up, sealed>>
    /\ End(a) /\ Unlock(a)
    /\ UNCHANGED <<here, keep, data, mtime, dump, offline, backups, failed, clock,
                   world, blind, dropped>>

---------------------------------------------------------------------------
\* DeleteProject and DeleteWorkload, without the lock: the instance, the record,
\* the data, the backups beyond what a deleted workload keeps.

DeleteStop(a) ==
    /\ job[a].pc = "gone"
    /\ Halt(job[a].w)
    /\ Goto(a, "record")
    /\ UNCHANGED <<here, keep, disk, offline, backups, failed, lock, clock, world, blind, dropped>>

\* A record somebody else deleted meanwhile ends it here.
Deleted(a) == IF job[a].op = "evict" THEN Goto(a, "next") ELSE End(a)

DeleteRecord(a) ==
    LET w == job[a].w IN
    /\ job[a].pc = "record"
    /\ IF w \in here THEN here' = here \ {w} /\ Goto(a, "reclaim")
       ELSE UNCHANGED here /\ Deleted(a)
    /\ UNCHANGED <<up, keep, disk, offline, backups, failed, lock, clock, world, blind, dropped>>

Reclaim(a) ==
    LET w == job[a].w IN
    /\ job[a].pc = "reclaim"
    /\ data' = [data EXCEPT ![w] = Gone]
    /\ dump' = [dump EXCEPT ![w] = NoDump]
    /\ sealed' = sealed \ {w}
    /\ Goto(a, "prune")
    /\ UNCHANGED <<here, up, keep, mtime, offline, backups, failed, lock, clock, world, blind, dropped>>

\* pruneDeletedBackups: a backed-up type keeps its newest ones (below zero: all).
PruneDeleted(a) ==
    LET w == job[a].w IN
    /\ job[a].pc = "prune"
    /\ backups' = IF KindOf[w] = "none" THEN Retained(backups, w, 0)
                  ELSE IF BackupRetainDeleted < 0 THEN backups
                  ELSE Retained(backups, w, BackupRetainDeleted)
    /\ Deleted(a)
    /\ UNCHANGED <<here, up, keep, disk, offline, failed, lock, clock, world, blind, dropped>>

---------------------------------------------------------------------------
\* An hour passes since a failed dump, and it may be tried again.
RetryTime(w) ==
    /\ failed[w] = "recent"
    /\ failed' = [failed EXCEPT ![w] = "old"]
    /\ UNCHANGED <<here, up, keep, disk, offline, backups, lock, job, clock, world, blind, dropped>>

\* orchd dies and comes back: instances and one-off containers run on, what it
\* was doing and what its scheduler remembered is lost.
Crash ==
    /\ "crash" \in Faults
    /\ job # [a \in Actors |-> NoJob]
    /\ job' = [a \in Actors |-> NoJob]
    /\ lock' = [w \in Workloads |-> Free]
    /\ failed' = [w \in Workloads |-> "no"]
    /\ UNCHANGED <<here, up, keep, disk, offline, backups, clock, world, blind, dropped>>

Step(a) ==
    \/ SweepNext(a) \/ DrainNext(a) \/ Acquire(a) \/ AcquireAgain(a)
    \/ Export(a) \/ RunOffline(a) \/ OfflineDone(a) \/ ExportFails(a)
    \/ KeepNothing(a) \/ Put(a) \/ PutFails(a) \/ Note(a) \/ NoteFails(a) \/ SealOffline(a)
    \/ Suspend(a) \/ SealReap(a)
    \/ Quiesce(a) \/ Stamp(a) \/ Pack(a) \/ Upload(a) \/ ArchiveFails(a) \/ Resume(a)
    \/ Wipe(a) \/ Load(a) \/ BootAfter(a)
    \/ DeleteStop(a) \/ DeleteRecord(a) \/ Reclaim(a) \/ PruneDeleted(a)

Next ==
    \/ \E w \in Workloads : \/ Wake(w) \/ Write(w) \/ OfflineExits(w) \/ SetKeepWarm(w)
                            \/ ReapStart(w) \/ RetryTime(w)
                            \/ \E a \in Clients, op \in Calls : Call(a, op, w)
    \/ \E b \in backups : DeleteBackup(b) \/ (\E a \in Clients : CallRestore(a, b))
    \/ SweepStart \/ EvictStart \/ EvictNext
    \/ \E a \in Actors : Step(a)
    \/ Crash

Spec == Init /\ [][Next]_vars

---------------------------------------------------------------------------
\* A dump that counts as current (dumpCurrent) holds everything the database
\* wrote, but for what it wrote between the reaper's dump and the suspend.
CurrentIsExact ==
    \A w \in here : Current(w) /\ w \notin blind => dump[w].hash = data[w]

\* What the coverage report says is covered is in the store, whatever failed on
\* the way and whatever retention removed since, unless DeleteBackup took it: a
\* current database's dump under the id its state names with its exact bytes, a
\* recent one's or a newer; a dump of the seed alone is not kept.
CoveredIsStored ==
    \A w \in here, young \in BOOLEAN :
        /\ KindOf[w] = "dump" /\ CoverDump(w, young) \in {"current", "recent"}
        /\ dump[w].hash # 0 /\ w \notin dropped
        => \E b \in Of(w) : /\ b.at >= dump[w].id
                            /\ Current(w) => b.at = dump[w].id /\ b.data = dump[w].hash

\* unchangedSinceBackup: another backup would hold the same bytes.
UnchangedIsStored ==
    \A w \in here : KindOf[w] = "tar" /\ Unchanged(w) => Newest(Of(w)).data = data[w]

\* The evictor removes no data that is not in the store, but for what was written
\* after it had picked the project or after the dump it relied on.
EvictionLosesNothing ==
    [][\A w \in Workloads :
         LET j == job[Evictor] IN
         /\ j.op = "evict" /\ j.pc = "reclaim" /\ j.w = w
         /\ data[w] \notin {Gone} \cup (IF KindOf[w] = "dump" THEN {0} ELSE {})
         /\ data'[w] = Gone
         /\ BackupBeforeEvict /\ KindOf[w] # "none" /\ w \notin blind \cup dropped
         => \E b \in backups : b.w = w /\ b.data = data[w]]_vars
=============================================================================
