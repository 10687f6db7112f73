----------------------------- MODULE Lifecycle -----------------------------
(***************************************************************************)
(* The life of a workload: who boots it, who suspends it, and what the     *)
(* manager remembers of it while requests, API calls, the idle reaper and  *)
(* restarts of orchd interleave (internal/manager/manager.go).             *)
(*                                                                         *)
(* Three views of one workload have to agree: the store's record (rec),    *)
(* the runtime's instance (inst) and the manager's in-memory live map      *)
(* (live).  A per-workload mutex (lock, the code's refLocks) serialises    *)
(* most of the operations that move them; deleting a workload and editing  *)
(* its record do not take it.                                              *)
(*                                                                         *)
(* The instance is a container as the docker driver keeps it: none,        *)
(* suspended (it exists, stopped) or running.  Time is kept as ages, the   *)
(* ticks since an event, capped at IdleTimeout + 1: the code only ever     *)
(* asks whether an age exceeds the timeout.                                *)
(***************************************************************************)
EXTENDS Integers, FiniteSets

CONSTANTS
    Workloads,    \* workload ids; newRef never reuses one
    Clients,      \* goroutines serving gateway requests and API calls
    Starter,      \* the goroutine that runs WakeKeepWarm when orchd starts
    Reaper, Free, \* the other values of a lock: the reaper's goroutine, nobody
    IdleTimeout,  \* ORCHD_IDLE_TIMEOUT in ticks; 0 turns scale-to-zero off
    Ops,          \* the operations clients perform in this instance
    Faults        \* the failures that may happen: "crash", "die", "fail"

Threads == Clients \cup {Starter}

AllOps == {"register", "wake", "start", "stop", "restart", "reset", "restore",
           "backup", "keepOn", "keepOff", "setImage", "delete"}

\* The operations that write back the record they read.
WriteBacks == {"keepOn", "keepOff", "setImage"}

ASSUME ThreadsAssumption ==
    /\ Starter \notin Clients
    /\ Reaper # Free
    /\ {Reaper, Free} \cap Threads = {}
ASSUME TimeoutAssumption == IdleTimeout \in Nat
ASSUME OpsAssumption == Ops \subseteq AllOps /\ Faults \subseteq {"crash", "die", "fail"}

VARIABLES
    rec,      \* the store's record of each workload: its state and KeepWarm
    inst,     \* the runtime's instance
    live,     \* the live map: age of lastSeen, or None
    unowned,  \* age of the reaper's first sight of an unowned instance, or None
    uptime,   \* age of this orchd process
    lock,     \* who holds each workload's refLock
    at, op, on, seen, \* per thread: its position, operation, workload, and the
                      \* record SetKeepWarm or SetWorkloadImage read
    sweep,    \* the reaper's goroutine for each workload
    warm,     \* the keep-warm workloads the starter has still to wake
    calm,     \* the outside world has stopped: no new call, no new failure
    disturbed \* history: workloads deleted, written back or died at least once

store   == <<rec, inst>>
memory  == <<live, unowned, uptime>>
threads == <<at, op, on, seen>>
env     == <<warm, calm, disturbed>>
vars    == <<rec, inst, live, unowned, uptime, lock, at, op, on, seen, sweep, env>>

---------------------------------------------------------------------------
None == -1
Ages == 0..(IdleTimeout + 1)

States  == {"provisioning", "running", "suspended", "failed"}
Absent  == {"unborn", "deleted"}
Records == [st : States \cup Absent, keep : BOOLEAN]
Missing(s) == [st |-> s, keep |-> FALSE]

\* Where a thread is.  It holds its workload's lock at the positions of Held.
Held      == {"held", "down", "waiting", "ready", "failed", "quiesced"}
Positions == {"idle", "got", "stopped"} \cup Held

StoreOK ==
    /\ rec \in [Workloads -> Records]
    /\ inst \in [Workloads -> {"none", "suspended", "running"}]

MemoryOK ==
    /\ live \in [Workloads -> Ages \cup {None}]
    /\ unowned \in [Workloads -> Ages \cup {None}]
    /\ uptime \in Ages

CallsOK ==
    /\ lock \in [Workloads -> Threads \cup {Reaper, Free}]
    /\ at \in [Threads -> Positions]
    /\ op \in [Threads -> AllOps]
    /\ on \in [Threads -> Workloads]
    /\ seen \in [Threads -> Records]

TypeOK ==
    /\ StoreOK /\ MemoryOK /\ CallsOK
    /\ sweep \in [Workloads -> {"idle", "listed", "wait", "held", "stopped"}]
    /\ warm \subseteq Workloads
    /\ calm \in BOOLEAN
    /\ disturbed \subseteq Workloads

Exists(w)  == rec[w].st \notin Absent
Running(w) == inst[w] = "running"

Init ==
    /\ rec = [w \in Workloads |-> Missing("unborn")]
    /\ inst = [w \in Workloads |-> "none"]
    /\ live = [w \in Workloads |-> None]
    /\ unowned = [w \in Workloads |-> None]
    /\ uptime = 0
    /\ lock = [w \in Workloads |-> Free]
    /\ at = [t \in Threads |-> "idle"]
    /\ op \in [Threads -> {"wake"}]
    /\ \E w \in Workloads : on = [t \in Threads |-> w]
    /\ seen = [t \in Threads |-> Missing("unborn")]
    /\ sweep = [w \in Workloads |-> "idle"]
    /\ warm = {}
    /\ calm = FALSE
    /\ disturbed = {}

---------------------------------------------------------------------------
\* The pieces operations are made of.

\* SetWorkloadState: ErrNotFound, ignored by every caller, when the record is gone.
SetState(w, s) == rec' = IF Exists(w) THEN [rec EXCEPT ![w].st = s] ELSE rec

\* markLive: a fresh entry; the instance is owned again.
MarkLive(w) ==
    /\ live' = [live EXCEPT ![w] = 0]
    /\ unowned' = [unowned EXCEPT ![w] = None]

Forget(w) == live' = [live EXCEPT ![w] = None]

Goto(t, p) == at' = [at EXCEPT ![t] = p] /\ UNCHANGED <<op, on, seen>>

\* A thread that is done keeps no operation ("wake" stands for none).
Idle(t) ==
    /\ at' = [at EXCEPT ![t] = "idle"]
    /\ op' = [op EXCEPT ![t] = "wake"]
    /\ UNCHANGED <<on, seen>>

\* The thread returns, releasing the workload's lock (defer rl.Unlock()).
Return(t) ==
    /\ lock' = [lock EXCEPT ![on[t]] = Free]
    /\ Idle(t)

\* The thread moves on, keeping the lock.
Continue(t, p) == Goto(t, p) /\ UNCHANGED lock

CanFail == "fail" \in Faults /\ ~calm

---------------------------------------------------------------------------
\* The runtime (internal/runtime/docker.go).

\* Create's `docker run`: any old container is removed first.  It fails without
\* a container, or with one left in state "created", which reads as suspended.
DockerRun(t) ==
    LET w == on[t] IN
    \/ /\ inst' = [inst EXCEPT ![w] = "running"]
       /\ Continue(t, "waiting")
    \/ /\ CanFail
       /\ \E left \in {"none", "suspended"} : inst' = [inst EXCEPT ![w] = left]
       /\ Continue(t, "failed")

\* Start: a running container is returned as it is; a suspended one is started
\* or, if that fails or its image or memory cap changed, created again; a
\* missing one is created.
DockerStart(t) ==
    \/ /\ Running(on[t])
       /\ UNCHANGED inst
       /\ Continue(t, "ready")
    \/ /\ ~Running(on[t])
       /\ DockerRun(t)

\* waitHTTP: gives up after the readiness cap, leaving the container running.
WaitReady(t) ==
    /\ at[t] = "waiting"
    /\ \/ Running(on[t]) /\ Continue(t, "ready")
       \/ (CanFail \/ ~Running(on[t])) /\ Continue(t, "failed")
    /\ UNCHANGED <<store, memory, sweep, env>>

\* Stop: `docker rm -f`, whose failure every caller ignores.
DockerRemove(w) ==
    \/ inst' = [inst EXCEPT ![w] = "none"]
    \/ CanFail /\ UNCHANGED inst

\* Suspend: `docker stop` fails when there is no container.
SuspendWorks(w) == inst[w] # "none"
SuspendFails(w) == inst[w] = "none" \/ CanFail

---------------------------------------------------------------------------
\* Calls.  Every operation reads the record first and returns if there is none.

Call(c, o, w) ==
    /\ ~calm
    /\ o \in Ops \ {"register"}
    /\ at[c] = "idle"
    /\ Exists(w)
    /\ at' = [at EXCEPT ![c] = "got"]
    /\ op' = [op EXCEPT ![c] = o]
    /\ on' = [on EXCEPT ![c] = w]
    /\ seen' = IF o \in WriteBacks THEN [seen EXCEPT ![c] = rec[w]] ELSE seen
    /\ UNCHANGED <<store, memory, lock, sweep, env>>

\* registerWorkload, then `go m.provision(w.ID)`: the thread becomes that goroutine.
Register(c, w) ==
    /\ ~calm
    /\ "register" \in Ops
    /\ at[c] = "idle"
    /\ rec[w].st = "unborn"
    /\ rec' = [rec EXCEPT ![w].st = "provisioning"]
    /\ at' = [at EXCEPT ![c] = "got"]
    /\ op' = [op EXCEPT ![c] = "register"]
    /\ on' = [on EXCEPT ![c] = w]
    /\ UNCHANGED <<inst, memory, lock, seen, sweep, env>>

\* The lock is not taken by a read-modify-write of the record nor by deletion.
Lock(t) ==
    /\ at[t] = "got"
    /\ op[t] \notin WriteBacks \cup {"delete"}
    /\ lock[on[t]] = Free
    /\ lock' = [lock EXCEPT ![on[t]] = t]
    /\ Goto(t, "held")
    /\ UNCHANGED <<store, memory, sweep, env>>

\* EnsureRunning on a live, running instance: touch it and return its address.
WakeHit(t) ==
    /\ at[t] = "held" /\ op[t] = "wake"
    /\ live[on[t]] # None /\ Running(on[t])
    /\ live' = [live EXCEPT ![on[t]] = 0]
    /\ Return(t)
    /\ UNCHANGED <<store, unowned, uptime, sweep, env>>

WakeMiss(t) ==
    /\ at[t] = "held" /\ op[t] = "wake"
    /\ live[on[t]] = None \/ ~Running(on[t])
    /\ DockerStart(t)
    /\ UNCHANGED <<rec, memory, sweep, env>>

\* StartWorkload: a running instance is left alone (and not marked live).
StartHeld(t) ==
    /\ at[t] = "held" /\ op[t] = "start"
    /\ \/ Running(on[t]) /\ Return(t) /\ UNCHANGED inst
       \/ ~Running(on[t]) /\ DockerRun(t)
    /\ UNCHANGED <<rec, memory, sweep, env>>

\* provision: the record is read again under the lock.
ProvisionHeld(t) ==
    /\ at[t] = "held" /\ op[t] = "register"
    /\ \/ ~Exists(on[t]) /\ Return(t) /\ UNCHANGED inst
       \/ Exists(on[t]) /\ DockerRun(t)
    /\ UNCHANGED <<rec, memory, sweep, env>>

\* rebootWorkload (RestartWorkload, SetWorkloadEnv, SetWorkloadImage), ResetWorkload
\* and RestoreWorkloadWith take the instance away and forget it.  The first suspends
\* one that runs before: it is left suspended if only the removal fails.
TakeDown(t) ==
    /\ at[t] = "held" /\ op[t] \in {"restart", "reset", "restore"}
    /\ \/ DockerRemove(on[t])
       \/ /\ op[t] = "restart" /\ CanFail /\ Running(on[t])
          /\ inst' = [inst EXCEPT ![on[t]] = "suspended"]
    /\ Forget(on[t])
    /\ Continue(t, "down")
    /\ UNCHANGED <<rec, unowned, uptime, sweep, env>>

\* A reset or restore that cannot recreate the data dir returns with the state
\* as it was; a restore whose backup cannot be fetched ends in failed.
BringUp(t) ==
    /\ at[t] = "down"
    /\ \/ /\ op[t] \in {"restart", "reset"}
          /\ DockerRun(t)
       \/ /\ op[t] \in {"restore", "backup"} \* bk.Create's result is returned later
          /\ DockerStart(t)
       \/ /\ op[t] = "restore" /\ CanFail
          /\ Continue(t, "failed") /\ UNCHANGED inst
       \/ /\ op[t] \in {"reset", "restore"} /\ CanFail
          /\ Return(t) /\ UNCHANGED inst
    /\ UNCHANGED <<rec, memory, sweep, env>>

StopHeld(t) ==
    /\ at[t] = "held" /\ op[t] = "stop"
    /\ \/ /\ SuspendWorks(on[t])
          /\ inst' = [inst EXCEPT ![on[t]] = "suspended"]
          /\ Continue(t, "quiesced")
       \/ /\ SuspendFails(on[t])
          /\ Return(t) /\ UNCHANGED inst
    /\ UNCHANGED <<rec, memory, sweep, env>>

\* BackupWorkload of a tar-backed workload: suspend it if it runs (a failure is
\* ignored), archive, start it again.
BackupHeld(t) ==
    /\ at[t] = "held" /\ op[t] = "backup"
    /\ \/ /\ ~Running(on[t]) /\ Return(t) /\ UNCHANGED inst
       \/ /\ Running(on[t]) /\ Continue(t, "quiesced")
          /\ \/ inst' = [inst EXCEPT ![on[t]] = "suspended"]
             \/ CanFail /\ UNCHANGED inst
    /\ UNCHANGED <<rec, memory, sweep, env>>

\* Mutant: the suspended instance's address is kept.
QuiescedKeepsLive(t) ==
    /\ at[t] = "quiesced"
    /\ SetState(on[t], "suspended")
    /\ IF op[t] = "backup" THEN Continue(t, "down") ELSE Return(t)
    /\ UNCHANGED <<inst, memory, sweep, env>>

\* The bookkeeping after a suspend.
Quiesced(t) ==
    /\ at[t] = "quiesced"
    /\ SetState(on[t], "suspended")
    /\ Forget(on[t])
    /\ IF op[t] = "backup" THEN Continue(t, "down") ELSE Return(t)
    /\ UNCHANGED <<inst, unowned, uptime, sweep, env>>

\* Mutant: an error path that returns without unlocking.
BootFailedKeepsLock(t) ==
    /\ at[t] = "failed"
    /\ IF op[t] \in {"wake", "backup"} THEN UNCHANGED rec ELSE SetState(on[t], "failed")
    /\ Idle(t)
    /\ UNCHANGED <<inst, memory, lock, sweep, env>>

\* The bookkeeping after a boot.  A wake or a backup whose boot failed leaves
\* the state as it is; every other operation records the failure.
Booted(t) ==
    /\ at[t] = "ready"
    /\ SetState(on[t], "running")
    /\ MarkLive(on[t])
    /\ Return(t)
    /\ UNCHANGED <<inst, uptime, sweep, env>>

BootFailed(t) ==
    /\ at[t] = "failed"
    /\ IF op[t] \in {"wake", "backup"} THEN UNCHANGED rec ELSE SetState(on[t], "failed")
    /\ Return(t)
    /\ UNCHANGED <<inst, memory, sweep, env>>

\* SetKeepWarm writes back the whole record it read, then wakes the workload.
KeepPut(t) ==
    /\ at[t] = "got" /\ op[t] \in {"keepOn", "keepOff"}
    /\ rec' = [rec EXCEPT ![on[t]] = [seen[t] EXCEPT !.keep = (op[t] = "keepOn")]]
    /\ disturbed' = disturbed \cup {on[t]}
    /\ op' = [op EXCEPT ![t] = "wake"]
    /\ at' = [at EXCEPT ![t] = IF op[t] = "keepOn" THEN "got" ELSE "idle"]
    /\ seen' = [seen EXCEPT ![t] = Missing("unborn")]
    /\ UNCHANGED <<inst, memory, lock, on, sweep, warm, calm>>

\* SetWorkloadImage writes back the whole record it read, and reboots an instance that
\* ran when it asked, before that.
ImagePut(t) ==
    /\ at[t] = "got" /\ op[t] = "setImage"
    /\ rec' = [rec EXCEPT ![on[t]] = seen[t]]
    /\ disturbed' = disturbed \cup {on[t]}
    /\ \/ op' = [op EXCEPT ![t] = "restart"] /\ UNCHANGED at
       \/ op' = [op EXCEPT ![t] = "wake"] /\ at' = [at EXCEPT ![t] = "idle"]
    /\ seen' = [seen EXCEPT ![t] = Missing("unborn")]
    /\ UNCHANGED <<inst, memory, lock, on, sweep, warm, calm>>

\* DeleteWorkload and DeleteProject: remove the instance and forget it, then
\* remove the record, all without the workload's lock.
DeleteStop(t) ==
    /\ at[t] = "got" /\ op[t] = "delete"
    /\ DockerRemove(on[t])
    /\ Forget(on[t])
    /\ Goto(t, "stopped")
    /\ disturbed' = disturbed \cup {on[t]}
    /\ UNCHANGED <<rec, unowned, uptime, lock, sweep, warm, calm>>

DeleteRecord(t) ==
    /\ at[t] = "stopped"
    /\ rec' = IF Exists(on[t]) THEN [rec EXCEPT ![on[t]] = Missing("deleted")] ELSE rec
    /\ Idle(t)
    /\ UNCHANGED <<inst, memory, lock, sweep, env>>

Step(t) ==
    \/ WakeHit(t) \/ WakeMiss(t) \/ StartHeld(t) \/ ProvisionHeld(t)
    \/ TakeDown(t) \/ BringUp(t) \/ StopHeld(t) \/ BackupHeld(t)
    \/ WaitReady(t) \/ Quiesced(t) \/ Booted(t) \/ BootFailed(t)
    \/ KeepPut(t) \/ ImagePut(t) \/ DeleteStop(t) \/ DeleteRecord(t)

---------------------------------------------------------------------------
\* The reaper: one goroutine that reconciles, then scans, then waits for the
\* suspends it started (wg.Wait).

\* Mutant: no timestamp reads as the zero time, long ago.
OverOrUnknown(age) == age = None \/ age > IdleTimeout

Over(age) == age # None /\ age > IdleTimeout

\* Running in the store with no live entry: an instance that outlived orchd.
Unowned(w) == rec[w].st = "running" /\ live[w] = None

\* Mutant: only what has a live entry is ever reaped.
ScanLiveOnly ==
    /\ IdleTimeout > 0
    /\ \A w \in Workloads : sweep[w] = "idle"
    /\ sweep' = [w \in Workloads |-> IF Over(live[w]) THEN "listed" ELSE "idle"]
    /\ UNCHANGED <<store, memory, lock, threads, env>>

\* ReapIdle's pass under m.mu.
Scan ==
    /\ IdleTimeout > 0
    /\ \A w \in Workloads : sweep[w] = "idle"
    /\ sweep' = [w \in Workloads |->
                    IF Over(live[w]) \/ (Unowned(w) /\ Over(unowned[w]))
                    THEN "listed" ELSE "idle"]
    /\ unowned' = [w \in Workloads |->
                      IF ~Exists(w) THEN unowned[w]
                      ELSE IF ~Unowned(w) \/ Over(unowned[w]) THEN None
                      ELSE IF unowned[w] = None THEN 0 ELSE unowned[w]]
    /\ UNCHANGED <<store, live, uptime, lock, threads, env>>

\* "always-on: never scale to zero", read before the goroutine starts.
SweepCheck(w) ==
    /\ sweep[w] = "listed"
    /\ sweep' = [sweep EXCEPT ![w] = IF Exists(w) /\ rec[w].keep THEN "idle" ELSE "wait"]
    /\ UNCHANGED <<store, memory, lock, threads, env>>

SweepLock(w) ==
    /\ sweep[w] = "wait"
    /\ lock[w] = Free
    /\ lock' = [lock EXCEPT ![w] = Reaper]
    /\ sweep' = [sweep EXCEPT ![w] = "held"]
    /\ UNCHANGED <<store, memory, threads, env>>

\* Mutant: a failed suspend leaves the lock taken.
SweepSuspendKeepsLock(w) ==
    /\ sweep[w] = "held"
    /\ \/ /\ SuspendWorks(w)
          /\ inst' = [inst EXCEPT ![w] = "suspended"]
          /\ sweep' = [sweep EXCEPT ![w] = "stopped"]
       \/ /\ SuspendFails(w)
          /\ sweep' = [sweep EXCEPT ![w] = "idle"]
          /\ UNCHANGED inst
    /\ UNCHANGED <<rec, memory, lock, threads, env>>

SweepSuspend(w) ==
    /\ sweep[w] = "held"
    /\ \/ /\ SuspendWorks(w)
          /\ inst' = [inst EXCEPT ![w] = "suspended"]
          /\ sweep' = [sweep EXCEPT ![w] = "stopped"]
          /\ UNCHANGED lock
       \/ /\ SuspendFails(w)
          /\ sweep' = [sweep EXCEPT ![w] = "idle"]
          /\ lock' = [lock EXCEPT ![w] = Free]
          /\ UNCHANGED inst
    /\ UNCHANGED <<rec, memory, threads, env>>

SweepDone(w) ==
    /\ sweep[w] = "stopped"
    /\ SetState(w, "suspended")
    /\ Forget(w)
    /\ sweep' = [sweep EXCEPT ![w] = "idle"]
    /\ lock' = [lock EXCEPT ![w] = Free]
    /\ UNCHANGED <<inst, unowned, uptime, threads, env>>

\* Mutant: only failed workloads are looked at.
ReconcileFailedOnly(w) ==
    /\ \A x \in Workloads : sweep[x] = "idle"
    /\ lock[w] = Free
    /\ rec[w].st = "failed" /\ Running(w)
    /\ SetState(w, "running")
    /\ UNCHANGED <<inst, memory, lock, threads, sweep, env>>

\* reconcileStates for one workload: skipped unless TryLock succeeds.
Reconcile(w) ==
    /\ \A x \in Workloads : sweep[x] = "idle"
    /\ lock[w] = Free
    /\ Exists(w) /\ rec[w].st # "running" /\ Running(w)
    /\ SetState(w, "running")
    /\ UNCHANGED <<inst, memory, lock, threads, sweep, env>>

---------------------------------------------------------------------------
\* Time, failures and restarts.

\* Mutant: an age that grows for ever.
OlderForEver(age) == IF age = None THEN age ELSE age + 1

Older(age) == IF age = None \/ age > IdleTimeout THEN age ELSE age + 1

Tick ==
    /\ live' = [w \in Workloads |-> Older(live[w])]
    /\ unowned' = [w \in Workloads |-> Older(unowned[w])]
    /\ uptime' = Older(uptime)
    /\ UNCHANGED <<store, lock, threads, sweep, env>>

\* A container exits by itself; `--restart no` leaves it stopped.
Die(w) ==
    /\ "die" \in Faults /\ ~calm
    /\ Running(w)
    /\ inst' = [inst EXCEPT ![w] = "suspended"]
    /\ disturbed' = disturbed \cup {w}
    /\ UNCHANGED <<rec, memory, lock, threads, sweep, warm, calm>>

\* orchd stops and starts again: the store and the instances survive, nothing
\* else does, and WakeKeepWarm lists the keep-warm workloads.
Crash ==
    /\ "crash" \in Faults /\ ~calm
    /\ live' = [w \in Workloads |-> None]
    /\ unowned' = [w \in Workloads |-> None]
    /\ uptime' = 0
    /\ lock' = [w \in Workloads |-> Free]
    /\ at' = [t \in Threads |-> "idle"]
    /\ op' = [t \in Threads |-> "wake"]
    /\ seen' = [t \in Threads |-> Missing("unborn")]
    /\ sweep' = [w \in Workloads |-> "idle"]
    /\ warm' = {w \in Workloads : Exists(w) /\ rec[w].keep}
    /\ UNCHANGED <<store, on, calm, disturbed>>

\* The starter wakes the next of them, if its record is still there.
WarmNext(w) ==
    /\ w \in warm
    /\ at[Starter] = "idle"
    /\ warm' = warm \ {w}
    /\ op' = [op EXCEPT ![Starter] = "wake"]
    /\ on' = [on EXCEPT ![Starter] = w]
    /\ at' = [at EXCEPT ![Starter] = IF Exists(w) THEN "got" ELSE "idle"]
    /\ UNCHANGED <<store, memory, lock, seen, sweep, calm, disturbed>>

\* From here on only what is under way goes on.
Calm ==
    /\ ~calm /\ calm' = TRUE
    /\ UNCHANGED <<store, memory, lock, threads, sweep, warm, disturbed>>

---------------------------------------------------------------------------
ThreadNext(t) == Lock(t) \/ Step(t)
ReaperNext(w) == SweepCheck(w) \/ SweepLock(w) \/ SweepSuspend(w) \/ SweepDone(w) \/ Reconcile(w)

Next ==
    \/ \E c \in Clients, w \in Workloads : Register(c, w) \/ \E o \in Ops : Call(c, o, w)
    \/ \E t \in Threads : ThreadNext(t)
    \/ \E w \in Workloads : ReaperNext(w) \/ Die(w) \/ WarmNext(w)
    \/ Scan \/ Tick \/ Crash \/ Calm

Spec == Init /\ [][Next]_vars

(***************************************************************************)
(* Fairness.  A goroutine that can run runs (weak), and sync.Mutex hands   *)
(* the lock to a waiter that keeps waiting (its starvation mode; strong).  *)
(* Ticks come, the reaper's loop goes round, and every round of twenty     *)
(* begins with reconcileStates, when no suspend of its own is under way    *)
(* (strong: whether TryLock succeeds varies).  Calls and failures need not *)
(* happen; Calm eventually does in the behaviours the liveness properties  *)
(* are about.                                                              *)
(***************************************************************************)
Fairness ==
    /\ \A t \in Threads : WF_vars(Step(t)) /\ SF_vars(Lock(t))
    /\ \A w \in Workloads :
          /\ WF_vars(SweepCheck(w)) /\ WF_vars(SweepSuspend(w)) /\ WF_vars(SweepDone(w))
          /\ SF_vars(SweepLock(w)) /\ SF_vars(Reconcile(w)) /\ WF_vars(WarmNext(w))
    /\ WF_vars(Scan) /\ WF_vars(Tick)

FairSpec == Spec /\ Fairness

---------------------------------------------------------------------------
\* Properties.

\* Wakes, suspends, restarts and the reaper are serialised per workload: a
\* thread between Lock and Unlock is the lock's holder, and a lock is never
\* left behind by an early return (refLock).
LockInv ==
    /\ \A t \in Threads : at[t] \in Held => lock[on[t]] = t
    /\ \A w \in Workloads : lock[w] = Reaper <=> sweep[w] \in {"held", "stopped"}
    /\ \A w \in Workloads :
          lock[w] \in Threads => at[lock[w]] \in Held /\ on[lock[w]] = w

\* The live entry of an unlocked workload is right, unless the workload was
\* deleted, its record written back whole, or its container died: its instance
\* runs and the store says so.  EnsureRunning's fast path returns the entry's
\* address, and the reaper's unowned scan and the LRU's protection read the
\* store.  The one exception is a provision that replaced an instance some
\* request had already woken and then failed: it leaves the entry, but records
\* the failure.
LiveAgrees ==
    \A w \in Workloads \ disturbed :
        lock[w] = Free /\ live[w] # None =>
            \/ Running(w) /\ rec[w].st = "running"
            \/ rec[w].st = "failed"

\* After orchd restarts, the reaper suspends nothing before a whole idle
\* interval has passed, whatever it finds running.
GraceAfterRestart ==
    \A w \in Workloads : sweep[w] # "idle" => uptime > IdleTimeout

\* Scale to zero: once calls and failures stop, an instance whose workload
\* still has its record, and is not keep-warm, ends up not running, also after
\* a restart of orchd or a readiness wait that gave up.
IdleSuspended ==
    \A w \in Workloads :
        calm ~> [](Exists(w) /\ ~rec[w].keep => ~Running(w))

\* Once calls and failures stop, the store says running of every workload
\* whose instance runs (reconcileStates).
RunningIsRecorded ==
    \A w \in Workloads :
        calm ~> [](Exists(w) /\ Running(w) => rec[w].st = "running")

\* Every call returns: no operation waits for a lock for ever.
CallsReturn == \A t \in Threads : at[t] # "idle" ~> at[t] = "idle"

\* A deleted workload has no instance once every operation on it has ended
\* (DeleteWorkload: "stops and removes a single workload").
DeletedLeavesNoInstance ==
    \A w \in Workloads :
        /\ rec[w].st = "deleted"
        /\ sweep[w] = "idle"
        /\ \A t \in Threads : on[t] = w => at[t] = "idle"
        => inst[w] = "none"
===========================================================================
