---------------------------- MODULE Firecracker ----------------------------
(***************************************************************************)
(* The Firecracker driver's virtual machines                               *)
(* (internal/runtime/firecracker.go): the VMM process of each, the pid the *)
(* driver recorded for it, its memory snapshot on disk, and the admission  *)
(* of new VMMs against the host's memory.                                  *)
(*                                                                         *)
(* The manager serialises Create, Start, Suspend and Stop of one VM (its   *)
(* refLock, module Lifecycle), so a VM has at most one operation under     *)
(* way, and different VMs' operations interleave.  The compression of a    *)
(* snapshot runs beside them.                                              *)
(***************************************************************************)
EXTENDS Integers, FiniteSets

CONSTANTS
    Vms,        \* refs
    Ephemeral,  \* the VMs whose suspend is a teardown
    MaxLive,    \* cap on running microVMs
    BootSlots,  \* capacity of bootSem
    Faults      \* what may go wrong: "fail", "die", "reuse", "crash", "reboot", "late"

ASSUME VmsAssumption == IsFiniteSet(Vms) /\ Ephemeral \subseteq Vms
ASSUME CapAssumption == MaxLive \in Nat \ {0} /\ BootSlots \in Nat \ {0}

VARIABLES
    known,    \* the VM has a meta.json
    pid,      \* vmMeta.PID: "none", "unsaved" (set in memory only) or "saved"
    proc,     \* the process behind that pid
    snap,     \* the snapshot files, and what each holds
    queued,   \* a Compact goroutine of the VM is waiting to run
    zipping,  \* what the zstd of a running Compact, which holds the lock, reads
    at, how,  \* the VM's operation: where it is, and how it is bringing it up
    pending,  \* pendingSpawns
    slots,    \* places taken in bootSem
    cut       \* history: VMs an operation on which a restart cut short, since
              \* their snapshot was last dropped

files == <<snap, queued, zipping, cut>>
vms   == <<known, pid, proc>>
calls == <<at, how>>
caps  == <<pending, slots>>
vars  == <<known, pid, proc, snap, queued, zipping, at, how, pending, slots, cut>>

---------------------------------------------------------------------------
\* A process is `ip netns exec` until it becomes firecracker, which is first
\* "idle" ("Not started").  "other": the VMM is gone and the kernel gave its
\* pid to another program.
Vmm       == {"idle", "running", "paused"}
Processes == {"none", "ip", "other"} \cup Vmm

\* "good": the guest's memory as of its last suspend.  "stale": the guest has
\* run since, and its disk has moved on.
Contents == {"none", "partial", "good", "stale"}
Files    == {"mem", "zst", "state"}
NoFiles  == [f \in Files |-> "none"]

Reserving == {"admitted", "started"}           \* between admit and admitDone
Spawning  == {"admit", "released", "saved", "api", "wait"} \cup Reserving
Positions == {"idle", "resume", "resumed", "pick", "unpack", "unpacking", "slot",
              "saving", "kept"} \cup Spawning

VmsOK ==
    /\ known \in [Vms -> BOOLEAN]
    /\ pid \in [Vms -> {"none", "unsaved", "saved"}]
    /\ proc \in [Vms -> Processes]

FilesOK ==
    /\ snap \in [Vms -> [Files -> Contents]]
    /\ queued \in [Vms -> BOOLEAN]
    /\ zipping \in [Vms -> Contents]
    /\ cut \subseteq Vms

CallsOK ==
    /\ at \in [Vms -> Positions]
    /\ how \in [Vms -> {"boot", "restore"}]

CapsOK == pending \in Nat /\ slots \in 0..BootSlots

TypeOK == VmsOK /\ FilesOK /\ CallsOK /\ CapsOK

Init ==
    /\ known = [v \in Vms |-> FALSE]
    /\ pid = [v \in Vms |-> "none"]
    /\ proc = [v \in Vms |-> "none"]
    /\ snap = [v \in Vms |-> NoFiles]
    /\ queued = [v \in Vms |-> FALSE]
    /\ zipping = [v \in Vms |-> "none"]
    /\ at = [v \in Vms |-> "idle"]
    /\ how = [v \in Vms |-> "boot"]
    /\ pending = 0
    /\ slots = 0
    /\ cut = {}

---------------------------------------------------------------------------
\* The pieces operations are made of.

Has(f)   == f \in Faults
CanFail  == Has("fail")

\* Suspend starts Compact's goroutine just before it returns.  Unless it is
\* "late", it has its lock by the time the VM's next operation begins.
Prompt(v) == ~queued[v] \/ Has("late")

\* pidAlive(m.PID) and pidIsFirecracker(m.PID)
Alive(v) == pid[v] # "none" /\ proc[v] # "none"
IsVmm(v) == pid[v] # "none" /\ proc[v] \in Vmm

\* hasSnapshot: either form of the memory file.
HasSnapshot(v) == snap[v]["mem"] # "none" \/ snap[v]["zst"] # "none"

Status(v) ==
    IF Alive(v) THEN IF proc[v] = "paused" THEN "suspended" ELSE "running"
    ELSE IF HasSnapshot(v) \/ (known[v] /\ v \in Ephemeral) THEN "suspended"
    ELSE "stopped"

Goto(v, p) == at' = [at EXCEPT ![v] = p] /\ UNCHANGED how

\* kill: the process behind the pid, whatever it is, and the pid are gone.
Kill(v) ==
    /\ proc' = IF pid[v] = "none" THEN proc ELSE [proc EXCEPT ![v] = "none"]
    /\ pid' = [pid EXCEPT ![v] = "none"]

DropSnapshot(v) ==
    /\ snap' = [snap EXCEPT ![v] = NoFiles]
    /\ cut' = cut \ {v}

\* The guest runs: whatever was saved of it is out of date from now on.
Outdated(c) == IF c = "none" THEN "none" ELSE "stale"
GuestRuns(v) ==
    /\ proc' = [proc EXCEPT ![v] = "running"]
    /\ snap' = [snap EXCEPT ![v] = [f \in Files |-> Outdated(snap[v][f])]]
    /\ zipping' = [zipping EXCEPT ![v] = Outdated(zipping[v])]

\* boot's deferred release of its place in bootSem
Release == slots' = slots - 1

\* Mutant: an early return of boot that does not give its place back.
GiveUpKeepsSlot(v) ==
    IF how[v] = "restore"
    THEN /\ DropSnapshot(v)
         /\ at' = [at EXCEPT ![v] = "slot"]
         /\ how' = [how EXCEPT ![v] = "boot"]
         /\ UNCHANGED slots
    ELSE Goto(v, "idle") /\ UNCHANGED <<snap, cut, slots>>

\* What follows a failed attempt: a restore drops the snapshot and falls back to
\* a fresh boot, a fresh boot returns the error.
GiveUp(v) ==
    IF how[v] = "restore"
    THEN /\ DropSnapshot(v)
         /\ at' = [at EXCEPT ![v] = "slot"]
         /\ how' = [how EXCEPT ![v] = "boot"]
         /\ UNCHANGED slots
    ELSE /\ Release
         /\ Goto(v, "idle")
         /\ UNCHANGED <<snap, cut>>

---------------------------------------------------------------------------
\* Create and Start.

\* Create: a ref that exists is deleted first; then clone, write meta, boot.
Create(v) ==
    /\ at[v] = "idle" /\ Prompt(v)
    /\ Kill(v)
    /\ DropSnapshot(v)
    /\ \/ /\ known' = [known EXCEPT ![v] = TRUE]
          /\ at' = [at EXCEPT ![v] = "slot"]
          /\ how' = [how EXCEPT ![v] = "boot"]
       \/ /\ CanFail
          /\ \E b \in BOOLEAN : known' = [known EXCEPT ![v] = b]
          /\ UNCHANGED calls
    /\ UNCHANGED <<queued, zipping, caps>>

\* Start of a known VM: a running one is returned; a paused one is resumed.
Start(v) ==
    /\ at[v] = "idle" /\ known[v] /\ Prompt(v)
    /\ Status(v) # "running"
    /\ Goto(v, IF Alive(v) THEN "resume" ELSE "pick")
    /\ UNCHANGED <<vms, files, caps>>

Resume(v) ==
    /\ at[v] = "resume"
    /\ \/ /\ proc[v] = "paused"
          /\ GuestRuns(v)
          /\ Goto(v, "resumed")
          /\ UNCHANGED pid
       \/ /\ CanFail \/ proc[v] # "paused"
          /\ Kill(v)
          /\ Goto(v, "pick")
          /\ UNCHANGED <<snap, zipping>>
    /\ UNCHANGED <<known, queued, cut, caps>>

\* waitHTTP after the resume; what does not answer is killed.
Resumed(v) ==
    /\ at[v] = "resumed"
    /\ \/ proc[v] = "running" /\ Goto(v, "idle") /\ UNCHANGED <<pid, proc>>
       \/ (CanFail \/ proc[v] # "running") /\ Kill(v) /\ Goto(v, "pick")
    /\ UNCHANGED <<known, files, caps>>

Pick(v) ==
    /\ at[v] = "pick"
    /\ IF HasSnapshot(v)
       THEN at' = [at EXCEPT ![v] = "unpack"] /\ how' = [how EXCEPT ![v] = "restore"]
       ELSE at' = [at EXCEPT ![v] = "slot"] /\ how' = [how EXCEPT ![v] = "boot"]
    /\ UNCHANGED <<vms, files, caps>>

\* restore's critical section: decompress the memory file unless the raw one is
\* there.  `zstd -d --rm` writes the file, then removes the compressed one.
Unpack(v) ==
    /\ at[v] = "unpack"
    /\ zipping[v] = "none"
    /\ IF snap[v]["mem"] # "none"
       THEN Goto(v, "admit") /\ UNCHANGED snap
       ELSE Goto(v, "unpacking") /\ snap' = [snap EXCEPT ![v]["mem"] = "partial"]
    /\ UNCHANGED <<vms, queued, zipping, cut, caps>>

Unpacking(v) ==
    /\ at[v] = "unpacking"
    /\ \/ /\ snap' = [snap EXCEPT ![v]["mem"] = snap[v]["zst"], ![v]["zst"] = "none"]
          /\ Goto(v, "admit")
          /\ UNCHANGED <<slots, cut>>
       \/ CanFail /\ GiveUp(v)
    /\ UNCHANGED <<vms, queued, zipping, pending>>

\* Mutant: boots are not staggered.
TakeAnySlot(v) ==
    /\ at[v] = "slot"
    /\ slots' = slots + 1
    /\ Goto(v, "admit")
    /\ UNCHANGED <<vms, files, pending>>

\* boot waits for a place in bootSem, or for its caller to go away.
TakeSlot(v) ==
    /\ at[v] = "slot"
    /\ slots < BootSlots
    /\ slots' = slots + 1
    /\ Goto(v, "admit")
    /\ UNCHANGED <<vms, files, pending>>

Abandon(v) ==
    /\ CanFail
    /\ at[v] = "slot"
    /\ Goto(v, "idle")
    /\ UNCHANGED <<vms, files, caps>>

---------------------------------------------------------------------------
\* spawn: admission, the process, its pid on disk, its API socket.

\* Mutant: a bare liveness check of the recorded pids.
CountedAlive(v) == {x \in Vms \ {v} : pid[x] = "saved" /\ Alive(x)}

\* countLive reads the other VMs' meta.json.
Counted(v) == {x \in Vms \ {v} : pid[x] = "saved" /\ IsVmm(x)}

Room(v) == Cardinality(Counted(v)) + pending < MaxLive

Admit(v) ==
    /\ at[v] = "admit"
    /\ Room(v)
    /\ pending' = pending + 1
    /\ Goto(v, "admitted")
    /\ UNCHANGED <<vms, files, slots>>

\* "at capacity ... refusing to overcommit host memory", after ten minutes.
Refuse(v) ==
    /\ at[v] = "admit"
    /\ ~Room(v)
    /\ GiveUp(v)
    /\ UNCHANGED <<vms, queued, zipping, pending>>

\* Everything up to cmd.Start; an error returns the reservation (defer).
Launch(v) ==
    /\ at[v] = "admitted"
    /\ \/ /\ proc' = [proc EXCEPT ![v] = "ip"]
          /\ pid' = [pid EXCEPT ![v] = "unsaved"]
          /\ Goto(v, "started")
          /\ UNCHANGED <<snap, cut, caps>>
       \/ /\ CanFail
          /\ pending' = pending - 1
          /\ GiveUp(v)
          /\ UNCHANGED <<pid, proc>>
    /\ UNCHANGED <<known, queued, zipping>>

AdmitDone(v) ==
    /\ at[v] = "started"
    /\ pending' = pending - 1
    /\ Goto(v, "released")
    /\ UNCHANGED <<vms, files, slots>>

SavePid(v) ==
    /\ at[v] = "released"
    /\ \/ /\ pid' = [pid EXCEPT ![v] = "saved"]
          /\ Goto(v, "saved")
          /\ UNCHANGED <<snap, cut, slots>>
       \/ CanFail /\ GiveUp(v) /\ UNCHANGED pid
    /\ UNCHANGED <<known, proc, queued, zipping, pending>>

\* Mutant: wait for the socket as long as it takes.
SocketUpForEver(v) ==
    /\ at[v] = "saved"
    /\ proc[v] = "idle"
    /\ Goto(v, "api")
    /\ UNCHANGED <<vms, files, caps>>

\* The socket appears once firecracker runs, or one second has passed: the
\* process is not killed then.
SocketUp(v) ==
    /\ at[v] = "saved"
    /\ \/ proc[v] = "idle" /\ Goto(v, "api") /\ UNCHANGED <<snap, cut, slots>>
       \/ (CanFail \/ proc[v] = "none") /\ GiveUp(v)
    /\ UNCHANGED <<vms, queued, zipping, pending>>

---------------------------------------------------------------------------
\* boot's configuration and InstanceStart, or restore's snapshot/load; then
\* waitHTTP.  A failure kills the VMM.

InstanceStart(v) ==
    /\ at[v] = "api" /\ how[v] = "boot"
    /\ proc[v] = "idle"
    /\ GuestRuns(v)
    /\ Goto(v, "wait")
    /\ UNCHANGED <<known, pid, queued, cut, caps>>

Load(v) ==
    /\ at[v] = "api" /\ how[v] = "restore"
    /\ proc[v] = "idle"
    /\ snap[v]["mem"] # "none" /\ snap[v]["state"] # "none"
    /\ GuestRuns(v)
    /\ Goto(v, "wait")
    /\ UNCHANGED <<known, pid, queued, cut, caps>>

ApiFailed(v) ==
    /\ at[v] = "api"
    /\ \/ CanFail
       \/ proc[v] # "idle"
       \/ how[v] = "restore" /\ (snap[v]["mem"] = "none" \/ snap[v]["state"] = "none")
    /\ Kill(v)
    /\ GiveUp(v)
    /\ UNCHANGED <<known, queued, zipping, pending>>

\* Mutant: the snapshot is kept for the next wake.
ServingKeepsSnapshot(v) ==
    /\ at[v] = "wait"
    /\ proc[v] = "running"
    /\ IF how[v] = "restore" THEN UNCHANGED slots ELSE Release
    /\ Goto(v, "idle")
    /\ UNCHANGED <<vms, files, pending>>

\* A restore consumes its snapshot.
Serving(v) ==
    /\ at[v] = "wait"
    /\ proc[v] = "running"
    /\ IF how[v] = "restore" THEN DropSnapshot(v) /\ UNCHANGED slots
       ELSE Release /\ UNCHANGED <<snap, cut>>
    /\ Goto(v, "idle")
    /\ UNCHANGED <<vms, queued, zipping, pending>>

NotServing(v) ==
    /\ at[v] = "wait"
    /\ CanFail \/ proc[v] # "running"
    /\ Kill(v)
    /\ GiveUp(v)
    /\ UNCHANGED <<known, queued, zipping, pending>>

---------------------------------------------------------------------------
\* Suspend, Compact and Stop.

\* A VM that is down is left alone; an ephemeral one is torn down.
Suspend(v) ==
    /\ at[v] = "idle" /\ known[v] /\ Prompt(v)
    /\ Alive(v)
    /\ \/ /\ v \in Ephemeral
          /\ Kill(v)
          /\ UNCHANGED <<snap, calls>>
       \/ /\ v \notin Ephemeral /\ proc[v] \in {"running", "paused"}
          /\ proc' = [proc EXCEPT ![v] = "paused"]
          /\ snap' = [snap EXCEPT ![v]["mem"] = "partial", ![v]["state"] = "partial"]
          /\ Goto(v, "saving")
          /\ UNCHANGED pid
       \/ \* the pause call fails or times out, with or without effect
          /\ v \notin Ephemeral /\ CanFail
          /\ proc' = [proc EXCEPT ![v] = IF proc[v] = "running" THEN "paused" ELSE proc[v]]
          /\ UNCHANGED <<pid, snap, calls>>
    /\ UNCHANGED <<known, queued, zipping, cut, caps>>

\* snapshot/create.  When it fails the VM is resumed, or killed if that fails
\* too, and "a partial snapshot must never be restored".
Saved(v) ==
    /\ at[v] = "saving"
    /\ proc[v] = "paused"
    /\ snap' = [snap EXCEPT ![v]["state"] = "good",
                            ![v]["mem"] = IF snap[v]["mem"] = "none" THEN "none" ELSE "good"]
    /\ Goto(v, "kept")
    /\ UNCHANGED <<vms, queued, zipping, cut, caps>>

SaveFailed(v) ==
    /\ at[v] = "saving"
    /\ CanFail \/ proc[v] # "paused"
    /\ \/ /\ proc[v] = "paused"
          /\ proc' = [proc EXCEPT ![v] = "running"]
          /\ UNCHANGED pid
       \/ Kill(v)
    /\ DropSnapshot(v)
    /\ Goto(v, "idle")
    /\ UNCHANGED <<known, queued, zipping, caps>>

Suspended(v) ==
    /\ at[v] = "kept"
    /\ Kill(v)
    /\ queued' = [queued EXCEPT ![v] = TRUE]
    /\ Goto(v, "idle")
    /\ UNCHANGED <<known, snap, zipping, cut, caps>>

\* The Compact goroutine takes the per-ref lock (restore's, above).
CompactStart(v) ==
    /\ queued[v] /\ zipping[v] = "none" /\ at[v] # "unpacking"
    /\ queued' = [queued EXCEPT ![v] = FALSE]
    /\ IF snap[v]["mem"] = "none" THEN UNCHANGED <<snap, zipping>>
       ELSE /\ zipping' = [zipping EXCEPT ![v] = snap[v]["mem"]]
            /\ snap' = [snap EXCEPT ![v]["zst"] = "partial"]
    /\ UNCHANGED <<vms, cut, calls, caps>>

\* `zstd --rm` removes the raw file last; it fails if the file is gone, and then
\* the compressed one is removed.  One dropped meanwhile stays dropped.
CompactDone(v) ==
    /\ zipping[v] # "none"
    /\ zipping' = [zipping EXCEPT ![v] = "none"]
    /\ \/ /\ snap[v]["mem"] # "none"
          /\ snap' = [snap EXCEPT ![v]["mem"] = "none",
                          ![v]["zst"] = IF snap[v]["zst"] = "none" THEN "none" ELSE zipping[v]]
       \/ /\ CanFail \/ snap[v]["mem"] = "none"
          /\ snap' = [snap EXCEPT ![v]["zst"] = "none"]
    /\ UNCHANGED <<vms, queued, cut, calls, caps>>

Stop(v) ==
    /\ at[v] = "idle" /\ known[v] /\ Prompt(v)
    /\ Alive(v) \/ HasSnapshot(v)
    /\ Kill(v)
    /\ DropSnapshot(v)
    /\ UNCHANGED <<known, queued, zipping, calls, caps>>

---------------------------------------------------------------------------
\* Processes, orchd and the host.

Exec(v) ==
    /\ proc[v] = "ip"
    /\ proc' = [proc EXCEPT ![v] = "idle"]
    /\ UNCHANGED <<known, pid, files, calls, caps>>

Die(v) ==
    /\ Has("die") /\ proc[v] \in Vmm \cup {"ip"}
    /\ proc' = [proc EXCEPT ![v] = "none"]
    /\ UNCHANGED <<known, pid, files, calls, caps>>

Reuse(v) ==
    /\ Has("reuse") /\ pid[v] = "saved" /\ proc[v] = "none"
    /\ proc' = [proc EXCEPT ![v] = "other"]
    /\ UNCHANGED <<known, pid, files, calls, caps>>

\* What a restart of orchd forgets.  A pid that was not saved is lost.
Forget ==
    /\ queued' = [v \in Vms |-> FALSE]
    /\ zipping' = [v \in Vms |-> "none"]
    /\ at' = [v \in Vms |-> "idle"]
    /\ pid' = [v \in Vms |-> IF pid[v] = "unsaved" THEN "none" ELSE pid[v]]
    /\ pending' = 0 /\ slots' = 0
    /\ cut' = cut \cup {v \in Vms : at[v] # "idle"}
    /\ UNCHANGED <<known, how>>

\* The snapshot files once the children of a killed orchd have finished what
\* they were at (KillMode=process): firecracker's save, zstd either way.
Settled(v) ==
    LET s == snap[v] IN
    IF at[v] = "saving" /\ proc[v] = "paused"
    THEN [s EXCEPT !["mem"] = "good", !["state"] = "good"]
    ELSE IF at[v] = "unpacking" THEN [s EXCEPT !["mem"] = s["zst"], !["zst"] = "none"]
    ELSE IF zipping[v] # "none" /\ s["mem"] # "none" /\ s["zst"] # "none"
    THEN [s EXCEPT !["mem"] = "none", !["zst"] = zipping[v]]
    ELSE s

Crash ==
    /\ Has("crash")
    /\ snap' = [v \in Vms |-> Settled(v)]
    /\ Forget
    /\ UNCHANGED proc

\* The host goes down and comes back: no process survives.
Reboot ==
    /\ Has("reboot")
    /\ proc' = [v \in Vms |-> "none"]
    /\ Forget
    /\ UNCHANGED snap

---------------------------------------------------------------------------
Spawn(v) ==
    Admit(v) \/ Refuse(v) \/ Launch(v) \/ AdmitDone(v) \/ SavePid(v) \/ SocketUp(v)

Continue(v) ==
    \/ Resume(v) \/ Resumed(v) \/ Pick(v) \/ Unpacking(v)
    \/ Spawn(v)
    \/ InstanceStart(v) \/ Load(v) \/ ApiFailed(v) \/ Serving(v) \/ NotServing(v)
    \/ Saved(v) \/ SaveFailed(v) \/ Suspended(v)

Next ==
    \/ \E v \in Vms :
          \/ Create(v) \/ Start(v) \/ Suspend(v) \/ Stop(v)
          \/ Unpack(v) \/ TakeSlot(v) \/ Abandon(v) \/ Continue(v)
          \/ CompactStart(v) \/ CompactDone(v)
          \/ Exec(v) \/ Die(v) \/ Reuse(v)
    \/ Crash \/ Reboot

Spec == Init /\ [][Next]_vars

(***************************************************************************)
(* Fairness: an operation under way proceeds, a process that was started   *)
(* executes, zstd ends; places in bootSem and the per-ref lock go to a     *)
(* goroutine that keeps waiting for them.                                  *)
(***************************************************************************)
FairSpec ==
    /\ Spec
    /\ \A v \in Vms :
          /\ WF_vars(Continue(v)) /\ WF_vars(Exec(v))
          /\ SF_vars(Unpack(v)) /\ SF_vars(TakeSlot(v))
          /\ SF_vars(CompactStart(v)) /\ WF_vars(CompactDone(v))

---------------------------------------------------------------------------
\* Properties.

\* No early return of spawn or boot loses a reservation or a boot place, and
\* none is given back twice: a leak of either shuts the driver down by degrees.
Reserved == {v \in Vms : at[v] \in Reserving}
Booting  == {v \in Vms : at[v] \in Spawning /\ how[v] = "boot"}

ReservationsExact == pending = Cardinality(Reserved) /\ slots = Cardinality(Booting)

\* A spawn is refused only when the host is full of VMMs and of reservations:
\* pids left behind by dead VMs do not count (pidIsFirecracker).
RefusedOnlyWhenFull ==
    [][\A v \in Vms :
          Refuse(v) => MaxLive <= Cardinality({x \in Vms \ {v} : proc[x] \in Vmm}) + pending]_vars

\* Unless a restart cut an operation on the VM short, a wake never loads memory
\* the guest has run past, nor half a file ("a partial snapshot must never be
\* restored"): memory and disk of a restored guest belong together.
RestoresLatest ==
    [][\A v \in Vms \ cut :
          Load(v) => snap[v]["mem"] = "good" /\ snap[v]["state"] = "good"]_vars

\* The same after restarts: "a crash before the next Suspend must fall back to a
\* fresh boot rather than restoring doubly-stale memory".
NeverRestoresStale ==
    [][\A v \in Vms : Load(v) => "stale" \notin {snap[v]["mem"], snap[v]["state"]}]_vars

\* Every operation on a VM returns.
CallsEnd == \A v \in Vms : at[v] # "idle" ~> at[v] = "idle"
===========================================================================
