-------------------------- MODULE LifecycleProofs --------------------------
(***************************************************************************)
(* Lifecycle's safety for any set of workloads, any number of threads, any *)
(* idle timeout and any choice of operations and failures.                 *)
(*                                                                         *)
(* The four parts of the inductive invariant are proved one after another, *)
(* each from those before it: types; the lock (LockInv); the ages, from    *)
(* which the grace period after a restart follows (AgeInv); and what the   *)
(* live map says while an operation is under way (LiveInv).                *)
(***************************************************************************)
EXTENDS Lifecycle, TLAPS

USE ThreadsAssumption, TimeoutAssumption, OpsAssumption

\* What the pieces of an operation do to the variables they touch.

LEMMA SetStateTyped ==
    ASSUME TypeOK, NEW w \in Workloads, NEW s \in States, SetState(w, s)
    PROVE  rec' \in [Workloads -> Records]
BY DEF SetState, TypeOK, StoreOK, Records, States

LEMMA ContinueTyped ==
    ASSUME TypeOK, NEW t \in Threads, NEW p \in Positions, Continue(t, p)
    PROVE  CallsOK'
BY DEF Continue, Goto, TypeOK, CallsOK

LEMMA ReturnTyped ==
    ASSUME TypeOK, NEW t \in Threads, Return(t)
    PROVE  CallsOK'
BY DEF Return, Idle, TypeOK, CallsOK, Positions, AllOps

LEMMA DockerRunTyped ==
    ASSUME TypeOK, NEW t \in Threads, DockerRun(t)
    PROVE  CallsOK' /\ inst' \in [Workloads -> {"none", "suspended", "running"}]
<1>1. on[t] \in Workloads
  BY DEF TypeOK, CallsOK
<1>2. inst' \in [Workloads -> {"none", "suspended", "running"}]
  BY <1>1 DEF DockerRun, TypeOK, StoreOK
<1>3. Continue(t, "waiting") \/ Continue(t, "failed")
  BY DEF DockerRun
<1>4. CallsOK'
  BY <1>3, ContinueTyped DEF Positions, Held
<1> QED
  BY <1>2, <1>4

LEMMA DockerStartTyped ==
    ASSUME TypeOK, NEW t \in Threads, DockerStart(t)
    PROVE  CallsOK' /\ inst' \in [Workloads -> {"none", "suspended", "running"}]
<1>1. CASE DockerRun(t)
  BY <1>1, DockerRunTyped
<1>2. CASE UNCHANGED inst /\ Continue(t, "ready")
  BY <1>2, ContinueTyped DEF TypeOK, StoreOK, Positions, Held
<1> QED
  BY <1>1, <1>2 DEF DockerStart

\* Every variable keeps its type: ages stay within IdleTimeout + 1 ticks.
THEOREM TypeCorrect == Spec => []TypeOK
<1> USE DEF TypeOK
<1>1. Init => TypeOK
  <2> SUFFICES ASSUME Init PROVE TypeOK
    OBVIOUS
  <2>1. StoreOK
    BY DEF Init, StoreOK, Missing, Records, States, Absent
  <2>2. MemoryOK
    BY DEF Init, MemoryOK, Ages, None
  <2>3. CallsOK
    BY DEF Init, CallsOK, Positions, AllOps, Missing, Records, States, Absent
  <2> QED
    BY <2>1, <2>2, <2>3 DEF Init
<1>2. TypeOK /\ [Next]_vars => TypeOK'
  <2> SUFFICES ASSUME TypeOK, [Next]_vars PROVE TypeOK'
    OBVIOUS
  <2> USE DEF store, memory, threads, env
  <2>1. ASSUME NEW c \in Clients, NEW w \in Workloads, Register(c, w) PROVE TypeOK'
    BY <2>1 DEF Register, StoreOK, MemoryOK, CallsOK, Records, States, Positions,
       AllOps, Threads
  <2>2. ASSUME NEW c \in Clients, NEW w \in Workloads, NEW o \in Ops, Call(c, o, w)
     PROVE TypeOK'
    BY <2>2 DEF Call, StoreOK, MemoryOK, CallsOK, Records, Positions, AllOps, Threads
  <2>3. ASSUME NEW t \in Threads, Lock(t) PROVE TypeOK'
    BY <2>3 DEF Lock, Goto, StoreOK, MemoryOK, CallsOK, Positions, Held
  <2>4. ASSUME NEW t \in Threads, WakeHit(t) PROVE TypeOK'
    BY <2>4, ReturnTyped DEF WakeHit, StoreOK, MemoryOK, CallsOK, Ages
  <2>5. ASSUME NEW t \in Threads, WakeMiss(t) PROVE TypeOK'
    BY <2>5, DockerStartTyped DEF WakeMiss, StoreOK, MemoryOK
  <2>6. ASSUME NEW t \in Threads, StartHeld(t) PROVE TypeOK'
    BY <2>6, DockerRunTyped, ReturnTyped DEF StartHeld, StoreOK, MemoryOK
  <2>7. ASSUME NEW t \in Threads, ProvisionHeld(t) PROVE TypeOK'
    BY <2>7, DockerRunTyped, ReturnTyped DEF ProvisionHeld, StoreOK, MemoryOK
  <2>8. ASSUME NEW t \in Threads, TakeDown(t) PROVE TypeOK'
    BY <2>8, ContinueTyped DEF TakeDown, DockerRemove, Forget, StoreOK, MemoryOK,
       CallsOK, Positions, Held
  <2>9. ASSUME NEW t \in Threads, BringUp(t) PROVE TypeOK'
    BY <2>9, DockerRunTyped, DockerStartTyped, ReturnTyped, ContinueTyped DEF BringUp,
       StoreOK, MemoryOK, Positions, Held
  <2>10. ASSUME NEW t \in Threads, StopHeld(t) PROVE TypeOK'
    BY <2>10, ContinueTyped, ReturnTyped DEF StopHeld, StoreOK, MemoryOK, CallsOK,
       Positions, Held
  <2>11. ASSUME NEW t \in Threads, BackupHeld(t) PROVE TypeOK'
    BY <2>11, ContinueTyped, ReturnTyped DEF BackupHeld, StoreOK, MemoryOK, CallsOK,
       Positions, Held
  <2>12. ASSUME NEW t \in Threads, WaitReady(t) PROVE TypeOK'
    BY <2>12, ContinueTyped DEF WaitReady, StoreOK, MemoryOK, Positions, Held
  <2>13. ASSUME NEW t \in Threads, Quiesced(t) PROVE TypeOK'
    BY <2>13, SetStateTyped, ContinueTyped, ReturnTyped DEF Quiesced, Forget, StoreOK,
       MemoryOK, CallsOK, Positions, Held, States
  <2>14. ASSUME NEW t \in Threads, Booted(t) PROVE TypeOK'
    BY <2>14, SetStateTyped, ReturnTyped DEF Booted, MarkLive, StoreOK, MemoryOK,
       CallsOK, Ages, States
  <2>15. ASSUME NEW t \in Threads, BootFailed(t) PROVE TypeOK'
    BY <2>15, SetStateTyped, ReturnTyped DEF BootFailed, StoreOK, MemoryOK, CallsOK,
       States
  <2>16. ASSUME NEW t \in Threads, KeepPut(t) PROVE TypeOK'
    <3>1. \A r \in Records, b \in BOOLEAN : [r EXCEPT !.keep = b] \in Records
      BY DEF Records
    <3>2. rec' \in [Workloads -> Records]
      BY <2>16, <3>1 DEF KeepPut, StoreOK, CallsOK
    <3> QED
      BY <2>16, <3>2 DEF KeepPut, StoreOK, MemoryOK, CallsOK, Records, Absent, Missing,
         Positions, AllOps
  <2>16a. ASSUME NEW t \in Threads, ImagePut(t) PROVE TypeOK'
    <3>1. rec' \in [Workloads -> Records]
      BY <2>16a DEF ImagePut, StoreOK, CallsOK
    <3>2. Missing("unborn") \in Records
      BY DEF Missing, Records, Absent
    <3>3. seen' \in [Threads -> Records]
      BY <2>16a, <3>2 DEF ImagePut, CallsOK
    <3>4. at' \in [Threads -> Positions] /\ op' \in [Threads -> AllOps]
      BY <2>16a DEF ImagePut, CallsOK, Positions, AllOps
    <3> QED
      BY <2>16a, <3>1, <3>3, <3>4 DEF ImagePut, StoreOK, MemoryOK, CallsOK
  <2>17. ASSUME NEW t \in Threads, DeleteStop(t) PROVE TypeOK'
    BY <2>17 DEF DeleteStop, DockerRemove, Forget, Goto, StoreOK, MemoryOK, CallsOK,
       Positions
  <2>18. ASSUME NEW t \in Threads, DeleteRecord(t) PROVE TypeOK'
    BY <2>18 DEF DeleteRecord, Idle, Missing, Records, Absent, StoreOK, MemoryOK,
       CallsOK, Positions, AllOps
  <2>19. ASSUME NEW w \in Workloads, SweepCheck(w) PROVE TypeOK'
    BY <2>19 DEF SweepCheck, StoreOK, MemoryOK, CallsOK
  <2>20. ASSUME NEW w \in Workloads, SweepLock(w) PROVE TypeOK'
    BY <2>20 DEF SweepLock, StoreOK, MemoryOK, CallsOK
  <2>21. ASSUME NEW w \in Workloads, SweepSuspend(w) PROVE TypeOK'
    BY <2>21 DEF SweepSuspend, StoreOK, MemoryOK, CallsOK
  <2>22. ASSUME NEW w \in Workloads, SweepDone(w) PROVE TypeOK'
    BY <2>22, SetStateTyped DEF SweepDone, Forget, StoreOK, MemoryOK, CallsOK, States
  <2>23. ASSUME NEW w \in Workloads, Reconcile(w) PROVE TypeOK'
    BY <2>23, SetStateTyped DEF Reconcile, StoreOK, MemoryOK, CallsOK, States
  <2>24. ASSUME NEW w \in Workloads, Die(w) PROVE TypeOK'
    BY <2>24 DEF Die, StoreOK, MemoryOK, CallsOK
  <2>25. ASSUME NEW w \in Workloads, WarmNext(w) PROVE TypeOK'
    BY <2>25 DEF WarmNext, StoreOK, MemoryOK, CallsOK, Positions, AllOps, Threads
  <2>26. ASSUME Scan PROVE TypeOK'
    BY <2>26 DEF Scan, StoreOK, MemoryOK, CallsOK, Ages, None
  <2>27. ASSUME Tick PROVE TypeOK'
    BY <2>27 DEF Tick, Older, StoreOK, MemoryOK, CallsOK, Ages, None
  <2>28. ASSUME Crash PROVE TypeOK'
    BY <2>28 DEF Crash, StoreOK, MemoryOK, CallsOK, Positions, AllOps, Missing, Records,
       Absent, Ages, None
  <2>29. ASSUME Calm PROVE TypeOK'
    BY <2>29 DEF Calm, StoreOK, MemoryOK, CallsOK
  <2>30. CASE UNCHANGED vars
    BY <2>30 DEF vars, StoreOK, MemoryOK, CallsOK
  <2> QED
    BY <2>1, <2>2, <2>3, <2>4, <2>5, <2>6, <2>7, <2>8, <2>9, <2>10, <2>11, <2>12, <2>13,
       <2>14, <2>15, <2>16, <2>16a, <2>17, <2>18, <2>19, <2>20, <2>21, <2>22, <2>23, <2>24,
       <2>25, <2>26, <2>27, <2>28, <2>29, <2>30 DEF Next, ThreadNext, ReaperNext, Step
<1> QED
  BY <1>1, <1>2, PTL DEF Spec

-----------------------------------------------------------------------------
\* A thread holds its workload's refLock exactly between Lock and Unlock, the
\* reaper's goroutine likewise, and every path, the early returns included,
\* gives the lock back.
THEOREM LockSafety == Spec => []LockInv
<1>1. Init => LockInv
  BY DEF Init, LockInv, Held, Threads
<1>2. TypeOK /\ LockInv /\ [Next]_vars => LockInv'
  <2> SUFFICES ASSUME TypeOK, LockInv, [Next]_vars PROVE LockInv'
    OBVIOUS
  <2> USE DEF LockInv, Held, TypeOK, CallsOK, threads
  <2>1. ASSUME NEW c \in Clients, NEW w \in Workloads, Register(c, w) PROVE LockInv'
    BY <2>1 DEF Register, Threads
  <2>2. ASSUME NEW c \in Clients, NEW w \in Workloads, NEW o \in Ops, Call(c, o, w)
     PROVE LockInv'
    BY <2>2 DEF Call, Threads
  <2>3. ASSUME NEW t \in Threads, Lock(t) PROVE LockInv'
    BY <2>3 DEF Lock, Goto
  <2>4. ASSUME NEW t \in Threads, WakeHit(t) PROVE LockInv'
    BY <2>4 DEF WakeHit, Return, Idle
  <2>5. ASSUME NEW t \in Threads, WakeMiss(t) PROVE LockInv'
    BY <2>5 DEF WakeMiss, DockerStart, DockerRun, Continue, Goto
  <2>6. ASSUME NEW t \in Threads, StartHeld(t) PROVE LockInv'
    BY <2>6 DEF StartHeld, DockerRun, Continue, Goto, Return, Idle
  <2>7. ASSUME NEW t \in Threads, ProvisionHeld(t) PROVE LockInv'
    BY <2>7 DEF ProvisionHeld, DockerRun, Continue, Goto, Return, Idle
  <2>8. ASSUME NEW t \in Threads, TakeDown(t) PROVE LockInv'
    BY <2>8 DEF TakeDown, Continue, Goto
  <2>9. ASSUME NEW t \in Threads, BringUp(t) PROVE LockInv'
    BY <2>9 DEF BringUp, DockerStart, DockerRun, Continue, Goto, Return, Idle
  <2>10. ASSUME NEW t \in Threads, StopHeld(t) PROVE LockInv'
    BY <2>10 DEF StopHeld, Continue, Goto, Return, Idle
  <2>11. ASSUME NEW t \in Threads, BackupHeld(t) PROVE LockInv'
    BY <2>11 DEF BackupHeld, Continue, Goto, Return, Idle
  <2>12. ASSUME NEW t \in Threads, WaitReady(t) PROVE LockInv'
    BY <2>12 DEF WaitReady, Continue, Goto
  <2>13. ASSUME NEW t \in Threads, Quiesced(t) PROVE LockInv'
    BY <2>13 DEF Quiesced, Continue, Goto, Return, Idle
  <2>14. ASSUME NEW t \in Threads, Booted(t) PROVE LockInv'
    BY <2>14 DEF Booted, Return, Idle
  <2>15. ASSUME NEW t \in Threads, BootFailed(t) PROVE LockInv'
    BY <2>15 DEF BootFailed, Return, Idle
  <2>16. ASSUME NEW t \in Threads, KeepPut(t) PROVE LockInv'
    BY <2>16 DEF KeepPut
  <2>16a. ASSUME NEW t \in Threads, ImagePut(t) PROVE LockInv'
    BY <2>16a DEF ImagePut
  <2>17. ASSUME NEW t \in Threads, DeleteStop(t) PROVE LockInv'
    BY <2>17 DEF DeleteStop, Goto
  <2>18. ASSUME NEW t \in Threads, DeleteRecord(t) PROVE LockInv'
    BY <2>18 DEF DeleteRecord, Idle
  <2>19. ASSUME NEW w \in Workloads, SweepCheck(w) PROVE LockInv'
    BY <2>19 DEF SweepCheck
  <2>20. ASSUME NEW w \in Workloads, SweepLock(w) PROVE LockInv'
    BY <2>20 DEF SweepLock
  <2>21. ASSUME NEW w \in Workloads, SweepSuspend(w) PROVE LockInv'
    BY <2>21 DEF SweepSuspend
  <2>22. ASSUME NEW w \in Workloads, SweepDone(w) PROVE LockInv'
    BY <2>22 DEF SweepDone
  <2>23. ASSUME NEW w \in Workloads, Reconcile(w) PROVE LockInv'
    BY <2>23 DEF Reconcile
  <2>24. ASSUME NEW w \in Workloads, Die(w) PROVE LockInv'
    BY <2>24 DEF Die
  <2>25. ASSUME NEW w \in Workloads, WarmNext(w) PROVE LockInv'
    BY <2>25 DEF WarmNext, Threads
  <2>26. ASSUME Scan PROVE LockInv'
    BY <2>26 DEF Scan, Over, Unowned
  <2>27. ASSUME Tick PROVE LockInv'
    BY <2>27 DEF Tick, Older
  <2>28. ASSUME Crash PROVE LockInv'
    BY <2>28 DEF Crash
  <2>29. ASSUME Calm PROVE LockInv'
    BY <2>29 DEF Calm
  <2>30. CASE UNCHANGED vars
    BY <2>30 DEF vars, Held
  <2> QED
    BY <2>1, <2>2, <2>3, <2>4, <2>5, <2>6, <2>7, <2>8, <2>9, <2>10, <2>11, <2>12, <2>13,
       <2>14, <2>15, <2>16, <2>16a, <2>17, <2>18, <2>19, <2>20, <2>21, <2>22, <2>23, <2>24,
       <2>25, <2>26, <2>27, <2>28, <2>29, <2>30 DEF Next, ThreadNext, ReaperNext, Step
<1> QED
  BY <1>1, <1>2, TypeCorrect, PTL DEF Spec

-----------------------------------------------------------------------------
\* No age exceeds that of the process, since a restart forgets them all; so
\* what has been idle longer than the timeout has been so since orchd started.
AgeInv ==
    /\ \A w \in Workloads : live[w] <= uptime /\ unowned[w] <= uptime
    /\ GraceAfterRestart

\* After a restart the reaper suspends nothing for a whole idle interval.
THEOREM Grace == Spec => []GraceAfterRestart
<1> USE DEF TypeOK, StoreOK, MemoryOK, CallsOK, Ages, None
<1>1. Init => AgeInv
  BY DEF Init, AgeInv, GraceAfterRestart
<1>2. TypeOK /\ AgeInv /\ [Next]_vars => AgeInv'
  <2> SUFFICES ASSUME TypeOK, AgeInv, [Next]_vars PROVE AgeInv'
    OBVIOUS
  <2> USE DEF AgeInv, GraceAfterRestart
  <2>1. ASSUME NEW c \in Clients, NEW w \in Workloads, Register(c, w) PROVE AgeInv'
    BY <2>1 DEF Register, memory
  <2>2. ASSUME NEW c \in Clients, NEW w \in Workloads, NEW o \in Ops, Call(c, o, w)
     PROVE AgeInv'
    BY <2>2 DEF Call, memory
  <2>3. ASSUME NEW t \in Threads, Lock(t) PROVE AgeInv'
    BY <2>3 DEF Lock, memory
  <2>4. ASSUME NEW t \in Threads, WakeHit(t) PROVE AgeInv'
    BY <2>4 DEF WakeHit, memory
  <2>5. ASSUME NEW t \in Threads, WakeMiss(t) PROVE AgeInv'
    BY <2>5 DEF WakeMiss, memory
  <2>6. ASSUME NEW t \in Threads, StartHeld(t) PROVE AgeInv'
    BY <2>6 DEF StartHeld, memory
  <2>7. ASSUME NEW t \in Threads, ProvisionHeld(t) PROVE AgeInv'
    BY <2>7 DEF ProvisionHeld, memory
  <2>8. ASSUME NEW t \in Threads, TakeDown(t) PROVE AgeInv'
    BY <2>8 DEF TakeDown, Forget, memory
  <2>9. ASSUME NEW t \in Threads, BringUp(t) PROVE AgeInv'
    BY <2>9 DEF BringUp, memory
  <2>10. ASSUME NEW t \in Threads, StopHeld(t) PROVE AgeInv'
    BY <2>10 DEF StopHeld, memory
  <2>11. ASSUME NEW t \in Threads, BackupHeld(t) PROVE AgeInv'
    BY <2>11 DEF BackupHeld, memory
  <2>12. ASSUME NEW t \in Threads, WaitReady(t) PROVE AgeInv'
    BY <2>12 DEF WaitReady, memory
  <2>13. ASSUME NEW t \in Threads, Quiesced(t) PROVE AgeInv'
    BY <2>13 DEF Quiesced, Forget, memory
  <2>14. ASSUME NEW t \in Threads, Booted(t) PROVE AgeInv'
    BY <2>14 DEF Booted, MarkLive, memory
  <2>15. ASSUME NEW t \in Threads, BootFailed(t) PROVE AgeInv'
    BY <2>15 DEF BootFailed, memory
  <2>16. ASSUME NEW t \in Threads, KeepPut(t) PROVE AgeInv'
    BY <2>16 DEF KeepPut, memory
  <2>16a. ASSUME NEW t \in Threads, ImagePut(t) PROVE AgeInv'
    BY <2>16a DEF ImagePut, memory
  <2>17. ASSUME NEW t \in Threads, DeleteStop(t) PROVE AgeInv'
    BY <2>17 DEF DeleteStop, Forget, memory
  <2>18. ASSUME NEW t \in Threads, DeleteRecord(t) PROVE AgeInv'
    BY <2>18 DEF DeleteRecord, memory
  <2>19. ASSUME NEW w \in Workloads, SweepCheck(w) PROVE AgeInv'
    BY <2>19 DEF SweepCheck, memory
  <2>20. ASSUME NEW w \in Workloads, SweepLock(w) PROVE AgeInv'
    BY <2>20 DEF SweepLock, memory
  <2>21. ASSUME NEW w \in Workloads, SweepSuspend(w) PROVE AgeInv'
    BY <2>21 DEF SweepSuspend, memory
  <2>22. ASSUME NEW w \in Workloads, SweepDone(w) PROVE AgeInv'
    BY <2>22 DEF SweepDone, Forget, memory
  <2>23. ASSUME NEW w \in Workloads, Reconcile(w) PROVE AgeInv'
    BY <2>23 DEF Reconcile, memory
  <2>24. ASSUME NEW w \in Workloads, Die(w) PROVE AgeInv'
    BY <2>24 DEF Die, memory
  <2>25. ASSUME NEW w \in Workloads, WarmNext(w) PROVE AgeInv'
    BY <2>25 DEF WarmNext, memory
  <2>26. ASSUME Scan PROVE AgeInv'
    BY <2>26 DEF Scan, Over, memory
  <2>27. ASSUME Tick PROVE AgeInv'
    BY <2>27 DEF Tick, Older, memory
  <2>28. ASSUME Crash PROVE AgeInv'
    BY <2>28 DEF Crash, memory
  <2>29. ASSUME Calm PROVE AgeInv'
    BY <2>29 DEF Calm, memory
  <2>30. CASE UNCHANGED vars
    BY <2>30 DEF vars, memory
  <2> QED
    BY <2>1, <2>2, <2>3, <2>4, <2>5, <2>6, <2>7, <2>8, <2>9, <2>10, <2>11, <2>12, <2>13,
       <2>14, <2>15, <2>16, <2>16a, <2>17, <2>18, <2>19, <2>20, <2>21, <2>22, <2>23, <2>24,
       <2>25, <2>26, <2>27, <2>28, <2>29, <2>30 DEF Next, ThreadNext, ReaperNext, Step
<1>3. AgeInv => GraceAfterRestart
  BY DEF AgeInv
<1> QED
  BY <1>1, <1>2, <1>3, TypeCorrect, PTL DEF Spec

-----------------------------------------------------------------------------
\* What is known while an operation is under way, for a workload no deletion,
\* whole-record write or death has disturbed: a boot reported ready runs; an
\* operation's record is there; an unborn workload has no live entry; and a
\* live entry is right, or the workload is recorded failed, or the holder of
\* the lock is about to drop the entry or to record the failure.
AboutToSettle(w) ==
    \/ sweep[w] = "stopped"
    \/ \E t \in Threads :
          /\ on[t] = w
          /\ \/ at[t] = "quiesced"
             \/ at[t] = "failed" /\ op[t] \notin {"wake", "backup"}

DeletionsDisturb == \A t \in Threads : at[t] = "stopped" => on[t] \in disturbed

RecordsThere == \A t \in Threads : at[t] # "idle" /\ on[t] \notin disturbed => Exists(on[t])

ReadyRuns == \A t \in Threads : at[t] = "ready" /\ on[t] \notin disturbed => Running(on[t])

EntriesRight ==
    \A w \in Workloads \ disturbed :
        live[w] # None =>
            \/ Running(w) /\ rec[w].st = "running"
            \/ rec[w].st = "failed"
            \/ AboutToSettle(w)

LiveInv == DeletionsDisturb /\ RecordsThere /\ ReadyRuns /\ EntriesRight

\* The address EnsureRunning returns from the live map is that of a running
\* instance, recorded as such, in every undisturbed and unlocked workload.
THEOREM LiveAgreement == Spec => []LiveAgrees
<1>1. Init => LiveInv
  BY DEF Init, LiveInv, DeletionsDisturb, RecordsThere, ReadyRuns, EntriesRight, Exists
<1>2. TypeOK /\ LockInv /\ LockInv' /\ LiveInv /\ [Next]_vars => LiveInv'
  <2> SUFFICES ASSUME TypeOK, LockInv, LockInv', LiveInv, [Next]_vars PROVE LiveInv'
    OBVIOUS
  <2> USE DEF LiveInv, DeletionsDisturb, RecordsThere, ReadyRuns, EntriesRight, AboutToSettle, LockInv, Held, TypeOK, StoreOK, MemoryOK, CallsOK,
              Exists, Running, Absent, store, memory, threads, env
  <2>1. ASSUME NEW c \in Clients, NEW w \in Workloads, Register(c, w) PROVE LiveInv'
    BY <2>1 DEF Register, Threads
  <2>2. ASSUME NEW c \in Clients, NEW w \in Workloads, NEW o \in Ops, Call(c, o, w)
     PROVE LiveInv'
    BY <2>2 DEF Call, Threads
  <2>3. ASSUME NEW t \in Threads, Lock(t) PROVE LiveInv'
    BY <2>3 DEF Lock, Goto
  <2>4. ASSUME NEW t \in Threads, WakeHit(t) PROVE LiveInv'
    BY <2>4 DEF WakeHit, Return, Idle
  <2>5. ASSUME NEW t \in Threads, WakeMiss(t) PROVE LiveInv'
    BY <2>5 DEF WakeMiss, DockerStart, DockerRun, Continue, Goto
  <2>6. ASSUME NEW t \in Threads, StartHeld(t) PROVE LiveInv'
    BY <2>6 DEF StartHeld, DockerRun, Continue, Goto, Return, Idle
  <2>7. ASSUME NEW t \in Threads, ProvisionHeld(t) PROVE LiveInv'
    BY <2>7 DEF ProvisionHeld, DockerRun, Continue, Goto, Return, Idle
  <2>8. ASSUME NEW t \in Threads, TakeDown(t) PROVE LiveInv'
    BY <2>8 DEF TakeDown, DockerRemove, Forget, Continue, Goto
  <2>9. ASSUME NEW t \in Threads, BringUp(t) PROVE LiveInv'
    BY <2>9 DEF BringUp, DockerStart, DockerRun, Continue, Goto, Return, Idle
  <2>10. ASSUME NEW t \in Threads, StopHeld(t) PROVE LiveInv'
    BY <2>10 DEF StopHeld, Continue, Goto, Return, Idle
  <2>11. ASSUME NEW t \in Threads, BackupHeld(t) PROVE LiveInv'
    BY <2>11 DEF BackupHeld, Continue, Goto, Return, Idle
  <2>12. ASSUME NEW t \in Threads, WaitReady(t) PROVE LiveInv'
    BY <2>12 DEF WaitReady, Continue, Goto
  <2>13. ASSUME NEW t \in Threads, Quiesced(t) PROVE LiveInv'
    <3>1. CASE op[t] = "backup"
      <4>1. DeletionsDisturb'
        BY <2>13, <3>1 DEF Quiesced, SetState, Forget, Continue, Goto, Return, Idle,
           Records
      <4>2. RecordsThere'
        BY <2>13, <3>1 DEF Quiesced, SetState, Forget, Continue, Goto, Return, Idle,
           Records
      <4>3. ReadyRuns'
        BY <2>13, <3>1 DEF Quiesced, SetState, Forget, Continue, Goto, Return, Idle,
           Records
      <4>4. EntriesRight'
        BY <2>13, <3>1 DEF Quiesced, SetState, Forget, Continue, Goto, Return, Idle,
           Records
      <4> QED
        BY <4>1, <4>2, <4>3, <4>4
    <3>2. CASE op[t] # "backup"
      <4>1. DeletionsDisturb'
        BY <2>13, <3>2 DEF Quiesced, SetState, Forget, Continue, Goto, Return, Idle,
           Records
      <4>2. RecordsThere'
        BY <2>13, <3>2 DEF Quiesced, SetState, Forget, Continue, Goto, Return, Idle,
           Records
      <4>3. ReadyRuns'
        BY <2>13, <3>2 DEF Quiesced, SetState, Forget, Continue, Goto, Return, Idle,
           Records
      <4>4. EntriesRight'
        BY <2>13, <3>2 DEF Quiesced, SetState, Forget, Continue, Goto, Return, Idle,
           Records
      <4> QED
        BY <4>1, <4>2, <4>3, <4>4
    <3> QED
      BY <3>1, <3>2
  <2>14. ASSUME NEW t \in Threads, Booted(t) PROVE LiveInv'
    BY <2>14 DEF Booted, SetState, MarkLive, Return, Idle, Records, None
  <2>15. ASSUME NEW t \in Threads, BootFailed(t) PROVE LiveInv'
    <3>1. CASE op[t] \in {"wake", "backup"}
      <4>1. DeletionsDisturb'
        BY <2>15, <3>1 DEF BootFailed, SetState, Return, Idle, Records
      <4>2. RecordsThere'
        BY <2>15, <3>1 DEF BootFailed, SetState, Return, Idle, Records
      <4>3. ReadyRuns'
        BY <2>15, <3>1 DEF BootFailed, SetState, Return, Idle, Records
      <4>4. EntriesRight'
        BY <2>15, <3>1 DEF BootFailed, SetState, Return, Idle, Records
      <4> QED
        BY <4>1, <4>2, <4>3, <4>4
    <3>2. CASE op[t] \notin {"wake", "backup"}
      <4>1. DeletionsDisturb'
        BY <2>15, <3>2 DEF BootFailed, SetState, Return, Idle, Records
      <4>2. RecordsThere'
        BY <2>15, <3>2 DEF BootFailed, SetState, Return, Idle, Records
      <4>3. ReadyRuns'
        BY <2>15, <3>2 DEF BootFailed, SetState, Return, Idle, Records
      <4>4. EntriesRight'
        BY <2>15, <3>2 DEF BootFailed, SetState, Return, Idle, Records
      <4> QED
        BY <4>1, <4>2, <4>3, <4>4
    <3> QED
      BY <3>1, <3>2
  <2>16. ASSUME NEW t \in Threads, KeepPut(t) PROVE LiveInv'
    BY <2>16 DEF KeepPut, Records
  <2>16a. ASSUME NEW t \in Threads, ImagePut(t) PROVE LiveInv'
    <3>1. \A u \in Threads \ {t} : at'[u] = at[u] /\ op'[u] = op[u]
      BY <2>16a DEF ImagePut
    <3>2. /\ at[t] = "got" /\ at'[t] \in {"got", "idle"} /\ on \in [Threads -> Workloads]
          /\ op'[t] \in {"wake", "restart"}
          /\ disturbed' = disturbed \cup {on[t]}
          /\ \A w \in Workloads \ disturbed' : rec'[w] = rec[w]
          /\ UNCHANGED <<inst, live, lock, on, sweep>>
      BY <2>16a DEF ImagePut
    <3>3. DeletionsDisturb'
      BY <2>16a, <3>1, <3>2
    <3>4. RecordsThere'
      BY <2>16a, <3>1, <3>2
    <3>5. ReadyRuns'
      BY <2>16a, <3>1, <3>2
    <3>6. EntriesRight'
      BY <2>16a, <3>1, <3>2
    <3> QED
      BY <3>3, <3>4, <3>5, <3>6
  <2>17. ASSUME NEW t \in Threads, DeleteStop(t) PROVE LiveInv'
    BY <2>17 DEF DeleteStop, DockerRemove, Forget, Goto
  <2>18. ASSUME NEW t \in Threads, DeleteRecord(t) PROVE LiveInv'
    BY <2>18 DEF DeleteRecord, Idle, Records, Missing
  <2>19. ASSUME NEW w \in Workloads, SweepCheck(w) PROVE LiveInv'
    BY <2>19 DEF SweepCheck
  <2>20. ASSUME NEW w \in Workloads, SweepLock(w) PROVE LiveInv'
    BY <2>20 DEF SweepLock
  <2>21. ASSUME NEW w \in Workloads, SweepSuspend(w) PROVE LiveInv'
    BY <2>21 DEF SweepSuspend
  <2>22. ASSUME NEW w \in Workloads, SweepDone(w) PROVE LiveInv'
    BY <2>22 DEF SweepDone, SetState, Forget, Records
  <2>23. ASSUME NEW w \in Workloads, Reconcile(w) PROVE LiveInv'
    BY <2>23 DEF Reconcile, SetState, Records
  <2>24. ASSUME NEW w \in Workloads, Die(w) PROVE LiveInv'
    BY <2>24 DEF Die
  <2>25. ASSUME NEW w \in Workloads, WarmNext(w) PROVE LiveInv'
    BY <2>25 DEF WarmNext, Threads
  <2>26. ASSUME Scan PROVE LiveInv'
    BY <2>26 DEF Scan, Over, Unowned
  <2>27. ASSUME Tick PROVE LiveInv'
    BY <2>27 DEF Tick, Older, Ages, None
  <2>28. ASSUME Crash PROVE LiveInv'
    BY <2>28 DEF Crash, Missing
  <2>29. ASSUME Calm PROVE LiveInv'
    BY <2>29 DEF Calm
  <2>30. CASE UNCHANGED vars
    BY <2>30 DEF vars, Held
  <2> QED
    BY <2>1, <2>2, <2>3, <2>4, <2>5, <2>6, <2>7, <2>8, <2>9, <2>10, <2>11, <2>12, <2>13,
       <2>14, <2>15, <2>16, <2>16a, <2>17, <2>18, <2>19, <2>20, <2>21, <2>22, <2>23, <2>24,
       <2>25, <2>26, <2>27, <2>28, <2>29, <2>30 DEF Next, ThreadNext, ReaperNext, Step
<1>3. LockInv /\ LiveInv => LiveAgrees
  BY DEF LockInv, LiveInv, EntriesRight, AboutToSettle, LiveAgrees, Held
<1> QED
  BY <1>1, <1>2, <1>3, TypeCorrect, LockSafety, PTL DEF Spec

============================================================================
