------------------------- MODULE FirecrackerProofs -------------------------
(***************************************************************************)
(* The Firecracker driver's safety for any set of VMs, any capacity and    *)
(* any choice of failures: types, the reservations of spawn and boot, what *)
(* admission refuses and what a wake loads.                                *)
(*                                                                         *)
(* Types are inductive but for the counters, which may be decremented only *)
(* because somebody holds what is given back: pending and slots are typed  *)
(* together with the sets of operations they count (CountInv), and that    *)
(* needs the way an operation is bringing its VM up (HowFits).             *)
(*                                                                         *)
(* That a wake loads the latest memory needs to know, for every place an   *)
(* operation can be at, what the snapshot files hold and what zstd reads   *)
(* beside it (Fit); that one is inductive once Compact's goroutine has its *)
(* lock before the VM's next operation.                                    *)
(***************************************************************************)
EXTENDS Firecracker, FiniteSetTheorems, TLAPS

Typed == VmsOK /\ FilesOK /\ CallsOK

HowFits ==
    \A v \in Vms :
        /\ at[v] \in {"unpack", "unpacking"} => how[v] = "restore"
        /\ at[v] = "slot" => how[v] = "boot"

CountInv == CapsOK /\ ReservationsExact

Inv == Typed /\ HowFits /\ CountInv

---------------------------------------------------------------------------
\* Processes, files and positions keep their types.

\* Processes and pids keep their types.
LEMMA VmsStep == Typed /\ [Next]_vars => VmsOK'
<1> SUFFICES ASSUME Typed, [Next]_vars PROVE VmsOK'
  OBVIOUS
<1> USE DEF Typed, VmsOK, Processes, Vmm
<1>1. ASSUME NEW v \in Vms, Create(v) PROVE VmsOK'
  BY <1>1 DEF Create, Kill, DropSnapshot, Goto, vms
<1>2. ASSUME NEW v \in Vms, Start(v) PROVE VmsOK'
  BY <1>2 DEF Start, Goto, vms
<1>3. ASSUME NEW v \in Vms, Suspend(v) PROVE VmsOK'
  BY <1>3 DEF Suspend, Kill, Goto, vms
<1>4. ASSUME NEW v \in Vms, Stop(v) PROVE VmsOK'
  BY <1>4 DEF Stop, Kill, DropSnapshot, Goto, vms
<1>5. ASSUME NEW v \in Vms, Unpack(v) PROVE VmsOK'
  BY <1>5 DEF Unpack, Goto, vms
<1>6. ASSUME NEW v \in Vms, TakeSlot(v) PROVE VmsOK'
  BY <1>6 DEF TakeSlot, Goto, vms
<1>7. ASSUME NEW v \in Vms, Abandon(v) PROVE VmsOK'
  BY <1>7 DEF Abandon, Goto, vms
<1>8. ASSUME NEW v \in Vms, Resume(v) PROVE VmsOK'
  BY <1>8 DEF Resume, GuestRuns, Outdated, Kill, Goto, vms
<1>9. ASSUME NEW v \in Vms, Resumed(v) PROVE VmsOK'
  BY <1>9 DEF Resumed, Kill, Goto, vms
<1>10. ASSUME NEW v \in Vms, Pick(v) PROVE VmsOK'
  BY <1>10 DEF Pick, Goto, vms
<1>11. ASSUME NEW v \in Vms, Unpacking(v) PROVE VmsOK'
  BY <1>11 DEF Unpacking, GiveUp, DropSnapshot, Release, Goto, vms
<1>12. ASSUME NEW v \in Vms, Admit(v) PROVE VmsOK'
  BY <1>12 DEF Admit, Goto, vms
<1>13. ASSUME NEW v \in Vms, Refuse(v) PROVE VmsOK'
  BY <1>13 DEF Refuse, GiveUp, DropSnapshot, Release, Goto, vms
<1>14. ASSUME NEW v \in Vms, Launch(v) PROVE VmsOK'
  BY <1>14 DEF Launch, GiveUp, DropSnapshot, Release, Goto, vms
<1>15. ASSUME NEW v \in Vms, AdmitDone(v) PROVE VmsOK'
  BY <1>15 DEF AdmitDone, Goto, vms
<1>16. ASSUME NEW v \in Vms, SavePid(v) PROVE VmsOK'
  BY <1>16 DEF SavePid, GiveUp, DropSnapshot, Release, Goto, vms
<1>17. ASSUME NEW v \in Vms, SocketUp(v) PROVE VmsOK'
  BY <1>17 DEF SocketUp, GiveUp, DropSnapshot, Release, Goto, vms
<1>18. ASSUME NEW v \in Vms, InstanceStart(v) PROVE VmsOK'
  BY <1>18 DEF InstanceStart, GuestRuns, Outdated, Goto, vms
<1>19. ASSUME NEW v \in Vms, Load(v) PROVE VmsOK'
  BY <1>19 DEF Load, GuestRuns, Outdated, Goto, vms
<1>20. ASSUME NEW v \in Vms, ApiFailed(v) PROVE VmsOK'
  BY <1>20 DEF ApiFailed, Kill, GiveUp, DropSnapshot, Release, Goto, vms
<1>21. ASSUME NEW v \in Vms, Serving(v) PROVE VmsOK'
  BY <1>21 DEF Serving, DropSnapshot, Release, Goto, vms
<1>22. ASSUME NEW v \in Vms, NotServing(v) PROVE VmsOK'
  BY <1>22 DEF NotServing, Kill, GiveUp, DropSnapshot, Release, Goto, vms
<1>23. ASSUME NEW v \in Vms, Saved(v) PROVE VmsOK'
  BY <1>23 DEF Saved, Goto, vms
<1>24. ASSUME NEW v \in Vms, SaveFailed(v) PROVE VmsOK'
  BY <1>24 DEF SaveFailed, Kill, DropSnapshot, Goto, vms
<1>25. ASSUME NEW v \in Vms, Suspended(v) PROVE VmsOK'
  BY <1>25 DEF Suspended, Kill, Goto, vms
<1>26. ASSUME NEW v \in Vms, CompactStart(v) PROVE VmsOK'
  BY <1>26 DEF CompactStart, Goto, vms
<1>27. ASSUME NEW v \in Vms, CompactDone(v) PROVE VmsOK'
  BY <1>27 DEF CompactDone, Goto, vms
<1>28. ASSUME NEW v \in Vms, Exec(v) PROVE VmsOK'
  BY <1>28 DEF Exec, Goto, vms
<1>29. ASSUME NEW v \in Vms, Die(v) PROVE VmsOK'
  BY <1>29 DEF Die, Goto, vms
<1>30. ASSUME NEW v \in Vms, Reuse(v) PROVE VmsOK'
  BY <1>30 DEF Reuse, Goto, vms
<1>31. CASE Crash
  BY <1>31 DEF Crash, Forget, Settled, vms
<1>32. CASE Reboot
  BY <1>32 DEF Reboot, Forget, vms
<1>33. CASE UNCHANGED vars
  BY <1>33 DEF vars
<1> QED
  BY <1>1, <1>2, <1>3, <1>4, <1>5, <1>6, <1>7, <1>8, <1>9, <1>10, <1>11,
     <1>12, <1>13, <1>14, <1>15, <1>16, <1>17, <1>18, <1>19, <1>20, <1>21,
     <1>22, <1>23, <1>24, <1>25, <1>26, <1>27, <1>28, <1>29, <1>30, <1>31,
     <1>32, <1>33 DEF Next, Continue, Spawn

\* Files keep their types.
LEMMA FilesStep == Typed /\ [Next]_vars => FilesOK'
<1> SUFFICES ASSUME Typed, [Next]_vars PROVE FilesOK'
  OBVIOUS
<1> USE DEF Typed, FilesOK, Contents, Files, NoFiles
<1>1. ASSUME NEW v \in Vms, Create(v) PROVE FilesOK'
  BY <1>1 DEF Create, Kill, DropSnapshot, Goto, files
<1>2. ASSUME NEW v \in Vms, Start(v) PROVE FilesOK'
  BY <1>2 DEF Start, Goto, files
<1>3. ASSUME NEW v \in Vms, Suspend(v) PROVE FilesOK'
  BY <1>3 DEF Suspend, Kill, Goto, files
<1>4. ASSUME NEW v \in Vms, Stop(v) PROVE FilesOK'
  BY <1>4 DEF Stop, Kill, DropSnapshot, Goto, files
<1>5. ASSUME NEW v \in Vms, Unpack(v) PROVE FilesOK'
  BY <1>5 DEF Unpack, Goto, files
<1>6. ASSUME NEW v \in Vms, TakeSlot(v) PROVE FilesOK'
  BY <1>6 DEF TakeSlot, Goto, files
<1>7. ASSUME NEW v \in Vms, Abandon(v) PROVE FilesOK'
  BY <1>7 DEF Abandon, Goto, files
<1>8. ASSUME NEW v \in Vms, Resume(v) PROVE FilesOK'
  BY <1>8 DEF Resume, GuestRuns, Outdated, Kill, Goto, files
<1>9. ASSUME NEW v \in Vms, Resumed(v) PROVE FilesOK'
  BY <1>9 DEF Resumed, Kill, Goto, files
<1>10. ASSUME NEW v \in Vms, Pick(v) PROVE FilesOK'
  BY <1>10 DEF Pick, Goto, files
<1>11. ASSUME NEW v \in Vms, Unpacking(v) PROVE FilesOK'
  BY <1>11 DEF Unpacking, GiveUp, DropSnapshot, Release, Goto, files
<1>12. ASSUME NEW v \in Vms, Admit(v) PROVE FilesOK'
  BY <1>12 DEF Admit, Goto, files
<1>13. ASSUME NEW v \in Vms, Refuse(v) PROVE FilesOK'
  BY <1>13 DEF Refuse, GiveUp, DropSnapshot, Release, Goto, files
<1>14. ASSUME NEW v \in Vms, Launch(v) PROVE FilesOK'
  BY <1>14 DEF Launch, GiveUp, DropSnapshot, Release, Goto, files
<1>15. ASSUME NEW v \in Vms, AdmitDone(v) PROVE FilesOK'
  BY <1>15 DEF AdmitDone, Goto, files
<1>16. ASSUME NEW v \in Vms, SavePid(v) PROVE FilesOK'
  BY <1>16 DEF SavePid, GiveUp, DropSnapshot, Release, Goto, files
<1>17. ASSUME NEW v \in Vms, SocketUp(v) PROVE FilesOK'
  BY <1>17 DEF SocketUp, GiveUp, DropSnapshot, Release, Goto, files
<1>18. ASSUME NEW v \in Vms, InstanceStart(v) PROVE FilesOK'
  BY <1>18 DEF InstanceStart, GuestRuns, Outdated, Goto, files
<1>19. ASSUME NEW v \in Vms, Load(v) PROVE FilesOK'
  BY <1>19 DEF Load, GuestRuns, Outdated, Goto, files
<1>20. ASSUME NEW v \in Vms, ApiFailed(v) PROVE FilesOK'
  BY <1>20 DEF ApiFailed, Kill, GiveUp, DropSnapshot, Release, Goto, files
<1>21. ASSUME NEW v \in Vms, Serving(v) PROVE FilesOK'
  BY <1>21 DEF Serving, DropSnapshot, Release, Goto, files
<1>22. ASSUME NEW v \in Vms, NotServing(v) PROVE FilesOK'
  BY <1>22 DEF NotServing, Kill, GiveUp, DropSnapshot, Release, Goto, files
<1>23. ASSUME NEW v \in Vms, Saved(v) PROVE FilesOK'
  BY <1>23 DEF Saved, Goto, files
<1>24. ASSUME NEW v \in Vms, SaveFailed(v) PROVE FilesOK'
  BY <1>24 DEF SaveFailed, Kill, DropSnapshot, Goto, files
<1>25. ASSUME NEW v \in Vms, Suspended(v) PROVE FilesOK'
  BY <1>25 DEF Suspended, Kill, Goto, files
<1>26. ASSUME NEW v \in Vms, CompactStart(v) PROVE FilesOK'
  BY <1>26 DEF CompactStart, Goto, files
<1>27. ASSUME NEW v \in Vms, CompactDone(v) PROVE FilesOK'
  BY <1>27 DEF CompactDone, Goto, files
<1>28. ASSUME NEW v \in Vms, Exec(v) PROVE FilesOK'
  BY <1>28 DEF Exec, Goto, files
<1>29. ASSUME NEW v \in Vms, Die(v) PROVE FilesOK'
  BY <1>29 DEF Die, Goto, files
<1>30. ASSUME NEW v \in Vms, Reuse(v) PROVE FilesOK'
  BY <1>30 DEF Reuse, Goto, files
<1>31. CASE Crash
  BY <1>31 DEF Crash, Forget, Settled, files
<1>32. CASE Reboot
  BY <1>32 DEF Reboot, Forget, files
<1>33. CASE UNCHANGED vars
  BY <1>33 DEF vars
<1> QED
  BY <1>1, <1>2, <1>3, <1>4, <1>5, <1>6, <1>7, <1>8, <1>9, <1>10, <1>11,
     <1>12, <1>13, <1>14, <1>15, <1>16, <1>17, <1>18, <1>19, <1>20, <1>21,
     <1>22, <1>23, <1>24, <1>25, <1>26, <1>27, <1>28, <1>29, <1>30, <1>31,
     <1>32, <1>33 DEF Next, Continue, Spawn

\* Operations stay where operations can be.
LEMMA CallsStep == Typed /\ [Next]_vars => CallsOK'
<1> SUFFICES ASSUME Typed, [Next]_vars PROVE CallsOK'
  OBVIOUS
<1> USE DEF Typed, CallsOK, Positions, Spawning, Reserving
<1>1. ASSUME NEW v \in Vms, Create(v) PROVE CallsOK'
  BY <1>1 DEF Create, Kill, DropSnapshot, Goto, calls
<1>2. ASSUME NEW v \in Vms, Start(v) PROVE CallsOK'
  BY <1>2 DEF Start, Goto, calls
<1>3. ASSUME NEW v \in Vms, Suspend(v) PROVE CallsOK'
  BY <1>3 DEF Suspend, Kill, Goto, calls
<1>4. ASSUME NEW v \in Vms, Stop(v) PROVE CallsOK'
  BY <1>4 DEF Stop, Kill, DropSnapshot, Goto, calls
<1>5. ASSUME NEW v \in Vms, Unpack(v) PROVE CallsOK'
  BY <1>5 DEF Unpack, Goto, calls
<1>6. ASSUME NEW v \in Vms, TakeSlot(v) PROVE CallsOK'
  BY <1>6 DEF TakeSlot, Goto, calls
<1>7. ASSUME NEW v \in Vms, Abandon(v) PROVE CallsOK'
  BY <1>7 DEF Abandon, Goto, calls
<1>8. ASSUME NEW v \in Vms, Resume(v) PROVE CallsOK'
  BY <1>8 DEF Resume, GuestRuns, Outdated, Kill, Goto, calls
<1>9. ASSUME NEW v \in Vms, Resumed(v) PROVE CallsOK'
  BY <1>9 DEF Resumed, Kill, Goto, calls
<1>10. ASSUME NEW v \in Vms, Pick(v) PROVE CallsOK'
  BY <1>10 DEF Pick, Goto, calls
<1>11. ASSUME NEW v \in Vms, Unpacking(v) PROVE CallsOK'
  BY <1>11 DEF Unpacking, GiveUp, DropSnapshot, Release, Goto, calls
<1>12. ASSUME NEW v \in Vms, Admit(v) PROVE CallsOK'
  BY <1>12 DEF Admit, Goto, calls
<1>13. ASSUME NEW v \in Vms, Refuse(v) PROVE CallsOK'
  BY <1>13 DEF Refuse, GiveUp, DropSnapshot, Release, Goto, calls
<1>14. ASSUME NEW v \in Vms, Launch(v) PROVE CallsOK'
  BY <1>14 DEF Launch, GiveUp, DropSnapshot, Release, Goto, calls
<1>15. ASSUME NEW v \in Vms, AdmitDone(v) PROVE CallsOK'
  BY <1>15 DEF AdmitDone, Goto, calls
<1>16. ASSUME NEW v \in Vms, SavePid(v) PROVE CallsOK'
  BY <1>16 DEF SavePid, GiveUp, DropSnapshot, Release, Goto, calls
<1>17. ASSUME NEW v \in Vms, SocketUp(v) PROVE CallsOK'
  BY <1>17 DEF SocketUp, GiveUp, DropSnapshot, Release, Goto, calls
<1>18. ASSUME NEW v \in Vms, InstanceStart(v) PROVE CallsOK'
  BY <1>18 DEF InstanceStart, GuestRuns, Outdated, Goto, calls
<1>19. ASSUME NEW v \in Vms, Load(v) PROVE CallsOK'
  BY <1>19 DEF Load, GuestRuns, Outdated, Goto, calls
<1>20. ASSUME NEW v \in Vms, ApiFailed(v) PROVE CallsOK'
  BY <1>20 DEF ApiFailed, Kill, GiveUp, DropSnapshot, Release, Goto, calls
<1>21. ASSUME NEW v \in Vms, Serving(v) PROVE CallsOK'
  BY <1>21 DEF Serving, DropSnapshot, Release, Goto, calls
<1>22. ASSUME NEW v \in Vms, NotServing(v) PROVE CallsOK'
  BY <1>22 DEF NotServing, Kill, GiveUp, DropSnapshot, Release, Goto, calls
<1>23. ASSUME NEW v \in Vms, Saved(v) PROVE CallsOK'
  BY <1>23 DEF Saved, Goto, calls
<1>24. ASSUME NEW v \in Vms, SaveFailed(v) PROVE CallsOK'
  BY <1>24 DEF SaveFailed, Kill, DropSnapshot, Goto, calls
<1>25. ASSUME NEW v \in Vms, Suspended(v) PROVE CallsOK'
  BY <1>25 DEF Suspended, Kill, Goto, calls
<1>26. ASSUME NEW v \in Vms, CompactStart(v) PROVE CallsOK'
  BY <1>26 DEF CompactStart, Goto, calls
<1>27. ASSUME NEW v \in Vms, CompactDone(v) PROVE CallsOK'
  BY <1>27 DEF CompactDone, Goto, calls
<1>28. ASSUME NEW v \in Vms, Exec(v) PROVE CallsOK'
  BY <1>28 DEF Exec, Goto, calls
<1>29. ASSUME NEW v \in Vms, Die(v) PROVE CallsOK'
  BY <1>29 DEF Die, Goto, calls
<1>30. ASSUME NEW v \in Vms, Reuse(v) PROVE CallsOK'
  BY <1>30 DEF Reuse, Goto, calls
<1>31. CASE Crash
  BY <1>31 DEF Crash, Forget, Settled, calls
<1>32. CASE Reboot
  BY <1>32 DEF Reboot, Forget, calls
<1>33. CASE UNCHANGED vars
  BY <1>33 DEF vars
<1> QED
  BY <1>1, <1>2, <1>3, <1>4, <1>5, <1>6, <1>7, <1>8, <1>9, <1>10, <1>11,
     <1>12, <1>13, <1>14, <1>15, <1>16, <1>17, <1>18, <1>19, <1>20, <1>21,
     <1>22, <1>23, <1>24, <1>25, <1>26, <1>27, <1>28, <1>29, <1>30, <1>31,
     <1>32, <1>33 DEF Next, Continue, Spawn

\* An operation that unpacks restores, one that waits for a place boots.
LEMMA HowStep == Typed /\ HowFits /\ [Next]_vars => HowFits'
<1> SUFFICES ASSUME Typed /\ HowFits, [Next]_vars PROVE HowFits'
  OBVIOUS
<1> USE DEF Typed, CallsOK, HowFits
<1>1. ASSUME NEW v \in Vms, Create(v) PROVE HowFits'
  BY <1>1 DEF Create, Kill, DropSnapshot, Goto, calls
<1>2. ASSUME NEW v \in Vms, Start(v) PROVE HowFits'
  BY <1>2 DEF Start, Goto, calls
<1>3. ASSUME NEW v \in Vms, Suspend(v) PROVE HowFits'
  BY <1>3 DEF Suspend, Kill, Goto, calls
<1>4. ASSUME NEW v \in Vms, Stop(v) PROVE HowFits'
  BY <1>4 DEF Stop, Kill, DropSnapshot, Goto, calls
<1>5. ASSUME NEW v \in Vms, Unpack(v) PROVE HowFits'
  BY <1>5 DEF Unpack, Goto, calls
<1>6. ASSUME NEW v \in Vms, TakeSlot(v) PROVE HowFits'
  BY <1>6 DEF TakeSlot, Goto, calls
<1>7. ASSUME NEW v \in Vms, Abandon(v) PROVE HowFits'
  BY <1>7 DEF Abandon, Goto, calls
<1>8. ASSUME NEW v \in Vms, Resume(v) PROVE HowFits'
  BY <1>8 DEF Resume, GuestRuns, Outdated, Kill, Goto, calls
<1>9. ASSUME NEW v \in Vms, Resumed(v) PROVE HowFits'
  BY <1>9 DEF Resumed, Kill, Goto, calls
<1>10. ASSUME NEW v \in Vms, Pick(v) PROVE HowFits'
  BY <1>10 DEF Pick, Goto, calls
<1>11. ASSUME NEW v \in Vms, Unpacking(v) PROVE HowFits'
  BY <1>11 DEF Unpacking, GiveUp, DropSnapshot, Release, Goto, calls
<1>12. ASSUME NEW v \in Vms, Admit(v) PROVE HowFits'
  BY <1>12 DEF Admit, Goto, calls
<1>13. ASSUME NEW v \in Vms, Refuse(v) PROVE HowFits'
  BY <1>13 DEF Refuse, GiveUp, DropSnapshot, Release, Goto, calls
<1>14. ASSUME NEW v \in Vms, Launch(v) PROVE HowFits'
  BY <1>14 DEF Launch, GiveUp, DropSnapshot, Release, Goto, calls
<1>15. ASSUME NEW v \in Vms, AdmitDone(v) PROVE HowFits'
  BY <1>15 DEF AdmitDone, Goto, calls
<1>16. ASSUME NEW v \in Vms, SavePid(v) PROVE HowFits'
  BY <1>16 DEF SavePid, GiveUp, DropSnapshot, Release, Goto, calls
<1>17. ASSUME NEW v \in Vms, SocketUp(v) PROVE HowFits'
  BY <1>17 DEF SocketUp, GiveUp, DropSnapshot, Release, Goto, calls
<1>18. ASSUME NEW v \in Vms, InstanceStart(v) PROVE HowFits'
  BY <1>18 DEF InstanceStart, GuestRuns, Outdated, Goto, calls
<1>19. ASSUME NEW v \in Vms, Load(v) PROVE HowFits'
  BY <1>19 DEF Load, GuestRuns, Outdated, Goto, calls
<1>20. ASSUME NEW v \in Vms, ApiFailed(v) PROVE HowFits'
  BY <1>20 DEF ApiFailed, Kill, GiveUp, DropSnapshot, Release, Goto, calls
<1>21. ASSUME NEW v \in Vms, Serving(v) PROVE HowFits'
  BY <1>21 DEF Serving, DropSnapshot, Release, Goto, calls
<1>22. ASSUME NEW v \in Vms, NotServing(v) PROVE HowFits'
  BY <1>22 DEF NotServing, Kill, GiveUp, DropSnapshot, Release, Goto, calls
<1>23. ASSUME NEW v \in Vms, Saved(v) PROVE HowFits'
  BY <1>23 DEF Saved, Goto, calls
<1>24. ASSUME NEW v \in Vms, SaveFailed(v) PROVE HowFits'
  BY <1>24 DEF SaveFailed, Kill, DropSnapshot, Goto, calls
<1>25. ASSUME NEW v \in Vms, Suspended(v) PROVE HowFits'
  BY <1>25 DEF Suspended, Kill, Goto, calls
<1>26. ASSUME NEW v \in Vms, CompactStart(v) PROVE HowFits'
  BY <1>26 DEF CompactStart, Goto, calls
<1>27. ASSUME NEW v \in Vms, CompactDone(v) PROVE HowFits'
  BY <1>27 DEF CompactDone, Goto, calls
<1>28. ASSUME NEW v \in Vms, Exec(v) PROVE HowFits'
  BY <1>28 DEF Exec, Goto, calls
<1>29. ASSUME NEW v \in Vms, Die(v) PROVE HowFits'
  BY <1>29 DEF Die, Goto, calls
<1>30. ASSUME NEW v \in Vms, Reuse(v) PROVE HowFits'
  BY <1>30 DEF Reuse, Goto, calls
<1>31. CASE Crash
  BY <1>31 DEF Crash, Forget, Settled, calls
<1>32. CASE Reboot
  BY <1>32 DEF Reboot, Forget, calls
<1>33. CASE UNCHANGED vars
  BY <1>33 DEF vars
<1> QED
  BY <1>1, <1>2, <1>3, <1>4, <1>5, <1>6, <1>7, <1>8, <1>9, <1>10, <1>11,
     <1>12, <1>13, <1>14, <1>15, <1>16, <1>17, <1>18, <1>19, <1>20, <1>21,
     <1>22, <1>23, <1>24, <1>25, <1>26, <1>27, <1>28, <1>29, <1>30, <1>31,
     <1>32, <1>33 DEF Next, Continue, Spawn

---------------------------------------------------------------------------
\* Counting: an operation's step moves one VM in or out of what is counted.

LEMMA OneChanged ==
    ASSUME NEW S, IsFiniteSet(S), NEW T, NEW v, S \ {v} = T \ {v}
    PROVE  /\ Cardinality(S) \in Nat /\ Cardinality(T) \in Nat
           /\ Cardinality(T) = Cardinality(S) + (IF v \in T THEN 1 ELSE 0)
                                              - (IF v \in S THEN 1 ELSE 0)
<1> DEFINE R == S \ {v}
<1>1. /\ IsFiniteSet(R)
      /\ Cardinality(R) = IF v \in S THEN Cardinality(S) - 1 ELSE Cardinality(S)
  BY FS_RemoveElement
<1>2. /\ IsFiniteSet(R \cup {v})
      /\ Cardinality(R \cup {v}) = Cardinality(R) + 1
  BY <1>1, FS_AddElement
<1>3. T = IF v \in T THEN R \cup {v} ELSE R
  OBVIOUS
<1>4. IsFiniteSet(T)
  BY <1>1, <1>2, <1>3
<1>5. Cardinality(S) \in Nat /\ Cardinality(T) \in Nat /\ Cardinality(R) \in Nat
  BY <1>1, <1>4, FS_CardinalityType
<1>6. CASE v \in T
  <2>1. T = R \cup {v}
    BY <1>6
  <2> QED
    BY <2>1, <1>1, <1>2, <1>5, <1>6
<1>7. CASE v \notin T
  <2>1. T = R
    BY <1>7
  <2> QED
    BY <2>1, <1>1, <1>5, <1>7
<1> QED
  BY <1>6, <1>7

\* The operation on v moves, no other does.
Alone(v) ==
    \A x \in Vms \ {v} : at'[x] = at[x] /\ how'[x] = how[x]

Reserves(v) == at[v] \in Reserving
Boots(v)    == at[v] \in Spawning /\ how[v] = "boot"

LEMMA Moves ==
    ASSUME CountInv, NEW v \in Vms, Alone(v)
    PROVE  /\ Cardinality(Reserved') = pending + (IF Reserves(v)' THEN 1 ELSE 0)
                                               - (IF Reserves(v) THEN 1 ELSE 0)
           /\ Cardinality(Booting') = slots + (IF Boots(v)' THEN 1 ELSE 0)
                                            - (IF Boots(v) THEN 1 ELSE 0)
           /\ Cardinality(Reserved') \in Nat /\ Cardinality(Booting') \in Nat
           /\ Reserves(v) => pending > 0
           /\ Boots(v) => slots > 0
<1>1. IsFiniteSet(Reserved) /\ IsFiniteSet(Booting)
  BY VmsAssumption, FS_Subset DEF Reserved, Booting
<1>2. Reserved \ {v} = Reserved' \ {v} /\ Booting \ {v} = Booting' \ {v}
  BY DEF Alone, Reserved, Booting
<1>3. /\ Reserves(v) <=> v \in Reserved
      /\ Reserves(v)' <=> v \in Reserved'
      /\ Boots(v) <=> v \in Booting
      /\ Boots(v)' <=> v \in Booting'
  BY DEF Reserves, Boots, Reserved, Booting
<1>4. Reserves(v) => Cardinality(Reserved) # 0
  BY <1>1, <1>3, FS_EmptySet
<1>5. Boots(v) => Cardinality(Booting) # 0
  BY <1>1, <1>3, FS_EmptySet
<1>6. /\ Cardinality(Reserved) \in Nat /\ Cardinality(Reserved') \in Nat
      /\ Cardinality(Reserved') = Cardinality(Reserved) + (IF v \in Reserved' THEN 1 ELSE 0)
                                                       - (IF v \in Reserved THEN 1 ELSE 0)
  BY <1>1, <1>2, OneChanged
<1>7. /\ Cardinality(Booting) \in Nat /\ Cardinality(Booting') \in Nat
      /\ Cardinality(Booting') = Cardinality(Booting) + (IF v \in Booting' THEN 1 ELSE 0)
                                                     - (IF v \in Booting THEN 1 ELSE 0)
  BY <1>1, <1>2, OneChanged
<1>8. pending = Cardinality(Reserved) /\ slots = Cardinality(Booting)
  BY DEF CountInv, ReservationsExact
<1>9. /\ Cardinality(Reserved') = pending + (IF Reserves(v)' THEN 1 ELSE 0)
                                           - (IF Reserves(v) THEN 1 ELSE 0)
      /\ Reserves(v) => pending > 0
  BY <1>3, <1>4, <1>6, <1>8
<1>10. /\ Cardinality(Booting') = slots + (IF Boots(v)' THEN 1 ELSE 0)
                                         - (IF Boots(v) THEN 1 ELSE 0)
       /\ Boots(v) => slots > 0
  BY <1>3, <1>5, <1>7, <1>8
<1> QED
  BY <1>6, <1>7, <1>9, <1>10

\* An operation that gives up gives back the place in bootSem it has, if any.
LEMMA GivesUp ==
    ASSUME Typed, CountInv, NEW v \in Vms, GiveUp(v), at[v] # "slot",
           at[v] \in Spawning \/ how[v] = "restore"
    PROVE  /\ Alone(v) /\ ~Reserves(v)' /\ ~Boots(v)'
           /\ slots' = slots - (IF Boots(v) THEN 1 ELSE 0)
<1> USE DEF Typed, CallsOK
<1>1. Alone(v)
  BY DEF GiveUp, Goto, Alone
<1>2. at'[v] \in {"slot", "idle"}
  BY DEF GiveUp, Goto
<1>3. ~Reserves(v)' /\ ~Boots(v)'
  BY <1>2 DEF Reserves, Boots, Spawning, Reserving
<1>4. slots' = slots - (IF Boots(v) THEN 1 ELSE 0)
  <2>1. CASE how[v] = "restore"
    BY <2>1 DEF GiveUp, Boots, CountInv, CapsOK
  <2>2. CASE how[v] # "restore"
    <3>1. Boots(v)
      BY <2>2 DEF Boots
    <3> QED
      BY <2>2, <3>1 DEF GiveUp, Release
  <2> QED
    BY <2>1, <2>2
<1> QED
  BY <1>1, <1>3, <1>4

\* Every step keeps the counters equal to what they count.
LEMMA CountStep == Inv /\ [Next]_vars => CountInv'
<1> SUFFICES ASSUME Inv, [Next]_vars PROVE CountInv'
  OBVIOUS
<1> USE DEF Inv
<1> DEFINE Counts(v) == /\ pending' = pending + (IF Reserves(v)' THEN 1 ELSE 0)
                                               - (IF Reserves(v) THEN 1 ELSE 0)
                        /\ slots' = slots + (IF Boots(v)' THEN 1 ELSE 0)
                                           - (IF Boots(v) THEN 1 ELSE 0)
\* A step that changes the counters as its VM moves is right, if there is a place.
<1>a. ASSUME NEW v \in Vms, Alone(v), Counts(v), slots' <= BootSlots PROVE CountInv'
  BY <1>a, Moves, CapAssumption DEF CountInv, CapsOK, ReservationsExact
<1>b. ASSUME UNCHANGED <<calls, caps>> PROVE CountInv'
  BY <1>b DEF calls, caps, CountInv, CapsOK, ReservationsExact, Reserved, Booting
<1>c. pending \in Nat /\ slots \in 0..BootSlots /\ BootSlots \in Nat
  BY CapAssumption DEF CountInv, CapsOK
<1> HIDE DEF Inv
<1>1. ASSUME NEW v \in Vms, Create(v) PROVE CountInv'
  <2>1. Alone(v)
    BY <1>1 DEF Inv, Typed, CallsOK, Alone, calls, Create, Goto
  <2>2. Counts(v) /\ slots' <= BootSlots
    BY <1>c, <1>1 DEF Inv, Typed, CallsOK, HowFits, Reserves, Boots, Spawning,
       Reserving, calls, caps, Create, Goto
  <2> QED
    BY <1>a, <2>1, <2>2
<1>2. ASSUME NEW v \in Vms, Start(v) PROVE CountInv'
  <2>1. Alone(v)
    BY <1>2 DEF Inv, Typed, CallsOK, Alone, calls, Start, Goto
  <2>2. Counts(v) /\ slots' <= BootSlots
    BY <1>c, <1>2 DEF Inv, Typed, CallsOK, HowFits, Reserves, Boots, Spawning,
       Reserving, calls, caps, Start, Goto
  <2> QED
    BY <1>a, <2>1, <2>2
<1>3. ASSUME NEW v \in Vms, Suspend(v) PROVE CountInv'
  <2>1. Alone(v)
    BY <1>3 DEF Inv, Typed, CallsOK, Alone, calls, Suspend, Goto
  <2>2. Counts(v) /\ slots' <= BootSlots
    BY <1>c, <1>3 DEF Inv, Typed, CallsOK, HowFits, Reserves, Boots, Spawning,
       Reserving, calls, caps, Suspend, Goto
  <2> QED
    BY <1>a, <2>1, <2>2
<1>4. ASSUME NEW v \in Vms, Stop(v) PROVE CountInv'
  <2>1. Alone(v)
    BY <1>4 DEF Inv, Typed, CallsOK, Alone, calls, Stop, Goto
  <2>2. Counts(v) /\ slots' <= BootSlots
    BY <1>c, <1>4 DEF Inv, Typed, CallsOK, HowFits, Reserves, Boots, Spawning,
       Reserving, calls, caps, Stop, Goto
  <2> QED
    BY <1>a, <2>1, <2>2
<1>5. ASSUME NEW v \in Vms, Unpack(v) PROVE CountInv'
  <2>1. Alone(v)
    BY <1>5 DEF Inv, Typed, CallsOK, Alone, calls, Unpack, Goto
  <2>2. Counts(v) /\ slots' <= BootSlots
    BY <1>c, <1>5 DEF Inv, Typed, CallsOK, HowFits, Reserves, Boots, Spawning,
       Reserving, calls, caps, Unpack, Goto
  <2> QED
    BY <1>a, <2>1, <2>2
<1>6. ASSUME NEW v \in Vms, TakeSlot(v) PROVE CountInv'
  <2>1. Alone(v)
    BY <1>6 DEF Inv, Typed, CallsOK, Alone, calls, TakeSlot, Goto
  <2>2. Counts(v) /\ slots' <= BootSlots
    BY <1>c, <1>6 DEF Inv, Typed, CallsOK, HowFits, Reserves, Boots, Spawning,
       Reserving, calls, caps, TakeSlot, Goto
  <2> QED
    BY <1>a, <2>1, <2>2
<1>7. ASSUME NEW v \in Vms, Abandon(v) PROVE CountInv'
  <2>1. Alone(v)
    BY <1>7 DEF Inv, Typed, CallsOK, Alone, calls, Abandon, Goto
  <2>2. Counts(v) /\ slots' <= BootSlots
    BY <1>c, <1>7 DEF Inv, Typed, CallsOK, HowFits, Reserves, Boots, Spawning,
       Reserving, calls, caps, Abandon, Goto
  <2> QED
    BY <1>a, <2>1, <2>2
<1>8. ASSUME NEW v \in Vms, Resume(v) PROVE CountInv'
  <2>1. Alone(v)
    BY <1>8 DEF Inv, Typed, CallsOK, Alone, calls, Resume, Goto
  <2>2. Counts(v) /\ slots' <= BootSlots
    BY <1>c, <1>8 DEF Inv, Typed, CallsOK, HowFits, Reserves, Boots, Spawning,
       Reserving, calls, caps, Resume, Goto
  <2> QED
    BY <1>a, <2>1, <2>2
<1>9. ASSUME NEW v \in Vms, Resumed(v) PROVE CountInv'
  <2>1. Alone(v)
    BY <1>9 DEF Inv, Typed, CallsOK, Alone, calls, Resumed, Goto
  <2>2. Counts(v) /\ slots' <= BootSlots
    BY <1>c, <1>9 DEF Inv, Typed, CallsOK, HowFits, Reserves, Boots, Spawning,
       Reserving, calls, caps, Resumed, Goto
  <2> QED
    BY <1>a, <2>1, <2>2
<1>10. ASSUME NEW v \in Vms, Pick(v) PROVE CountInv'
  <2>1. Alone(v)
    BY <1>10 DEF Inv, Typed, CallsOK, Alone, calls, Pick, Goto
  <2>2. Counts(v) /\ slots' <= BootSlots
    BY <1>c, <1>10 DEF Inv, Typed, CallsOK, HowFits, Reserves, Boots,
       Spawning, Reserving, calls, caps, Pick, Goto
  <2> QED
    BY <1>a, <2>1, <2>2
<1>11. ASSUME NEW v \in Vms, Unpacking(v) PROVE CountInv'
  <2>1. CASE GiveUp(v) /\ UNCHANGED pending
    <3>1. at[v] # "slot" /\ (at[v] \in Spawning \/ how[v] = "restore")
      BY <1>11 DEF Inv, HowFits, Spawning, Reserving, Unpacking
    <3>2. /\ Alone(v) /\ ~Reserves(v)' /\ ~Boots(v)'
          /\ slots' = slots - (IF Boots(v) THEN 1 ELSE 0)
      BY <2>1, <3>1, GivesUp DEF Inv
    <3>3. Reserves(v) <=> FALSE
      BY <1>11 DEF Reserves, Reserving, Unpacking
    <3>4. Counts(v) /\ slots' <= BootSlots
      BY <1>c, <2>1, <3>2, <3>3
    <3> QED
      BY <1>a, <3>2, <3>4
  <2>2. CASE ~GiveUp(v)
    <3>1. Alone(v)
      BY <1>11, <2>2 DEF Inv, Typed, CallsOK, Alone, Unpacking, Goto
    <3>2. Counts(v) /\ slots' <= BootSlots
      BY <1>c, <1>11, <2>2 DEF Inv, Typed, CallsOK, HowFits, Reserves, Boots,
         Spawning, Reserving, caps, Unpacking, Goto
    <3> QED
      BY <1>a, <3>1, <3>2
  <2> QED
    BY <1>11, <2>1, <2>2 DEF Unpacking, caps
<1>12. ASSUME NEW v \in Vms, Admit(v) PROVE CountInv'
  <2>1. Alone(v)
    BY <1>12 DEF Inv, Typed, CallsOK, Alone, calls, Admit, Goto
  <2>2. Counts(v) /\ slots' <= BootSlots
    BY <1>c, <1>12 DEF Inv, Typed, CallsOK, HowFits, Reserves, Boots,
       Spawning, Reserving, calls, caps, Admit, Goto
  <2> QED
    BY <1>a, <2>1, <2>2
<1>13. ASSUME NEW v \in Vms, Refuse(v) PROVE CountInv'
  <2>1. CASE GiveUp(v) /\ UNCHANGED pending
    <3>1. at[v] # "slot" /\ (at[v] \in Spawning \/ how[v] = "restore")
      BY <1>13 DEF Inv, HowFits, Spawning, Reserving, Refuse
    <3>2. /\ Alone(v) /\ ~Reserves(v)' /\ ~Boots(v)'
          /\ slots' = slots - (IF Boots(v) THEN 1 ELSE 0)
      BY <2>1, <3>1, GivesUp DEF Inv
    <3>3. Reserves(v) <=> FALSE
      BY <1>13 DEF Reserves, Reserving, Refuse
    <3>4. Counts(v) /\ slots' <= BootSlots
      BY <1>c, <2>1, <3>2, <3>3
    <3> QED
      BY <1>a, <3>2, <3>4
  <2> QED
    BY <1>13, <2>1 DEF Refuse
<1>14. ASSUME NEW v \in Vms, Launch(v) PROVE CountInv'
  <2>1. CASE GiveUp(v) /\ pending' = pending - 1
    <3>1. at[v] # "slot" /\ (at[v] \in Spawning \/ how[v] = "restore")
      BY <1>14 DEF Inv, HowFits, Spawning, Reserving, Launch
    <3>2. /\ Alone(v) /\ ~Reserves(v)' /\ ~Boots(v)'
          /\ slots' = slots - (IF Boots(v) THEN 1 ELSE 0)
      BY <2>1, <3>1, GivesUp DEF Inv
    <3>3. Reserves(v) <=> TRUE
      BY <1>14 DEF Reserves, Reserving, Launch
    <3>4. Counts(v) /\ slots' <= BootSlots
      BY <1>c, <2>1, <3>2, <3>3
    <3> QED
      BY <1>a, <3>2, <3>4
  <2>2. CASE Goto(v, "started") /\ UNCHANGED caps
    <3>1. Alone(v)
      BY <1>14, <2>2 DEF Inv, Typed, CallsOK, Alone, Launch, Goto
    <3>2. Counts(v) /\ slots' <= BootSlots
      BY <1>c, <1>14, <2>2 DEF Inv, Typed, CallsOK, HowFits, Reserves, Boots,
         Spawning, Reserving, caps, Launch, Goto
    <3> QED
      BY <1>a, <3>1, <3>2
  <2> QED
    BY <1>14, <2>1, <2>2 DEF Launch, caps
<1>15. ASSUME NEW v \in Vms, AdmitDone(v) PROVE CountInv'
  <2>1. Alone(v)
    BY <1>15 DEF Inv, Typed, CallsOK, Alone, calls, AdmitDone, Goto
  <2>2. Counts(v) /\ slots' <= BootSlots
    BY <1>c, <1>15 DEF Inv, Typed, CallsOK, HowFits, Reserves, Boots,
       Spawning, Reserving, calls, caps, AdmitDone, Goto
  <2> QED
    BY <1>a, <2>1, <2>2
<1>16. ASSUME NEW v \in Vms, SavePid(v) PROVE CountInv'
  <2>1. CASE GiveUp(v) /\ UNCHANGED pending
    <3>1. at[v] # "slot" /\ (at[v] \in Spawning \/ how[v] = "restore")
      BY <1>16 DEF Inv, HowFits, Spawning, Reserving, SavePid
    <3>2. /\ Alone(v) /\ ~Reserves(v)' /\ ~Boots(v)'
          /\ slots' = slots - (IF Boots(v) THEN 1 ELSE 0)
      BY <2>1, <3>1, GivesUp DEF Inv
    <3>3. Reserves(v) <=> FALSE
      BY <1>16 DEF Reserves, Reserving, SavePid
    <3>4. Counts(v) /\ slots' <= BootSlots
      BY <1>c, <2>1, <3>2, <3>3
    <3> QED
      BY <1>a, <3>2, <3>4
  <2>2. CASE ~GiveUp(v)
    <3>1. Alone(v)
      BY <1>16, <2>2 DEF Inv, Typed, CallsOK, Alone, SavePid, Goto
    <3>2. Counts(v) /\ slots' <= BootSlots
      BY <1>c, <1>16, <2>2 DEF Inv, Typed, CallsOK, HowFits, Reserves, Boots,
         Spawning, Reserving, caps, SavePid, Goto
    <3> QED
      BY <1>a, <3>1, <3>2
  <2> QED
    BY <1>16, <2>1, <2>2 DEF SavePid, caps
<1>17. ASSUME NEW v \in Vms, SocketUp(v) PROVE CountInv'
  <2>1. CASE GiveUp(v) /\ UNCHANGED pending
    <3>1. at[v] # "slot" /\ (at[v] \in Spawning \/ how[v] = "restore")
      BY <1>17 DEF Inv, HowFits, Spawning, Reserving, SocketUp
    <3>2. /\ Alone(v) /\ ~Reserves(v)' /\ ~Boots(v)'
          /\ slots' = slots - (IF Boots(v) THEN 1 ELSE 0)
      BY <2>1, <3>1, GivesUp DEF Inv
    <3>3. Reserves(v) <=> FALSE
      BY <1>17 DEF Reserves, Reserving, SocketUp
    <3>4. Counts(v) /\ slots' <= BootSlots
      BY <1>c, <2>1, <3>2, <3>3
    <3> QED
      BY <1>a, <3>2, <3>4
  <2>2. CASE ~GiveUp(v)
    <3>1. Alone(v)
      BY <1>17, <2>2 DEF Inv, Typed, CallsOK, Alone, SocketUp, Goto
    <3>2. Counts(v) /\ slots' <= BootSlots
      BY <1>c, <1>17, <2>2 DEF Inv, Typed, CallsOK, HowFits, Reserves, Boots,
         Spawning, Reserving, caps, SocketUp, Goto
    <3> QED
      BY <1>a, <3>1, <3>2
  <2> QED
    BY <1>17, <2>1, <2>2 DEF SocketUp, caps
<1>18. ASSUME NEW v \in Vms, InstanceStart(v) PROVE CountInv'
  <2>1. Alone(v)
    BY <1>18 DEF Inv, Typed, CallsOK, Alone, calls, InstanceStart, Goto
  <2>2. Counts(v) /\ slots' <= BootSlots
    BY <1>c, <1>18 DEF Inv, Typed, CallsOK, HowFits, Reserves, Boots,
       Spawning, Reserving, calls, caps, InstanceStart, Goto
  <2> QED
    BY <1>a, <2>1, <2>2
<1>19. ASSUME NEW v \in Vms, Load(v) PROVE CountInv'
  <2>1. Alone(v)
    BY <1>19 DEF Inv, Typed, CallsOK, Alone, calls, Load, Goto
  <2>2. Counts(v) /\ slots' <= BootSlots
    BY <1>c, <1>19 DEF Inv, Typed, CallsOK, HowFits, Reserves, Boots,
       Spawning, Reserving, calls, caps, Load, Goto
  <2> QED
    BY <1>a, <2>1, <2>2
<1>20. ASSUME NEW v \in Vms, ApiFailed(v) PROVE CountInv'
  <2>1. CASE GiveUp(v) /\ UNCHANGED pending
    <3>1. at[v] # "slot" /\ (at[v] \in Spawning \/ how[v] = "restore")
      BY <1>20 DEF Inv, HowFits, Spawning, Reserving, ApiFailed
    <3>2. /\ Alone(v) /\ ~Reserves(v)' /\ ~Boots(v)'
          /\ slots' = slots - (IF Boots(v) THEN 1 ELSE 0)
      BY <2>1, <3>1, GivesUp DEF Inv
    <3>3. Reserves(v) <=> FALSE
      BY <1>20 DEF Reserves, Reserving, ApiFailed
    <3>4. Counts(v) /\ slots' <= BootSlots
      BY <1>c, <2>1, <3>2, <3>3
    <3> QED
      BY <1>a, <3>2, <3>4
  <2> QED
    BY <1>20, <2>1 DEF ApiFailed
<1>21. ASSUME NEW v \in Vms, Serving(v) PROVE CountInv'
  <2>1. Alone(v)
    BY <1>21 DEF Inv, Typed, CallsOK, Alone, calls, Serving, Goto
  <2>2. Counts(v) /\ slots' <= BootSlots
    BY <1>c, <1>21 DEF Inv, Typed, CallsOK, HowFits, Reserves, Boots,
       Spawning, Reserving, calls, caps, Serving, Goto, Release
  <2> QED
    BY <1>a, <2>1, <2>2
<1>22. ASSUME NEW v \in Vms, NotServing(v) PROVE CountInv'
  <2>1. CASE GiveUp(v) /\ UNCHANGED pending
    <3>1. at[v] # "slot" /\ (at[v] \in Spawning \/ how[v] = "restore")
      BY <1>22 DEF Inv, HowFits, Spawning, Reserving, NotServing
    <3>2. /\ Alone(v) /\ ~Reserves(v)' /\ ~Boots(v)'
          /\ slots' = slots - (IF Boots(v) THEN 1 ELSE 0)
      BY <2>1, <3>1, GivesUp DEF Inv
    <3>3. Reserves(v) <=> FALSE
      BY <1>22 DEF Reserves, Reserving, NotServing
    <3>4. Counts(v) /\ slots' <= BootSlots
      BY <1>c, <2>1, <3>2, <3>3
    <3> QED
      BY <1>a, <3>2, <3>4
  <2> QED
    BY <1>22, <2>1 DEF NotServing
<1>23. ASSUME NEW v \in Vms, Saved(v) PROVE CountInv'
  <2>1. Alone(v)
    BY <1>23 DEF Inv, Typed, CallsOK, Alone, calls, Saved, Goto
  <2>2. Counts(v) /\ slots' <= BootSlots
    BY <1>c, <1>23 DEF Inv, Typed, CallsOK, HowFits, Reserves, Boots,
       Spawning, Reserving, calls, caps, Saved, Goto
  <2> QED
    BY <1>a, <2>1, <2>2
<1>24. ASSUME NEW v \in Vms, SaveFailed(v) PROVE CountInv'
  <2>1. Alone(v)
    BY <1>24 DEF Inv, Typed, CallsOK, Alone, calls, SaveFailed, Goto
  <2>2. Counts(v) /\ slots' <= BootSlots
    BY <1>c, <1>24 DEF Inv, Typed, CallsOK, HowFits, Reserves, Boots,
       Spawning, Reserving, calls, caps, SaveFailed, Goto
  <2> QED
    BY <1>a, <2>1, <2>2
<1>25. ASSUME NEW v \in Vms, Suspended(v) PROVE CountInv'
  <2>1. Alone(v)
    BY <1>25 DEF Inv, Typed, CallsOK, Alone, calls, Suspended, Goto
  <2>2. Counts(v) /\ slots' <= BootSlots
    BY <1>c, <1>25 DEF Inv, Typed, CallsOK, HowFits, Reserves, Boots,
       Spawning, Reserving, calls, caps, Suspended, Goto
  <2> QED
    BY <1>a, <2>1, <2>2
<1>26. ASSUME NEW v \in Vms, CompactStart(v) PROVE CountInv'
  BY <1>b, <1>26 DEF CompactStart
<1>27. ASSUME NEW v \in Vms, CompactDone(v) PROVE CountInv'
  BY <1>b, <1>27 DEF CompactDone
<1>28. ASSUME NEW v \in Vms, Exec(v) PROVE CountInv'
  BY <1>b, <1>28 DEF Exec
<1>29. ASSUME NEW v \in Vms, Die(v) PROVE CountInv'
  BY <1>b, <1>29 DEF Die
<1>30. ASSUME NEW v \in Vms, Reuse(v) PROVE CountInv'
  BY <1>b, <1>30 DEF Reuse
<1>31. CASE Crash \/ Reboot
  <2>1. pending' = 0 /\ slots' = 0 /\ at' = [v \in Vms |-> "idle"]
    BY <1>31 DEF Crash, Reboot, Forget
  <2>2. Reserved' = {} /\ Booting' = {}
    BY <2>1 DEF Reserved, Booting, Reserving, Spawning
  <2> QED
    BY <1>c, <2>1, <2>2, FS_EmptySet DEF CountInv, CapsOK, ReservationsExact
<1>32. CASE UNCHANGED vars
  BY <1>b, <1>32 DEF vars, calls, caps
<1> QED
  BY <1>1, <1>2, <1>3, <1>4, <1>5, <1>6, <1>7, <1>8, <1>9, <1>10, <1>11,
     <1>12, <1>13, <1>14, <1>15, <1>16, <1>17, <1>18, <1>19, <1>20, <1>21,
     <1>22, <1>23, <1>24, <1>25, <1>26, <1>27, <1>28, <1>29, <1>30, <1>31,
     <1>32 DEF Next, Continue, Spawn

---------------------------------------------------------------------------
LEMMA Invariance == Spec => []Inv
<1>1. Init => Inv
  <2> SUFFICES ASSUME Init PROVE Inv
    OBVIOUS
  <2>1. Typed /\ HowFits
    BY DEF Init, Typed, VmsOK, FilesOK, CallsOK, HowFits, Processes, Vmm, Contents,
           Files, NoFiles, Positions, Spawning, Reserving
  <2>2. Reserved = {} /\ Booting = {}
    BY DEF Init, Reserved, Booting, Reserving, Spawning
  <2>3. CountInv
    BY <2>2, CapAssumption, FS_EmptySet DEF Init, CountInv, CapsOK, ReservationsExact
  <2> QED
    BY <2>1, <2>3 DEF Inv
<1>2. Inv /\ [Next]_vars => Inv'
  BY VmsStep, FilesStep, CallsStep, HowStep, CountStep DEF Inv, Typed
<1> QED
  BY <1>1, <1>2, PTL DEF Spec

\* Every variable keeps its type: no counter goes below zero, and bootSem never
\* holds more than it has places (spawn, boot).
THEOREM TypeCorrect == Spec => []TypeOK
<1>1. Inv => TypeOK
  BY DEF Inv, Typed, CountInv, TypeOK
<1> QED
  BY <1>1, Invariance, PTL

\* pendingSpawns counts the spawns between admit and admitDone, and bootSem the
\* boots, whatever path an operation took out of either (spawn's and boot's
\* deferred releases).
THEOREM Reservations == Spec => []ReservationsExact
<1>1. Inv => ReservationsExact
  BY DEF Inv, CountInv
<1> QED
  BY <1>1, Invariance, PTL

---------------------------------------------------------------------------
\* What a wake loads.

Mem(v)   == snap[v]["mem"]
Zst(v)   == snap[v]["zst"]
State(v) == snap[v]["state"]
Up(v)    == proc[v] \in {"running", "paused"}
Clean(v) == Mem(v) = "none" /\ Zst(v) = "none"

\* The files of a VM nobody is at work on, but for zstd: the guest's memory as
\* of its last suspend, once, beside what zstd has written of it, or nothing.
Fresh(v) ==
    /\ Mem(v) \in {"none", "good"} /\ Zst(v) \in {"none", "partial", "good"}
    /\ Zst(v) = "partial" => Mem(v) = "good" /\ zipping[v] \in {"none", "good"}
    /\ Zst(v) = "good" => Mem(v) = "none" /\ zipping[v] = "none"
    /\ Mem(v) = "good" \/ Zst(v) = "good" => State(v) = "good"
    /\ Up(v) => Clean(v)

Right(v) ==
    /\ at[v] \in {"idle", "pick", "unpack"} => Fresh(v)
    /\ at[v] \in {"resume", "resumed", "slot"} => Clean(v)
    /\ at[v] \in Spawning /\ how[v] = "boot" => Clean(v)
    /\ at[v] = "unpacking" =>
          /\ Zst(v) \in {"none", "good"} /\ (Zst(v) = "good" => State(v) = "good")
          /\ zipping[v] = "none"
    /\ at[v] \in Spawning \ {"wait"} /\ how[v] = "restore" =>
          /\ Mem(v) \in {"none", "good"} /\ (Mem(v) = "good" => State(v) = "good")
          /\ zipping[v] = "none"
    /\ at[v] = "saving" => Zst(v) = "none"
    /\ at[v] = "kept" => /\ Zst(v) = "none" /\ Mem(v) \in {"none", "good"}
                         /\ State(v) = "good"

\* A guest that runs is one the driver can kill, and Compact's goroutine has its
\* lock before the VM's next operation.
Fit(v) ==
    /\ Up(v) => pid[v] = "saved"
    /\ at[v] \in {"saved", "api", "wait"} => pid[v] = "saved"
    /\ queued[v] => at[v] = "idle"
    /\ v \notin cut => Right(v)

Fits == \A v \in Vms : Fit(v)

\* A step of v leaves the other VMs alone.
Same(u) ==
    /\ pid'[u] = pid[u] /\ proc'[u] = proc[u] /\ snap'[u] = snap[u]
    /\ queued'[u] = queued[u] /\ zipping'[u] = zipping[u]
    /\ at'[u] = at[u] /\ how'[u] = how[u]
    /\ u \in cut' <=> u \in cut

Others(v) == \A u \in Vms \ {v} : Same(u)

LEMMA SameFit == ASSUME NEW u, Fit(u), Same(u) PROVE Fit(u)'
BY DEF Fit, Right, Fresh, Clean, Mem, Zst, State, Up, HowFits, Files, Contents, Spawning, Reserving, Has, Same, Right, Fresh, Clean, Mem, Zst, State, Up

LEMMA FitStep ==
    ASSUME "late" \notin Faults, Typed, HowFits, Fits, [Next]_vars
    PROVE  Fits'
<1>a. ASSUME NEW v \in Vms, Others(v), Fit(v)' PROVE Fits'
  BY <1>a, SameFit DEF Fits, Others
<1>b. ASSUME NEW v \in Vms PROVE Fit(v)
  BY DEF Fits
<1> USE DEF Typed, VmsOK, FilesOK, CallsOK
<1>1. ASSUME NEW v \in Vms, Create(v) PROVE Fits'
  <2>1. Others(v)
    BY <1>1 DEF Others, Same, Create, Kill, DropSnapshot, files, vms, calls,
       caps
  <2>2. Fit(v)'
    BY <1>1, <1>b DEF Fit, Right, Fresh, Clean, Mem, Zst, State, Up, HowFits, Files, Contents, Spawning, Reserving, Has, Create, Kill, DropSnapshot, NoFiles, Prompt, files,
       vms, calls, caps
  <2> QED
    BY <1>a, <2>1, <2>2
<1>2. ASSUME NEW v \in Vms, Start(v) PROVE Fits'
  <2>1. Others(v)
    BY <1>2 DEF Others, Same, Start, Alive, Goto, HasSnapshot, files, vms,
       calls, caps
  <2>2. Fit(v)'
    BY <1>2, <1>b DEF Fit, Right, Fresh, Clean, Mem, Zst, State, Up, HowFits, Files, Contents, Spawning, Reserving, Has, Start, Status, Alive, Goto, Prompt, HasSnapshot,
       Processes, Vmm, files, vms, calls, caps
  <2> QED
    BY <1>a, <2>1, <2>2
<1>3. ASSUME NEW v \in Vms, Suspend(v) PROVE Fits'
  <2>1. Others(v)
    BY <1>3 DEF Others, Same, Suspend, Kill, Alive, Goto, files, vms, calls,
       caps
  <2>2. Fit(v)'
    BY <1>3, <1>b DEF Fit, Right, Fresh, Clean, Mem, Zst, State, Up, HowFits, Files, Contents, Spawning, Reserving, Has, Suspend, Kill, Alive, Goto, Prompt, files, vms,
       calls, caps
  <2> QED
    BY <1>a, <2>1, <2>2
<1>4. ASSUME NEW v \in Vms, Stop(v) PROVE Fits'
  <2>1. Others(v)
    BY <1>4 DEF Others, Same, Stop, Kill, DropSnapshot, files, vms, calls, caps
  <2>2. Fit(v)'
    BY <1>4, <1>b DEF Fit, Right, Fresh, Clean, Mem, Zst, State, Up, HowFits, Files, Contents, Spawning, Reserving, Has, Stop, Kill, DropSnapshot, NoFiles, Prompt, files,
       vms, calls, caps
  <2> QED
    BY <1>a, <2>1, <2>2
<1>5. ASSUME NEW v \in Vms, Unpack(v) PROVE Fits'
  <2>1. Others(v)
    BY <1>5 DEF Others, Same, Unpack, Goto, files, vms, calls, caps
  <2>2. Fit(v)'
    BY <1>5, <1>b DEF Fit, Right, Fresh, Clean, Mem, Zst, State, Up, HowFits, Files, Contents, Spawning, Reserving, Has, Unpack, Goto, files, vms, calls, caps
  <2> QED
    BY <1>a, <2>1, <2>2
<1>6. ASSUME NEW v \in Vms, TakeSlot(v) PROVE Fits'
  <2>1. Others(v)
    BY <1>6 DEF Others, Same, TakeSlot, Goto, files, vms, calls, caps
  <2>2. Fit(v)'
    BY <1>6, <1>b DEF Fit, Right, Fresh, Clean, Mem, Zst, State, Up, HowFits, Files, Contents, Spawning, Reserving, Has, TakeSlot, Goto, files, vms, calls, caps
  <2> QED
    BY <1>a, <2>1, <2>2
<1>7. ASSUME NEW v \in Vms, Abandon(v) PROVE Fits'
  <2>1. Others(v)
    BY <1>7 DEF Others, Same, Abandon, Goto, files, vms, calls, caps
  <2>2. Fit(v)'
    BY <1>7, <1>b DEF Fit, Right, Fresh, Clean, Mem, Zst, State, Up, HowFits, Files, Contents, Spawning, Reserving, Has, Abandon, Goto, files, vms, calls, caps
  <2> QED
    BY <1>a, <2>1, <2>2
<1>8. ASSUME NEW v \in Vms, Resume(v) PROVE Fits'
  <2>1. Others(v)
    BY <1>8 DEF Others, Same, Resume, GuestRuns, Kill, Goto, files, vms, calls,
       caps
  <2>2. Fit(v)'
    BY <1>8, <1>b DEF Fit, Right, Fresh, Clean, Mem, Zst, State, Up, HowFits, Files, Contents, Spawning, Reserving, Has, Resume, GuestRuns, Outdated, Kill, Goto, files, vms,
       calls, caps
  <2> QED
    BY <1>a, <2>1, <2>2
<1>9. ASSUME NEW v \in Vms, Resumed(v) PROVE Fits'
  <2>1. Others(v)
    BY <1>9 DEF Others, Same, Resumed, Kill, Goto, files, vms, calls, caps
  <2>2. Fit(v)'
    BY <1>9, <1>b DEF Fit, Right, Fresh, Clean, Mem, Zst, State, Up, HowFits, Files, Contents, Spawning, Reserving, Has, Resumed, Kill, Goto, files, vms, calls, caps
  <2> QED
    BY <1>a, <2>1, <2>2
<1>10. ASSUME NEW v \in Vms, Pick(v) PROVE Fits'
  <2>1. Others(v)
    BY <1>10 DEF Others, Same, Pick, HasSnapshot, files, vms, calls, caps
  <2>2. Fit(v)'
    BY <1>10, <1>b DEF Fit, Right, Fresh, Clean, Mem, Zst, State, Up, HowFits, Files, Contents, Spawning, Reserving, Has, Pick, HasSnapshot, files, vms, calls, caps
  <2> QED
    BY <1>a, <2>1, <2>2
<1>11. ASSUME NEW v \in Vms, Unpacking(v) PROVE Fits'
  <2>1. Others(v)
    BY <1>11 DEF Others, Same, Unpacking, GiveUp, DropSnapshot, Release, Goto,
       files, vms, calls, caps
  <2>2. Fit(v)'
    BY <1>11, <1>b DEF Fit, Right, Fresh, Clean, Mem, Zst, State, Up, HowFits, Files, Contents, Spawning, Reserving, Has, Unpacking, GiveUp, DropSnapshot, NoFiles, Release,
       Goto, files, vms, calls, caps
  <2> QED
    BY <1>a, <2>1, <2>2
<1>12. ASSUME NEW v \in Vms, Admit(v) PROVE Fits'
  <2>1. Others(v)
    BY <1>12 DEF Others, Same, Admit, Goto, files, vms, calls, caps
  <2>2. Fit(v)'
    BY <1>12, <1>b DEF Fit, Right, Fresh, Clean, Mem, Zst, State, Up, HowFits, Files, Contents, Spawning, Reserving, Has, Admit, Goto, files, vms, calls, caps
  <2> QED
    BY <1>a, <2>1, <2>2
<1>13. ASSUME NEW v \in Vms, Refuse(v) PROVE Fits'
  <2>1. Others(v)
    BY <1>13 DEF Others, Same, Refuse, GiveUp, DropSnapshot, Release, Goto,
       files, vms, calls, caps
  <2>2. Fit(v)'
    BY <1>13, <1>b DEF Fit, Right, Fresh, Clean, Mem, Zst, State, Up, HowFits, Files, Contents, Spawning, Reserving, Has, Refuse, GiveUp, DropSnapshot, NoFiles, Release,
       Goto, files, vms, calls, caps
  <2> QED
    BY <1>a, <2>1, <2>2
<1>14. ASSUME NEW v \in Vms, Launch(v) PROVE Fits'
  <2>1. Others(v)
    BY <1>14 DEF Others, Same, Launch, GiveUp, DropSnapshot, Release, Goto,
       files, vms, calls, caps
  <2>2. Fit(v)'
    BY <1>14, <1>b DEF Fit, Right, Fresh, Clean, Mem, Zst, State, Up, HowFits, Files, Contents, Spawning, Reserving, Has, Launch, GiveUp, DropSnapshot, NoFiles, Release,
       Goto, files, vms, calls, caps
  <2> QED
    BY <1>a, <2>1, <2>2
<1>15. ASSUME NEW v \in Vms, AdmitDone(v) PROVE Fits'
  <2>1. Others(v)
    BY <1>15 DEF Others, Same, AdmitDone, Goto, files, vms, calls, caps
  <2>2. Fit(v)'
    BY <1>15, <1>b DEF Fit, Right, Fresh, Clean, Mem, Zst, State, Up, HowFits, Files, Contents, Spawning, Reserving, Has, AdmitDone, Goto, files, vms, calls, caps
  <2> QED
    BY <1>a, <2>1, <2>2
<1>16. ASSUME NEW v \in Vms, SavePid(v) PROVE Fits'
  <2>1. Others(v)
    BY <1>16 DEF Others, Same, SavePid, GiveUp, DropSnapshot, Release, Goto,
       files, vms, calls, caps
  <2>2. Fit(v)'
    BY <1>16, <1>b DEF Fit, Right, Fresh, Clean, Mem, Zst, State, Up, HowFits, Files, Contents, Spawning, Reserving, Has, SavePid, GiveUp, DropSnapshot, NoFiles, Release,
       Goto, files, vms, calls, caps
  <2> QED
    BY <1>a, <2>1, <2>2
<1>17. ASSUME NEW v \in Vms, SocketUp(v) PROVE Fits'
  <2>1. Others(v)
    BY <1>17 DEF Others, Same, SocketUp, GiveUp, DropSnapshot, Release, Goto,
       files, vms, calls, caps
  <2>2. Fit(v)'
    BY <1>17, <1>b DEF Fit, Right, Fresh, Clean, Mem, Zst, State, Up, HowFits, Files, Contents, Spawning, Reserving, Has, SocketUp, GiveUp, DropSnapshot, NoFiles, Release,
       Goto, files, vms, calls, caps
  <2> QED
    BY <1>a, <2>1, <2>2
<1>18. ASSUME NEW v \in Vms, InstanceStart(v) PROVE Fits'
  <2>1. Others(v)
    BY <1>18 DEF Others, Same, InstanceStart, GuestRuns, Goto, files, vms,
       calls, caps
  <2>2. Fit(v)'
    BY <1>18, <1>b DEF Fit, Right, Fresh, Clean, Mem, Zst, State, Up, HowFits, Files, Contents, Spawning, Reserving, Has, InstanceStart, GuestRuns, Outdated, Goto, files,
       vms, calls, caps
  <2> QED
    BY <1>a, <2>1, <2>2
<1>19. ASSUME NEW v \in Vms, Load(v) PROVE Fits'
  <2>1. Others(v)
    BY <1>19 DEF Others, Same, Load, GuestRuns, Goto, files, vms, calls, caps
  <2>2. Fit(v)'
    BY <1>19, <1>b DEF Fit, Right, Fresh, Clean, Mem, Zst, State, Up, HowFits, Files, Contents, Spawning, Reserving, Has, Load, GuestRuns, Outdated, Goto, files, vms, calls,
       caps
  <2> QED
    BY <1>a, <2>1, <2>2
<1>20. ASSUME NEW v \in Vms, ApiFailed(v) PROVE Fits'
  <2>1. Others(v)
    BY <1>20 DEF Others, Same, ApiFailed, Kill, GiveUp, DropSnapshot, Release,
       Goto, files, vms, calls, caps
  <2>2. Fit(v)'
    BY <1>20, <1>b DEF Fit, Right, Fresh, Clean, Mem, Zst, State, Up, HowFits, Files, Contents, Spawning, Reserving, Has, ApiFailed, Kill, GiveUp, DropSnapshot, NoFiles,
       Release, Goto, files, vms, calls, caps
  <2> QED
    BY <1>a, <2>1, <2>2
<1>21. ASSUME NEW v \in Vms, Serving(v) PROVE Fits'
  <2>1. Others(v)
    BY <1>21 DEF Others, Same, Serving, DropSnapshot, Release, Goto, files, vms,
       calls, caps
  <2>2. Fit(v)'
    BY <1>21, <1>b DEF Fit, Right, Fresh, Clean, Mem, Zst, State, Up, HowFits, Files, Contents, Spawning, Reserving, Has, Serving, DropSnapshot, NoFiles, Release, Goto,
       files, vms, calls, caps
  <2> QED
    BY <1>a, <2>1, <2>2
<1>22. ASSUME NEW v \in Vms, NotServing(v) PROVE Fits'
  <2>1. Others(v)
    BY <1>22 DEF Others, Same, NotServing, Kill, GiveUp, DropSnapshot, Release,
       Goto, files, vms, calls, caps
  <2>2. Fit(v)'
    BY <1>22, <1>b DEF Fit, Right, Fresh, Clean, Mem, Zst, State, Up, HowFits, Files, Contents, Spawning, Reserving, Has, NotServing, Kill, GiveUp, DropSnapshot, NoFiles,
       Release, Goto, files, vms, calls, caps
  <2> QED
    BY <1>a, <2>1, <2>2
<1>23. ASSUME NEW v \in Vms, Saved(v) PROVE Fits'
  <2>1. Others(v)
    BY <1>23 DEF Others, Same, Saved, Goto, files, vms, calls, caps
  <2>2. Fit(v)'
    BY <1>23, <1>b DEF Fit, Right, Fresh, Clean, Mem, Zst, State, Up, HowFits, Files, Contents, Spawning, Reserving, Has, Saved, Goto, files, vms, calls, caps
  <2> QED
    BY <1>a, <2>1, <2>2
<1>24. ASSUME NEW v \in Vms, SaveFailed(v) PROVE Fits'
  <2>1. Others(v)
    BY <1>24 DEF Others, Same, SaveFailed, Kill, DropSnapshot, Goto, files, vms,
       calls, caps
  <2>2. Fit(v)'
    BY <1>24, <1>b DEF Fit, Right, Fresh, Clean, Mem, Zst, State, Up, HowFits, Files, Contents, Spawning, Reserving, Has, SaveFailed, Kill, DropSnapshot, NoFiles, Goto,
       files, vms, calls, caps
  <2> QED
    BY <1>a, <2>1, <2>2
<1>25. ASSUME NEW v \in Vms, Suspended(v) PROVE Fits'
  <2>1. Others(v)
    BY <1>25 DEF Others, Same, Suspended, Kill, Goto, files, vms, calls, caps
  <2>2. Fit(v)'
    BY <1>25, <1>b DEF Fit, Right, Fresh, Clean, Mem, Zst, State, Up, HowFits, Files, Contents, Spawning, Reserving, Has, Suspended, Kill, Goto, files, vms, calls, caps
  <2> QED
    BY <1>a, <2>1, <2>2
<1>26. ASSUME NEW v \in Vms, CompactStart(v) PROVE Fits'
  <2>1. Others(v)
    BY <1>26 DEF Others, Same, CompactStart, files, vms, calls, caps
  <2>2. Fit(v)'
    BY <1>26, <1>b DEF Fit, Right, Fresh, Clean, Mem, Zst, State, Up, HowFits, Files, Contents, Spawning, Reserving, Has, CompactStart, files, vms, calls, caps
  <2> QED
    BY <1>a, <2>1, <2>2
<1>27. ASSUME NEW v \in Vms, CompactDone(v) PROVE Fits'
  <2>1. Others(v)
    BY <1>27 DEF Others, Same, CompactDone, files, vms, calls, caps
  <2>2. Fit(v)'
    BY <1>27, <1>b DEF Fit, Right, Fresh, Clean, Mem, Zst, State, Up, HowFits, Files, Contents, Spawning, Reserving, Has, CompactDone, files, vms, calls, caps
  <2> QED
    BY <1>a, <2>1, <2>2
<1>28. ASSUME NEW v \in Vms, Exec(v) PROVE Fits'
  <2>1. Others(v)
    BY <1>28 DEF Others, Same, Exec, files, vms, calls, caps
  <2>2. Fit(v)'
    BY <1>28, <1>b DEF Fit, Right, Fresh, Clean, Mem, Zst, State, Up, HowFits, Files, Contents, Spawning, Reserving, Has, Exec, files, vms, calls, caps
  <2> QED
    BY <1>a, <2>1, <2>2
<1>29. ASSUME NEW v \in Vms, Die(v) PROVE Fits'
  <2>1. Others(v)
    BY <1>29 DEF Others, Same, Die, files, vms, calls, caps
  <2>2. Fit(v)'
    BY <1>29, <1>b DEF Fit, Right, Fresh, Clean, Mem, Zst, State, Up, HowFits, Files, Contents, Spawning, Reserving, Has, Die, files, vms, calls, caps
  <2> QED
    BY <1>a, <2>1, <2>2
<1>30. ASSUME NEW v \in Vms, Reuse(v) PROVE Fits'
  <2>1. Others(v)
    BY <1>30 DEF Others, Same, Reuse, files, vms, calls, caps
  <2>2. Fit(v)'
    BY <1>30, <1>b DEF Fit, Right, Fresh, Clean, Mem, Zst, State, Up, HowFits, Files, Contents, Spawning, Reserving, Has, Reuse, files, vms, calls, caps
  <2> QED
    BY <1>a, <2>1, <2>2
<1>31. CASE Crash
  BY <1>31, <1>b DEF Fits, Fit, Right, Fresh, Clean, Mem, Zst, State, Up, Files, Contents, Spawning, Reserving, Has, Crash, Forget, Settled
<1>32. CASE Reboot
  BY <1>32, <1>b DEF Fits, Fit, Right, Fresh, Clean, Mem, Zst, State, Up, Files, Contents, Spawning, Reserving, Has, Reboot, Forget
<1>33. CASE UNCHANGED vars
  BY <1>33, <1>b DEF Fits, Fit, Right, Fresh, Clean, Mem, Zst, State, Up, Files, Contents, Spawning, Reserving, Has, vars
<1> QED
  BY <1>1, <1>2, <1>3, <1>4, <1>5, <1>6, <1>7, <1>8, <1>9, <1>10, <1>11,
     <1>12, <1>13, <1>14, <1>15, <1>16, <1>17, <1>18, <1>19, <1>20, <1>21,
     <1>22, <1>23, <1>24, <1>25, <1>26, <1>27, <1>28, <1>29, <1>30, <1>31,
     <1>32, <1>33 DEF Next, Continue, Spawn

LEMMA FitInit == Init => Fits
BY DEF Init, Fits, Fit, Right, Fresh, Clean, Mem, Zst, State, Up, Spawning, Reserving,
       NoFiles, Files

\* A wake loads the guest's memory as of its last suspend, with the device state
\* that belongs to it, unless a restart cut an operation on the VM short: given
\* that Compact has its lock before the VM's next operation.
THEOREM LoadsLatest == ASSUME "late" \notin Faults PROVE Spec => RestoresLatest
<1>1. Spec => []Inv
  BY Invariance
<1>2. Spec => []Fits
  <2>1. Inv /\ Fits /\ [Next]_vars => Fits'
    BY FitStep DEF Inv
  <2> QED
    BY <1>1, <2>1, FitInit, PTL DEF Spec
<1>3. Inv /\ Fits =>
        [\A v \in Vms \ cut :
            Load(v) => snap[v]["mem"] = "good" /\ snap[v]["state"] = "good"]_vars
  <2> SUFFICES ASSUME Inv, Fits, NEW v \in Vms \ cut, Load(v)
               PROVE  snap[v]["mem"] = "good" /\ snap[v]["state"] = "good"
    OBVIOUS
  <2>1. Right(v)
    BY DEF Fits, Fit
  <2> QED
    BY <2>1 DEF Right, Load, Mem, State, Spawning
<1> QED
  BY <1>1, <1>2, <1>3, PTL DEF RestoresLatest

---------------------------------------------------------------------------
\* Admission.

\* A spawn is refused only when as many VMMs run, or are reserved for, as the
\* host may have.
THEOREM FullRefuses == Spec => RefusedOnlyWhenFull
<1>1. Inv =>
        [\A v \in Vms :
            Refuse(v) => MaxLive <= Cardinality({x \in Vms \ {v} : proc[x] \in Vmm}) + pending]_vars
  <2> SUFFICES ASSUME Inv, NEW v \in Vms, Refuse(v)
               PROVE  MaxLive <= Cardinality({x \in Vms \ {v} : proc[x] \in Vmm}) + pending
    OBVIOUS
  <2> DEFINE Live == {x \in Vms \ {v} : proc[x] \in Vmm}
  <2>1. ~(Cardinality(Counted(v)) + pending < MaxLive)
    BY DEF Refuse, Room
  <2>2. Counted(v) \subseteq Live
    BY DEF Counted, IsVmm
  <2>3. IsFiniteSet(Live)
    BY FS_Subset, VmsAssumption
  <2> HIDE DEF Live
  <2>4. /\ Cardinality(Counted(v)) \in Nat /\ Cardinality(Live) \in Nat
        /\ Cardinality(Counted(v)) <= Cardinality(Live)
    BY <2>2, <2>3, FS_Subset, FS_CardinalityType
  <2>5. pending \in Nat
    BY DEF Inv, CountInv, CapsOK
  <2>6. MaxLive <= Cardinality(Live) + pending
    BY <2>1, <2>4, <2>5, CapAssumption
  <2> QED
    BY <2>6 DEF Live
<1> QED
  BY <1>1, Invariance, PTL DEF RefusedOnlyWhenFull
============================================================================
