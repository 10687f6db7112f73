------------------------------ MODULE Volumes ------------------------------
(***************************************************************************)
(* The thin volumes of the microVMs and who runs a workload                *)
(* (internal/runtime/fc_host.go, fc_image.go, fc_deps.go, Create and       *)
(* Delete of firecracker.go, mux.go).                                      *)
(*                                                                         *)
(* The pool hands out device ids from a counter file that nothing locks    *)
(* and an operator may lose; the pool itself refuses an id it holds.  A    *)
(* volume is used through a mapping, which has a name, outlives orchd and  *)
(* is gone after a reboot; meta.json files record which id belongs to      *)
(* which name.  Images are prepared, VMs cloned from them, and the         *)
(* dependencies of a family of VMs copied to a volume they share, all at   *)
(* once.  A workload runs as a microVM or as a container.                  *)
(*                                                                         *)
(* What a volume holds is told apart by whose it is: an image's files, a   *)
(* family's dependencies, or those of a VM whose guest has run on it.      *)
(***************************************************************************)
EXTENDS Integers, FiniteSets, FiniteSetsExt

CONSTANTS
    Vms, Images, Families,  \* model values
    ImageOf, FamilyOf,      \* of each VM
    Nobody,                 \* model value
    MaxId,                  \* bound on device ids
    Addresses,              \* how many veth addresses there are
    Worlds                  \* the ways a behaviour may go: the images prepared to
                            \* begin with and prepared in it, the VMs it uses, the
                            \* VMs on the allowlist, what operators do, what fails

AllOps    == {"redo", "lose", "allow", "wake"}
AllFaults == {"fail", "full", "crash", "reboot"}

ASSUME ConstantsAssumption ==
    /\ MaxId \in Nat \ {0} /\ Addresses \in Nat \ {0}
    /\ ImageOf \in [Vms -> Images] /\ FamilyOf \in [Vms -> Families]
    /\ \A w \in Worlds :
          /\ w.ready \subseteq Images /\ w.prepared \subseteq Images
          /\ IsFiniteSet(w.ready) /\ 2 * Cardinality(w.ready) <= MaxId
          /\ w.vms \subseteq Vms /\ w.allow \subseteq Vms
          /\ w.ops \subseteq AllOps /\ w.faults \subseteq AllFaults

VARIABLES
    world,
    counter,    \* the file next-dev-id; 0: there is none
    volume,     \* what the pool's volume of each id holds; "none": no such volume
    mapped,     \* /dev/mapper: the id a name stands for, or 0
    record,     \* meta.json: the id recorded for a name, or 0
    up,         \* the VMs whose VMM is alive
    template,   \* the image whose template VMM is alive, and holds the tap, or Nobody
    docker,     \* each VM's container: "none", "stopped" or "running"
    allowed,    \* the VMs whose template and workspace are on the Mux's allowlist
    job,        \* what each VM's and image's call is doing
    builder,    \* the VM under a family's lock, or Nobody
    drive,      \* vmMeta.Deps: the VMs with their family's volume as a second drive
    ran,        \* history: VMs whose guest has run since they were created
    erased,     \* history: VMs whose deletion has removed the volume, not the record
    stuck,      \* history: names given a new volume while still mapped to another
    crossed     \* history: orchd or the host died in a deletion whose id was given out again

disks == <<counter, volume, mapped, record>>
runs  == <<up, template, docker>>
past  == <<ran, erased, stuck, crossed>>
vars  == <<world, disks, runs, allowed, job, builder, drive, past>>

---------------------------------------------------------------------------
Ids == 1..MaxId
Base(i) == <<"base", i>>
Warm(i) == <<"warm", i>>
Tpl(i)  == <<"tpl", i>>        \* the meta.json of the image's template VM
OfImages == {Base(i) : i \in Images} \cup {Warm(i) : i \in Images}
Names == Vms \cup Families \cup OfImages
Recordable == Names \cup {Tpl(i) : i \in Images}
Users == Vms \cup Images

\* Nothing is named twice.
ASSUME NamesAssumption ==
    /\ Vms \cap Images = {} /\ Vms \cap Families = {}
    /\ Nobody \notin Users
    /\ "none" \notin Vms \cup Images \cup Families
    /\ \A i \in Images, m \in Vms \cup Families : m \notin {Base(i), Warm(i), Tpl(i)}

\* The next device id of a call is made for its job's name; root is the volume it
\* made before, from is what the new one is to hold.
NoJob == [pc |-> "idle", id |-> 0, noted |-> FALSE, root |-> 0, origin |-> 0]
Allocating == {"base", "warm", "clone", "family"}
Positions  == Allocating \cup {"idle", "export", "template", "serving", "cut", "deps",
                               "fill", "save", "boot", "removing", "done"}

TypeOK ==
    /\ world \in Worlds
    /\ counter \in 0..(MaxId + 1)
    /\ volume \in [Ids -> {"none", "blank"} \cup Vms \cup Images \cup Families]
    /\ mapped \in [Names -> Ids \cup {0}] /\ record \in [Recordable -> Ids \cup {0}]
    /\ up \subseteq Vms /\ template \in Images \cup {Nobody}
    /\ docker \in [Vms -> {"none", "stopped", "running"}]
    /\ allowed \subseteq Vms
    /\ job \in [Users -> [pc : Positions, id : Ids \cup {0}, noted : BOOLEAN,
                          root : Ids \cup {0}, origin : Ids \cup {0}]]
    /\ builder \in [Families -> Vms \cup {Nobody}]
    /\ \A f \in Families : builder[f] # Nobody => job[builder[f]].pc \in {"family", "fill"}
    /\ drive \subseteq Vms /\ ran \subseteq Vms /\ erased \subseteq Vms
    /\ stuck \subseteq Names /\ crossed \in BOOLEAN

Has(f) == f \in world.faults
Does(o) == o \in world.ops
Idle(u) == job[u] = NoJob
Knows(v) == record[v] # 0
Prepared(i) == record[Warm(i)] # 0

\* The images of world.ready are prepared, base and warm volume one after another.
Init ==
    /\ world \in Worlds
    /\ LET S == {Base(i) : i \in world.ready} \cup {Warm(i) : i \in world.ready}
           n == 2 * Cardinality(world.ready)
       IN
       \E ids \in [S -> 1..n] :
          /\ \A m, k \in S : m # k => ids[m] # ids[k]
          /\ \A i \in world.ready : ids[Base(i)] < ids[Warm(i)]
          /\ counter = IF n = 0 THEN 0 ELSE n + 1
          /\ record = [m \in Recordable |-> IF m \in S THEN ids[m] ELSE 0]
          /\ volume = [d \in Ids |-> IF \E m \in S : ids[m] = d
                                     THEN (CHOOSE m \in S : ids[m] = d)[2] ELSE "none"]
    /\ mapped = [m \in Names |-> record[m]]
    /\ up = {} /\ template = Nobody
    /\ docker = [v \in Vms |-> "none"]
    /\ allowed = world.allow
    /\ job = [u \in Users |-> NoJob]
    /\ builder = [f \in Families |-> Nobody]
    /\ drive = {} /\ ran = {} /\ erased = {} /\ stuck = {} /\ crossed = FALSE

---------------------------------------------------------------------------
\* Device ids and mappings.

\* The volume u's call is making.
Target(u) == IF u \in Images THEN <<job[u].pc, u>>
             ELSE IF job[u].pc = "clone" THEN u ELSE FamilyOf[u]

\* The largest id any recorded VM or image uses; families are not looked at.
HighWaterMark == Max({record[m] : m \in Recordable \ Families} \cup {0})

\* nextDevID reads the counter and the records.
NextDevID(u) ==
    LET n == Max({counter, HighWaterMark + 1}) IN
    /\ job[u].pc \in Allocating /\ job[u].id = 0
    /\ n \in Ids
    /\ job' = [job EXCEPT ![u].id = n]
    /\ UNCHANGED <<world, disks, runs, allowed, builder, drive, past>>

\* and writes the next one to the counter.
NoteDevID(u) ==
    /\ job[u].pc \in Allocating /\ job[u].id # 0 /\ ~job[u].noted
    /\ counter' = job[u].id + 1
    /\ job' = [job EXCEPT ![u].noted = TRUE]
    /\ UNCHANGED <<world, volume, mapped, record, runs, allowed, builder, drive, past>>

\* What a call goes on with once its volume is made: the id is kept until it is
\* recorded, the image's base and the VM's clone while another is made.
Then == [base |-> "export", warm |-> "template", clone |-> "deps", family |-> "fill"]
After(j) ==
    LET k == [j EXCEPT !.pc = Then[j.pc], !.noted = FALSE] IN
    IF j.pc \in {"base", "clone"} THEN [k EXCEPT !.root = j.id, !.id = 0] ELSE k

\* Mutant: an id the pool already holds is taken to be this call's.
HeldIsFree(d) == TRUE

\* The pool refuses an id it holds ("File exists").
IsFree(d) == volume[d] = "none"

\* activate: nothing is done if the name is mapped, to whatever.
Activated(name, d) == [mapped EXCEPT ![name] = IF @ = 0 THEN d ELSE @]

\* create_thin or create_snap, and activate.
Make(u) ==
    LET d == job[u].id  name == Target(u) IN
    /\ job[u].noted /\ IsFree(d)
    /\ volume' = [volume EXCEPT ![d] = IF job[u].origin = 0 THEN "blank"
                                       ELSE volume[job[u].origin]]
    /\ mapped' = Activated(name, d)
    /\ stuck' = IF mapped[name] # 0 THEN stuck \cup {name} ELSE stuck \ {name}
    /\ job' = [job EXCEPT ![u] = After(@)]
    /\ UNCHANGED <<world, counter, record, runs, allowed, builder, ran, drive, erased, crossed>>

\* A collision: the name is unmapped, and the next id tried.
Collide(u) ==
    LET d == job[u].id IN
    /\ job[u].noted /\ ~IsFree(d)
    /\ mapped' = [mapped EXCEPT ![Target(u)] = 0]
    /\ job' = [job EXCEPT ![u].id = 0, ![u].noted = FALSE]
    /\ UNCHANGED <<world, counter, volume, record, runs, allowed, builder, drive, past>>

---------------------------------------------------------------------------
\* A VM's call that has nothing to clone from is over.
Cloning(from) == IF from = 0 THEN NoJob ELSE [NoJob EXCEPT !.pc = "clone", !.origin = from]

\* FirecrackerDriver.Delete of a VM that has a meta.json: its VMM is killed, the name
\* unmapped and the volume deleted ...
Erase(v, from) ==
    /\ Knows(v)
    /\ up' = up \ {v}
    /\ mapped' = [mapped EXCEPT ![v] = 0]
    /\ volume' = [volume EXCEPT ![record[v]] = "none"]
    /\ erased' = erased \cup {v}
    /\ job' = [job EXCEPT ![v] = [NoJob EXCEPT !.pc = "removing", !.origin = from]]
    /\ UNCHANGED <<record, ran, drive>>

\* ... and then the directory with the meta.json goes.  What called it goes on.
Forget(v) ==
    /\ job[v].pc = "removing"
    /\ record' = [record EXCEPT ![v] = 0]
    /\ ran' = ran \ {v} /\ drive' = drive \ {v} /\ erased' = erased \ {v}
    /\ job' = [job EXCEPT ![v] = Cloning(@.origin)]
    /\ UNCHANGED <<world, counter, volume, mapped, runs, allowed, builder, stuck, crossed>>

\* Mutant: a family's lock is kept.
UnlockNever(v) == UNCHANGED builder

Unlock(v) == builder' = [f \in Families |-> IF builder[f] = v THEN Nobody ELSE builder[f]]

\* Allocation fails: before the volume is made, between that and its mapping, or
\* when the pool has refused 32 ids, of which this may be the last.
AllocateFails(u) ==
    LET d == job[u].id  name == Target(u) IN
    /\ job[u].noted
    /\ \/ Has("fail") /\ IsFree(d) /\ UNCHANGED <<volume, mapped>>
       \/ /\ Has("fail") /\ IsFree(d) /\ mapped[name] = 0
          /\ volume' = [volume EXCEPT ![d] = IF job[u].origin = 0 THEN "blank"
                                             ELSE volume[job[u].origin]]
          /\ UNCHANGED mapped
       \/ Has("full") /\ ~IsFree(d) /\ mapped' = [mapped EXCEPT ![name] = 0] /\ UNCHANGED volume
    /\ job' = [job EXCEPT ![u] = IF @.pc # "family" THEN NoJob
                                 ELSE [@ EXCEPT !.pc = "save", !.id = 0, !.noted = FALSE]]
    /\ Unlock(u)
    /\ UNCHANGED <<world, counter, record, runs, allowed, drive, past>>

---------------------------------------------------------------------------
\* The host's side of a VM's veth is 10.201.(4 * id + 1) / 256, ...: there are 2^14.
HasAddress(d) == d <= Addresses

\* A VM's network namespace is named by the first ten characters of its ref, which is
\* all of a workload's, and tpl-orchd- for every template VM: one tap for them all.
TapFree == template = Nobody

\* PrepareImage, one at a time per image.

CallPrepare(i) ==
    /\ i \in world.prepared /\ Idle(i) /\ ~Prepared(i)
    /\ job' = [job EXCEPT ![i].pc = "base"]
    /\ UNCHANGED <<world, disks, runs, allowed, builder, drive, past>>

PrepareFails(i) ==
    /\ Has("fail") /\ job[i].pc \in {"export", "serving"}
    /\ job' = [job EXCEPT ![i] = NoJob]
    /\ template' = IF template = i THEN Nobody ELSE template
    /\ UNCHANGED <<world, disks, up, docker, allowed, builder, drive, past>>

\* exportToVolume writes to what the base's name is mapped to.
Export(i) ==
    /\ job[i].pc = "export" /\ mapped[Base(i)] # 0
    /\ volume' = [volume EXCEPT ![mapped[Base(i)]] = i]
    /\ job' = [job EXCEPT ![i].pc = "warm", ![i].origin = job[i].root]
    /\ UNCHANGED <<world, counter, mapped, record, runs, allowed, builder, drive, past>>

\* The template VM's meta.json is written, and it is booted.  With another one alive
\* the tap is taken, and that one's veth is replaced.
TemplateBoot(i) ==
    /\ job[i].pc = "template"
    /\ record' = [record EXCEPT ![Tpl(i)] = job[i].id]
    /\ IF TapFree /\ mapped[Warm(i)] # 0 /\ volume[mapped[Warm(i)]] = i /\ HasAddress(job[i].id)
       THEN template' = i /\ job' = [job EXCEPT ![i].pc = "serving"]
       ELSE /\ job' = [u \in Users |-> IF u = i THEN NoJob
                                      ELSE [job[u] EXCEPT !.pc =
                                              IF u = template /\ @ = "serving" THEN "cut" ELSE @]]
            /\ UNCHANGED template
    /\ UNCHANGED <<world, counter, volume, mapped, up, docker, allowed, builder, drive, past>>

\* Warmed, halted and killed, and its directory is removed.  One that was cut off gets
\* there only if it has no page to warm.
TemplateEnds(i) ==
    /\ job[i].pc \in {"serving", "cut"}
    /\ template' = Nobody
    /\ \/ record' = [record EXCEPT ![Tpl(i)] = 0] /\ job' = [job EXCEPT ![i].pc = "done"]
       \/ job[i].pc = "cut" /\ UNCHANGED record /\ job' = [job EXCEPT ![i] = NoJob]
    /\ UNCHANGED <<world, counter, volume, mapped, up, docker, allowed, builder, drive, past>>

\* The image's meta.json is written.
RecordImage(i) ==
    /\ job[i].pc = "done"
    /\ record' = [record EXCEPT ![Base(i)] = job[i].root, ![Warm(i)] = job[i].id]
    /\ job' = [job EXCEPT ![i] = NoJob]
    /\ UNCHANGED <<world, counter, volume, mapped, runs, allowed, builder, drive, past>>

\* An operator deletes the image's directory, as PrepareImage says, to redo it.
Redo(i) ==
    /\ Does("redo") /\ Idle(i) /\ Prepared(i)
    /\ record' = [record EXCEPT ![Base(i)] = 0, ![Warm(i)] = 0]
    /\ UNCHANGED <<world, counter, volume, mapped, runs, allowed, job, builder, drive, past>>

---------------------------------------------------------------------------
\* A workload's calls, which the manager serialises.

\* Mux.Stop: by who knows it.
Stopped(v) == IF Knows(v) THEN docker ELSE [docker EXCEPT ![v] = "none"]

\* Provision, reboot: Mux.Stop, then Mux.Create.  A VM that is known is deleted, also
\* if there is no image to clone: that Create fails.
Create(v) ==
    LET warm == record[Warm(ImageOf[v])] IN
    /\ v \in world.vms /\ Idle(v)
    /\ \/ v \in allowed /\ Erase(v, warm) /\ docker' = Stopped(v)
       \/ /\ v \in allowed /\ ~Knows(v)
          /\ job' = [job EXCEPT ![v] = Cloning(warm)]
          /\ ran' = ran \ {v} /\ drive' = drive \ {v}
          /\ docker' = Stopped(v)
          /\ UNCHANGED <<up, mapped, volume, record, erased>>
       \/ /\ v \notin allowed
          /\ up' = up \ {v}
          /\ docker' = [docker EXCEPT ![v] = "running"]
          /\ UNCHANGED <<mapped, volume, record, ran, drive, erased, job>>
    /\ UNCHANGED <<world, counter, template, allowed, builder, stuck, crossed>>

\* ensureDepsVolume, for the first of a family; the others find its volume.
Deps(v) ==
    LET f == FamilyOf[v] IN
    /\ job[v].pc = "deps" /\ builder[f] = Nobody
    /\ IF record[f] # 0
       THEN /\ mapped' = Activated(f, record[f])
            /\ drive' = drive \cup {v}
            /\ job' = [job EXCEPT ![v].pc = "save"]
            /\ UNCHANGED builder
       ELSE /\ builder' = [builder EXCEPT ![f] = v]
            /\ job' = [job EXCEPT ![v].pc = "family", ![v].origin = 0]
            /\ UNCHANGED <<mapped, drive>>
    /\ UNCHANGED <<world, counter, volume, record, runs, allowed, past>>

\* Mutant: the volume is recorded, and used, when the copy failed.
CopiedOrNot(v) ==
    /\ volume' \in {volume, [volume EXCEPT ![mapped[FamilyOf[v]]] = FamilyOf[v]]}
    /\ record' = [record EXCEPT ![FamilyOf[v]] = job[v].id]
    /\ drive' = drive \cup {v}

\* The tree is copied to what the name is mapped to, and the volume recorded.
Copied(v) ==
    /\ volume' = [volume EXCEPT ![mapped[FamilyOf[v]]] = FamilyOf[v]]
    /\ record' = [record EXCEPT ![FamilyOf[v]] = job[v].id]
    /\ drive' = drive \cup {v}

\* If the copy fails, the VM does without.
Fill(v) ==
    /\ job[v].pc = "fill" /\ mapped[FamilyOf[v]] # 0
    /\ Copied(v) \/ (Has("fail") /\ UNCHANGED <<volume, record, drive>>)
    /\ job' = [job EXCEPT ![v].pc = "save", ![v].id = 0]
    /\ Unlock(v)
    /\ UNCHANGED <<world, counter, mapped, runs, allowed, past>>

SaveMeta(v) ==
    /\ job[v].pc = "save"
    /\ record' = [record EXCEPT ![v] = job[v].root]
    /\ job' = [job EXCEPT ![v].pc = "boot"]
    /\ UNCHANGED <<world, counter, volume, mapped, runs, allowed, builder, drive, past>>

\* What a VM can boot from: a file system, and at an address of its own.
Bootable(v, d) == volume[d] \notin ({"none", "blank"} \cup Families) /\ HasAddress(record[v])

\* The guest runs, and writes to what the name is mapped to.
Runs(v, d) ==
    /\ volume' = [volume EXCEPT ![d] = v]
    /\ up' = up \cup {v} /\ ran' = ran \cup {v}

\* prepareGuest mounts the clone, and it is booted.
CreateBoots(v) ==
    /\ job[v].pc = "boot" /\ mapped[v] # 0 /\ Bootable(v, mapped[v])
    /\ Runs(v, mapped[v])
    /\ job' = [job EXCEPT ![v] = NoJob]
    /\ UNCHANGED <<world, counter, mapped, record, template, docker, allowed, builder, drive,
                   erased, stuck, crossed>>

\* It does not boot, for these reasons or another: Mux.Create deletes what is half made.
CreateBootFails(v) ==
    /\ job[v].pc = "boot"
    /\ Has("fail") \/ mapped[v] = 0 \/ ~Bootable(v, mapped[v])
    /\ Erase(v, 0)
    /\ UNCHANGED <<world, counter, template, docker, allowed, builder, stuck, crossed>>

\* Mutant: who is on the allowlist wakes as a microVM.
StartsAllowed(v) == v \in allowed

\* Mux.Start: only refs the driver owns wake through it.
StartsVm(v) == Knows(v)

\* A wake: of a VM, whose mappings are made anew if they are gone, or of a container.
\* It fails, and changes nothing, if there is no volume to map or boot from.
Start(v) ==
    LET f == FamilyOf[v]
        now == [name \in Names |->
                  IF mapped[name] = 0 /\ (name = v \/ (name = f /\ v \in drive))
                  THEN record[name] ELSE mapped[name]]
    IN
    /\ Does("wake") /\ v \in world.vms /\ Idle(v)
    /\ IF StartsVm(v)
       THEN IF Knows(v)
            THEN v \notin up /\ Bootable(v, now[v]) /\ mapped' = now /\ Runs(v, now[v])
                 /\ UNCHANGED <<docker, job>>
            ELSE Prepared(ImageOf[v])      \* FirecrackerDriver.Start creates it
                 /\ job' = [job EXCEPT ![v].pc = "clone",
                                       ![v].origin = record[Warm(ImageOf[v])]]
                 /\ UNCHANGED <<mapped, volume, up, ran, docker>>
       ELSE docker' = [docker EXCEPT ![v] = "running"]
            /\ UNCHANGED <<mapped, volume, up, ran, job>>
    /\ UNCHANGED <<world, counter, record, template, allowed, builder, drive, erased, stuck, crossed>>

\* A suspend, or the guest dies.
Suspend(v) ==
    /\ Does("wake") /\ Idle(v)
    /\ IF Knows(v) THEN up' = up \ {v} /\ UNCHANGED docker
       ELSE docker' = [docker EXCEPT ![v] = IF @ = "none" THEN @ ELSE "stopped"]
            /\ UNCHANGED up
    /\ UNCHANGED <<world, disks, template, allowed, job, builder, drive, past>>

\* Mux.Stop and Mux.RemoveVolumes
Delete(v) ==
    /\ v \in world.vms /\ Idle(v)
    /\ \/ Erase(v, 0)
       \/ ~Knows(v) /\ UNCHANGED <<up, mapped, volume, record, ran, drive, erased, job>>
    /\ docker' = Stopped(v)
    /\ UNCHANGED <<world, counter, template, allowed, builder, stuck, crossed>>

---------------------------------------------------------------------------
\* The counter file is removed.
Lose ==
    /\ Does("lose") /\ counter' = 0
    /\ UNCHANGED <<world, volume, mapped, record, runs, allowed, job, builder, drive, past>>

\* ensureStorage: every recorded VM's and image's volume that there is is mapped.
Reactivated(m) ==
    [name \in Names |-> IF /\ m[name] = 0 /\ name \notin Families
                           /\ record[name] # 0 /\ volume[record[name]] # "none"
                        THEN record[name] ELSE m[name]]

\* The id of a volume that a deletion removed was given out again, with the record
\* still there.
Reused == \E v \in erased : \/ volume[record[v]] # "none"
                             \/ \E w \in erased \ {v} : record[w] = record[v]

\* orchd is started again, perhaps with more workloads on the allowlist: its VMs
\* and their volumes outlive it.
Crash ==
    /\ Has("crash")
    /\ mapped' = Reactivated(mapped)
    /\ allowed' \in {allowed} \cup (IF Does("allow") THEN {Vms} ELSE {})
    /\ job' = [u \in Users |-> NoJob]
    /\ builder' = [f \in Families |-> Nobody]
    /\ crossed' = (crossed \/ Reused)
    /\ UNCHANGED <<world, counter, volume, record, runs, drive, ran, erased, stuck>>

\* The host reboots: no process, container or mapping survives.
Reboot ==
    /\ Has("reboot")
    /\ mapped' = Reactivated([name \in Names |-> 0])
    /\ up' = {} /\ template' = Nobody
    /\ docker' = [v \in Vms |-> IF docker[v] = "none" THEN "none" ELSE "stopped"]
    /\ job' = [u \in Users |-> NoJob]
    /\ builder' = [f \in Families |-> Nobody]
    /\ crossed' = (crossed \/ Reused)
    /\ UNCHANGED <<world, counter, volume, record, allowed, drive, ran, erased, stuck>>

---------------------------------------------------------------------------
Next ==
    \/ \E u \in Users : NextDevID(u) \/ NoteDevID(u) \/ Make(u) \/ Collide(u) \/ AllocateFails(u)
    \/ \E i \in Images : CallPrepare(i) \/ PrepareFails(i) \/ Export(i) \/ TemplateBoot(i)
                         \/ TemplateEnds(i) \/ RecordImage(i) \/ Redo(i)
    \/ \E v \in Vms : \/ Create(v) \/ Deps(v) \/ Fill(v) \/ SaveMeta(v) \/ CreateBoots(v)
                      \/ CreateBootFails(v) \/ Start(v) \/ Suspend(v) \/ Delete(v)
                      \/ Forget(v)
    \/ Lose \/ Crash \/ Reboot

Spec == Init /\ [][Next]_vars

---------------------------------------------------------------------------
\* The volumes u's call has made, and not recorded.
Making(u) == ({job[u].root} \cup (IF job[u].pc \in {"template", "serving", "cut", "done", "fill"}
                                  THEN {job[u].id} ELSE {})) \ {0}

\* What a name's record stands for: nothing while a deletion is about to remove it.
Owned(m) == IF m \in Vms /\ job[m].pc = "removing" THEN 0 ELSE record[m]

\* No volume belongs to two names, whoever took its id from the counter and however
\* often the counter was lost: what is recorded and what is being made is told apart,
\* also from the record of a deletion that was cut off.  Not so once orchd has died
\* in a deletion whose id another call had got at the same time and used again.
OneOwner ==
    ~crossed =>
       /\ \A m, n \in Names : m # n /\ Owned(m) # 0 => Owned(m) # Owned(n)
       /\ \A u \in Users, m \in Names :
             Owned(m) \in Making(u) => m = u /\ job[u].pc = "boot"
       /\ \A u, t \in Users : u # t => Making(u) \cap Making(t) = {}

\* The volume recorded for a VM holds what its guest wrote, and a volume recorded
\* for an image or a family that one's files: it is what the name is mapped to again
\* after a reboot.  A VM whose deletion was cut off has none any more, and nothing
\* else in its place.  Not so if the name was still mapped to another when it was
\* made, or after what OneOwner leaves out.
RecordedIsWhole ==
    ~crossed =>
       \A m \in Names \ stuck :
          record[m] # 0 =>
             LET held == volume[record[m]] IN
             IF m \in erased THEN (Idle(m) => held = "none")
             ELSE IF m \in Vms THEN (m \in ran => held = m)
             ELSE IF m \in Families THEN held = m
             ELSE held = m[2]

\* A workload never runs as a microVM and as a container.
RunsOnce == \A v \in Vms : ~(v \in up /\ docker[v] = "running")
=============================================================================
