------------------------------- MODULE Images -------------------------------
(***************************************************************************)
(* The frozen images of one template (internal/manager/image.go,           *)
(* CreateFromImage and SetWorkloadImage in manager.go, template/fs.go).    *)
(*                                                                         *)
(* A build freezes the template's tree into a tarball, bakes a container   *)
(* image, extracts its dependencies once per lockfile, records the version *)
(* and then collects the versions nobody needs.  Projects are created from *)
(* a version, and workloads moved to one; they boot whatever its number    *)
(* then stands for.  Operators also delete, push and import versions, none *)
(* of which takes the build lock.  orchd may die anywhere.                 *)
(*                                                                         *)
(* A build has a number of its own, which stands for the bytes it froze:   *)
(* its tree and its container image.  Dependencies are told apart by the   *)
(* lockfile they were installed from.  The template is a directory others  *)
(* edit, and a build reads it three times: for the tarball, for the        *)
(* container image, and for the hash of its lockfile.                      *)
(***************************************************************************)
EXTENDS Integers, FiniteSets, FiniteSetsExt

CONSTANTS
    Workloads, Clients,
    Locks,          \* lockfile contents
    Keep,           \* how many of the newest versions a collection spares
    MaxVersion, MaxBuilds,  \* bounds
    Worlds          \* the ways a behaviour may go, each with the API operations
                    \* made in it, what may fail, and the builds there are time for

Versions == 1..MaxVersion
Builds   == 1..MaxBuilds
AllOps == {"create", "setImage", "delete", "push", "import", "edit", "editLive", "drop"}
AllFaults == {"bundle", "docker", "deps", "ps", "crash"}

ASSUME ConstantsAssumption ==
    /\ Keep \in Nat \ {0}
    /\ MaxVersion \in Nat \ {0} /\ MaxBuilds \in Nat \ {0}
    /\ \A world \in Worlds : /\ world.ops \subseteq AllOps /\ world.faults \subseteq AllFaults
                            /\ world.builds \in 0..MaxBuilds
    /\ Workloads # {} /\ Locks # {} /\ "none" \notin Locks

VARIABLES
    world,      \* the way this behaviour goes
    images,     \* the store's record of each version, or NoImage
    disk,       \* the build whose tarball is in the version's directory, None or Half
    tags,       \* the build the version's docker tag names, or None
    deps,       \* the lockfile whose hash deps/<workspace> links to, or NoLock
    shared,     \* shared-deps: under each lockfile's hash, the lockfile that what is
                \* there was installed from, or NoLock
    lockfile,   \* the template's lockfile now
    installed,  \* the lockfile each build's container image was installed from
    builds,     \* builds made so far
    pin,        \* ImageVer of each workload's record; None: no such workload
    container,  \* the build each workload's container was made from, None or Default
    tree,       \* the build its working tree was seeded from, or None
    builder,    \* the build under the template's lock
    job,        \* what each client is doing
    want,       \* history: the build a workload's version stood for when it was chosen
    meddled,    \* history: versions an operator deleted, imported over or put back,
                \* and those whose collection was cut short
    raced,      \* history: workloads that chose a version while it was collected
    given       \* history: the numbers builds have been recorded under

store   == <<images, pin>>
files   == <<disk, tags, deps, shared>>
boots   == <<container, tree>>
history == <<want, meddled, raced, given>>
vars == <<world, store, files, boots, lockfile, installed, builds, builder, job, history>>

---------------------------------------------------------------------------
None    == 0
Half    == -1
Default == -1      \* the platform's default image, a database
NoLock  == "none"
NoImage == [build |-> None, tar |-> FALSE, docker |-> FALSE, deps |-> FALSE]
\* tar, docker: it has a tarball, a tag for the workspace.  deps (history): its
\* dependencies were extracted when it was built.
Image == [build : Builds, tar : BOOLEAN, docker : BOOLEAN, deps : BOOLEAN]

Positions == {"idle", "freeze", "docker", "deps", "put", "collect", "look",
              "rmi", "record", "dir"}
NoBuild == [pc |-> "idle", v |-> 1, image |-> NoImage,
            todo |-> [v \in Versions |-> NoImage]]
NoJob   == [op |-> "none", pc |-> "idle", v |-> 1, w |-> CHOOSE w \in Workloads : TRUE,
            image |-> NoImage]

Has(v) == images[v] # NoImage
Recorded == {v \in Versions : Has(v)}

TypeOK ==
    /\ world \in Worlds
    /\ images \in [Versions -> Image \cup {NoImage}]
    /\ disk \in [Versions -> Builds \cup {None, Half}]
    /\ tags \in [Versions -> Builds \cup {None}]
    /\ deps \in [Versions -> Locks \cup {NoLock}] /\ shared \in [Locks -> Locks \cup {NoLock}]
    /\ lockfile \in Locks /\ installed \in [Builds -> Locks]
    /\ builds \in 0..MaxBuilds
    /\ pin \in [Workloads -> Versions \cup {None}]
    /\ container \in [Workloads -> Builds \cup {None, Default}]
    /\ tree \in [Workloads -> Builds \cup {None}]
    /\ builder \in [pc : Positions, v : Versions, image : Image \cup {NoImage},
                    todo : [Versions -> Image \cup {NoImage}]]
    /\ job \in [Clients -> [op : AllOps \cup {"none"},
                            pc : {"idle", "register", "open", "pin", "dir", "record", "put"},
                            v : Versions, w : Workloads, image : Image \cup {NoImage}]]
    /\ want \in [Workloads -> Builds \cup {None}]
    /\ meddled \subseteq Versions /\ raced \subseteq Workloads /\ given \subseteq Versions

Init ==
    /\ world \in Worlds
    /\ images = [v \in Versions |-> NoImage]
    /\ disk = [v \in Versions |-> None]
    /\ tags = [v \in Versions |-> None]
    /\ deps = [v \in Versions |-> NoLock] /\ shared = [l \in Locks |-> NoLock]
    /\ lockfile \in Locks
    /\ installed = [b \in Builds |-> CHOOSE l \in Locks : TRUE]
    /\ builds = 0
    /\ pin = [w \in Workloads |-> None]
    /\ container = [w \in Workloads |-> None]
    /\ tree = [w \in Workloads |-> None]
    /\ builder = NoBuild
    /\ job = [c \in Clients |-> NoJob]
    /\ want = [w \in Workloads |-> None]
    /\ meddled = {} /\ raced = {} /\ given = {}

---------------------------------------------------------------------------
\* BuildImage, one at a time per template.

\* Mutant: the number of versions there are, and not the highest.
NextByCount == Cardinality(Recorded) + 1

\* Mutant: the newest version's number again, or none.
NextNotRaised == Max(Recorded \cup {0})

NextVersion == Max(Recorded \cup {0}) + 1

To(p) == builder' = [builder EXCEPT !.pc = p]

\* The tarball is created in its place.
BuildStart ==
    /\ builder.pc = "idle" /\ builds < world.builds /\ NextVersion <= MaxVersion
    /\ builds' = builds + 1
    /\ disk' = [disk EXCEPT ![NextVersion] = Half]
    /\ builder' = [NoBuild EXCEPT !.pc = "freeze", !.v = NextVersion,
                     !.image = [NoImage EXCEPT !.build = builds', !.tar = TRUE]]
    /\ UNCHANGED <<world, store, tags, deps, shared, boots, lockfile, installed, job,
                   history>>

\* Bundle; a tarball that fails is removed.
Freeze ==
    /\ builder.pc = "freeze"
    /\ \/ disk' = [disk EXCEPT ![builder.v] = builder.image.build] /\ To("docker")
       \/ /\ "bundle" \in world.faults
          /\ disk' = [disk EXCEPT ![builder.v] = None] /\ builder' = NoBuild
    /\ UNCHANGED <<world, store, tags, deps, shared, boots, lockfile, installed, builds, job,
                   history>>

\* docker build -t; without docker, or when it fails, the image is tarball-only.
DockerBuild ==
    /\ builder.pc = "docker"
    /\ \/ /\ tags' = [tags EXCEPT ![builder.v] = builder.image.build]
          /\ installed' = [installed EXCEPT ![builder.image.build] = lockfile]
          /\ builder' = [builder EXCEPT !.pc = "deps", !.image.docker = TRUE]
       \/ "docker" \in world.faults /\ To("put") /\ UNCHANGED <<tags, installed>>
    /\ UNCHANGED <<world, store, disk, deps, shared, boots, lockfile, builds, job, history>>

\* Mutant: a link that is there is taken to be this build's.
LinkOnce(v, l) == IF deps[v] = NoLock THEN [deps EXCEPT ![v] = l] ELSE deps

\* The version's link to the dependencies of a lockfile, made anew.
Link(v, l) == [deps EXCEPT ![v] = l]

\* ensureImageDeps: the lockfile is hashed now; what the container image installed
\* is extracted beside and renamed, unless there is something under the hash, and
\* linked.
ExtractDeps ==
    LET l == lockfile IN
    /\ builder.pc = "deps"
    /\ \/ /\ shared' = IF shared[l] = NoLock
                       THEN [shared EXCEPT ![l] = installed[builder.image.build]]
                       ELSE shared
          /\ deps' = Link(builder.v, l)
          /\ builder' = [builder EXCEPT !.pc = "put", !.image.deps = TRUE]
       \/ "deps" \in world.faults /\ shared[l] = NoLock /\ To("put") /\ UNCHANGED <<shared, deps>>
    /\ UNCHANGED <<world, store, disk, tags, boots, lockfile, installed, builds, job, history>>

PutImage ==
    /\ builder.pc = "put"
    /\ images' = [images EXCEPT ![builder.v] = builder.image]
    /\ To("collect")
    /\ given' = given \cup {builder.v}
    /\ UNCHANGED <<world, pin, files, boots, lockfile, installed, builds, job, want, meddled,
                   raced>>

---------------------------------------------------------------------------
\* gcImageVersions: the versions beyond the newest, one after the other.

\* The versions beyond the newest n.
Old(n) == {v \in Recorded : Cardinality({u \in Recorded : u > v}) >= n}

Collect ==
    /\ builder.pc = "collect"
    /\ builder' = [builder EXCEPT !.pc = "look", !.todo =
                     [v \in Versions |-> IF v \in Old(Keep) THEN images[v] ELSE NoImage]]
    /\ UNCHANGED <<world, store, files, boots, lockfile, installed, builds, job, history>>

\* A container, running or not, of the tag that image has for the workspace: its own
\* or, imported, the registry's.
Contained(v, image) ==
    image.docker /\ LET tag == IF image.tar THEN tags[v] ELSE image.build IN
                    tag # None /\ \E w \in Workloads : container[w] = tag

\* Mutant: only containers count.
ReferencedByContainer(v, image) == Contained(v, image)

\* A workload's record names it, or a container was made from it.
Referenced(v, image) == Contained(v, image) \/ \E w \in Workloads : pin[w] = v

\* docker ps that fails counts as a reference.
Look ==
    LET todo == {v \in Versions : builder.todo[v] # NoImage}
        v    == Max(todo)
        done == [builder EXCEPT !.todo[v] = NoImage, !.v = v, !.image = builder.todo[v]]
    IN
    /\ builder.pc = "look"
    /\ IF todo = {} THEN builder' = NoBuild
       ELSE \/ builder' = [done EXCEPT !.pc = IF Referenced(v, done.image) THEN "look" ELSE "rmi"]
            \/ "ps" \in world.faults /\ done.image.docker /\ builder' = done
    /\ UNCHANGED <<world, store, files, boots, lockfile, installed, builds, job, history>>

\* docker rmi, which refuses while a container uses the image.
RemoveTag ==
    /\ builder.pc = "rmi"
    /\ tags' = IF ~builder.image.docker \/ Contained(builder.v, builder.image)
               THEN tags ELSE [tags EXCEPT ![builder.v] = None]
    /\ To("record")
    /\ UNCHANGED <<world, store, disk, deps, shared, boots, lockfile, installed, builds, job,
                   history>>

RemoveRecord ==
    /\ builder.pc = "record"
    /\ images' = [images EXCEPT ![builder.v] = NoImage]
    /\ To(IF Has(builder.v) THEN "dir" ELSE "look")
    /\ UNCHANGED <<world, pin, files, boots, lockfile, installed, builds, job, history>>

RemoveDir ==
    /\ builder.pc = "dir"
    /\ disk' = [disk EXCEPT ![builder.v] = None]
    /\ deps' = [deps EXCEPT ![builder.v] = NoLock]
    /\ To("look")
    /\ UNCHANGED <<world, store, tags, shared, boots, lockfile, installed, builds, job, history>>

---------------------------------------------------------------------------
\* Workloads and their images.

Begin(c, op, p, v, w) ==
    /\ job[c] = NoJob /\ op \in world.ops
    /\ job' = [job EXCEPT ![c] = [op |-> op, pc |-> p, v |-> v, w |-> w,
                                  image |-> images[v]]]
    /\ UNCHANGED <<world, store, files, boots, lockfile, installed, builds, builder, history>>

End(c) == job' = [job EXCEPT ![c] = NoJob]

\* w's record now names v.  It may have been chosen while v was being collected.
Pin(w, v, image) ==
    /\ pin' = [pin EXCEPT ![w] = v]
    /\ want' = [want EXCEPT ![w] = image.build]
    /\ raced' = IF images[v] # image \/ (builder.v = v /\ builder.pc \in {"rmi", "record", "dir"})
                THEN raced \cup {w} ELSE raced \ {w}
    /\ UNCHANGED <<meddled, given>>

\* CreateFromImage: the image is looked up, the workload registered, its tree
\* restored from the tarball the record now names.
CallCreate(c, v, w) ==
    Has(v) /\ pin[w] = None /\ (\A d \in Clients : job[d] # NoJob => job[d].w # w)
    /\ Begin(c, "create", "register", v, w)

Register(c) ==
    LET j == job[c] IN
    /\ j.pc = "register"
    /\ Pin(j.w, j.v, j.image)
    /\ job' = [job EXCEPT ![c].pc = "open"]
    /\ UNCHANGED <<world, images, files, boots, lockfile, installed, builds, builder>>

\* materializeWorkload; a tree that cannot be restored is left unseeded.
Materialize(c) ==
    LET j == job[c] IN
    /\ j.pc = "open"
    /\ tree' = IF Has(j.v) /\ images[j.v].tar /\ disk[j.v] \in Builds
               THEN [tree EXCEPT ![j.w] = disk[j.v]] ELSE tree
    /\ End(c)
    /\ UNCHANGED <<world, store, files, container, lockfile, installed, builds, builder, history>>

\* SetWorkloadImage: the version is looked up, and then put into the record.
CallSetImage(c, v, w) ==
    Has(v) /\ pin[w] \notin {None, v} /\ Begin(c, "setImage", "pin", v, w)

PinImage(c) ==
    LET j == job[c] IN
    /\ j.pc = "pin"
    /\ Pin(j.w, j.v, j.image)
    /\ End(c)
    /\ UNCHANGED <<world, images, files, boots, lockfile, installed, builds, builder>>

\* What specFor boots: the tag the record has for the workspace, or else the
\* image of the manifest, which is the platform's default.
Tagged(v) == IF images[v].tar THEN tags[v] ELSE images[v].build

\* A provision, a wake, a reboot: a container of another image is made anew.
Boot(w) ==
    /\ pin[w] # None
    /\ IF Has(pin[w]) /\ images[pin[w]].docker
       THEN /\ Tagged(pin[w]) # None
            /\ container' = [container EXCEPT ![w] = Tagged(pin[w])]
       ELSE container' = [container EXCEPT ![w] = Default]
    /\ UNCHANGED <<world, store, files, tree, lockfile, installed, builds, builder, job, history>>

DeleteWorkload(w) ==
    /\ "drop" \in world.ops /\ pin[w] # None
    /\ pin' = [pin EXCEPT ![w] = None]
    /\ container' = [container EXCEPT ![w] = None]
    /\ tree' = [tree EXCEPT ![w] = None]
    /\ UNCHANGED <<world, images, files, lockfile, installed, builds, builder, job, history>>

---------------------------------------------------------------------------
\* Operators.

\* DeleteImage: its directory, then its record; the tags are left.
CallDelete(c, v) ==
    Has(v) /\ Begin(c, "delete", IF images[v].tar THEN "dir" ELSE "record", v, NoJob.w)

DeleteDir(c) ==
    LET v == job[c].v IN
    /\ job[c].pc = "dir"
    /\ disk' = [disk EXCEPT ![v] = None]
    /\ deps' = [deps EXCEPT ![v] = NoLock]
    /\ job' = [job EXCEPT ![c].pc = "record"]
    /\ meddled' = meddled \cup {v}
    /\ UNCHANGED <<world, store, tags, shared, boots, lockfile, installed, builds, builder,
                   want, raced, given>>

DeleteRecord(c) ==
    LET v == job[c].v IN
    /\ job[c].pc = "record"
    /\ images' = [images EXCEPT ![v] = NoImage]
    /\ meddled' = meddled \cup {v}
    /\ End(c)
    /\ UNCHANGED <<world, pin, files, boots, lockfile, installed, builds, builder, want, raced, given>>

\* PushImage tags and pushes, which takes long, and then puts the record it read.
CallPush(c, v) ==
    Has(v) /\ images[v].docker /\ images[v].tar /\ Begin(c, "push", "put", v, NoJob.w)

PutPushed(c) ==
    LET j == job[c] IN
    /\ j.pc = "put"
    /\ images' = [images EXCEPT ![j.v] = j.image]
    /\ meddled' = IF images[j.v] = j.image THEN meddled ELSE meddled \cup {j.v}
    /\ End(c)
    /\ UNCHANGED <<world, pin, files, boots, lockfile, installed, builds, builder, want, raced, given>>

\* ImportImage: a record of somebody else's build, whatever has its number here.
Import(v) ==
    /\ "import" \in world.ops /\ builds < world.builds
    /\ builds' = builds + 1
    /\ images' = [images EXCEPT ![v] =
          [build |-> builds', tar |-> FALSE, docker |-> TRUE, deps |-> FALSE]]
    /\ meddled' = meddled \cup {v}
    /\ UNCHANGED <<world, pin, files, boots, lockfile, installed, builder, job, want, raced, given>>

\* Somebody edits the template, between builds or while one runs.
EditTemplate ==
    /\ "editLive" \in world.ops \/ ("edit" \in world.ops /\ builder = NoBuild)
    /\ lockfile' \in Locks \ {lockfile}
    /\ UNCHANGED <<world, store, files, boots, installed, builds, builder, job, history>>

\* orchd dies and comes back: what is on disk, in docker and in the store stays.
Crash ==
    /\ "crash" \in world.faults
    /\ builder # NoBuild \/ \E c \in Clients : job[c] # NoJob
    /\ builder' = NoBuild
    /\ job' = [c \in Clients |-> NoJob]
    /\ meddled' = IF builder.pc = "record" THEN meddled \cup {builder.v} ELSE meddled
    /\ UNCHANGED <<world, store, files, boots, lockfile, installed, builds, want, raced, given>>

---------------------------------------------------------------------------
Build == BuildStart \/ Freeze \/ DockerBuild \/ ExtractDeps \/ PutImage
         \/ Collect \/ Look \/ RemoveTag \/ RemoveRecord \/ RemoveDir

Next ==
    \/ Build \/ EditTemplate \/ Crash
    \/ \E c \in Clients :
          \/ \E v \in Versions : \/ CallDelete(c, v) \/ CallPush(c, v)
                                 \/ \E w \in Workloads : CallCreate(c, v, w) \/ CallSetImage(c, v, w)
          \/ Register(c) \/ Materialize(c) \/ PinImage(c)
          \/ DeleteDir(c) \/ DeleteRecord(c) \/ PutPushed(c)
    \/ \E w \in Workloads : Boot(w) \/ DeleteWorkload(w)
    \/ \E v \in Versions : Import(v)

Spec == Init /\ [][Next]_vars

---------------------------------------------------------------------------
\* A workload's version still stands for the build it was chosen for: the record,
\* the tarball and the tag are all of that build, whatever was built, collected,
\* failed or cut short since; unless an operator deleted or replaced the version,
\* or it was chosen while it was being collected.
FrozenStays ==
    \A w \in Workloads :
        LET v == pin[w] IN
        v # None /\ v \notin meddled /\ w \notin raced =>
            /\ images[v].build = want[w]
            /\ images[v].tar => disk[v] = want[w]
            /\ images[v].tar /\ images[v].docker => tags[v] = want[w]

\* The dependencies mounted into the workloads of a version are the ones its own
\* container image installed, if they could be extracted when it was built.
DepsMatch ==
    \A v \in Recorded \ meddled :
        images[v].deps => /\ deps[v] # NoLock
                          /\ shared[deps[v]] = installed[images[v].build]

\* The number a build is recorded under is nobody's, and was never another's: a
\* collection leaves the newest version, so a number comes again only after an
\* operator deleted or replaced that version or a newer one.
NumbersAreSpent ==
    [][\A v \in Versions :
         builder.pc = "put" /\ builder.v = v /\ builder'.pc = "collect"
         => /\ v \in given => \E u \in meddled : u >= v
            /\ v \notin meddled =>
                  ~Has(v) /\ \A w \in Workloads : pin[w] = v => w \in raced]_vars
=============================================================================
