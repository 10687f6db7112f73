---------------------------- MODULE ImagesProofs ----------------------------
(***************************************************************************)
(* What a version stands for, for any number of workloads, clients,        *)
(* versions, builds and lockfiles, and any number of versions spared.      *)
(***************************************************************************)
EXTENDS Images, FiniteSetTheorems, WellFoundedInduction, TLAPS

Maybe == Image \cup {NoImage}
Builder == [pc : Positions, v : Versions, image : Maybe, todo : [Versions -> Maybe]]
Job == [op : AllOps \cup {"none"},
        pc : {"idle", "register", "open", "pin", "dir", "record", "put"},
        v : Versions, w : Workloads, image : Maybe]

\* TypeOK in parts.
StoreType ==
    /\ images \in [Versions -> Maybe] /\ pin \in [Workloads -> Versions \cup {None}]
FilesType ==
    /\ disk \in [Versions -> Builds \cup {None, Half}] /\ tags \in [Versions -> Builds \cup {None}]
    /\ deps \in [Versions -> Locks \cup {NoLock}] /\ shared \in [Locks -> Locks \cup {NoLock}]
    /\ installed \in [Builds -> Locks] /\ builds \in 0..MaxBuilds
RestType ==
    /\ world \in Worlds /\ lockfile \in Locks
    /\ container \in [Workloads -> Builds \cup {None, Default}]
    /\ tree \in [Workloads -> Builds \cup {None}]
    /\ want \in [Workloads -> Builds \cup {None}]
    /\ meddled \subseteq Versions /\ raced \subseteq Workloads /\ given \subseteq Versions
JobsType == builder \in Builder /\ job \in [Clients -> Job]

---------------------------------------------------------------------------
Building == {"freeze", "docker", "deps", "put"}
Removing == {"rmi", "record", "dir"}
Fine(v) == v \notin meddled

\* A client's image is one.
Held == \A c \in Clients : job[c].pc \in {"register", "pin", "put"} => job[c].image \in Image

\* The build under way has a new number, and its version is beyond all others.
Fresh ==
    /\ \A v \in Recorded \ meddled : images[v].build <= builds
    /\ builder.pc \in Building =>
          /\ builder.image \in Image /\ builder.image.tar /\ builder.image.build <= builds
          /\ builder.pc = "deps" => builder.image.docker
          /\ builder.image.deps => builder.pc = "put"
          /\ \A v \in Recorded \ meddled : images[v].build < builder.image.build /\ v < builder.v
    /\ builder.pc \notin {"look"} \cup Removing => \A v \in Versions : builder.todo[v] = NoImage

\* What is there of a version is of one build.
OfBuild(v, image) ==
    /\ image.tar => disk[v] = image.build
    /\ image.tar /\ image.docker => tags[v] = image.build
Whole ==
    /\ \A v \in Recorded \ meddled :
          ~(builder.v = v /\ builder.pc = "record") => OfBuild(v, images[v])
    /\ LET v == builder.v  image == builder.image IN
       builder.pc \in Building /\ Fine(v) =>
          /\ builder.pc # "freeze" => disk[v] = image.build
          /\ image.docker => tags[v] = image.build

\* A version is removed for nobody; its directory goes after its record.
Removal ==
    /\ builder.pc \in Removing => \A w \in Workloads : pin[w] = builder.v => w \in raced
    /\ builder.pc = "dir" => ~Has(builder.v) \/ ~Fine(builder.v)

\* A record still is the one that was chosen.
Wanted ==
    \A w \in Workloads :
        LET v == pin[w] IN
        v # None /\ Fine(v) /\ w \notin raced => want[w] \in Builds /\ images[v].build = want[w]

\* Above every number given there is a version that stays, or was meddled with.
Stays(u) == /\ Has(u) /\ builder.todo[u] = NoImage
            /\ ~(builder.v = u /\ builder.pc \in Removing)
Spent == \A v \in given : \E u \in Versions : u >= v /\ (u \in meddled \/ Stays(u))

\* What is extracted under a lockfile's hash was installed from it.
Matched ==
    /\ \A l \in Locks : shared[l] \in {NoLock, l}
    /\ builder.pc = "deps" => installed[builder.image.build] = lockfile
    /\ LET v == builder.v  image == builder.image IN
       builder.pc \in Building /\ image.deps /\ Fine(v) =>
          deps[v] # NoLock /\ shared[deps[v]] = installed[image.build]
    /\ DepsMatch
Still == "editLive" \notin world.ops
Linked == Still => Matched

IInv == TypeOK /\ Held /\ Fresh /\ Whole /\ Removal /\ Wanted /\ Spent /\ Linked

---------------------------------------------------------------------------
\* The operators the model is built from.

LEMMA TypeParts ==
  /\ TypeOK <=> StoreType /\ FilesType /\ RestType /\ JobsType
  /\ TypeOK' <=> StoreType' /\ FilesType' /\ RestType' /\ JobsType'
  BY DEF TypeOK, StoreType, FilesType, RestType, JobsType, Builder, Job, Maybe

\* A set of versions has a greatest element.
LEMMA MaxIs ==
  ASSUME NEW S \in SUBSET (0..MaxVersion), S # {}
  PROVE  Max(S) \in S /\ \A y \in S : Max(S) >= y
<1> DEFINE T == {MaxVersion - y : y \in S}
<1>0. MaxVersion \in Nat /\ \A y \in S : y \in Nat /\ MaxVersion - y \in Nat
  BY ConstantsAssumption
<1>1. T \subseteq Nat /\ T # {}
  BY <1>0
<1>2. PICK d \in T : \A e \in T : <<e, d>> \notin OpToRel(<, Nat)
  <2> HIDE DEF T
  <2> QED  BY ONLY <1>1, WFMin, NatLessThanWellFounded, Zenon
<1>3. \A e \in T : ~(e < d)
  <2> SUFFICES ASSUME NEW e \in T, e < d PROVE FALSE
    OBVIOUS
  <2>1. e \in Nat /\ d \in Nat /\ <<e, d>> \notin OpToRel(<, Nat)
    BY <1>1, <1>2, Zenon
  <2> QED  BY <2>1, Zenon DEF OpToRel
<1>4. PICK x \in S : d = MaxVersion - x
  OBVIOUS
<1>5. \A y \in S : x >= y
  <2> SUFFICES ASSUME NEW y \in S PROVE x >= y
    OBVIOUS
  <2>1. ~(MaxVersion - y < MaxVersion - x)
    BY <1>3, <1>4
  <2>2. x \in Int /\ y \in Int /\ MaxVersion \in Int
    BY ConstantsAssumption
  <2> QED  BY <2>1, <2>2
<1> QED  BY <1>5 DEF Max

\* The next number is beyond every recorded version.
LEMMA NextIsNew ==
  ASSUME StoreType
  PROVE  NextVersion \in Nat \ {0} /\ \A v \in Recorded : v < NextVersion
<1> DEFINE S == Recorded \cup {0}
<1>1. S \in SUBSET (0..MaxVersion) /\ S # {}
  BY ConstantsAssumption DEF Recorded, Versions
<1>2. Max(S) \in S /\ \A y \in S : Max(S) >= y
  BY <1>1, MaxIs
<1>3. Max(S) \in Nat /\ \A v \in Recorded : v \in Nat /\ Max(S) >= v
  BY <1>1, <1>2
<1> HIDE DEF S
<1>4. NextVersion = Max(S) + 1
  BY DEF NextVersion, S
<1> QED  BY <1>3, <1>4

\* An image is no NoImage.
LEMMA ImageFacts ==
  /\ NoImage \notin Image /\ NoImage \in Maybe /\ NoImage.build = 0
  /\ 0 \notin Builds /\ None \notin Versions /\ None = 0
  /\ \A m \in Image : m.build \in Builds /\ m \in Maybe /\ m # NoImage
  /\ \A m \in Maybe : m # NoImage => m \in Image
  /\ \A m \in Maybe : m.build = 0 => m = NoImage
  BY DEF Image, NoImage, Maybe, Builds, None, Versions

LEMMA NoBuildIs ==
  /\ NoBuild \in Builder /\ NoBuild.pc = "idle" /\ NoBuild.v \in Versions
  /\ NoBuild.image = NoImage /\ \A v \in Versions : NoBuild.todo[v] = NoImage
  /\ NoBuild.todo \in [Versions -> Maybe]
  BY ConstantsAssumption, ImageFacts DEF NoBuild, Builder, Positions, Versions

LEMMA NoJobIs == NoJob \in Job /\ NoJob.pc = "idle" /\ NoJob.w \in Workloads
  BY ConstantsAssumption, ImageFacts DEF NoJob, Job, Versions

LEMMA Here ==
  ASSUME IInv
  PROVE  /\ StoreType /\ FilesType /\ RestType /\ JobsType
         /\ Held /\ Fresh /\ Whole /\ Removal /\ Wanted /\ Spent /\ Linked
         /\ builder \in Builder /\ builder.pc \in Positions /\ builder.v \in Versions
         /\ builder.image \in Maybe /\ builder.todo \in [Versions -> Maybe]
  BY TypeParts DEF IInv, JobsType, Builder

---------------------------------------------------------------------------
\* Parts that a step leaves alone.

LEMMA SpentKept ==
  ASSUME Spent, given' \subseteq given, meddled \subseteq meddled',
         \A u \in Versions : Stays(u) => Stays(u)' \/ u \in meddled'
  PROVE  Spent'
  BY DEF Spent

LEMMA WantedKept ==
  ASSUME IInv, UNCHANGED <<pin, want>>, meddled \subseteq meddled', raced \subseteq raced',
         \A w \in Workloads, v \in Versions :
            pin[w] = v /\ v \notin meddled' /\ w \notin raced /\ Has(v) => images'[v] = images[v]
  PROVE  Wanted'
<1> SUFFICES ASSUME NEW w \in Workloads, pin[w] # None, pin[w] \notin meddled', w \notin raced'
             PROVE  want[w] \in Builds /\ images'[pin[w]].build = want[w]
  BY DEF Wanted, Fine
<1>1. pin[w] \in Versions
  BY Here DEF StoreType
<1>2. want[w] \in Builds /\ images[pin[w]].build = want[w]
  BY Here DEF Wanted, Fine
<1>3. Has(pin[w])
  BY <1>2, ImageFacts DEF Has
<1> QED  BY <1>1, <1>2, <1>3

\* Nobody that counts has a version that is being built.
LEMMA BuiltIsNew ==
  ASSUME IInv, builder.pc \in Building, Fine(builder.v)
  PROVE  /\ ~Has(builder.v)
         /\ \A w \in Workloads : pin[w] = builder.v => w \in raced
<1>1. ~Has(builder.v)
  <2> SUFFICES ASSUME Has(builder.v) PROVE FALSE
    OBVIOUS
  <2>1. builder.v \in Recorded \ meddled /\ builder.v \in Int
    BY Here DEF Recorded, Fine, Versions
  <2>2. builder.v < builder.v
    BY <2>1, Here DEF Fresh
  <2> QED  BY <2>1, <2>2
<1>2. ASSUME NEW w \in Workloads, pin[w] = builder.v, w \notin raced
      PROVE  FALSE
  <2>1. want[w] \in Builds /\ images[builder.v].build = want[w]
    BY <1>2, Here, ImageFacts DEF Wanted, Fine
  <2> QED  BY <1>1, <2>1, ImageFacts DEF Has
<1> QED  BY <1>1, <1>2

\* A step that leaves the versions and their build alone.
LEMMA CoreKept ==
  ASSUME IInv,
         UNCHANGED <<world, images, pin, files, installed, lockfile, builds, builder, history>>
  PROVE  Fresh' /\ Whole' /\ Removal' /\ Wanted' /\ Spent' /\ Linked'
<1>0. Fresh /\ Whole /\ Removal /\ Wanted /\ Spent /\ Linked
  BY Here
<1>1. UNCHANGED <<world, images, pin, disk, tags, deps, shared, installed, lockfile, builds,
                  builder, want, meddled, raced, given>>
  BY DEF files, history
<1>2. Fresh'
  BY <1>0, <1>1 DEF Fresh, Recorded, Has
<1>3. Whole'
  BY <1>0, <1>1 DEF Whole, Recorded, Has, OfBuild, Fine
<1>4. Removal' /\ Wanted' /\ Spent'
  BY <1>0, <1>1 DEF Removal, Wanted, Has, Fine, Spent, Stays
<1>5. Linked'
  BY <1>0, <1>1 DEF Linked, Still, Matched, DepsMatch, Recorded, Has, Fine
<1> QED  BY <1>2, <1>3, <1>4, <1>5

---------------------------------------------------------------------------
\* A build.

LEMMA BuildStartStep ==
  ASSUME IInv, BuildStart
  PROVE  IInv'
<1> DEFINE n == NextVersion
           m == [NoImage EXCEPT !.build = builds', !.tar = TRUE]
           x == [NoBuild EXCEPT !.pc = "freeze", !.v = n, !.image = m]
<1>0. /\ StoreType /\ FilesType /\ RestType /\ JobsType /\ Held /\ Fresh /\ Whole /\ Wanted
      /\ Spent /\ Linked /\ builder.pc = "idle"
      /\ UNCHANGED <<world, images, pin, tags, deps, shared, container, tree, lockfile, installed,
                     job, want, meddled, raced, given>>
  BY Here DEF BuildStart, store, boots, history
<1>1. builds \in Nat /\ builds' = builds + 1 /\ builds' \in Builds /\ builds' \in 0..MaxBuilds
  <2>1. world.builds \in 0..MaxBuilds /\ MaxBuilds \in Nat
    BY <1>0, ConstantsAssumption DEF RestType
  <2>2. builds \in Nat /\ builds < world.builds /\ builds' = builds + 1
    BY <1>0, <2>1 DEF BuildStart, FilesType
  <2> QED  BY <2>1, <2>2 DEF Builds
<1>2. n \in Versions /\ \A v \in Recorded : v < n
  BY <1>0, NextIsNew, ConstantsAssumption DEF BuildStart, Versions
<1>3. m \in Image /\ m.build = builds' /\ m.tar = TRUE /\ m.docker = FALSE /\ m.deps = FALSE
  BY <1>1 DEF NoImage, Image
<1> HIDE DEF m, n
<1>4. x \in Builder /\ x.pc = "freeze" /\ x.v = n /\ x.image = m
      /\ \A v \in Versions : x.todo[v] = NoImage
  <2>1. m \in Maybe
    BY <1>3, ImageFacts
  <2> QED  BY <1>2, <2>1, NoBuildIs DEF Builder, Positions
<1>5. builder' = x
  BY DEF BuildStart, m, n
<1> HIDE DEF x
<1>6. disk' = [disk EXCEPT ![n] = Half]
  BY DEF BuildStart, n
<1>7. StoreType' /\ FilesType' /\ RestType' /\ JobsType' /\ Held'
  BY <1>0, <1>1, <1>4, <1>5, <1>6 DEF StoreType, FilesType, RestType, JobsType, Held
<1>8. Fresh'
  <2>1. ASSUME NEW v \in Recorded \ meddled
        PROVE  images[v].build <= builds' /\ images[v].build < builds' /\ v < n
    <3>1. images[v] \in Image
      BY <1>0, ImageFacts DEF Recorded, Has, StoreType
    <3>2. images[v].build \in Nat /\ images[v].build <= builds
      BY <1>0, <3>1, ImageFacts DEF Fresh, Builds
    <3> QED  BY <1>1, <1>2, <3>2
  <2> QED  BY <1>0, <1>1, <1>3, <1>4, <1>5, <2>1 DEF Fresh, Building, Removing, Recorded, Has
<1>9. Whole'
  <2>1. ASSUME NEW v \in Recorded \ meddled
        PROVE  OfBuild(v, images[v])'
    <3>1. v # n /\ v \in Versions
      BY <1>2 DEF Recorded, Versions
    <3> QED  BY <1>0, <1>6, <3>1 DEF Whole, OfBuild, FilesType
  <2> QED  BY <1>0, <1>3, <1>4, <1>5, <2>1 DEF Whole, Recorded, Has
<1>10. Removal' /\ Wanted'
  BY <1>0, <1>4, <1>5 DEF Removal, Removing, Wanted, Fine
<1>11. Spent'
  BY <1>0, <1>4, <1>5, SpentKept DEF Stays, Has, Removing
<1>12. Linked'
  BY <1>0, <1>3, <1>4, <1>5 DEF Linked, Still, Matched, DepsMatch, Recorded, Has
<1> QED  BY <1>7, <1>8, <1>9, <1>10, <1>11, <1>12, TypeParts DEF IInv

LEMMA FreezeStep ==
  ASSUME IInv, Freeze
  PROVE  IInv'
<1> DEFINE n == builder.v
<1>0. /\ StoreType /\ FilesType /\ RestType /\ JobsType /\ Held /\ Fresh /\ Whole /\ Wanted
      /\ Spent /\ Linked /\ builder \in Builder /\ builder.pc = "freeze" /\ n \in Versions
      /\ builder.image \in Image
      /\ UNCHANGED <<world, images, pin, tags, deps, shared, container, tree, lockfile, installed,
                     builds, job, want, meddled, raced, given>>
  BY Here DEF Freeze, store, boots, history, Fresh, Building
<1>1. PICK d \in Builds \cup {None} :
          /\ disk' = [disk EXCEPT ![n] = d]
          /\ \/ d = builder.image.build /\ builder' = [builder EXCEPT !.pc = "docker"]
             \/ builder' = NoBuild
  BY <1>0, ImageFacts DEF Freeze, To
<1>2. /\ builder' \in Builder
      /\ \/ builder'.pc = "docker" /\ builder'.v = n /\ builder'.image = builder.image
            /\ builder'.todo = builder.todo /\ d = builder.image.build
         \/ builder' = NoBuild
  BY <1>0, <1>1, NoBuildIs DEF Builder, Positions
<1>3. StoreType' /\ FilesType' /\ RestType' /\ JobsType' /\ Held'
  BY <1>0, <1>1, <1>2 DEF StoreType, FilesType, RestType, JobsType, Held
<1>4. Fresh'
  BY <1>0, <1>2, NoBuildIs DEF Fresh, Building, Removing, Recorded, Has
<1>5. Whole'
  <2>1. ASSUME NEW v \in Recorded \ meddled
        PROVE  OfBuild(v, images[v])'
    <3>1. v # n /\ v \in Versions
      BY <1>0, BuiltIsNew DEF Recorded, Fine, Building
    <3> QED  BY <1>0, <1>1, <3>1 DEF Whole, OfBuild, FilesType
  <2>2. disk'[n] = d
    BY <1>0, <1>1 DEF FilesType
  <2>3. Fine(n) /\ builder.image.docker => tags[n] = builder.image.build
    BY <1>0 DEF Whole, Building
  <2> QED  BY <1>0, <1>2, <2>1, <2>2, <2>3, NoBuildIs DEF Whole, Recorded, Has, Building, Fine
<1>6. Removal' /\ Wanted'
  BY <1>0, <1>2, NoBuildIs DEF Removal, Removing, Wanted, Fine
<1>7. Spent'
  BY <1>0, <1>2, NoBuildIs, SpentKept DEF Stays, Has, Removing, Fresh
<1>8. Linked'
  BY <1>0, <1>2, NoBuildIs DEF Linked, Still, Matched, DepsMatch, Recorded, Has, Building, Fine
<1> QED  BY <1>3, <1>4, <1>5, <1>6, <1>7, <1>8, TypeParts DEF IInv

LEMMA DockerBuildStep ==
  ASSUME IInv, DockerBuild
  PROVE  IInv'
<1> DEFINE n == builder.v
           m == builder.image
           k == [m EXCEPT !.docker = TRUE]
           x == [builder EXCEPT !.pc = "deps", !.image = k]
<1>0. /\ StoreType /\ FilesType /\ RestType /\ JobsType /\ Held /\ Fresh /\ Whole /\ Wanted
      /\ Spent /\ Linked /\ builder \in Builder /\ builder.pc = "docker" /\ n \in Versions
      /\ m \in Image /\ m.deps = FALSE /\ m.tar
      /\ UNCHANGED <<world, images, pin, disk, deps, shared, container, tree, lockfile,
                     builds, job, want, meddled, raced, given>>
  <2>1. Fresh /\ builder.pc = "docker"
    BY Here DEF DockerBuild
  <2>2. m \in Image /\ m.tar /\ ~m.deps
    BY <2>1 DEF Fresh, Building
  <2> QED  BY <2>1, <2>2, Here DEF DockerBuild, store, boots, history, Image
<1>1. /\ k \in Image /\ k.build = m.build /\ k.tar = TRUE /\ k.docker = TRUE /\ k.deps = FALSE
      /\ m.build \in Builds
  BY <1>0 DEF Image
<1>2. /\ x \in Builder /\ x.pc = "deps" /\ x.v = n /\ x.image = k /\ x.todo = builder.todo
  <2>1. k \in Maybe
    BY <1>1, ImageFacts
  <2> QED  BY <1>0, <2>1 DEF Builder, Positions
<1>3. \/ /\ tags' = [tags EXCEPT ![n] = m.build]
         /\ installed' = [installed EXCEPT ![m.build] = lockfile]
         /\ builder' = x
      \/ /\ builder' = [builder EXCEPT !.pc = "put"] /\ UNCHANGED <<tags, installed>>
  BY <1>0 DEF DockerBuild, To, Builder
<1> HIDE DEF k, x
<1>4. ASSUME NEW v \in Recorded \ meddled
      PROVE  v # n /\ v \in Versions /\ images[v].build # m.build /\ images[v].build \in Builds
             /\ images[v] \in Image
  <2>1. v # n /\ v \in Versions /\ images[v] \in Image
    BY <1>0, <1>4, BuiltIsNew, ImageFacts DEF Recorded, Fine, Building, Has, StoreType
  <2>2. images[v].build < m.build
    BY <1>0, <1>4 DEF Fresh, Building
  <2>3. images[v].build \in Int /\ m.build \in Int /\ images[v].build \in Builds
    BY <2>1, <1>1, ImageFacts DEF Builds
  <2> QED  BY <2>1, <2>2, <2>3
<1>5. CASE /\ tags' = [tags EXCEPT ![n] = m.build]
           /\ installed' = [installed EXCEPT ![m.build] = lockfile]
           /\ builder' = x
  <2>1. StoreType' /\ FilesType' /\ RestType' /\ JobsType' /\ Held'
    BY <1>0, <1>1, <1>2, <1>5 DEF StoreType, FilesType, RestType, JobsType, Held
  <2>2. Fresh'
    BY <1>0, <1>1, <1>2, <1>5 DEF Fresh, Building, Removing, Recorded, Has
  <2>3. Whole'
    <3>1. ASSUME NEW v \in Recorded \ meddled
          PROVE  OfBuild(v, images[v])'
      BY <1>0, <1>4, <1>5 DEF Whole, OfBuild, FilesType
    <3>2. tags'[n] = m.build /\ (Fine(n) => disk[n] = m.build)
      BY <1>0, <1>5 DEF Whole, FilesType, Building
    <3> QED  BY <1>0, <1>1, <1>2, <1>5, <3>1, <3>2 DEF Whole, Recorded, Has, Building, Fine
  <2>4. Removal' /\ Wanted'
    BY <1>0, <1>2, <1>5 DEF Removal, Removing, Wanted, Fine
  <2>5. Spent'
    BY <1>0, <1>2, <1>5, SpentKept DEF Stays, Has, Removing
  <2>6. Linked'
    <3> SUFFICES ASSUME Still PROVE Matched'
      BY <1>0 DEF Linked, Still
    <3>1. Matched /\ installed'[m.build] = lockfile
      BY <1>0, <1>1, <1>5 DEF Linked, FilesType
    <3>2. \A v \in Recorded \ meddled : installed'[images[v].build] = installed[images[v].build]
      BY <1>0, <1>4, <1>5 DEF FilesType
    <3>3. DepsMatch'
      BY <1>0, <3>1, <3>2 DEF Matched, DepsMatch, Recorded, Has
    <3> QED  BY <1>0, <1>1, <1>2, <1>5, <3>1, <3>3 DEF Matched
  <2> QED  BY <2>1, <2>2, <2>3, <2>4, <2>5, <2>6, TypeParts DEF IInv
<1>6. CASE builder' = [builder EXCEPT !.pc = "put"] /\ UNCHANGED <<tags, installed>>
  <2>0. /\ builder' \in Builder /\ builder'.pc = "put" /\ builder'.v = n /\ builder'.image = m
        /\ builder'.todo = builder.todo
    BY <1>0, <1>6 DEF Builder, Positions
  <2>1. StoreType' /\ FilesType' /\ RestType' /\ JobsType' /\ Held'
    BY <1>0, <1>6, <2>0 DEF StoreType, FilesType, RestType, JobsType, Held
  <2>2. Fresh'
    BY <1>0, <1>6, <2>0 DEF Fresh, Building, Removing, Recorded, Has
  <2>3. Whole'
    <3>1. ASSUME NEW v \in Recorded \ meddled
          PROVE  OfBuild(v, images[v])'
      BY <1>0, <1>4, <1>6 DEF Whole, OfBuild, FilesType
    <3> QED  BY <1>0, <1>6, <2>0, <3>1 DEF Whole, Recorded, Has, Building, Fine
  <2>4. Removal' /\ Wanted'
    BY <1>0, <2>0 DEF Removal, Removing, Wanted, Fine
  <2>5. Spent'
    BY <1>0, <2>0, SpentKept DEF Stays, Has, Removing
  <2>6. Linked'
    BY <1>0, <1>6, <2>0 DEF Linked, Still, Matched, DepsMatch, Recorded, Has
  <2> QED  BY <2>1, <2>2, <2>3, <2>4, <2>5, <2>6, TypeParts DEF IInv
<1> QED  BY <1>3, <1>5, <1>6

LEMMA ExtractDepsStep ==
  ASSUME IInv, ExtractDeps
  PROVE  IInv'
<1> DEFINE n == builder.v
           m == builder.image
           l == lockfile
           k == [m EXCEPT !.deps = TRUE]
           x == [builder EXCEPT !.pc = "put", !.image = k]
<1>0. /\ StoreType /\ FilesType /\ RestType /\ JobsType /\ Held /\ Fresh /\ Whole /\ Wanted
      /\ Spent /\ Linked /\ builder \in Builder /\ builder.pc = "deps" /\ n \in Versions
      /\ m \in Image /\ m.deps = FALSE /\ m.tar /\ m.docker = TRUE /\ l \in Locks
      /\ UNCHANGED <<world, images, pin, disk, tags, container, tree, lockfile, installed,
                     builds, job, want, meddled, raced, given>>
  <2>1. Fresh /\ builder.pc = "deps"
    BY Here DEF ExtractDeps
  <2>2. m \in Image /\ m.tar /\ ~m.deps /\ m.docker
    BY <2>1 DEF Fresh, Building
  <2> QED  BY <2>1, <2>2, Here DEF ExtractDeps, store, boots, history, Image, RestType
<1>1. /\ k \in Image /\ k.build = m.build /\ k.tar = m.tar /\ k.docker = TRUE /\ k.deps = TRUE
      /\ m.build \in Builds
  BY <1>0 DEF Image
<1>2. /\ x \in Builder /\ x.pc = "put" /\ x.v = n /\ x.image = k /\ x.todo = builder.todo
  <2>1. k \in Maybe
    BY <1>1, ImageFacts
  <2> QED  BY <1>0, <2>1 DEF Builder, Positions
<1>3. \/ /\ shared' = IF shared[l] = NoLock THEN [shared EXCEPT ![l] = installed[m.build]]
                      ELSE shared
         /\ deps' = [deps EXCEPT ![n] = l]
         /\ builder' = x
      \/ /\ builder' = [builder EXCEPT !.pc = "put"] /\ UNCHANGED <<shared, deps>>
  BY <1>0 DEF ExtractDeps, To, Builder, Link
<1> HIDE DEF k, x
<1>4. ASSUME NEW v \in Recorded \ meddled
      PROVE  v # n /\ v \in Versions /\ images[v].build \in Builds /\ images[v] \in Image
  BY <1>0, <1>4, BuiltIsNew, ImageFacts DEF Recorded, Fine, Building, Has, StoreType
<1>5. ASSUME NEW v \in Recorded \ meddled PROVE OfBuild(v, images[v])'
  BY <1>0, <1>4, <1>5 DEF Whole, OfBuild
<1>6. CASE /\ shared' = IF shared[l] = NoLock THEN [shared EXCEPT ![l] = installed[m.build]]
                        ELSE shared
           /\ deps' = [deps EXCEPT ![n] = l]
           /\ builder' = x
  <2>1. FilesType'
    <3>1. shared' \in [Locks -> Locks \cup {NoLock}] /\ deps' \in [Versions -> Locks \cup {NoLock}]
      BY <1>0, <1>1, <1>6 DEF FilesType
    <3> QED  BY <1>0, <3>1 DEF FilesType
  <2>2. StoreType' /\ RestType' /\ JobsType' /\ Held'
    BY <1>0, <1>1, <1>2, <1>6 DEF StoreType, RestType, JobsType, Held
  <2>3. Fresh'
    BY <1>0, <1>1, <1>2, <1>6 DEF Fresh, Building, Removing, Recorded, Has
  <2>4. Whole'
    <3>1. Fine(n) => disk[n] = m.build /\ tags[n] = m.build
      BY <1>0 DEF Whole, Building
    <3> QED  BY <1>0, <1>1, <1>2, <1>5, <1>6, <3>1 DEF Whole, Recorded, Has, Building, Fine
  <2>5. Removal' /\ Wanted'
    BY <1>0, <1>2, <1>6 DEF Removal, Removing, Wanted, Fine
  <2>6. Spent'
    BY <1>0, <1>2, <1>6, SpentKept DEF Stays, Has, Removing
  <2>7. Linked'
    <3> SUFFICES ASSUME Still PROVE Matched'
      BY <1>0 DEF Linked, Still
    <3>1. Matched /\ NoLock \notin Locks /\ installed[m.build] = l
      BY <1>0, ConstantsAssumption DEF Linked, Matched, NoLock
    <3>2. \A y \in Locks : shared[y] \in {NoLock, y} /\ shared'[y] \in {NoLock, y}
                           /\ (shared[y] # NoLock => shared'[y] = shared[y])
      BY <1>0, <1>6, <3>1 DEF Matched, FilesType
    <3>3. deps'[n] = l /\ shared'[l] = l /\ l # NoLock
      BY <1>0, <1>6, <3>1, <3>2 DEF FilesType
    <3>4. ASSUME NEW v \in Recorded \ meddled, images[v].deps
          PROVE  /\ deps'[v] # NoLock
                 /\ shared'[deps'[v]] = installed[images[v].build]
      <4>1. deps[v] # NoLock /\ shared[deps[v]] = installed[images[v].build]
        BY <3>1, <3>4 DEF Matched, DepsMatch
      <4>2. deps'[v] = deps[v] /\ deps[v] \in Locks /\ installed[images[v].build] \in Locks
        BY <1>0, <1>4, <1>6, <3>4, <4>1 DEF FilesType
      <4> QED  BY <3>1, <3>2, <4>1, <4>2
    <3>5. DepsMatch'
      BY <1>0, <3>4 DEF DepsMatch, Recorded, Has
    <3> QED  BY <1>0, <1>1, <1>2, <1>6, <3>1, <3>2, <3>3, <3>5 DEF Matched
  <2> QED  BY <2>1, <2>2, <2>3, <2>4, <2>5, <2>6, <2>7, TypeParts DEF IInv
<1>7. CASE builder' = [builder EXCEPT !.pc = "put"] /\ UNCHANGED <<shared, deps>>
  <2>0. /\ builder' \in Builder /\ builder'.pc = "put" /\ builder'.v = n /\ builder'.image = m
        /\ builder'.todo = builder.todo
    BY <1>0, <1>7 DEF Builder, Positions
  <2>1. StoreType' /\ FilesType' /\ RestType' /\ JobsType' /\ Held'
    BY <1>0, <1>7, <2>0 DEF StoreType, FilesType, RestType, JobsType, Held
  <2>2. Fresh'
    BY <1>0, <2>0 DEF Fresh, Building, Removing, Recorded, Has
  <2>3. Whole'
    BY <1>0, <1>5, <2>0 DEF Whole, Recorded, Has, Building, Fine
  <2>4. Removal' /\ Wanted'
    BY <1>0, <2>0 DEF Removal, Removing, Wanted, Fine
  <2>5. Spent'
    BY <1>0, <2>0, SpentKept DEF Stays, Has, Removing
  <2>6. Linked'
    BY <1>0, <1>7, <2>0 DEF Linked, Still, Matched, DepsMatch, Recorded, Has
  <2> QED  BY <2>1, <2>2, <2>3, <2>4, <2>5, <2>6, TypeParts DEF IInv
<1> QED  BY <1>3, <1>6, <1>7

LEMMA PutImageStep ==
  ASSUME IInv, PutImage
  PROVE  IInv'
<1> DEFINE n == builder.v
           m == builder.image
<1>0. /\ StoreType /\ FilesType /\ RestType /\ JobsType /\ Held /\ Fresh /\ Whole /\ Wanted
      /\ Spent /\ Linked /\ builder \in Builder /\ builder.pc = "put" /\ n \in Versions
      /\ m \in Image /\ \A v \in Versions : builder.todo[v] = NoImage
      /\ images' = [images EXCEPT ![n] = m] /\ given' = given \cup {n}
      /\ UNCHANGED <<world, pin, disk, tags, deps, shared, container, tree, lockfile, installed,
                     builds, job, want, meddled, raced>>
  BY Here DEF PutImage, files, boots, Fresh, Building, Removing
<1>1. /\ builder' \in Builder /\ builder'.pc = "collect" /\ builder'.v = n /\ builder'.image = m
      /\ builder'.todo = builder.todo
  BY <1>0 DEF PutImage, To, Builder, Positions
<1>2. /\ images'[n] = m /\ m # NoImage /\ m \in Maybe
      /\ \A v \in Versions : v # n => images'[v] = images[v]
  BY <1>0, ImageFacts DEF StoreType
<1>3. (Recorded \ meddled)' \subseteq (Recorded \ meddled) \cup {n}
      /\ Recorded' \subseteq Versions
  BY <1>0, <1>2 DEF Recorded, Has
<1>4. StoreType' /\ FilesType' /\ RestType' /\ JobsType' /\ Held'
  BY <1>0, <1>1, <1>2 DEF StoreType, FilesType, RestType, JobsType, Held
<1>5. Fresh'
  <2>1. \A v \in (Recorded \ meddled)' : images'[v].build <= builds
    <3> SUFFICES ASSUME NEW v \in (Recorded \ meddled)' PROVE images'[v].build <= builds
      OBVIOUS
    <3>1. CASE v = n
      BY <1>0, <1>2, <3>1 DEF Fresh, Building
    <3>2. CASE v # n
      BY <1>0, <1>2, <1>3, <3>2 DEF Fresh
    <3> QED  BY <3>1, <3>2
  <2> QED  BY <1>0, <1>1, <2>1 DEF Fresh, Building, Removing
<1>6. Whole'
  <2>1. ASSUME NEW v \in (Recorded \ meddled)'
        PROVE  OfBuild(v, images[v])'
    <3>1. CASE v = n
      <4>1. disk[n] = m.build /\ (m.docker => tags[n] = m.build)
        BY <1>0, <2>1, <3>1 DEF Whole, Building, Fine
      <4> QED  BY <1>0, <1>2, <3>1, <4>1 DEF OfBuild
    <3>2. CASE v # n
      BY <1>0, <1>2, <1>3, <2>1, <3>2 DEF Whole, OfBuild, Recorded
    <3> QED  BY <3>1, <3>2
  <2> QED  BY <1>0, <1>1, <2>1 DEF Whole, Building, OfBuild
<1>7. Removal'
  BY <1>0, <1>1 DEF Removal, Removing
<1>8. Wanted'
  <2>1. ASSUME NEW w \in Workloads, NEW v \in Versions,
               pin[w] = v, v \notin meddled', w \notin raced
        PROVE  images'[v] = images[v]
    BY <1>0, <1>2, <2>1, BuiltIsNew DEF Building, Fine
  <2> QED  BY <1>0, <2>1, WantedKept
<1>9. Spent'
  <2>1. \A u \in Versions : Stays(u) => Stays(u)'
    BY <1>0, <1>1, <1>2 DEF Stays, Has, Removing
  <2>2. \A u \in Versions : u = n => Stays(u)'
    BY <1>0, <1>1, <1>2 DEF Stays, Has, Removing
  <2>3. n >= n
    BY <1>0 DEF Versions
  <2> SUFFICES ASSUME NEW v \in given' PROVE \E u \in Versions : u >= v /\ (u \in meddled' \/ Stays(u)')
    BY DEF Spent
  <2>4. CASE v = n
    BY <1>0, <2>2, <2>3, <2>4
  <2>5. CASE v \in given
    <3>1. PICK u \in Versions : u >= v /\ (u \in meddled \/ Stays(u))
      BY <1>0, <2>5 DEF Spent
    <3> QED  BY <1>0, <2>1, <3>1
  <2> QED  BY <1>0, <2>4, <2>5
<1>10. Linked'
  <2> SUFFICES ASSUME Still PROVE Matched'
    BY <1>0 DEF Linked, Still
  <2>1. Matched
    BY <1>0 DEF Linked
  <2>2. DepsMatch'
    <3> SUFFICES ASSUME NEW v \in (Recorded \ meddled)', images'[v].deps
                 PROVE  /\ deps[v] # NoLock
                        /\ shared[deps[v]] = installed[images'[v].build]
      BY <1>0 DEF DepsMatch
    <3>1. CASE v = n
      BY <1>0, <1>2, <2>1, <3>1 DEF Matched, Building, Fine
    <3>2. CASE v # n
      BY <1>0, <1>2, <1>3, <2>1, <3>2 DEF Matched, DepsMatch, Recorded
    <3> QED  BY <3>1, <3>2
  <2> QED  BY <1>0, <1>1, <2>1, <2>2 DEF Matched, Building
<1> QED  BY <1>4, <1>5, <1>6, <1>7, <1>8, <1>9, <1>10, TypeParts DEF IInv

---------------------------------------------------------------------------
\* A collection.

LEMMA CollectStep ==
  ASSUME IInv, Collect
  PROVE  IInv'
<1> DEFINE t == [v \in Versions |-> IF v \in Old(Keep) THEN images[v] ELSE NoImage]
           x == [builder EXCEPT !.pc = "look", !.todo = t]
<1>0. /\ StoreType /\ FilesType /\ RestType /\ JobsType /\ Held /\ Fresh /\ Whole /\ Wanted
      /\ Spent /\ Linked /\ builder \in Builder /\ builder.pc = "collect"
      /\ UNCHANGED <<world, images, pin, disk, tags, deps, shared, container, tree, lockfile,
                     installed, builds, job, want, meddled, raced, given>>
  BY Here DEF Collect, store, files, boots, history
<1>1. t \in [Versions -> Maybe] /\ \A v \in Versions : v \notin Old(Keep) => t[v] = NoImage
  BY <1>0, ImageFacts DEF StoreType
<1> HIDE DEF t
<1>2. x \in Builder /\ x.pc = "look" /\ x.todo = t /\ x.v = builder.v /\ x.image = builder.image
  BY <1>0, <1>1 DEF Builder, Positions
<1>3. builder' = x
  BY DEF Collect, t
<1> HIDE DEF x
<1>4. StoreType' /\ FilesType' /\ RestType' /\ JobsType' /\ Held'
  BY <1>0, <1>2, <1>3 DEF StoreType, FilesType, RestType, JobsType, Held
<1>5. Fresh' /\ Whole' /\ Removal' /\ Wanted'
  <2>1. Fresh' /\ Removal' /\ Wanted'
    BY <1>0, <1>2, <1>3 DEF Fresh, Building, Removing, Recorded, Has, Removal, Wanted, Fine
  <2>2. Whole'
    BY <1>0, <1>2, <1>3 DEF Whole, Building, Recorded, Has, OfBuild
  <2> QED  BY <2>1, <2>2
<1>6. Spent'
  <2> SUFFICES ASSUME NEW v \in given PROVE \E u \in Versions : u >= v /\ (u \in meddled' \/ Stays(u)')
    BY <1>0 DEF Spent
  <2>1. PICK u \in Versions : u >= v /\ (u \in meddled \/ Stays(u))
    BY <1>0 DEF Spent
  <2>2. CASE u \in meddled
    BY <1>0, <2>1, <2>2
  <2>3. CASE Stays(u)
    <3>1. Recorded \in SUBSET (0..MaxVersion) /\ Recorded \subseteq Versions /\ u \in Recorded
      BY <2>3, ConstantsAssumption DEF Recorded, Versions, Stays
    <3>2. PICK top \in Recorded : \A y \in Recorded : top >= y
      BY <3>1, MaxIs
    <3>3. \A y \in Recorded : y \in Int /\ top \in Int /\ ~(y > top)
      BY <3>1, <3>2 DEF Versions
    <3>4. {y \in Recorded : y > top} = {}
      BY <3>3
    <3>5. top \notin Old(Keep)
      <4>1. Cardinality({y \in Recorded : y > top}) = 0 /\ ~(0 >= Keep)
        BY <3>4, FS_EmptySet, ConstantsAssumption
      <4> QED  BY <4>1 DEF Old
    <3>6. top >= v
      <4>1. top >= u /\ u >= v /\ top \in Int /\ u \in Int /\ v \in Int
        BY <1>0, <2>1, <3>1, <3>2 DEF Versions, RestType
      <4> QED  BY <4>1
    <3>7. Has(top) /\ top \in Versions
      BY <3>1, <3>2 DEF Recorded
    <3>8. Stays(top)'
      BY <1>0, <1>1, <1>2, <1>3, <3>5, <3>7 DEF Stays, Removing, Has
    <3> QED  BY <3>6, <3>7, <3>8
  <2> QED  BY <2>1, <2>2, <2>3
<1>7. Linked'
  BY <1>0, <1>2, <1>3 DEF Linked, Still, Matched, DepsMatch, Recorded, Has, Building
<1> QED  BY <1>4, <1>5, <1>6, <1>7, TypeParts DEF IInv

LEMMA LookStep ==
  ASSUME IInv, Look
  PROVE  IInv'
<1> DEFINE todo == {v \in Versions : builder.todo[v] # NoImage}
           n == Max(todo)
           m == builder.todo[n]
           t == [builder.todo EXCEPT ![n] = NoImage]
           done == [builder EXCEPT !.todo = t, !.v = n, !.image = m]
<1>0. /\ StoreType /\ FilesType /\ RestType /\ JobsType /\ Held /\ Fresh /\ Whole /\ Wanted
      /\ Spent /\ Linked /\ builder \in Builder /\ builder.pc = "look"
      /\ UNCHANGED <<world, images, pin, disk, tags, deps, shared, container, tree, lockfile,
                     installed, builds, job, want, meddled, raced, given>>
  BY Here DEF Look, store, files, boots, history
<1>1. CASE todo = {}
  <2>1. builder' = NoBuild /\ \A v \in Versions : builder.todo[v] = NoImage
    BY <1>1 DEF Look
  <2>2. StoreType' /\ FilesType' /\ RestType' /\ JobsType' /\ Held'
    BY <1>0, <2>1, NoBuildIs DEF StoreType, FilesType, RestType, JobsType, Held
  <2>3. Fresh'
    BY <1>0, <2>1, NoBuildIs DEF Fresh, Building, Removing, Recorded, Has
  <2>4. Whole'
    BY <1>0, <2>1, NoBuildIs DEF Whole, Building, Recorded, Has, OfBuild
  <2>5. Removal' /\ Wanted' /\ Linked'
    BY <1>0, <2>1, NoBuildIs DEF Removal, Removing, Wanted, Fine, Linked, Still, Matched,
       DepsMatch, Recorded, Has, Building
  <2>6. Spent'
    BY <1>0, <2>1, NoBuildIs, SpentKept DEF Stays, Has, Removing
  <2> QED  BY <2>2, <2>3, <2>4, <2>5, <2>6, TypeParts DEF IInv
<1>2. CASE todo # {}
  <2>1. n \in Versions /\ m # NoImage
    <3>1. todo \in SUBSET (0..MaxVersion)
      BY ConstantsAssumption DEF Versions
    <3> QED  BY <1>2, <3>1, MaxIs
  <2>2. m \in Image /\ m \in Maybe
    BY <1>0, <2>1, ImageFacts DEF Builder
  <2>3. t \in [Versions -> Maybe] /\ t[n] = NoImage /\ \A v \in Versions : v # n => t[v] = builder.todo[v]
    BY <1>0, <2>1, ImageFacts DEF Builder
  <2>4. builder' = [done EXCEPT !.pc = IF Referenced(n, done.image) THEN "look" ELSE "rmi"] \/ builder' = done
    BY <1>0, <1>2 DEF Look, Builder
  <2> HIDE DEF n, m, t
  <2>5. done \in Builder /\ done.todo = t /\ done.v = n /\ done.image = m /\ done.pc = "look"
    BY <1>0, <2>1, <2>2, <2>3 DEF Builder
  <2> HIDE DEF done
  <2>6. /\ builder' \in Builder /\ builder'.todo = t /\ builder'.v = n /\ builder'.image = m
        /\ \/ builder'.pc = "look"
           \/ builder'.pc = "rmi" /\ ~Referenced(n, m)
    BY <2>4, <2>5 DEF Builder, Positions
  <2>7. StoreType' /\ FilesType' /\ RestType' /\ JobsType' /\ Held'
    BY <1>0, <2>6 DEF StoreType, FilesType, RestType, JobsType, Held
  <2>8. Fresh'
    BY <1>0, <2>6 DEF Fresh, Building, Removing, Recorded, Has
  <2>9. Whole'
    BY <1>0, <2>6 DEF Whole, Building, Recorded, Has, OfBuild
  <2>10. Removal' /\ Wanted' /\ Linked'
    BY <1>0, <2>6 DEF Removal, Removing, Wanted, Fine, Linked, Still, Matched,
       DepsMatch, Recorded, Has, Building, Referenced
  <2>11. Spent'
    <3>1. \A u \in Versions : Stays(u) => Stays(u)'
      <4> SUFFICES ASSUME NEW u \in Versions, Stays(u) PROVE Stays(u)'
        OBVIOUS
      <4>1. u # n
        BY <2>1, <2>6 DEF Stays, m
      <4> QED  BY <1>0, <2>3, <2>6, <4>1 DEF Stays, Has
    <3> QED  BY <1>0, <3>1, SpentKept
  <2> QED  BY <2>7, <2>8, <2>9, <2>10, <2>11, TypeParts DEF IInv
<1> QED  BY <1>1, <1>2

LEMMA RemoveTagStep ==
  ASSUME IInv, RemoveTag
  PROVE  IInv'
<1> DEFINE n == builder.v
<1>0. /\ StoreType /\ FilesType /\ RestType /\ JobsType /\ Held /\ Fresh /\ Whole /\ Wanted
      /\ Removal /\ Spent /\ Linked /\ builder \in Builder /\ builder.pc = "rmi" /\ n \in Versions
      /\ UNCHANGED <<world, images, pin, disk, deps, shared, container, tree, lockfile,
                     installed, builds, job, want, meddled, raced, given>>
  BY Here DEF RemoveTag, store, boots, history
<1>1. /\ builder' \in Builder /\ builder'.pc = "record" /\ builder'.v = n
      /\ builder'.image = builder.image /\ builder'.todo = builder.todo
  BY <1>0 DEF RemoveTag, To, Builder, Positions
<1>2. /\ tags' \in [Versions -> Builds \cup {None}]
      /\ \A v \in Versions : v # n => tags'[v] = tags[v]
  BY <1>0 DEF RemoveTag, FilesType
<1>3. StoreType' /\ FilesType' /\ RestType' /\ JobsType' /\ Held'
  BY <1>0, <1>1, <1>2 DEF StoreType, FilesType, RestType, JobsType, Held
<1>4. Fresh'
  BY <1>0, <1>1 DEF Fresh, Building, Removing, Recorded, Has
<1>5. Whole'
  BY <1>0, <1>1, <1>2 DEF Whole, Building, Recorded, Has, OfBuild
<1>6. Removal' /\ Wanted' /\ Linked'
  BY <1>0, <1>1 DEF Removal, Removing, Wanted, Fine, Linked, Still, Matched,
     DepsMatch, Recorded, Has, Building
<1>7. Spent'
  BY <1>0, <1>1, SpentKept DEF Stays, Has, Removing
<1> QED  BY <1>3, <1>4, <1>5, <1>6, <1>7, TypeParts DEF IInv

LEMMA RemoveRecordStep ==
  ASSUME IInv, RemoveRecord
  PROVE  IInv'
<1> DEFINE n == builder.v
<1>0. /\ StoreType /\ FilesType /\ RestType /\ JobsType /\ Held /\ Fresh /\ Whole /\ Wanted
      /\ Removal /\ Spent /\ Linked /\ builder \in Builder /\ builder.pc = "record" /\ n \in Versions
      /\ images' = [images EXCEPT ![n] = NoImage]
      /\ UNCHANGED <<world, pin, disk, tags, deps, shared, container, tree, lockfile,
                     installed, builds, job, want, meddled, raced, given>>
  BY Here DEF RemoveRecord, files, boots, history
<1>1. /\ builder' \in Builder /\ builder'.pc \in {"dir", "look"} /\ builder'.v = n
      /\ builder'.image = builder.image /\ builder'.todo = builder.todo
  BY <1>0 DEF RemoveRecord, To, Builder, Positions
<1>2. images'[n] = NoImage /\ \A v \in Versions : v # n => images'[v] = images[v]
  BY <1>0 DEF StoreType
<1>3. StoreType' /\ FilesType' /\ RestType' /\ JobsType' /\ Held'
  BY <1>0, <1>1, ImageFacts DEF StoreType, FilesType, RestType, JobsType, Held
<1>4. Recorded' \subseteq Recorded \ {n} /\ \A v \in Recorded' : images'[v] = images[v]
  BY <1>2 DEF Recorded, Has
<1>5. Fresh'
  BY <1>0, <1>1, <1>4 DEF Fresh, Building, Removing
<1>6. Whole'
  <2>1. ASSUME NEW v \in (Recorded \ meddled)'
        PROVE  OfBuild(v, images[v])'
    BY <1>0, <1>4, <2>1 DEF Whole, OfBuild
  <2> QED  BY <1>1, <2>1 DEF Whole, Building
<1>7. Removal'
  BY <1>0, <1>1, <1>2 DEF Removal, Removing, Has
<1>8. Wanted'
  <2>1. \A w \in Workloads, v \in Versions :
            pin[w] = v /\ v \notin meddled' /\ w \notin raced /\ Has(v) => images'[v] = images[v]
    BY <1>0, <1>2 DEF Removal, Removing
  <2> QED  BY <1>0, <2>1, WantedKept
<1>9. Spent'
  <2>1. \A u \in Versions : Stays(u) => Stays(u)'
    BY <1>0, <1>1, <1>2 DEF Stays, Has, Removing
  <2> QED  BY <1>0, <2>1, SpentKept
<1>10. Linked'
  <2> SUFFICES ASSUME Still PROVE Matched'
    BY <1>0 DEF Linked, Still
  <2>1. Matched
    BY <1>0 DEF Linked
  <2>2. DepsMatch'
    BY <1>0, <1>4, <2>1 DEF Matched, DepsMatch
  <2> QED  BY <1>0, <1>1, <2>1, <2>2 DEF Matched, Building
<1> QED  BY <1>3, <1>5, <1>6, <1>7, <1>8, <1>9, <1>10, TypeParts DEF IInv

LEMMA RemoveDirStep ==
  ASSUME IInv, RemoveDir
  PROVE  IInv'
<1> DEFINE n == builder.v
<1>0. /\ StoreType /\ FilesType /\ RestType /\ JobsType /\ Held /\ Fresh /\ Whole /\ Wanted
      /\ Removal /\ Spent /\ Linked /\ builder \in Builder /\ builder.pc = "dir" /\ n \in Versions
      /\ disk' = [disk EXCEPT ![n] = None] /\ deps' = [deps EXCEPT ![n] = NoLock]
      /\ UNCHANGED <<world, images, pin, tags, shared, container, tree, lockfile,
                     installed, builds, job, want, meddled, raced, given>>
  BY Here DEF RemoveDir, store, boots, history
<1>1. /\ builder' \in Builder /\ builder'.pc = "look" /\ builder'.v = n
      /\ builder'.image = builder.image /\ builder'.todo = builder.todo
  BY <1>0 DEF RemoveDir, To, Builder, Positions
<1>2. \A v \in Recorded \ meddled : v # n /\ v \in Versions
  BY <1>0 DEF Removal, Fine, Recorded
<1>3. StoreType' /\ FilesType' /\ RestType' /\ JobsType' /\ Held'
  BY <1>0, <1>1 DEF StoreType, FilesType, RestType, JobsType, Held
<1>4. Fresh'
  BY <1>0, <1>1 DEF Fresh, Building, Removing, Recorded, Has
<1>5. Whole'
  <2>1. ASSUME NEW v \in Recorded \ meddled
        PROVE  OfBuild(v, images[v])'
    BY <1>0, <1>2, <2>1 DEF Whole, OfBuild, FilesType
  <2> QED  BY <1>0, <1>1, <2>1 DEF Whole, Building, Recorded, Has
<1>6. Removal' /\ Wanted'
  BY <1>0, <1>1 DEF Removal, Removing, Wanted, Fine
<1>7. Linked'
  <2> SUFFICES ASSUME Still PROVE Matched'
    BY <1>0 DEF Linked, Still
  <2>1. Matched /\ \A v \in Recorded \ meddled : deps'[v] = deps[v]
    BY <1>0, <1>2 DEF Linked, FilesType
  <2>2. DepsMatch'
    BY <1>0, <2>1 DEF Matched, DepsMatch, Recorded, Has
  <2> QED  BY <1>0, <1>1, <2>1, <2>2 DEF Matched, Building
<1>8. Spent'
  BY <1>0, <1>1, SpentKept DEF Stays, Has, Removing
<1> QED  BY <1>3, <1>4, <1>5, <1>6, <1>7, <1>8, TypeParts DEF IInv

---------------------------------------------------------------------------
\* Calls.

\* One client's job is another.
LEMMA JobsTyped ==
  ASSUME JobsType, Held, NEW c \in Clients, NEW j \in Job, job' = [job EXCEPT ![c] = j],
         builder' = builder, j.pc \in {"register", "pin", "put"} => j.image \in Image
  PROVE  JobsType' /\ Held'
  BY DEF JobsType, Held

LEMMA BeginStep ==
  ASSUME IInv, NEW c \in Clients, NEW op \in AllOps, NEW v \in Versions, NEW w \in Workloads,
         NEW p \in {"register", "pin", "dir", "record", "put"},
         Has(v), Begin(c, op, p, v, w)
  PROVE  IInv'
<1> DEFINE j == [op |-> op, pc |-> p, v |-> v, w |-> w, image |-> images[v]]
<1>0. /\ StoreType /\ FilesType /\ RestType /\ JobsType /\ Held
      /\ UNCHANGED <<world, images, pin, files, container, tree, lockfile, installed, builds,
                     builder, history>>
  BY Here DEF Begin, store, boots
<1>1. images[v] \in Image /\ images[v] \in Maybe
  BY <1>0, ImageFacts DEF StoreType, Has
<1>2. j \in Job /\ j.image \in Image
  BY <1>1 DEF Job
<1>3. job' = [job EXCEPT ![c] = j]
  BY DEF Begin
<1> HIDE DEF j
<1>4. JobsType' /\ Held'
  BY <1>0, <1>2, <1>3, JobsTyped
<1>5. StoreType' /\ FilesType' /\ RestType'
  BY <1>0 DEF StoreType, FilesType, RestType, files, history
<1>6. Fresh' /\ Whole' /\ Removal' /\ Wanted' /\ Spent' /\ Linked'
  BY <1>0, CoreKept
<1> QED  BY <1>4, <1>5, <1>6, TypeParts DEF IInv

LEMMA CallStep ==
  ASSUME IInv, NEW c \in Clients, NEW v \in Versions,
         \/ CallDelete(c, v) \/ CallPush(c, v)
         \/ \E w \in Workloads : CallCreate(c, v, w) \/ CallSetImage(c, v, w)
  PROVE  IInv'
<1>1. ASSUME CallDelete(c, v) PROVE IInv'
  <2>1. Has(v) /\ NoJob.w \in Workloads
    BY <1>1, NoJobIs DEF CallDelete
  <2>2. Begin(c, "delete", "dir", v, NoJob.w) \/ Begin(c, "delete", "record", v, NoJob.w)
    BY <1>1 DEF CallDelete
  <2> QED  BY <2>1, <2>2, BeginStep DEF AllOps
<1>2. ASSUME CallPush(c, v) PROVE IInv'
  BY <1>2, NoJobIs, BeginStep DEF CallPush, AllOps
<1>3. ASSUME NEW w \in Workloads, CallCreate(c, v, w) PROVE IInv'
  BY <1>3, BeginStep DEF CallCreate, AllOps
<1>4. ASSUME NEW w \in Workloads, CallSetImage(c, v, w) PROVE IInv'
  BY <1>4, BeginStep DEF CallSetImage, AllOps
<1> QED  BY <1>1, <1>2, <1>3, <1>4

---------------------------------------------------------------------------
\* Workloads.

LEMMA PinStep ==
  ASSUME IInv, NEW w \in Workloads, NEW v \in Versions, NEW image \in Image, Pin(w, v, image),
         JobsType', Held',
         UNCHANGED <<world, images, files, boots, lockfile, installed, builds, builder>>
  PROVE  IInv'
<1>0. /\ StoreType /\ FilesType /\ RestType /\ JobsType /\ Fresh /\ Whole /\ Wanted
      /\ Removal /\ Spent /\ Linked
      /\ pin' = [pin EXCEPT ![w] = v] /\ want' = [want EXCEPT ![w] = image.build]
      /\ image.build \in Builds
      /\ UNCHANGED <<world, images, disk, tags, deps, shared, container, tree, lockfile, installed,
                     builds, builder, meddled, given>>
  BY Here, ImageFacts DEF Pin, files, boots
<1>1. /\ raced' \subseteq Workloads /\ \A y \in Workloads : y # w => (y \in raced' <=> y \in raced)
      /\ w \notin raced' => images[v] = image /\ ~(builder.v = v /\ builder.pc \in Removing)
  BY <1>0 DEF Pin, RestType, Removing
<1>2. /\ pin'[w] = v /\ want'[w] = image.build
      /\ \A y \in Workloads : y # w => pin'[y] = pin[y] /\ want'[y] = want[y]
  BY <1>0 DEF StoreType, RestType
<1>3. StoreType' /\ FilesType' /\ RestType'
  BY <1>0, <1>1 DEF StoreType, FilesType, RestType
<1>4. Fresh' /\ Whole' /\ Linked'
  <2>1. Fresh'
    BY <1>0 DEF Fresh, Building, Removing, Recorded, Has
  <2>2. Whole'
    BY <1>0 DEF Whole, Building, Recorded, Has, OfBuild, Fine
  <2>3. Linked'
    BY <1>0 DEF Linked, Still, Matched, DepsMatch, Recorded, Has, Building, Fine
  <2> QED  BY <2>1, <2>2, <2>3
<1>5. Removal'
  <2>1. ASSUME builder.pc \in Removing, NEW y \in Workloads, pin'[y] = builder.v
        PROVE  y \in raced'
    BY <1>0, <1>1, <1>2, <2>1 DEF Removal
  <2> QED  BY <1>0, <2>1 DEF Removal, Has, Fine
<1>6. Wanted'
  <2> SUFFICES ASSUME NEW y \in Workloads, pin'[y] # None, pin'[y] \notin meddled, y \notin raced'
               PROVE  want'[y] \in Builds /\ images[pin'[y]].build = want'[y]
    BY <1>0 DEF Wanted, Fine
  <2> QED  BY <1>0, <1>1, <1>2 DEF Wanted, Fine
<1>7. Spent'
  BY <1>0 DEF Spent, Stays, Has
<1> QED  BY <1>3, <1>4, <1>5, <1>6, <1>7, TypeParts DEF IInv

LEMMA RegisterStep ==
  ASSUME IInv, NEW c \in Clients, Register(c) \/ PinImage(c)
  PROVE  IInv'
<1> DEFINE j == job[c]
<1>0. /\ JobsType /\ Held /\ j \in Job /\ j.v \in Versions /\ j.w \in Workloads /\ j.image \in Image
      /\ Pin(j.w, j.v, j.image)
      /\ UNCHANGED <<world, images, files, boots, lockfile, installed, builds, builder>>
  <2>1. JobsType /\ Held /\ j \in Job /\ j.pc \in {"register", "pin"}
    BY Here DEF Register, PinImage, JobsType
  <2> QED  BY <2>1 DEF Register, PinImage, Job, Held
<1>1. PICK k \in Job : job' = [job EXCEPT ![c] = k] /\ k.pc \in {"open", "idle"}
  <2> DEFINE o == [j EXCEPT !.pc = "open"]
  <2>1. o \in Job /\ o.pc = "open"
    BY <1>0 DEF Job
  <2>2. job' = [job EXCEPT ![c] = o] \/ job' = [job EXCEPT ![c] = NoJob]
    BY DEF Register, PinImage, End
  <2> QED  BY <2>1, <2>2, NoJobIs
<1>2. JobsType' /\ Held'
  BY <1>0, <1>1, JobsTyped
<1> QED  BY <1>0, <1>2, PinStep

LEMMA MaterializeStep ==
  ASSUME IInv, NEW c \in Clients, Materialize(c)
  PROVE  IInv'
<1>0. /\ StoreType /\ FilesType /\ RestType /\ JobsType /\ Held
      /\ UNCHANGED <<world, images, pin, files, container, lockfile, installed, builds,
                     builder, history>>
      /\ job' = [job EXCEPT ![c] = NoJob] /\ job[c] \in Job /\ job[c].w \in Workloads
  BY Here DEF Materialize, store, End, JobsType, Job
<1>1. tree' \in [Workloads -> Builds \cup {None}]
  BY <1>0 DEF Materialize, RestType
<1>2. StoreType' /\ FilesType' /\ RestType'
  BY <1>0, <1>1 DEF StoreType, FilesType, RestType, files, history
<1>3. JobsType' /\ Held'
  BY <1>0, NoJobIs, JobsTyped
<1>4. Fresh' /\ Whole' /\ Removal' /\ Wanted' /\ Spent' /\ Linked'
  BY <1>0, CoreKept
<1> QED  BY <1>2, <1>3, <1>4, TypeParts DEF IInv

LEMMA BootStep ==
  ASSUME IInv, NEW w \in Workloads, Boot(w)
  PROVE  IInv'
<1>0. /\ StoreType /\ FilesType /\ RestType /\ JobsType /\ Held
      /\ UNCHANGED <<world, images, pin, files, tree, lockfile, installed, builds,
                     builder, history, job>>
  BY Here DEF Boot, store
<1>1. container' \in [Workloads -> Builds \cup {None, Default}]
  <2>1. pin[w] \in Versions
    BY <1>0 DEF Boot, StoreType
  <2>2. Has(pin[w]) => Tagged(pin[w]) \in Builds \cup {None}
    BY <1>0, <2>1, ImageFacts DEF Has, Tagged, StoreType, FilesType
  <2>3. PICK y \in Builds \cup {None, Default} : container' = [container EXCEPT ![w] = y]
    BY <2>2 DEF Boot
  <2> QED  BY <1>0, <2>3 DEF RestType
<1>2. StoreType' /\ FilesType' /\ RestType' /\ JobsType' /\ Held'
  BY <1>0, <1>1 DEF StoreType, FilesType, RestType, files, history, JobsType, Held
<1>4. Fresh' /\ Whole' /\ Removal' /\ Wanted' /\ Spent' /\ Linked'
  BY <1>0, CoreKept
<1> QED  BY <1>2, <1>4, TypeParts DEF IInv

LEMMA DeleteWorkloadStep ==
  ASSUME IInv, NEW w \in Workloads, DeleteWorkload(w)
  PROVE  IInv'
<1>0. /\ StoreType /\ FilesType /\ RestType /\ JobsType /\ Held /\ Fresh /\ Whole /\ Wanted
      /\ Removal /\ Spent /\ Linked /\ builder.v \in Versions
      /\ pin' = [pin EXCEPT ![w] = None] /\ container' = [container EXCEPT ![w] = None]
      /\ tree' = [tree EXCEPT ![w] = None]
      /\ UNCHANGED <<world, images, disk, tags, deps, shared, lockfile, installed,
                     builds, builder, job, want, meddled, raced, given>>
  BY Here DEF DeleteWorkload, files, history
<1>1. pin'[w] = None /\ \A y \in Workloads : y # w => pin'[y] = pin[y]
  BY <1>0 DEF StoreType
<1>2. StoreType' /\ FilesType' /\ RestType' /\ JobsType' /\ Held'
  BY <1>0 DEF StoreType, FilesType, RestType, JobsType, Held
<1>3. Fresh' /\ Whole' /\ Linked'
  <2>1. Fresh'
    BY <1>0 DEF Fresh, Building, Removing, Recorded, Has
  <2>2. Whole'
    BY <1>0 DEF Whole, Building, Recorded, Has, OfBuild, Fine
  <2>3. Linked'
    BY <1>0 DEF Linked, Still, Matched, DepsMatch, Recorded, Has, Building, Fine
  <2> QED  BY <2>1, <2>2, <2>3
<1>4. Removal'
  BY <1>0, <1>1, ImageFacts DEF Removal, Has, Fine
<1>5. Wanted' /\ Spent'
  BY <1>0, <1>1 DEF Wanted, Fine, Spent, Stays, Has
<1> QED  BY <1>2, <1>3, <1>4, <1>5, TypeParts DEF IInv

---------------------------------------------------------------------------
\* Operators and orchd.

\* Whatever is done to a version that counts as meddled with.
LEMMA Meddled ==
  ASSUME IInv, NEW v \in Versions, meddled' = meddled \cup {v},
         \A u \in Versions : u # v => /\ images'[u] = images[u] /\ disk'[u] = disk[u]
                                      /\ deps'[u] = deps[u],
         builds' \in Nat, builds <= builds',
         UNCHANGED <<world, pin, tags, shared, lockfile, installed, builder, want, raced, given>>
  PROVE  Fresh' /\ Whole' /\ Removal' /\ Wanted' /\ Spent' /\ Linked'
<1>0. /\ StoreType /\ Fresh /\ Whole /\ Wanted /\ Removal /\ Spent /\ Linked /\ builder.v \in Versions
      /\ builds \in Nat
  BY Here, ConstantsAssumption DEF FilesType
<1>1. /\ (Recorded \ meddled)' \subseteq Recorded \ meddled
      /\ \A u \in (Recorded \ meddled)' : /\ u # v /\ u \in Versions /\ images'[u] = images[u]
                                          /\ disk'[u] = disk[u] /\ deps'[u] = deps[u]
  BY DEF Recorded, Has
<1>2. Fresh'
  <2>1. ASSUME NEW u \in (Recorded \ meddled)' PROVE images'[u].build <= builds'
    <3>1. images[u] \in Image /\ images[u].build \in Nat /\ images[u].build <= builds
      <4>1. images[u] \in Image /\ images[u].build <= builds
        BY <1>0, <1>1, ImageFacts DEF Fresh, Recorded, Has, StoreType
      <4> QED  BY <4>1, ImageFacts DEF Builds
    <3> QED  BY <1>0, <1>1, <3>1
  <2>2. ASSUME builder.pc \in Building PROVE builder.image.build <= builds'
    <3>1. builder.image \in Image /\ builder.image.build <= builds
      BY <1>0, <2>2 DEF Fresh
    <3>2. builder.image.build \in Nat
      BY <3>1, ImageFacts DEF Builds
    <3> QED  BY <1>0, <3>1, <3>2
  <2> QED  BY <1>0, <1>1, <2>1, <2>2 DEF Fresh
<1>3. Whole'
  <2>1. ASSUME NEW u \in (Recorded \ meddled)', ~(builder.v = u /\ builder.pc = "record")
        PROVE  OfBuild(u, images[u])'
    BY <1>0, <1>1, <2>1 DEF Whole, OfBuild
  <2>2. ASSUME builder.v \notin meddled' PROVE builder.v # v /\ disk'[builder.v] = disk[builder.v]
    BY <1>0, <2>2
  <2> QED  BY <1>0, <2>1, <2>2 DEF Whole, Fine
<1>4. Removal'
  BY <1>0 DEF Removal, Has, Fine
<1>5. Wanted'
  BY <1>0, WantedKept
<1>6. Spent'
  BY <1>0, SpentKept DEF Stays, Has
<1>7. Linked'
  <2> SUFFICES ASSUME Still PROVE Matched'
    BY <1>0 DEF Linked, Still
  <2>1. Matched
    BY <1>0 DEF Linked
  <2>2. DepsMatch'
    BY <1>0, <1>1, <2>1 DEF Matched, DepsMatch
  <2>3. ASSUME builder.v \notin meddled' PROVE deps'[builder.v] = deps[builder.v] /\ builder.v \notin meddled
    BY <1>0, <2>3
  <2> QED  BY <1>0, <2>1, <2>2, <2>3 DEF Matched, Fine
<1> QED  BY <1>2, <1>3, <1>4, <1>5, <1>6, <1>7

LEMMA DeleteDirStep ==
  ASSUME IInv, NEW c \in Clients, DeleteDir(c)
  PROVE  IInv'
<1> DEFINE j == [job[c] EXCEPT !.pc = "record"]
<1>0. /\ StoreType /\ FilesType /\ RestType /\ JobsType /\ Held /\ job[c] \in Job /\ job[c].pc = "dir"
      /\ UNCHANGED <<world, images, pin, tags, shared, container, tree, lockfile, installed, builds,
                     builder, want, raced, given>>
  BY Here DEF DeleteDir, store, boots, JobsType
<1>1. job[c].v \in Versions /\ j \in Job /\ j.pc = "record" /\ builds \in Nat /\ builds <= builds
  BY <1>0, ConstantsAssumption DEF Job, FilesType
<1>2. job' = [job EXCEPT ![c] = j]
  BY DEF DeleteDir
<1> HIDE DEF j
<1> DEFINE v == job[c].v
<1>3. disk' = [disk EXCEPT ![v] = None] /\ deps' = [deps EXCEPT ![v] = NoLock]
      /\ meddled' = meddled \cup {v} /\ v \in Versions
  BY <1>1 DEF DeleteDir
<1> HIDE DEF v
<1>4. JobsType' /\ Held'
  BY <1>0, <1>1, <1>2, JobsTyped
<1>5. StoreType' /\ FilesType' /\ RestType'
  BY <1>0, <1>3 DEF StoreType, FilesType, RestType
<1>6. \A u \in Versions : u # v => images'[u] = images[u] /\ disk'[u] = disk[u] /\ deps'[u] = deps[u]
  BY <1>0, <1>3 DEF FilesType
<1>7. Fresh' /\ Whole' /\ Removal' /\ Wanted' /\ Spent' /\ Linked'
  BY <1>0, <1>1, <1>3, <1>6, Meddled
<1> QED  BY <1>4, <1>5, <1>7, TypeParts DEF IInv

LEMMA DeleteRecordStep ==
  ASSUME IInv, NEW c \in Clients, DeleteRecord(c)
  PROVE  IInv'
<1> DEFINE v == job[c].v
<1>0. /\ StoreType /\ FilesType /\ RestType /\ JobsType /\ Held /\ v \in Versions
      /\ builds \in Nat /\ builds <= builds
      /\ UNCHANGED <<world, pin, disk, tags, deps, shared, container, tree, lockfile, installed,
                     builds, builder, want, raced, given>>
      /\ images' = [images EXCEPT ![v] = NoImage] /\ meddled' = meddled \cup {v}
      /\ job' = [job EXCEPT ![c] = NoJob]
  BY Here, ConstantsAssumption DEF DeleteRecord, files, boots, End, JobsType, Job, FilesType
<1> HIDE DEF v
<1>1. JobsType' /\ Held'
  BY <1>0, NoJobIs, JobsTyped
<1>2. StoreType' /\ FilesType' /\ RestType'
  BY <1>0, ImageFacts DEF StoreType, FilesType, RestType
<1>3. \A u \in Versions : u # v => images'[u] = images[u] /\ disk'[u] = disk[u] /\ deps'[u] = deps[u]
  BY <1>0 DEF StoreType
<1>4. Fresh' /\ Whole' /\ Removal' /\ Wanted' /\ Spent' /\ Linked'
  BY <1>0, <1>3, Meddled
<1> QED  BY <1>1, <1>2, <1>4, TypeParts DEF IInv

LEMMA PutPushedStep ==
  ASSUME IInv, NEW c \in Clients, PutPushed(c)
  PROVE  IInv'
<1> DEFINE v == job[c].v
           m == job[c].image
<1>0. /\ StoreType /\ FilesType /\ RestType /\ JobsType /\ Held /\ v \in Versions /\ m \in Image
      /\ builds \in Nat /\ builds <= builds
      /\ UNCHANGED <<world, pin, disk, tags, deps, shared, container, tree, lockfile, installed,
                     builds, builder, want, raced, given>>
      /\ images' = [images EXCEPT ![v] = m]
      /\ meddled' = IF images[v] = m THEN meddled ELSE meddled \cup {v}
      /\ job' = [job EXCEPT ![c] = NoJob]
  <2>1. job[c] \in Job /\ job[c].pc = "put" /\ m \in Image
    BY Here DEF PutPushed, JobsType, Held
  <2> QED  BY <2>1, Here, ConstantsAssumption DEF PutPushed, files, boots, End, Job, FilesType
<1> HIDE DEF v, m
<1>1. JobsType' /\ Held'
  BY <1>0, NoJobIs, JobsTyped
<1>2. StoreType' /\ FilesType' /\ RestType'
  BY <1>0, ImageFacts DEF StoreType, FilesType, RestType
<1>3. \A u \in Versions : u # v => images'[u] = images[u] /\ disk'[u] = disk[u] /\ deps'[u] = deps[u]
  BY <1>0 DEF StoreType
<1>4. Fresh' /\ Whole' /\ Removal' /\ Wanted' /\ Spent' /\ Linked'
  <2>1. CASE images[v] = m
    <3>1. images' = images /\ meddled' = meddled
      BY <1>0, <2>1 DEF StoreType
    <3> QED  BY <1>0, <3>1, CoreKept DEF files, history
  <2>2. CASE images[v] # m
    BY <1>0, <1>3, <2>2, Meddled
  <2> QED  BY <2>1, <2>2
<1> QED  BY <1>1, <1>2, <1>4, TypeParts DEF IInv

LEMMA ImportStep ==
  ASSUME IInv, NEW v \in Versions, Import(v)
  PROVE  IInv'
<1> DEFINE m == [build |-> builds', tar |-> FALSE, docker |-> TRUE, deps |-> FALSE]
<1>0. /\ StoreType /\ FilesType /\ RestType /\ JobsType /\ Held
      /\ UNCHANGED <<world, pin, disk, tags, deps, shared, container, tree, lockfile, installed,
                     builder, job, want, raced, given>>
      /\ images' = [images EXCEPT ![v] = m] /\ meddled' = meddled \cup {v}
  BY Here DEF Import, files, boots
<1>1. builds \in Nat /\ builds' = builds + 1 /\ builds' \in Builds /\ builds' \in 0..MaxBuilds
      /\ builds' \in Nat /\ builds <= builds'
  <2>1. world.builds \in 0..MaxBuilds /\ MaxBuilds \in Nat
    BY <1>0, ConstantsAssumption DEF RestType
  <2>2. builds \in Nat /\ builds < world.builds /\ builds' = builds + 1
    BY <1>0, <2>1 DEF Import, FilesType
  <2> QED  BY <2>1, <2>2 DEF Builds
<1>2. m \in Image /\ m \in Maybe
  BY <1>1, ImageFacts DEF Image, Maybe
<1> HIDE DEF m
<1>3. StoreType' /\ FilesType' /\ RestType' /\ JobsType' /\ Held'
  BY <1>0, <1>1, <1>2 DEF StoreType, FilesType, RestType, JobsType, Held
<1>4. \A u \in Versions : u # v => images'[u] = images[u] /\ disk'[u] = disk[u] /\ deps'[u] = deps[u]
  BY <1>0 DEF StoreType
<1>5. Fresh' /\ Whole' /\ Removal' /\ Wanted' /\ Spent' /\ Linked'
  BY <1>0, <1>1, <1>4, Meddled
<1> QED  BY <1>3, <1>5, TypeParts DEF IInv

LEMMA EditTemplateStep ==
  ASSUME IInv, EditTemplate
  PROVE  IInv'
<1>0. /\ StoreType /\ FilesType /\ RestType /\ JobsType /\ Held /\ Fresh /\ Whole /\ Wanted
      /\ Removal /\ Spent /\ Linked
      /\ UNCHANGED <<world, images, pin, disk, tags, deps, shared, container, tree, installed,
                     builds, builder, job, want, meddled, raced, given>>
      /\ lockfile' \in Locks /\ (Still => builder = NoBuild)
  BY Here DEF EditTemplate, store, files, boots, history, Still
<1>1. StoreType' /\ FilesType' /\ RestType' /\ JobsType' /\ Held'
  BY <1>0 DEF StoreType, FilesType, RestType, JobsType, Held
<1>2. Fresh' /\ Removal' /\ Wanted' /\ Spent'
  BY <1>0 DEF Fresh, Recorded, Has, Removal, Fine, Wanted, Spent, Stays
<1>3. Whole'
  BY <1>0 DEF Whole, Recorded, Has, OfBuild, Fine
<1>4. Linked'
  BY <1>0, NoBuildIs DEF Linked, Still, Matched, DepsMatch, Recorded, Has, Fine
<1> QED  BY <1>1, <1>2, <1>3, <1>4, TypeParts DEF IInv

LEMMA CrashStep ==
  ASSUME IInv, Crash
  PROVE  IInv'
<1>0. /\ StoreType /\ FilesType /\ RestType /\ JobsType /\ Held /\ Fresh /\ Whole /\ Wanted
      /\ Removal /\ Spent /\ Linked /\ builder.v \in Versions
      /\ UNCHANGED <<world, images, pin, disk, tags, deps, shared, container, tree, installed,
                     builds, lockfile, want, raced, given>>
      /\ builder' = NoBuild /\ job' = [c \in Clients |-> NoJob]
      /\ meddled' = IF builder.pc = "record" THEN meddled \cup {builder.v} ELSE meddled
  BY Here DEF Crash, store, files, boots
<1>1. StoreType' /\ FilesType' /\ RestType' /\ JobsType' /\ Held'
  BY <1>0, NoBuildIs, NoJobIs DEF StoreType, FilesType, RestType, JobsType, Held
<1>2. (Recorded \ meddled)' \subseteq Recorded \ meddled /\ meddled \subseteq meddled'
  BY <1>0 DEF Recorded, Has
<1>3. Fresh' /\ Removal'
  BY <1>0, <1>2, NoBuildIs DEF Fresh, Building, Removing, Removal
<1>4. Whole'
  <2>1. ASSUME NEW v \in (Recorded \ meddled)'
        PROVE  OfBuild(v, images[v])'
    <3>1. ~(builder.v = v /\ builder.pc = "record")
      BY <1>0, <2>1
    <3> QED  BY <1>0, <1>2, <2>1, <3>1 DEF Whole, OfBuild
  <2> QED  BY <1>0, <2>1, NoBuildIs DEF Whole, Building
<1>5. Wanted'
  BY <1>0, <1>2, WantedKept
<1>6. Spent'
  BY <1>0, <1>2, NoBuildIs, SpentKept DEF Stays, Has, Removing
<1>7. Linked'
  <2> SUFFICES ASSUME Still PROVE Matched'
    BY <1>0 DEF Linked, Still
  <2>1. Matched
    BY <1>0 DEF Linked
  <2>2. DepsMatch'
    BY <1>0, <1>2, <2>1 DEF Matched, DepsMatch
  <2> QED  BY <1>0, <2>1, <2>2, NoBuildIs DEF Matched, Building
<1> QED  BY <1>1, <1>3, <1>4, <1>5, <1>6, <1>7, TypeParts DEF IInv

---------------------------------------------------------------------------
\* The invariant.

LEMMA InitHolds == Init => IInv
<1> SUFFICES ASSUME Init PROVE IInv
  OBVIOUS
<1>1. /\ builder = NoBuild /\ builder \in Builder /\ builder.pc = "idle" /\ builder.v \in Versions
      /\ \A v \in Versions : builder.todo[v] = NoImage
      /\ \A v \in Versions : images[v] = NoImage
      /\ \A w \in Workloads : pin[w] = None
  BY NoBuildIs DEF Init
<1>2. (CHOOSE l \in Locks : TRUE) \in Locks /\ builds \in 0..MaxBuilds
  BY ConstantsAssumption DEF Init
<1>3. StoreType
  BY ImageFacts DEF Init, StoreType
<1>4. FilesType
  BY <1>2 DEF Init, FilesType
<1>5. RestType
  BY DEF Init, RestType
<1>6. JobsType /\ Held
  BY <1>1, NoJobIs DEF Init, JobsType, Held
<1>7. Recorded = {} /\ given = {} /\ \A l \in Locks : shared[l] = NoLock
  BY <1>1 DEF Recorded, Has, Init
<1>8. Fresh /\ Whole /\ Removal /\ Wanted /\ Spent
  BY <1>1, <1>7 DEF Fresh, Building, Removing, Whole, Removal, Wanted, Spent
<1>9. Linked
  BY <1>1, <1>7 DEF Linked, Matched, DepsMatch, Building
<1> QED  BY <1>3, <1>4, <1>5, <1>6, <1>8, <1>9, TypeParts DEF IInv

LEMMA StutterStep ==
  ASSUME IInv, UNCHANGED vars
  PROVE  IInv'
<1>0. /\ StoreType /\ FilesType /\ RestType /\ JobsType /\ Held
      /\ UNCHANGED <<world, images, pin, files, container, tree, lockfile, installed, builds,
                     builder, job, history>>
  BY Here DEF vars, store, boots
<1>1. StoreType' /\ FilesType' /\ RestType' /\ JobsType' /\ Held'
  BY <1>0 DEF StoreType, FilesType, RestType, files, history, JobsType, Held
<1>2. Fresh' /\ Whole' /\ Removal' /\ Wanted' /\ Spent' /\ Linked'
  BY <1>0, CoreKept
<1> QED  BY <1>1, <1>2, TypeParts DEF IInv

LEMMA NextKeeps == IInv /\ [Next]_vars => IInv'
<1> SUFFICES ASSUME IInv, [Next]_vars PROVE IInv'
  OBVIOUS
<1>1. CASE Build
  BY <1>1, BuildStartStep, FreezeStep, DockerBuildStep, ExtractDepsStep, PutImageStep, CollectStep,
     LookStep, RemoveTagStep, RemoveRecordStep, RemoveDirStep DEF Build
<1>2. CASE EditTemplate \/ Crash
  BY <1>2, EditTemplateStep, CrashStep
<1>3. ASSUME NEW c \in Clients,
             \/ \E v \in Versions : \/ CallDelete(c, v) \/ CallPush(c, v)
                                    \/ \E w \in Workloads : CallCreate(c, v, w) \/ CallSetImage(c, v, w)
             \/ Register(c) \/ Materialize(c) \/ PinImage(c)
             \/ DeleteDir(c) \/ DeleteRecord(c) \/ PutPushed(c)
      PROVE  IInv'
  BY <1>3, CallStep, RegisterStep, MaterializeStep, DeleteDirStep, DeleteRecordStep, PutPushedStep
<1>4. ASSUME NEW w \in Workloads, Boot(w) \/ DeleteWorkload(w) PROVE IInv'
  BY <1>4, BootStep, DeleteWorkloadStep
<1>5. ASSUME NEW v \in Versions, Import(v) PROVE IInv'
  BY <1>5, ImportStep
<1>6. CASE UNCHANGED vars
  BY <1>6, StutterStep
<1> QED  BY <1>1, <1>2, <1>3, <1>4, <1>5, <1>6 DEF Next

LEMMA Invariance == Spec => []IInv
<1> QED  BY InitHolds, NextKeeps, PTL DEF Spec

---------------------------------------------------------------------------
\* A version's record, tarball, tag and links have the types they are read with,
\* and a build, a collection and every client hold an image of this template.
THEOREM TypeCorrect == Spec => []TypeOK
<1>1. IInv => TypeOK
  BY DEF IInv
<1> QED  BY <1>1, Invariance, PTL

\* Whatever is built, collected, pinned, pushed and cut short: what a workload's
\* version names is still the build it was chosen for, the record, the tarball and
\* the tag alike, unless an operator interfered or it was chosen too late.
THEOREM Frozen == Spec => []FrozenStays
<1>1. IInv => FrozenStays
  <2> SUFFICES ASSUME IInv, NEW w \in Workloads,
                      pin[w] # None, pin[w] \notin meddled, w \notin raced
               PROVE  /\ images[pin[w]].build = want[w]
                      /\ images[pin[w]].tar => disk[pin[w]] = want[w]
                      /\ images[pin[w]].tar /\ images[pin[w]].docker => tags[pin[w]] = want[w]
    BY DEF FrozenStays
  <2>1. images[pin[w]].build = want[w] /\ want[w] \in Builds /\ pin[w] \in Versions
    BY Here DEF Wanted, Fine, StoreType
  <2>2. pin[w] \in Recorded \ meddled
    BY <2>1, ImageFacts DEF Recorded, Has
  <2>3. ~(builder.v = pin[w] /\ builder.pc = "record")
    BY Here DEF Removal, Removing
  <2>4. OfBuild(pin[w], images[pin[w]])
    BY <2>2, <2>3, Here DEF Whole
  <2> QED  BY <2>1, <2>4 DEF OfBuild
<1> QED  BY <1>1, Invariance, PTL

\* As long as nobody edits the template while a build reads it, a version's
\* dependencies are those its own container image installed.
THEOREM Deps == Spec => [](Still => DepsMatch)
<1>1. IInv => (Still => DepsMatch)
  BY DEF IInv, Linked, Matched
<1> QED  BY <1>1, Invariance, PTL

\* A build is recorded under a number nobody has, and none that was another's,
\* unless an operator deleted or replaced that version or a newer one.
THEOREM Numbers == Spec => NumbersAreSpent
<1> DEFINE Put == \A v \in Versions :
         builder.pc = "put" /\ builder.v = v /\ builder'.pc = "collect"
         => /\ v \in given => \E u \in meddled : u >= v
            /\ v \notin meddled =>
                  ~Has(v) /\ \A w \in Workloads : pin[w] = v => w \in raced
<1>1. IInv => Put
  <2> SUFFICES ASSUME IInv, NEW v \in Versions, builder.pc = "put", builder.v = v
               PROVE  /\ v \in given => \E u \in meddled : u >= v
                      /\ v \notin meddled =>
                            ~Has(v) /\ \A w \in Workloads : pin[w] = v => w \in raced
    OBVIOUS
  <2>1. ASSUME v \in given PROVE \E u \in meddled : u >= v
    <3>1. PICK u \in Versions : u >= v /\ (u \in meddled \/ Stays(u))
      BY <2>1, Here DEF Spent
    <3>2. CASE u \notin meddled
      <4>1. u \in Recorded \ meddled /\ u \in Int /\ v \in Int
        BY <3>1, <3>2 DEF Stays, Recorded, Versions
      <4>2. u < v
        BY <4>1, Here DEF Fresh, Building
      <4> QED  BY <3>1, <4>1, <4>2
    <3> QED  BY <3>1, <3>2
  <2> QED  BY <2>1, BuiltIsNew DEF Building, Fine
<1>2. IInv => [Put]_vars
  BY <1>1
<1> HIDE DEF Put
<1>3. Spec => [][Put]_vars
  BY <1>2, Invariance, PTL DEF Spec
<1> QED  BY <1>3 DEF NumbersAreSpent, Put
=============================================================================
