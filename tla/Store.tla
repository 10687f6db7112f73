-------------------------------- MODULE Store --------------------------------
(***************************************************************************)
(* The store of projects, workloads and routes (internal/store) and the    *)
(* manager's calls that change it.  memStore keeps everything in maps      *)
(* under one RWMutex; every mutation changes the maps and then saves all   *)
(* of them through a persister, a file or one row of a database, before it *)
(* lets go of the lock.  A manager call is a sequence of such store calls, *)
(* with nothing held in between.                                           *)
(*                                                                         *)
(* Records are reduced to whether they are there, and a project's to its   *)
(* LRU clock (LastActiveAt).  Ids are fresh (newRef), so the project and   *)
(* the default host of each are fixed by constants.  Nothing keeps the     *)
(* default hosts of two workloads apart (two of one name in a project      *)
(* share it), nor a route that is added from being some default host.      *)
(***************************************************************************)
EXTENDS Naturals, Sequences

CONSTANTS
    Projects, Workloads, Hosts,
    ProjectOf,    \* the project a workload is registered in
    DefaultHost,  \* its default route, under orchd's own domain
    Clients,      \* goroutines of the API and of activity notes
    None,
    Kinds,        \* persisters considered: "file", "database"
    Worlds,       \* what a behaviour may have: sets of calls
    Faults,       \* failures considered: "fail", "crash"
    MaxClock      \* bound on the times of activity notes

ASSUME StoreAssumption ==
    /\ ProjectOf \in [Workloads -> Projects]
    /\ DefaultHost \in [Workloads -> Hosts]
    /\ Kinds \subseteq {"file", "database"} /\ Kinds # {}
    /\ MaxClock \in Nat
    /\ None \notin Workloads /\ None \notin Clients /\ None \notin Nat

VARIABLES
    mem,     \* memStore's maps
    writer,  \* who has memStore.mu for writing
    stage,   \* how far that mutation is: "none", "changed", "written"
             \* (to the temporary file), "landed" or "failed"
    disk,    \* the contents Load would read
    kind,    \* the persister orchd was configured with
    ops,     \* the calls this behaviour has
    todo,    \* each client's store calls still to make
    got,     \* the project record it read (its clock)
    now,     \* the latest time an activity note was taken at
    shown,   \* history: mem when mu was last free
    answer,  \* history: what the last mutation returned
    minted,  \* history: project ids given out
    fate,    \* history: each workload is "unborn", being registered ("coming"),
             \* registered and answered ("made"), or something of it was asked to
             \* be deleted ("doomed"), while a call was past its check ("raced")
    taken    \* history: workloads whose default route was put to another one

db      == <<mem, writer, stage, disk, kind, ops>>
history == <<shown, answer, minted, fate, taken>>
vars    == <<db, todo, got, now, history>>

Clock == 0..MaxClock

Contents == [project  : [Projects -> Clock \cup {None}],
             workload : SUBSET Workloads,
             route    : [Hosts -> Workloads \cup {None}]]

Blank == [project  |-> [p \in Projects |-> None],
          workload |-> {},
          route    |-> [h \in Hosts |-> None]]

---------------------------------------------------------------------------
\* Store calls.

PutProject(p, t)     == [do |-> "PutProject", p |-> p, t |-> t]
WriteBack(p)         == [do |-> "WriteBack", p |-> p]    \* PutProject of what was read
EraseProject(p)      == [do |-> "DeleteProject", p |-> p]
PutWorkload(w)       == [do |-> "PutWorkload", w |-> w]
SetWorkloadState(w)  == [do |-> "SetWorkloadState", w |-> w]
EraseWorkload(w)     == [do |-> "DeleteWorkload", w |-> w]
PutRoute(h, w)       == [do |-> "PutRoute", h |-> h, w |-> w]
EraseRoute(h)        == [do |-> "DeleteRoute", h |-> h]

GetProject(p)        == [do |-> "GetProject", p |-> p]
GetOlder(p, t)       == [do |-> "GetOlder", p |-> p, t |-> t]  \* and t is after its clock
GetWorkload(w)       == [do |-> "GetWorkload", w |-> w]
GetRoute(h)          == [do |-> "GetRoute", h |-> h]
GetHostFree(h, w)    == [do |-> "GetHostFree", h |-> h, w |-> w] \* and no other workload has it

Mutations ==
    {PutProject(p, t) : p \in Projects, t \in Clock}
        \cup {EraseProject(p) : p \in Projects}
        \cup {PutWorkload(w) : w \in Workloads}
        \cup {SetWorkloadState(w) : w \in Workloads}
        \cup {EraseWorkload(w) : w \in Workloads}
        \cup {PutRoute(h, w) : h \in Hosts, w \in Workloads}
        \cup {EraseRoute(h) : h \in Hosts}

Reads == {"GetProject", "GetOlder", "GetWorkload", "GetRoute", "GetHostFree"}

\* Mutant: GetProject does not say that the project is gone.
FindsAnyProject(k, s) ==
    /\ k.do \in {"GetOlder", "DeleteProject"} => s.project[k.p] # None
    /\ k.do = "GetOlder" => k.t > s.project[k.p]
    /\ k.do \in {"GetWorkload", "SetWorkloadState", "DeleteWorkload"} => k.w \in s.workload
    /\ k.do \in {"GetRoute", "DeleteRoute"} => s.route[k.h] # None
    /\ k.do = "GetHostFree" => s.route[k.h] \in {None, k.w}

\* What the call needs to find; anything else is ErrNotFound, an error of the
\* manager's, or nothing to do.
Finds(k, s) ==
    /\ k.do \in {"GetProject", "GetOlder", "DeleteProject"} => s.project[k.p] # None
    /\ k.do = "GetOlder" => k.t > s.project[k.p]
    /\ k.do \in {"GetWorkload", "SetWorkloadState", "DeleteWorkload"} => k.w \in s.workload
    /\ k.do \in {"GetRoute", "DeleteRoute"} => s.route[k.h] # None
    /\ k.do = "GetHostFree" => s.route[k.h] \in {None, k.w}

\* The workloads a mutation deletes, where they are there: its own, or its
\* project's.
Targets(k) == {w \in Workloads : k \in {EraseWorkload(w), EraseProject(ProjectOf[w])}}

\* What a mutation makes of the maps.
ProjectsAfter(k, s) ==
    [p \in Projects |-> IF \E t \in Clock : k = PutProject(p, t) THEN k.t
                        ELSE IF k = EraseProject(p) THEN None
                        ELSE s.project[p]]

WorkloadsAfter(k, s) == {w \in Workloads : k = PutWorkload(w)} \cup (s.workload \ Targets(k))

\* Mutant: a deleted workload's routes stay.
RoutesKept(k, s) ==
    [h \in Hosts |-> IF \E w \in Workloads : k = PutRoute(h, w) THEN k.w
                     ELSE IF k = EraseRoute(h) THEN None
                     ELSE s.route[h]]

\* With deleteRoutesForWorkloadLocked, for each workload deleted.
RoutesAfter(k, s) ==
    [h \in Hosts |-> IF \E w \in Workloads : k = PutRoute(h, w) THEN k.w
                     ELSE IF k = EraseRoute(h) \/ s.route[h] \in s.workload \cap Targets(k) THEN None
                     ELSE s.route[h]]

\* The workloads whose default route a mutation puts to another one.
Displaced(k, s) ==
    {w \in Workloads : s.route[DefaultHost[w]] = w
                      /\ \E v \in Workloads \ {w} : k = PutRoute(DefaultHost[w], v)}

Apply(k, s) == [project |-> ProjectsAfter(k, s), workload |-> WorkloadsAfter(k, s), route |-> RoutesAfter(k, s)]

Changes == {x \in Contents \X Contents : \E k \in Mutations : x[2] = Apply(k, x[1])}

---------------------------------------------------------------------------
\* Manager calls, as the store calls they make in order; each is left at the
\* first that fails.

Register(p, w) == <<GetProject(p), PutWorkload(w), PutRoute(DefaultHost[w], w), GetWorkload(w)>>

CreateProject(p, w) == <<PutProject(p, 0)>> \o Register(p, w)

DeleteProject(p)    == <<GetProject(p), EraseProject(p)>>
DeleteWorkload(w)   == <<GetWorkload(w), EraseWorkload(w)>>
AddRoute(h, w)      == <<GetWorkload(w), GetHostFree(h, w), PutRoute(h, w)>>
RemoveRoute(h)      == <<GetRoute(h), EraseRoute(h)>>

\* SetProjectEnv; and SetKeepWarm, SetWorkloadEnv, SetWorkloadImage, EnsureKeys.
EditProject(p)      == <<GetProject(p), WriteBack(p)>>
EditWorkload(w)     == <<GetWorkload(w), PutWorkload(w)>>

SetProjectLastActive(p, t) == <<GetOlder(p, t), PutProject(p, t)>>

---------------------------------------------------------------------------
Idle(c) == todo[c] = <<>>

Step(c) == Head(todo[c])

\* What client c is about to write.
Mutation(c) == IF Step(c).do = "WriteBack" THEN PutProject(Step(c).p, got[c]) ELSE Step(c)

Pending(c) == {todo[c][i] : i \in DOMAIN todo[c]}

\* c is past the check of a call that puts w, or a route to it.
Past(c, w) ==
    /\ ~Idle(c)
    /\ Step(c).do \in {"PutWorkload", "PutRoute", "GetHostFree"} /\ Step(c).w = w

\* The calls that take w, or its default route, away.
Threats(w) == {EraseProject(ProjectOf[w]), EraseWorkload(w), EraseRoute(DefaultHost[w])}

Threatened(w) == \E c \in Clients : Pending(c) \cap Threats(w) # {}

Init ==
    /\ mem = Blank /\ disk = Blank /\ shown = Blank
    /\ writer = None /\ stage = "none" /\ kind \in Kinds /\ ops \in Worlds
    /\ todo = [c \in Clients |-> <<>>]
    /\ got = [c \in Clients |-> 0]
    /\ now = 0
    /\ answer = "none"
    /\ minted = {}
    /\ fate = [w \in Workloads |-> "unborn"] /\ taken = {}

\* A goroutine begins a call.
Call(c, name, calls) ==
    /\ name \in ops
    /\ Idle(c)
    /\ todo' = [todo EXCEPT ![c] = calls]
    /\ UNCHANGED <<db, got, shown, answer, taken>>

\* Its workload is given an id.
Bear(w) ==
    /\ fate[w] = "unborn"
    /\ fate' = [fate EXCEPT ![w] = IF Threatened(w) THEN "doomed" ELSE "coming"]

Create(c, p, w) ==
    /\ p \notin minted /\ ProjectOf[w] = p
    /\ minted' = minted \cup {p}
    /\ Bear(w)
    /\ Call(c, "create", CreateProject(p, w))
    /\ UNCHANGED now

AddWorkload(c, p, w) ==
    /\ p \in minted /\ ProjectOf[w] = p
    /\ Bear(w)
    /\ Call(c, "add", Register(p, w))
    /\ UNCHANGED <<now, minted>>

Delete(c) ==
    /\ \/ \E p \in Projects : Call(c, "deleteProject", DeleteProject(p))
       \/ \E w \in Workloads : fate[w] # "unborn" /\ Call(c, "deleteWorkload", DeleteWorkload(w))
       \/ \E h \in Hosts : Call(c, "removeRoute", RemoveRoute(h))
    /\ fate' = [w \in Workloads |-> IF fate[w] \in {"coming", "made"} /\ Threatened(w)'
                                    THEN "doomed" ELSE fate[w]]
    /\ UNCHANGED <<now, minted>>

Edit(c) ==
    /\ \/ \E p \in Projects : Call(c, "editProject", EditProject(p))
       \/ \E w \in Workloads : Call(c, "editWorkload", EditWorkload(w))
       \/ \E w \in Workloads : Call(c, "setState", <<SetWorkloadState(w)>>)
       \/ \E h \in Hosts, w \in Workloads : Call(c, "addRoute", AddRoute(h, w))
    /\ UNCHANGED <<now, minted, fate>>

\* noteProjectActivity reads the clock and starts the goroutine that writes.
NoteActivity(c, p) ==
    /\ now < MaxClock
    /\ now' = now + 1
    /\ Call(c, "note", SetProjectLastActive(p, now + 1))
    /\ UNCHANGED <<minted, fate>>

\* A read under mu, shared: nobody is writing.
Read(c) ==
    /\ ~Idle(c) /\ writer = None
    /\ Step(c).do \in Reads /\ Finds(Step(c), mem)
    /\ todo' = [todo EXCEPT ![c] = Tail(@)]
    /\ got' = IF Step(c).do = "GetProject" THEN [got EXCEPT ![c] = mem.project[Step(c).p]] ELSE got
    /\ fate' = [w \in Workloads |->
                   IF todo[c] = <<GetWorkload(w)>> /\ fate[w] = "coming" THEN "made" ELSE fate[w]]
    /\ UNCHANGED <<db, now, shown, answer, minted, taken>>

\* The call is over, at its end or at the first thing that failed.
Over(c, rest) ==
    /\ todo' = [todo EXCEPT ![c] = rest]
    /\ got' = [got EXCEPT ![c] = 0]

\* A call that does not find what it needs returns, and so does its caller.
NotFound(c) ==
    /\ ~Idle(c) /\ writer = None
    /\ ~Finds(Step(c), mem)
    /\ Over(c, <<>>)
    /\ UNCHANGED <<db, now, history>>

\* registerWorkload knows no such preset, or cannot make an id or a secret.
Refuse(c) ==
    /\ writer # c
    /\ \E w \in Workloads :
          /\ todo[c] = Tail(Register(ProjectOf[w], w))
          /\ fate' = [fate EXCEPT ![w] = IF @ = "raced" THEN "raced" ELSE "unborn"]
    /\ Over(c, <<>>)
    /\ UNCHANGED <<db, now, shown, answer, minted, taken>>

\* A mutation takes mu and changes the maps; it saves them next.
Change(c) ==
    /\ ~Idle(c) /\ writer = None
    /\ Step(c).do \notin Reads /\ Finds(Step(c), mem)
    /\ writer' = c /\ stage' = "changed"
    /\ mem' = Apply(Mutation(c), mem)
    /\ fate' = [w \in Workloads |->
                   IF w \in Targets(Step(c)) /\ \E d \in Clients \ {c} : Past(d, w)
                   THEN "raced" ELSE fate[w]]
    /\ taken' = taken \cup Displaced(Step(c), mem)
    /\ UNCHANGED <<disk, kind, ops, todo, got, now, shown, answer, minted>>

Stage(c, from, to) == writer = c /\ stage = from /\ stage' = to

SaveUnchanged == UNCHANGED <<mem, writer, kind, ops, todo, got, now, history>>

\* Mutant: the file is written in place, which empties it first.
WriteInPlace(c) ==
    /\ kind = "file"
    /\ Stage(c, "changed", "written")
    /\ disk' = Blank
    /\ SaveUnchanged

\* os.WriteFile of the temporary file, beside the one Load reads ...
WriteFile(c) ==
    /\ kind = "file"
    /\ Stage(c, "changed", "written")
    /\ UNCHANGED disk
    /\ SaveUnchanged

\* ... and os.Rename over that.
Rename(c) ==
    /\ Stage(c, "written", "landed")
    /\ disk' = mem
    /\ SaveUnchanged

\* The one row of a database is replaced in one statement.
Upsert(c) ==
    /\ kind = "database"
    /\ Stage(c, "changed", "landed")
    /\ disk' = mem
    /\ SaveUnchanged

\* Any of these can fail, the statement also after it was carried out.
SaveFails(c) ==
    /\ "fail" \in Faults
    /\ \/ \E s \in {"changed", "written"} : Stage(c, s, "failed")
       \/ kind = "database" /\ Stage(c, "landed", "failed")
    /\ UNCHANGED disk
    /\ SaveUnchanged

\* Mutant: the caller goes on as if the mutation had been saved.
ReturnRegardless(c) ==
    /\ writer = c /\ stage \in {"landed", "failed"}
    /\ writer' = None /\ stage' = "none"
    /\ shown' = mem
    /\ answer' = IF stage = "landed" THEN "ok" ELSE "error"
    /\ Over(c, Tail(todo[c]))
    /\ UNCHANGED <<mem, disk, kind, ops, now, minted, fate, taken>>

\* The mutation lets go of mu and returns; on an error so does its caller.  The
\* maps stay as they are.
Return(c) ==
    /\ writer = c /\ stage \in {"landed", "failed"}
    /\ writer' = None /\ stage' = "none"
    /\ shown' = mem
    /\ answer' = IF stage = "landed" THEN "ok" ELSE "error"
    /\ Over(c, IF stage = "landed" THEN Tail(todo[c]) ELSE <<>>)
    /\ UNCHANGED <<mem, disk, kind, ops, now, minted, fate, taken>>

\* orchd is killed and started again: openWith reads what was saved.
Crash ==
    /\ "crash" \in Faults
    /\ mem' = disk /\ shown' = disk
    /\ writer' = None /\ stage' = "none"
    /\ todo' = [c \in Clients |-> <<>>]
    /\ got' = [c \in Clients |-> 0]
    /\ answer' = "none"
    /\ UNCHANGED <<disk, kind, ops, now, minted, fate, taken>>

Work(c) ==
    \/ Read(c) \/ NotFound(c) \/ Change(c)
    \/ WriteFile(c) \/ Rename(c) \/ Upsert(c) \/ Return(c)

Begin(c) ==
    \/ \E p \in Projects, w \in Workloads : Create(c, p, w) \/ AddWorkload(c, p, w)
    \/ Delete(c)
    \/ Edit(c)
    \/ \E p \in Projects : NoteActivity(c, p)

Next ==
    \/ \E c \in Clients : Begin(c) \/ Work(c) \/ Refuse(c) \/ SaveFails(c)
    \/ Crash

Spec == Init /\ [][Next]_vars

---------------------------------------------------------------------------
\* Properties.

DbOK ==
    /\ mem \in Contents /\ disk \in Contents /\ shown \in Contents
    /\ writer \in Clients \cup {None}
    /\ stage \in {"none", "changed", "written", "landed", "failed"}
    /\ kind \in Kinds /\ ops \in Worlds

Calls == Mutations \cup {WriteBack(p) : p \in Projects}
    \cup {GetProject(p) : p \in Projects}
    \cup {GetOlder(p, t) : p \in Projects, t \in Clock}
    \cup {GetWorkload(w) : w \in Workloads}
    \cup {GetRoute(h) : h \in Hosts}
    \cup {GetHostFree(h, w) : h \in Hosts, w \in Workloads}

CallsOK ==
    /\ todo \in [Clients -> Seq(Calls)]
    /\ got \in [Clients -> Clock]
    /\ now \in Clock

HistoryOK ==
    /\ answer \in {"none", "ok", "error"}
    /\ minted \subseteq Projects
    /\ fate \in [Workloads -> {"unborn", "coming", "made", "doomed", "raced"}]
    /\ taken \subseteq Workloads

\* Every variable has its type: the store holds whole contents, also on disk.
TypeOK == DbOK /\ CallsOK /\ HistoryOK

\* The store is what Records promises: readers see whole mutations, a mutation
\* that was answered without an error survives a restart, and a restart reads
\* what some mutation saved, never a mixture and never part of a file.
Promised == INSTANCE Records WITH seen <- shown, kept <- disk

ImplementsRecords == Promised!Spec

\* Project, workload and default route are all there; the route may be another
\* workload's that was given the same host.
Complete(w, s) ==
    /\ s.project[ProjectOf[w]] # None
    /\ w \in s.workload
    /\ s.route[DefaultHost[w]] = w \/ w \in taken

\* A workload whose registration was answered, and that nobody asked to delete
\* anything of, is there with its project for every reader and after any restart,
\* whatever other calls fail or write back beside it; and with its default route,
\* which only a workload registered under the same host, or a route added to that
\* host while it was registered, can have taken from it.
CreatedStays == \A w \in Workloads : fate[w] = "made" => Complete(w, shown) /\ Complete(w, disk)

\* Every route has its workload and every workload its project, in what readers
\* see and in what a restart reads, unless the workload was deleted while a call
\* that puts it, or a route to it, was past its check.
Orphan(w, s) ==
    \/ w \notin s.workload /\ \E h \in Hosts : s.route[h] = w
    \/ w \in s.workload /\ s.project[ProjectOf[w]] = None

OrphansAreRaced == \A w \in Workloads : Orphan(w, shown) \/ Orphan(w, disk) => fate[w] = "raced"
=============================================================================
